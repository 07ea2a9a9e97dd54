------------------------ MODULE JobDependenciesProofs ------------------------
(***************************************************************************)
(* What holds of waiting jobs and of the DAG for any number of jobs,       *)
(* whatever depends on what.                                               *)
(*                                                                         *)
(* The argument.  A transaction that takes a DAG member across the         *)
(* boundary of the terminal states holds its row (Writes), and of those    *)
(* only the one whose trigger has counted holds the DAG (Stamped), so what *)
(* it counted is still so when it commits, and `completed' is true.  A row *)
(* with a dependency becomes queued only out of waiting, by a statement    *)
(* that sees the dependency satisfied (Moves), and is parked again by      *)
(* whatever takes it back to work (Met).  The rows the sweeps have locked  *)
(* stay what their probes saw (Swept), a dependent that was not live then  *)
(* is late, and a wake about to be sent keeps its sender's row (Sent).     *)
(***************************************************************************)
EXTENDS JobDependencies, TLAPS

Writes ==
    \A j \in Job : writing[j] # None =>
        /\ j \in Dag /\ Exists(j) /\ j # retiring /\ j # probed.row
        /\ state[j] \in TERMINAL_STATES <=> writing[j] \notin TERMINAL_STATES
        /\ writing[j] \notin TERMINAL_STATES => writing[j] = Initially(j)
        /\ writing[j] \in {"finished", "crashed"} => state[j] = "claimed"

AllTerminal(j) ==
    /\ writing[j] \in TERMINAL_STATES
    /\ \A i \in Dag : i # j => state[i] \in TERMINAL_STATES

Stamped ==
    \A j \in Job : stamp[j] # None =>
        /\ writing[j] # None
        /\ \A i \in Job : stamp[i] # None => i = j
        /\ stamp[j] = TRUE <=> AllTerminal(j)

\* The members of the DAG are inserted together.
Whole == \A i, j \in Dag : state[i] = HISTORY_ORIGIN => state[j] = HISTORY_ORIGIN

Swept ==
    /\ probed = Nobody \/ probed.row # None
    /\ retiring # None => Exists(retiring) /\ state[retiring] \in TERMINAL_STATES

Sent ==
    \A e \in wakes :
        /\ Exists(e[1]) /\ e[1] # retiring
        /\ e[2] = "group" => run_group[e[1]] # None

Inv == TypeOK /\ Writes /\ Stamped /\ Whole /\ Swept /\ Sent /\ DagCompletedTruthful

------------------------------------------------------------------------------
(* How a row moves.                                                        *)

Moved(j) ==
    \/ state'[j] = state[j]
    \/ state[j] \in TERMINAL_STATES \union {HISTORY_ORIGIN} /\ state'[j] = Initially(j)
    \/ /\ state[j] = "waiting" /\ state'[j] = "queued"
       /\ Satisfied(j) /\ UNCHANGED gone
       /\ \A i \in Job : state[i] # "waiting" => state'[i] = state[i]
    \/ state[j] = "queued" /\ state'[j] = "claimed"
    \/ state[j] = "claimed" /\ state'[j] \in {"queued", "finished", "crashed"}
    \/ state[j] \in LIVE_STATES /\ state'[j] = "cancelled"

USE DEF JOB_STATES, LIVE_STATES, PRE_CLAIM_STATES, IN_FLIGHT_STATES, TERMINAL_STATES,
        HISTORY_ORIGIN

\* An update writes its row at once, or leaves it to the transaction.
LEMMA Written ==
    ASSUME TypeOK, NEW j \in Job, NEW to \in JOB_STATES, Write(j, to)
    PROVE  /\ gone' = gone /\ completed' = completed /\ stamp' = stamp
           /\ \A i \in Job : i # j => state'[i] = state[i] /\ writing'[i] = writing[i]
           /\ \/ /\ Crosses(j, to) /\ writing'[j] = to /\ state' = state
                 /\ wakes' = wakes /\ writing' \in [Job -> JOB_STATES \union {None}]
              \/ /\ ~Crosses(j, to) /\ state'[j] = to /\ writing' = writing
                 /\ state' \in [Job -> JOB_STATES \union {HISTORY_ORIGIN}]
                 /\ wakes' = IF to = "finished" THEN wakes \union {<<j, "job">>} ELSE wakes
BY DEF TypeOK, Write, Reach, rows, dag

LEMMA SweepWrites ==
    ASSUME TypeOK, Swept, SweepWaiter
    PROVE  LET j == probed.row
           IN  /\ j \in Job /\ state[j] = "waiting" /\ Exists(j)
               /\ probed' = Nobody /\ retiring' = retiring
               /\ \/ Satisfied(j) /\ Write(j, "queued")
                  \/ Missing(j) /\ Write(j, "cancelled")
                  \/ UNCHANGED <<rows, dag, wakes>>
<1>1. probed.row \in Job
  BY DEF TypeOK, Swept, SweepWaiter
<1>2. probed.row # None => Is(probed.row, "waiting")
  BY DEF TypeOK
<1> QED
  BY <1>1, <1>2, DependenciesAssumption DEF SweepWaiter, Is

LEMMA MovesOfARow ==
    ASSUME TypeOK, NEW j \in Job, NEW from, NEW to \in JOB_STATES, Move(j, from, to),
           \/ from = {"queued"} /\ to = "claimed"
           \/ from = {"claimed"} /\ to \in {"finished", "crashed", "queued"}
           \/ from = LIVE_STATES /\ to = "cancelled"
           \/ from = TERMINAL_STATES /\ to = Initially(j)
    PROVE  \A i \in Job : Moved(i)
<1>1. Write(j, to) /\ state[j] \in from
  BY DEF Move
<1> QED
  BY <1>1, Written DEF Moved

LEMMA EveryMove ==
    ASSUME Inv, Step
    PROVE  \A i \in Job : Moved(i)
<1> USE DEF Inv
<1>1. ASSUME NEW B \in Batches, EnqueueBatch(B) PROVE \A i \in Job : Moved(i)
  BY <1>1 DEF EnqueueBatch, Moved, TypeOK
<1>2. ASSUME NEW j \in Job, Claim(j) \/ Finish(j) \/ Crash(j) \/ RetryAttempt(j)
                            \/ Cancel(j) \/ Requeue(j)
      PROVE  \A i \in Job : Moved(i)
  <2>1. Initially(j) \in JOB_STATES
    BY DEF Initially
  <2> QED
    BY <1>2, <2>1, MovesOfARow DEF Claim, Finish, Crash, RetryAttempt, Cancel, Requeue
<1>3. ASSUME NEW u \in Job, WakeDependents(u) PROVE \A i \in Job : Moved(i)
  <2>1. gone' = gone
    BY <1>3 DEF WakeDependents
  <2>2. CASE /\ <<u, "job">> \in wakes
             /\ Release({j \in Job : waitfor_job[j] = u /\ Is(u, "finished")})
    BY <2>1, <2>2, DependenciesAssumption DEF Release, Moved, Satisfied, Is, TypeOK
  <2>3. CASE /\ <<u, "group">> \in wakes
             /\ Release({j \in Job : waitfor_group[j] = run_group[u]
                           /\ \A i \in Members(run_group[u]) : state[i] = "finished"})
    <3>1. u \in Members(run_group[u]) /\ run_group[u] # None
      BY <2>3 DEF Sent, Members
    <3>2. ASSUME NEW j \in Job, waitfor_group[j] = run_group[u],
                 \A i \in Members(run_group[u]) : state[i] = "finished",
                 Is(j, "waiting")
          PROVE  Satisfied(j)
      BY <3>1, <3>2 DEF Satisfied, GroupDone
    <3> SUFFICES ASSUME NEW i \in Job, state'[i] # state[i] PROVE Moved(i)
      BY DEF Moved
    <3>3. /\ state'[i] = "queued" /\ Is(i, "waiting") /\ waitfor_group[i] = run_group[u]
          /\ \A k \in Members(run_group[u]) : state[k] = "finished"
      BY <2>3 DEF Release
    <3>4. \A k \in Job : state[k] # "waiting" => state'[k] = state[k]
      BY <2>3 DEF Release, Is
    <3>5. Satisfied(i) /\ state[i] = "waiting"
      BY <3>2, <3>3 DEF Is
    <3> QED
      BY <2>1, <3>3, <3>4, <3>5 DEF Moved
  <2> QED
    BY <1>3, <2>2, <2>3 DEF WakeDependents
<1>4. ASSUME NEW j \in Job, CommitMember(j) PROVE \A i \in Job : Moved(i)
  <2>1. /\ writing[j] # None /\ writing[j] \in JOB_STATES
        /\ state' = [state EXCEPT ![j] = writing[j]]
        /\ state[j] \in JOB_STATES \union {HISTORY_ORIGIN}
    BY <1>4, DependenciesAssumption DEF CommitMember, Reach, Stamped, TypeOK
  <2>2. /\ state[j] # HISTORY_ORIGIN
        /\ state[j] \in TERMINAL_STATES <=> writing[j] \notin TERMINAL_STATES
        /\ writing[j] \notin TERMINAL_STATES => writing[j] = Initially(j)
        /\ writing[j] \in {"finished", "crashed"} => state[j] = "claimed"
    BY <2>1 DEF Writes, Exists
  <2>3. \A i \in Job : i # j => state'[i] = state[i]
    BY <2>1 DEF TypeOK
  <2>4. state'[j] = writing[j]
    BY <2>1 DEF TypeOK
  <2>5. Moved(j)
    BY <2>1, <2>2, <2>4 DEF Moved
  <2> QED
    BY <2>3, <2>5 DEF Moved
<1>5. ASSUME SweepWaiter PROVE \A i \in Job : Moved(i)
  <2>1. CASE UNCHANGED rows
    BY <2>1 DEF rows, Moved
  <2> QED
    BY <1>5, <2>1, SweepWrites, Written DEF Moved, rows
<1>6. ASSUME UNCHANGED state PROVE \A i \in Job : Moved(i)
  BY <1>6 DEF Moved
<1> QED
  BY <1>1, <1>2, <1>3, <1>4, <1>5, <1>6
  DEF Step, Worker, Transaction, Trigger, Rollback, LoseWake, Monitor, ProbeWaiter,
      ProbeExpired, DeleteExpired, rows

------------------------------------------------------------------------------
(* The invariant.                                                          *)

LEMMA HistoryTypes == UpdateHistory => met' \in [Job -> BOOLEAN] /\ late' \subseteq Job
BY DEF UpdateHistory

\* An update of a row nobody has locked.
LEMMA WriteKeeps ==
    ASSUME Inv, UpdateHistory, NEW j \in Job, NEW to \in JOB_STATES, Write(j, to),
           Exists(j), writing[j] = None, retiring # j, UNCHANGED retiring,
           \/ probed' = probed /\ probed.row # j
           \/ probed' = Nobody,
           to \in {"finished", "crashed"} => state[j] = "claimed",
           state[j] \in TERMINAL_STATES => to = Initially(j)
    PROVE  Inv'
<1> USE DEF Inv
<1>1. /\ gone' = gone /\ completed' = completed /\ stamp' = stamp /\ retiring' = retiring
      /\ \A i \in Job : i # j => state'[i] = state[i] /\ writing'[i] = writing[i]
      /\ state' \in [Job -> JOB_STATES \union {HISTORY_ORIGIN}]
      /\ writing' \in [Job -> JOB_STATES \union {None}]
  BY Written DEF TypeOK
<1>2. /\ state[j] \in JOB_STATES /\ j \notin gone /\ stamp[j] = None
  BY DEF Exists, TypeOK, Stamped
<1>3. /\ \/ Crosses(j, to) /\ writing'[j] = to /\ state'[j] = state[j]
         \/ ~Crosses(j, to) /\ state'[j] = to /\ writing'[j] = None
      /\ \/ wakes' = wakes
         \/ wakes' = wakes \union {<<j, "job">>} /\ state'[j] = "finished"
  BY Written
<1>4. /\ \A i \in Job : state'[i] = HISTORY_ORIGIN <=> state[i] = HISTORY_ORIGIN
      /\ \A i \in Job : Exists(i)' <=> Exists(i)
      /\ \A i \in Dag : state'[i] \in TERMINAL_STATES <=> state[i] \in TERMINAL_STATES
  BY <1>1, <1>2, <1>3, DependenciesAssumption DEF Exists, Crosses
<1>5. TypeOK'
  <2>1. gone' \subseteq {i \in Job : state'[i] \in TERMINAL_STATES}
    BY <1>1, <1>2 DEF TypeOK
  <2>2. \A i \in Job : stamp'[i] # None => writing'[i] # None
    BY <1>1, <1>2 DEF TypeOK
  <2>3. wakes' \subseteq Job \X {"job", "group"}
    BY <1>3 DEF TypeOK
  <2>4. /\ probed' \in [row : Job \union {None}, why : {"satisfied", "missing", None}]
        /\ probed'.row # None => Is(probed.row, "waiting")'
    BY <1>1 DEF TypeOK, Nobody, Is, Exists
  <2> QED
    BY <1>1, <2>1, <2>2, <2>3, <2>4, HistoryTypes DEF TypeOK
<1>6. Writes'
  <2>1. ASSUME writing'[j] # None
        PROVE  /\ j \in Dag /\ j # probed'.row /\ writing'[j] = to
               /\ state'[j] \in TERMINAL_STATES <=> writing'[j] \notin TERMINAL_STATES
    BY <1>3, <2>1, DependenciesAssumption DEF Crosses, Nobody
  <2>2. \A i \in Job : i # probed.row => i # probed'.row
    BY DependenciesAssumption DEF Nobody
  <2>3. Initially(j)' = Initially(j) /\ \A i \in Job : Initially(i)' = Initially(i)
    BY DEF Initially, HasDependency
  <2>4. ASSUME writing'[j] # None
        PROVE  /\ writing'[j] \notin TERMINAL_STATES => writing'[j] = Initially(j)
               /\ writing'[j] \in {"finished", "crashed"} => state'[j] = "claimed"
    BY <1>3, <2>1, <2>4
  <2> QED
    BY <1>1, <1>4, <2>1, <2>2, <2>3, <2>4 DEF Writes
<1>7. Stamped'
  <2>1. \A i \in Job : i # j => (AllTerminal(i)' <=> AllTerminal(i))
    BY <1>1, <1>4 DEF AllTerminal
  <2> QED
    BY <1>1, <1>2, <2>1 DEF Stamped
<1>8. Whole' /\ Swept' /\ DagCompletedTruthful'
  <2>1. Whole' /\ DagCompletedTruthful'
    BY <1>1, <1>4, DependenciesAssumption DEF Whole, DagCompletedTruthful
  <2>2. retiring # None => retiring \in Job
    BY DEF TypeOK
  <2> QED
    BY <1>1, <1>4, <2>1, <2>2, DependenciesAssumption DEF Swept
<1>9. Sent'
  <2>1. \A e \in wakes' : e \in wakes \/ e = <<j, "job">>
    BY <1>3
  <2>2. \A e \in wakes : e[1] \in Job
    BY DEF TypeOK
  <2>3. \A e \in wakes' : state'[e[1]] # HISTORY_ORIGIN /\ e[1] \notin gone
    BY <1>2, <1>4, <2>1, <2>2 DEF Sent, Exists
  <2> QED
    BY <1>1, <2>1, <2>3 DEF Sent, Exists
<1> QED
  BY <1>5, <1>6, <1>7, <1>8, <1>9

LEMMA MovesKeep ==
    ASSUME Inv, UpdateHistory, NEW j \in Job,
           Claim(j) \/ Finish(j) \/ Crash(j) \/ RetryAttempt(j) \/ Cancel(j) \/ Requeue(j)
    PROVE  Inv'
<1> SUFFICES ASSUME NEW from, NEW to \in JOB_STATES, Move(j, from, to),
                    to \in {"finished", "crashed"} => from = {"claimed"},
                    from = TERMINAL_STATES => to = Initially(j),
                    from \in {{"queued"}, {"claimed"}, LIVE_STATES, TERMINAL_STATES}
             PROVE  Inv'
  BY DEF Claim, Finish, Crash, RetryAttempt, Cancel, Requeue, Initially
<1>1. /\ Exists(j) /\ writing[j] = None /\ probed.row # j /\ retiring # j
      /\ state[j] \in from /\ Write(j, to) /\ UNCHANGED <<probed, retiring>>
  BY DEF Move, Locked
<1> QED
  BY <1>1, WriteKeeps

LEMMA SweepKeeps ==
    ASSUME Inv, UpdateHistory, SweepWaiter
    PROVE  Inv'
<1> DEFINE j == probed.row
<1>1. /\ j \in Job /\ state[j] = "waiting" /\ Exists(j)
      /\ probed' = Nobody /\ retiring' = retiring
      /\ \/ Write(j, "queued")
         \/ Write(j, "cancelled")
         \/ UNCHANGED <<rows, dag, wakes>>
  BY SweepWrites DEF Inv
<1>2. writing[j] = None /\ retiring # j
  BY <1>1, DependenciesAssumption DEF Inv, Writes, Swept
<1>3. CASE Write(j, "queued") \/ Write(j, "cancelled")
  BY <1>1, <1>2, <1>3, WriteKeeps
<1>4. CASE UNCHANGED <<rows, dag, wakes>>
  <2>1. /\ state' = state /\ gone' = gone /\ writing' = writing /\ stamp' = stamp
        /\ completed' = completed /\ wakes' = wakes
    BY <1>4 DEF rows, dag
  <2>2. TypeOK'
    BY <1>1, <2>1, HistoryTypes DEF Inv, TypeOK, Nobody
  <2>3. Writes'
    BY <1>1, <2>1, DependenciesAssumption
    DEF Inv, Writes, Nobody, Exists, Initially, HasDependency
  <2>4. Stamped' /\ Whole' /\ Swept' /\ Sent' /\ DagCompletedTruthful'
    BY <1>1, <2>1
    DEF Inv, Stamped, AllTerminal, Whole, Swept, Sent, Exists, DagCompletedTruthful
  <2> QED
    BY <2>2, <2>3, <2>4 DEF Inv
<1> QED
  BY <1>1, <1>3, <1>4

LEMMA EnqueueKeeps ==
    ASSUME Inv, UpdateHistory, NEW B \in Batches, EnqueueBatch(B)
    PROVE  Inv'
<1> USE DEF Inv
<1>1. /\ \A j \in B : state[j] = HISTORY_ORIGIN
      /\ state' = [j \in Job |-> IF j \in B THEN Initially(j) ELSE state[j]]
      /\ gone' = gone /\ writing' = writing /\ stamp' = stamp /\ completed' = completed
      /\ wakes' = wakes /\ probed' = probed /\ retiring' = retiring
  BY DEF EnqueueBatch, dag
<1>2. \A j \in Job : Initially(j) \in {"waiting", "queued"}
  BY DEF Initially
<1>3. \A j \in Job : \/ state'[j] = state[j] /\ j \notin B
                     \/ state[j] = HISTORY_ORIGIN /\ state'[j] \in {"waiting", "queued"}
  BY <1>1, <1>2, DependenciesAssumption
<1>4. \A j \in Job : Exists(j) => Exists(j)' /\ state'[j] = state[j]
  BY <1>1, <1>3 DEF Exists
<1>5. TypeOK'
  <2>1. state' \in [Job -> JOB_STATES \union {HISTORY_ORIGIN}]
    BY <1>1, <1>2 DEF TypeOK
  <2>2. gone' \subseteq {j \in Job : state'[j] \in TERMINAL_STATES}
    BY <1>1, <1>3 DEF TypeOK
  <2>3. probed'.row # None => Is(probed.row, "waiting")'
    BY <1>1, <1>4 DEF TypeOK, Is
  <2> QED
    BY <1>1, <2>1, <2>2, <2>3, HistoryTypes DEF TypeOK
<1>6. Writes'
  BY <1>1, <1>4 DEF Writes, Initially, HasDependency
<1>7. Swept' /\ Sent'
  BY <1>1, <1>4 DEF Swept, Sent, TypeOK
<1>8. CASE Dag \intersect B = {}
  <2>1. \A j \in Dag : state'[j] = state[j]
    BY <1>1, <1>8, DependenciesAssumption
  <2>2. Whole' /\ DagCompletedTruthful'
    BY <1>1, <2>1 DEF Whole, DagCompletedTruthful
  <2>3. \A j \in Job : AllTerminal(j)' <=> AllTerminal(j)
    BY <1>1, <2>1 DEF AllTerminal
  <2>4. Stamped'
    BY <1>1, <2>3 DEF Stamped
  <2> QED
    BY <1>5, <1>6, <1>7, <2>2, <2>4
<1>9. CASE Dag \subseteq B
  <2>1. \A j \in Dag : state[j] = HISTORY_ORIGIN /\ state'[j] \in {"waiting", "queued"}
    BY <1>1, <1>2, <1>9, DependenciesAssumption
  <2>2. \A j \in Job : stamp[j] = None
    BY <2>1 DEF Stamped, Writes, Exists
  <2> QED
    BY <1>1, <1>5, <1>6, <1>7, <2>1, <2>2, DependenciesAssumption
    DEF Stamped, Whole, DagCompletedTruthful
<1> QED
  BY <1>8, <1>9, DependenciesAssumption

LEMMA TriggerKeeps ==
    ASSUME Inv, UpdateHistory, NEW j \in Job, Trigger(j) \/ Rollback(j)
    PROVE  Inv'
<1> USE DEF Inv
<1>1. /\ state' = state /\ gone' = gone /\ completed' = completed
      /\ wakes' = wakes /\ probed' = probed /\ retiring' = retiring
      /\ \A i \in Job : Exists(i)' <=> Exists(i)
  BY DEF Trigger, Rollback, rows, Exists
<1>2. Whole' /\ Swept' /\ Sent' /\ DagCompletedTruthful'
  BY <1>1 DEF Whole, Swept, Sent, DagCompletedTruthful, TypeOK, Exists
<1>3. CASE Trigger(j)
  <2>1. /\ writing' = writing /\ writing[j] # None /\ j \in Dag /\ Exists(j)
        /\ \A i \in Dag : stamp[i] = None
        /\ stamp' = [stamp EXCEPT ![j] = (Pending(j) = {})]
    BY <1>3 DEF Trigger, Writes
  <2>2. \A i \in Job : stamp[i] = None
    BY <2>1 DEF Stamped, Writes
  <2>3. stamp'[j] = (Pending(j) = {}) /\ \A i \in Job : i # j => stamp'[i] = None
    BY <2>1, <2>2 DEF TypeOK
  <2>4. Pending(j) = {} <=> AllTerminal(j)
    <3>1. \A i \in Dag : state[i] \notin TERMINAL_STATES => Exists(i)
      BY <2>1, DependenciesAssumption DEF Whole, Exists, TypeOK
    <3> QED
      BY <2>1, <3>1 DEF Pending, AllTerminal
  <2>5. stamp' \in [Job -> BOOLEAN \union {None}]
    BY <2>1, Zenon DEF TypeOK
  <2>6. TypeOK'
    BY <1>1, <2>1, <2>3, <2>5, HistoryTypes DEF TypeOK, Is
  <2>7. Writes'
    BY <1>1, <2>1 DEF Writes, Initially, HasDependency
  <2>8. AllTerminal(j)' <=> AllTerminal(j)
    BY <1>1, <2>1 DEF AllTerminal
  <2>9. stamp'[j] = TRUE <=> AllTerminal(j)
    BY <2>3, <2>4, Zenon
  <2>10. Stamped'
    BY <2>1, <2>3, <2>8, <2>9 DEF Stamped
  <2> QED
    BY <1>2, <2>6, <2>7, <2>10
<1>4. CASE Rollback(j)
  <2>1. /\ writing' = [writing EXCEPT ![j] = None] /\ stamp' = [stamp EXCEPT ![j] = None]
        /\ stamp[j] # None
    BY <1>4 DEF Rollback
  <2>2. /\ writing'[j] = None /\ stamp'[j] = None
        /\ \A i \in Job : i # j => writing'[i] = writing[i] /\ stamp'[i] = stamp[i]
    BY <2>1 DEF TypeOK
  <2>3. \A i \in Job : stamp'[i] = None
    BY <2>1, <2>2 DEF Stamped
  <2>4. TypeOK'
    BY <1>1, <2>1, <2>3, HistoryTypes DEF TypeOK, Is
  <2>5. Writes'
    BY <1>1, <2>2 DEF Writes, Initially, HasDependency
  <2> QED
    BY <1>2, <2>3, <2>4, <2>5 DEF Stamped
<1> QED
  BY <1>3, <1>4

LEMMA CommitKeeps ==
    ASSUME Inv, UpdateHistory, NEW j \in Job, CommitMember(j)
    PROVE  Inv'
<1> USE DEF Inv
<1>1. /\ stamp[j] # None /\ writing[j] # None /\ j \in Dag /\ Exists(j)
      /\ writing[j] \in JOB_STATES /\ j # retiring /\ j # probed.row /\ j \notin gone
      /\ stamp[j] = TRUE <=> AllTerminal(j)
  BY DEF CommitMember, Stamped, Writes, TypeOK, Exists
<1>2. /\ completed' = stamp[j] /\ state' = [state EXCEPT ![j] = writing[j]]
      /\ writing' = [writing EXCEPT ![j] = None] /\ stamp' = [stamp EXCEPT ![j] = None]
      /\ gone' = gone /\ probed' = probed /\ retiring' = retiring
      /\ \/ wakes' = wakes
         \/ wakes' = wakes \union {<<j, "job">>}
  BY DEF CommitMember, Reach
<1>3. /\ state'[j] = writing[j] /\ writing'[j] = None
      /\ \A i \in Job : i # j => state'[i] = state[i] /\ writing'[i] = writing[i]
      /\ \A i \in Job : stamp'[i] = None
  BY <1>1, <1>2 DEF TypeOK, Stamped
<1>4. \A i \in Job : (Exists(i)' <=> Exists(i))
  BY <1>1, <1>2, <1>3 DEF Exists
<1>5. TypeOK'
  <2>1. /\ state' \in [Job -> JOB_STATES \union {HISTORY_ORIGIN}]
        /\ writing' \in [Job -> JOB_STATES \union {None}]
        /\ stamp' \in [Job -> BOOLEAN \union {None}]
    BY <1>1, <1>2 DEF TypeOK
  <2>2. gone' \subseteq {i \in Job : state'[i] \in TERMINAL_STATES}
    BY <1>1, <1>2, <1>3 DEF TypeOK
  <2>3. completed' \in BOOLEAN
    BY <1>1, <1>2 DEF TypeOK
  <2>4. probed'.row # None => Is(probed.row, "waiting")'
    BY <1>1, <1>2, <1>3, <1>4 DEF TypeOK, Is
  <2>5. wakes' \subseteq Job \X {"job", "group"}
    BY <1>2 DEF TypeOK
  <2> QED
    BY <1>2, <1>3, <2>1, <2>2, <2>3, <2>4, <2>5, HistoryTypes DEF TypeOK
<1>6. Writes'
  BY <1>2, <1>3, <1>4 DEF Writes, Initially, HasDependency
<1>7. DagCompletedTruthful'
  <2>1. AllTerminal(j) <=> \A i \in Dag : state'[i] \in TERMINAL_STATES
    BY <1>1, <1>3, DependenciesAssumption DEF AllTerminal
  <2>2. completed' <=> AllTerminal(j)
    BY <1>1, <1>2, DependenciesAssumption DEF TypeOK
  <2> QED
    BY <2>1, <2>2 DEF DagCompletedTruthful
<1>8. Stamped' /\ Whole'
  BY <1>1, <1>3, DependenciesAssumption DEF Stamped, Whole, Exists
<1>9. Swept'
  BY <1>1, <1>2, <1>3, <1>4 DEF Swept, TypeOK
<1>10. Sent'
  <2>1. \A e \in wakes' : e \in wakes \/ e = <<j, "job">>
    BY <1>2
  <2>2. \A e \in wakes : e[1] \in Job
    BY DEF TypeOK
  <2>3. \A e \in wakes' : state'[e[1]] # HISTORY_ORIGIN /\ e[1] \notin gone
    BY <1>1, <1>2, <1>4, <2>1, <2>2 DEF Sent, Exists
  <2> QED
    BY <1>1, <1>2, <2>1, <2>3 DEF Sent, Exists
<1> QED
  BY <1>5, <1>6, <1>7, <1>8, <1>9, <1>10

LEMMA WakesKeep ==
    ASSUME Inv, UpdateHistory,
           (\E u \in Job : WakeDependents(u)) \/ (\E e \in wakes : LoseWake(e))
    PROVE  Inv'
<1> USE DEF Inv
<1>1. \A e \in wakes : e[1] \in Job
  BY DEF TypeOK
<1>2. /\ gone' = gone /\ writing' = writing /\ stamp' = stamp /\ completed' = completed
      /\ probed' = probed /\ retiring' = retiring
  BY DEF WakeDependents, LoseWake, dag, rows
<1>3. \A e \in wakes' : /\ e \in Job \X {"job", "group"}
                        /\ Exists(e[1]) /\ e[1] # retiring
                        /\ e[2] = "group" => run_group[e[1]] # None
  <2>1. ASSUME NEW u \in Job, WakeDependents(u) PROVE <1>3!:
    <3>1. /\ Exists(u) /\ u # retiring
          /\ \A e \in wakes' : e \in wakes \/ (e = <<u, "group">> /\ run_group[u] # None)
      <4>1. PICK k \in {"job", "group"} : <<u, k>> \in wakes
        BY <2>1 DEF WakeDependents
      <4>2. Exists(u) /\ u # retiring /\ (k = "group" => run_group[u] # None)
        BY <4>1 DEF Sent
      <4>3. \/ wakes' \subseteq wakes
            \/ wakes' \subseteq wakes \union {<<u, "group">>} /\ run_group[u] # None
        BY <2>1 DEF WakeDependents
      <4>4. ASSUME NEW e \in wakes', e \notin wakes
            PROVE  e = <<u, "group">> /\ run_group[u] # None
        BY <4>3, <4>4
      <4> QED
        BY <4>2, <4>4
    <3> QED
      BY <3>1 DEF TypeOK, Sent
  <2>2. ASSUME NEW e \in wakes, LoseWake(e) PROVE <1>3!:
    BY <2>2 DEF LoseWake, TypeOK, Sent
  <2> QED
    BY <2>1, <2>2
<1>4. /\ state' \in [Job -> JOB_STATES \union {HISTORY_ORIGIN}]
      /\ \A j \in Job : \/ state'[j] = state[j]
                        \/ /\ state[j] = "waiting" /\ state'[j] = "queued"
                           /\ ~Locked(j)
  <2>1. ASSUME NEW W, Release(W) PROVE <1>4!:
    BY <2>1 DEF Release, Is, TypeOK
  <2>2. CASE UNCHANGED state
    BY <2>2 DEF TypeOK
  <2> QED
    BY <2>1, <2>2 DEF WakeDependents, LoseWake, rows
<1>5. \A j \in Job : Exists(j)' <=> Exists(j)
  BY <1>2, <1>4 DEF Exists
<1>6. TypeOK'
  <2>1. gone' \subseteq {j \in Job : state'[j] \in TERMINAL_STATES}
    BY <1>2, <1>4 DEF TypeOK
  <2>2. probed'.row # None => Is(probed.row, "waiting")'
    BY <1>2, <1>4, <1>5 DEF TypeOK, Is, Locked
  <2>3. wakes' \subseteq Job \X {"job", "group"}
    BY <1>3
  <2> QED
    BY <1>2, <1>4, <2>1, <2>2, <2>3, HistoryTypes DEF TypeOK
<1>7. Writes'
  BY <1>2, <1>4, <1>5 DEF Writes, Initially, HasDependency, Locked
<1>8. \A j \in Dag : /\ state'[j] \in TERMINAL_STATES <=> state[j] \in TERMINAL_STATES
                     /\ state'[j] = HISTORY_ORIGIN <=> state[j] = HISTORY_ORIGIN
  BY <1>4, DependenciesAssumption
<1>9. Stamped'
  <2>1. \A j \in Job : AllTerminal(j)' <=> AllTerminal(j)
    BY <1>2, <1>8 DEF AllTerminal
  <2> QED
    BY <1>2, <2>1 DEF Stamped
<1>10. Whole' /\ DagCompletedTruthful'
  BY <1>2, <1>8 DEF Whole, DagCompletedTruthful
<1>11. Swept'
  BY <1>2, <1>4, <1>5 DEF Swept, TypeOK
<1>12. Sent'
  BY <1>2, <1>3, <1>5 DEF Sent
<1> QED
  BY <1>6, <1>7, <1>9, <1>10, <1>11, <1>12

LEMMA ProbesKeep ==
    ASSUME Inv, UpdateHistory,
           \/ \E j \in Job, why \in {"satisfied", "missing"} : ProbeWaiter(j, why)
           \/ \E j \in Job : ProbeExpired(j)
           \/ DeleteExpired
    PROVE  Inv'
<1> USE DEF Inv
<1>1. /\ state' = state /\ writing' = writing /\ stamp' = stamp /\ completed' = completed
      /\ wakes' = wakes
  BY DEF ProbeWaiter, ProbeExpired, DeleteExpired, dag, rows
<1>2. Stamped' /\ Whole' /\ DagCompletedTruthful'
  BY <1>1 DEF Stamped, AllTerminal, Whole, DagCompletedTruthful
<1>3. ASSUME NEW j \in Job, NEW why \in {"satisfied", "missing"}, ProbeWaiter(j, why)
      PROVE  Inv'
  <2>1. /\ probed' = [row |-> j, why |-> why] /\ Is(j, "waiting") /\ writing[j] = None
        /\ gone' = gone /\ retiring' = retiring
    BY <1>3 DEF ProbeWaiter, Locked, rows
  <2>2. TypeOK'
    BY <1>1, <2>1, HistoryTypes DEF TypeOK, Is, Exists
  <2>3. Writes' /\ Swept' /\ Sent'
    BY <1>1, <2>1, DependenciesAssumption
    DEF Writes, Swept, Sent, Exists, Initially, HasDependency
  <2> QED
    BY <1>2, <2>2, <2>3
<1>4. ASSUME NEW j \in Job, ProbeExpired(j) PROVE Inv'
  <2>1. /\ retiring' = j /\ Expired(j) /\ writing[j] = None
        /\ gone' = gone /\ probed' = probed
    BY <1>4 DEF ProbeExpired, Locked, rows
  <2>2. TypeOK'
    BY <1>1, <2>1, HistoryTypes DEF TypeOK, Is, Exists
  <2>3. Writes' /\ Swept'
    BY <1>1, <2>1 DEF Writes, Swept, Exists, Initially, HasDependency, Expired
  <2>4. \A e \in wakes : e[1] # j
    BY <2>1 DEF Expired, TypeOK
  <2>5. Sent'
    BY <1>1, <2>1, <2>4 DEF Sent, Exists
  <2> QED
    BY <1>2, <2>2, <2>3, <2>5
<1>5. CASE DeleteExpired
  <2>1. /\ gone' = gone \union {retiring} /\ retiring' = None /\ probed' = probed
        /\ retiring \in Job /\ state[retiring] \in TERMINAL_STATES
    BY <1>5 DEF DeleteExpired, Swept, TypeOK
  <2>2. TypeOK'
    <3>1. probed.row # retiring
      BY <2>1, DependenciesAssumption DEF TypeOK, Is
    <3> QED
      BY <1>1, <2>1, <3>1, HistoryTypes DEF TypeOK, Is, Exists
  <2>3. Writes'
    BY <1>1, <2>1, DependenciesAssumption
    DEF Writes, Exists, Initially, HasDependency
  <2>4. Swept' /\ Sent'
    BY <1>1, <2>1, DependenciesAssumption DEF Swept, Sent, Exists, TypeOK
  <2> QED
    BY <1>2, <2>2, <2>3, <2>4
<1> QED
  BY <1>3, <1>4, <1>5

LEMMA InvInitial == Init => Inv
<1> SUFFICES ASSUME Init PROVE Inv
  OBVIOUS
<1>1. TypeOK
  BY DEF Init, TypeOK, Nobody
<1>2. Writes /\ Stamped /\ Whole /\ Swept /\ Sent /\ DagCompletedTruthful
  BY DependenciesAssumption
  DEF Init, Writes, Stamped, Whole, Swept, Sent, DagCompletedTruthful, Nobody
<1> QED
  BY <1>1, <1>2 DEF Inv

LEMMA InvInductive == Inv /\ [Next]_vars => Inv'
<1> SUFFICES ASSUME Inv, [Next]_vars PROVE Inv'
  OBVIOUS
<1>1. CASE Next
  BY <1>1, EnqueueKeeps, MovesKeep, WakesKeep, TriggerKeeps, CommitKeeps, ProbesKeep,
     SweepKeeps DEF Next, Step, Worker, Transaction, Monitor
<1>2. CASE UNCHANGED vars
  BY <1>2 DEF vars, rows, dag, history, Inv, TypeOK, Is, Exists, Writes, Initially,
     HasDependency, Stamped, AllTerminal, Whole, Swept, Sent, DagCompletedTruthful
<1> QED
  BY <1>1, <1>2

LEMMA InvAlways == Spec => []Inv
BY InvInitial, InvInductive, PTL DEF Spec

\* Every variable has its type in every reachable state: only terminal rows are
\* ever deleted, and a row a sweep has probed is still parked.
THEOREM TypeCorrect == Spec => []TypeOK
<1>1. Inv => TypeOK
  BY DEF Inv
<1> QED
  BY InvAlways, <1>1, PTL

\* jorb_dag.completed is set exactly when every member is terminal, for any
\* number of members whose transactions overlap, roll back and undo each other.
THEOREM CompletedIsTruthful == Spec => []DagCompletedTruthful
<1>1. Inv => DagCompletedTruthful
  BY DEF Inv
<1> QED
  BY InvAlways, <1>1, PTL

------------------------------------------------------------------------------
(* What was satisfied, and what is still there, when a waiter is claimed.  *)

Met ==
    \A j \in Job : HasDependency(j) /\ state[j] \in {"queued", "claimed"} => met[j]

Late ==
    retiring # None =>
        \A j \in Job : Live(j) /\ DependsOn(j, retiring) => j \in late

Available ==
    \A j \in Job :
        state[j] \in {"queued", "claimed"} /\ waitfor_job[j] # None =>
            Exists(waitfor_job[j]) \/ j \in late

\* The other input is watched from when the job becomes live, parked or not.
Readable ==
    \A j \in Job :
        Live(j) /\ use_result_from[j] # None => Exists(use_result_from[j]) \/ j \in late

LEMMA StaysSatisfied ==
    ASSUME TypeOK, NEW j \in Job, Satisfied(j), UNCHANGED gone,
           \A i \in Job : state[i] # "waiting" => state'[i] = state[i],
           \A i \in Job : state[i] = "waiting" => state'[i] # HISTORY_ORIGIN
    PROVE  Satisfied(j)'
<1>1. \A i \in Job : /\ Exists(i)' <=> Exists(i)
                     /\ state[i] = "finished" => state'[i] = "finished"
  BY DEF Exists
<1>2. CASE waitfor_job[j] # None /\ Is(waitfor_job[j], "finished")
  <2>1. waitfor_job[j] \in Job
    BY <1>2, DependenciesAssumption
  <2> QED
    BY <1>1, <1>2, <2>1 DEF Satisfied, Is
<1>3. CASE waitfor_group[j] # None /\ GroupDone(waitfor_group[j])
  <2>1. Members(waitfor_group[j])' = Members(waitfor_group[j])
    BY <1>1 DEF Members
  <2>2. \A i \in Members(waitfor_group[j]) : i \in Job
    BY DEF Members
  <2> QED
    BY <1>1, <1>3, <2>1, <2>2 DEF Satisfied, GroupDone
<1> QED
  BY <1>2, <1>3 DEF Satisfied

LEMMA MetInductive ==
    ASSUME Inv, Met, Next
    PROVE  Met'
<1> SUFFICES ASSUME NEW j \in Job, HasDependency(j), state'[j] \in {"queued", "claimed"}
             PROVE  met'[j]
  BY DEF Met, HasDependency
<1>1. \A i \in Job : Moved(i)
  BY EveryMove DEF Next
<1>2. met'[j] = (\/ Satisfied(j)'
                 \/ met[j] /\ ~(state'[j] = "waiting" /\ state[j] # "waiting"))
  BY DEF Next, UpdateHistory
<1>3. Initially(j) = "waiting"
  BY DEF Initially
<1>4. CASE state[j] \in {"queued", "claimed"}
  BY <1>2, <1>4 DEF Met
<1>5. CASE state[j] \notin {"queued", "claimed"}
  <2>1. /\ Satisfied(j) /\ UNCHANGED gone
        /\ \A i \in Job : state[i] # "waiting" => state'[i] = state[i]
    BY <1>1, <1>3, <1>5 DEF Moved
  <2>2. \A i \in Job : state[i] = "waiting" => state'[i] # HISTORY_ORIGIN
    BY <1>1 DEF Moved
  <2>3. Satisfied(j)'
    BY <2>1, <2>2, StaysSatisfied DEF Inv
  <2> QED
    BY <1>2, <2>3
<1> QED
  BY <1>4, <1>5

LEMMA HistoryInitial == Init => Met /\ Late /\ Available /\ Readable
BY DEF Init, Met, Late, Available, Readable, Live, Exists, LIVE_STATES, HISTORY_ORIGIN

\* A waiter is never claimed before its dependency was satisfied, counted from
\* when it was last parked, whoever parked, woke, swept, retried or reran it.
THEOREM DependencyIsHonoured == Spec => DependencyHonoured
<1>1. Inv /\ Met /\ [Next]_vars => Met'
  <2>1. UNCHANGED vars /\ Met => Met'
    BY DEF vars, rows, history, Met, HasDependency
  <2> QED
    BY <2>1, MetInductive
<1>2. Met => [\A j \in Job : state[j] = "queued" /\ state'[j] = "claimed"
                                 /\ HasDependency(j) => met[j]]_vars
  BY DEF Met
<1> QED
  BY InvAlways, HistoryInitial, <1>1, <1>2, PTL DEF Spec, DependencyHonoured

\* The monitor moves a parked row on what is true when it writes.
THEOREM SweepsActOnTruth == Spec => SweepActsOnTruth
<1> DEFINE Truth == probed # Nobody /\ probed' = Nobody =>
                       /\ state'[probed.row] = "queued" => Satisfied(probed.row)
                       /\ "cancelled" \in {state'[probed.row], writing'[probed.row]}
                              => Missing(probed.row)
<1>1. Inv /\ [Next]_vars => [Truth]_vars
  <2> SUFFICES ASSUME Inv, Next, probed # Nobody, probed' = Nobody PROVE Truth
    OBVIOUS
  <2>1. SweepWaiter
    <3>1. ASSUME probed' = probed PROVE FALSE
      BY <3>1
    <3>2. ASSUME NEW j \in Job, NEW why \in {"satisfied", "missing"}, ProbeWaiter(j, why)
          PROVE  FALSE
      BY <3>2, DependenciesAssumption DEF ProbeWaiter, Nobody
    <3> QED
      BY <3>1, <3>2 DEF Next, Step, Worker, Transaction, Monitor, EnqueueBatch, Claim,
         Finish, Crash, RetryAttempt, WakeDependents, Cancel, Requeue, Move, Trigger,
         CommitMember, Rollback, LoseWake, ProbeExpired, DeleteExpired
  <2> DEFINE j == probed.row
  <2>2. /\ j \in Job /\ state[j] = "waiting"
        /\ \/ Satisfied(j) /\ Write(j, "queued")
           \/ Missing(j) /\ Write(j, "cancelled")
           \/ UNCHANGED <<rows, dag, wakes>>
    BY <2>1, SweepWrites DEF Inv
  <2>3. writing[j] = None /\ None # "cancelled"
    BY <2>2, DependenciesAssumption DEF Inv, Writes
  <2>4. CASE Satisfied(j) /\ Write(j, "queued")
    <3>1. /\ state'[j] \in {"waiting", "queued"} /\ writing'[j] \in {"queued", None}
      BY <2>2, <2>3, <2>4, Written DEF Inv
    <3> QED
      BY <2>3, <2>4, <3>1
  <2>5. CASE Missing(j) /\ Write(j, "cancelled")
    <3>1. state'[j] \in {"waiting", "cancelled"}
      BY <2>2, <2>5, Written DEF Inv
    <3> QED
      BY <2>5, <3>1
  <2>6. CASE UNCHANGED <<rows, dag, wakes>>
    <3>1. state'[j] = "waiting" /\ writing'[j] = None
      BY <2>2, <2>3, <2>6 DEF rows, dag
    <3> QED
      BY <2>3, <3>1
  <2> QED
    BY <2>2, <2>4, <2>5, <2>6
<1> QED
  BY InvAlways, <1>1, PTL DEF Spec, SweepActsOnTruth
LEMMA LateInductive ==
    ASSUME Inv, Late, Next
    PROVE  Late'
<1> SUFFICES ASSUME retiring' # None, NEW j \in Job, Live(j)', DependsOn(j, retiring')
             PROVE  j \in late'
  BY DEF Late, DependsOn
<1>1. late' = {i \in Job : IF Live(i)' /\ ~Live(i)
                           THEN \/ retiring # None /\ DependsOn(i, retiring)
                                \/ /\ use_result_from[i] # None
                                   /\ ~Exists(use_result_from[i])'
                           ELSE i \in late}
  BY DEF Next, UpdateHistory
<1>2. CASE retiring' = retiring
  BY <1>1, <1>2 DEF Late
<1>3. ASSUME NEW u \in Job, ProbeExpired(u) PROVE FALSE
  <2>1. ~Live(j) /\ UNCHANGED rows
    BY <1>3 DEF ProbeExpired
  <2> QED
    BY <2>1 DEF Live, Exists, rows
<1>4. CASE DeleteExpired
  BY <1>4 DEF DeleteExpired
<1> QED
  BY <1>2, <1>3, <1>4, SweepWrites
  DEF Next, Step, Worker, Transaction, Monitor, EnqueueBatch, Claim, Finish, Crash,
      RetryAttempt, WakeDependents, Cancel, Requeue, Move, Trigger, CommitMember,
      Rollback, LoseWake, ProbeWaiter, SweepWaiter

\* Only retention takes a row away.
LEMMA OnlyRetentionDeletes ==
    ASSUME Inv, Next
    PROVE  gone' = gone \/ DeleteExpired
<1>1. \A j \in Job, to \in JOB_STATES : Write(j, to) => gone' = gone
  BY DEF Write, rows
<1>2. SweepWaiter => gone' = gone
  BY SweepWrites, <1>1 DEF Inv, rows
<1>3. \A j \in Job : Initially(j) \in JOB_STATES
  BY DEF Initially
<1> QED
  BY <1>1, <1>2, <1>3
  DEF Next, Step, Worker, Transaction, Monitor, EnqueueBatch, Claim, Finish, Crash,
      RetryAttempt, WakeDependents, Cancel, Requeue, Move, Trigger, CommitMember,
      Rollback, LoseWake, ProbeWaiter, ProbeExpired, rows

LEMMA AvailableInductive ==
    ASSUME Inv, Late, Available, Next
    PROVE  Available'
<1> SUFFICES ASSUME NEW j \in Job, state'[j] \in {"queued", "claimed"},
                    waitfor_job[j] # None
             PROVE  Exists(waitfor_job[j])' \/ j \in late'
  BY DEF Available
<1> DEFINE w == waitfor_job[j]
<1>1. w \in Job /\ HasDependency(j) /\ waitfor_group[j] = None /\ DependsOn(j, w)
  BY DependenciesAssumption DEF HasDependency, DependsOn
<1>2. \A i \in Job : Moved(i)
  BY EveryMove DEF Next
<1>3. state[w] # HISTORY_ORIGIN => state'[w] # HISTORY_ORIGIN
  BY <1>1, <1>2 DEF Moved, Initially
<1>4. gone' = gone \/ DeleteExpired
  BY OnlyRetentionDeletes
<1>5. CASE state[j] \in {"queued", "claimed"}
  <2>1. Live(j)
    BY <1>5 DEF Live, Exists, Inv, TypeOK
  <2>2. j \in late => j \in late'
    BY <2>1 DEF Next, UpdateHistory
  <2>3. CASE gone' = gone
    BY <1>3, <1>5, <2>2, <2>3 DEF Available, Exists
  <2>4. CASE DeleteExpired
    <3>1. w = retiring => j \in late
      BY <1>1, <2>1, <2>4 DEF Late, DeleteExpired
    <3>2. gone' = gone \union {retiring}
      BY <2>4 DEF DeleteExpired
    <3> QED
      BY <1>3, <1>5, <2>2, <3>1, <3>2 DEF Available, Exists
  <2> QED
    BY <1>4, <2>3, <2>4
<1>6. CASE state[j] \notin {"queued", "claimed"}
  <2>1. Initially(j) = "waiting"
    BY <1>1 DEF Initially
  <2>2. Satisfied(j) /\ gone' = gone
    BY <1>2, <1>6, <2>1 DEF Moved
  <2>3. Exists(w)
    BY <1>1, <2>2 DEF Satisfied, Is
  <2> QED
    BY <1>3, <2>2, <2>3 DEF Exists
<1> QED
  BY <1>5, <1>6

LEMMA ReadableInductive ==
    ASSUME Inv, Late, Readable, Next
    PROVE  Readable'
<1> SUFFICES ASSUME NEW j \in Job, Live(j)', use_result_from[j] # None
             PROVE  Exists(use_result_from[j])' \/ j \in late'
  BY DEF Readable
<1> DEFINE r == use_result_from[j]
<1>1. r \in Job /\ DependsOn(j, r)
  BY DependenciesAssumption DEF DependsOn
<1>2. j \in late' <=> IF Live(j)' /\ ~Live(j)
                      THEN (retiring # None /\ DependsOn(j, retiring)) \/ ~Exists(r)'
                      ELSE j \in late
  BY DEF Next, UpdateHistory
<1>3. CASE ~Live(j)
  BY <1>2, <1>3
<1>4. CASE Live(j)
  <2>1. Exists(r) \/ j \in late
    BY <1>4 DEF Readable
  <2>2. \A i \in Job : Moved(i)
    BY EveryMove DEF Next
  <2>3. state[r] # HISTORY_ORIGIN => state'[r] # HISTORY_ORIGIN
    BY <1>1, <2>2 DEF Moved, Initially
  <2>4. gone' = gone \/ DeleteExpired
    BY OnlyRetentionDeletes
  <2>5. DeleteExpired => gone' = gone \union {retiring} /\ (r = retiring => j \in late)
    BY <1>1, <1>4 DEF DeleteExpired, Late
  <2> QED
    BY <1>2, <1>4, <2>1, <2>3, <2>4, <2>5 DEF Exists
<1> QED
  BY <1>3, <1>4

\* A job that is claimed still has the rows it reads, unless it became live while
\* a retention transaction was open on such a row or the row was not there.
THEOREM InputsAvailable == Spec => InputAvailable
<1>1. Inv /\ Late /\ Available /\ Readable /\ [Next]_vars
          => Late' /\ Available' /\ Readable'
  <2>1. UNCHANGED vars /\ Late /\ Available /\ Readable
            => Late' /\ Available' /\ Readable'
    BY DEF vars, rows, history, Late, Available, Readable, Live, Exists, DependsOn
  <2> QED
    BY <2>1, LateInductive, AvailableInductive, ReadableInductive
<1>2. Inv /\ Available /\ Readable
          => [\A j \in Job :
                 state[j] = "queued" /\ state'[j] = "claimed" /\ j \notin late
                     => \A i \in Inputs(j) : Exists(i)]_vars
  <2> SUFFICES ASSUME Inv, Available, Readable, NEW j \in Job, state[j] = "queued",
                      j \notin late, NEW i \in Inputs(j)
               PROVE  Exists(i)
    OBVIOUS
  <2>1. Live(j)
    BY DEF Live, Exists, Inv, TypeOK
  <2>2. CASE i = waitfor_job[j]
    BY <2>2 DEF Available, Inputs
  <2>3. CASE i = use_result_from[j]
    BY <2>1, <2>3 DEF Readable, Inputs
  <2> QED
    BY <2>2, <2>3 DEF Inputs
<1> QED
  BY InvAlways, HistoryInitial, <1>1, <1>2, PTL DEF Spec, InputAvailable

------------------------------------------------------------------------------
(* The platform's lifecycle, and rows that are gone.                       *)

Platform == INSTANCE JobLifecycle

LEMMA MovedIsLegal ==
    ASSUME TypeOK, NEW j \in Job, Moved(j), state'[j] # state[j]
    PROVE  is_legal(state[j], state'[j]) /\ state'[j] \in JOB_STATES
<1>1. state[j] \in JOB_STATES \union {HISTORY_ORIGIN}
  BY DEF TypeOK
<1>2. Initially(j) \in {"waiting", "queued"}
  BY DEF Initially
<1> QED
  BY <1>1, <1>2 DEF Moved, is_legal, LEGAL_TRANSITIONS

\* However the statements about dependencies move jorb.state (the batch insert,
\* the wakes, the stranded-waiter sweep, the DAG members' transactions, cancel,
\* retry and rerun), each row moves along an edge of LEGAL_TRANSITIONS.
THEOREM LifecycleImplemented == Spec => Platform!Spec
<1>1. Init => Platform!Init
  BY DEF Init, Platform!Init, Platform!HISTORY_ORIGIN
<1>2. ASSUME Inv, Inv', [Next]_vars PROVE [Platform!Move]_state
  <2>1. CASE UNCHANGED vars
    BY <2>1 DEF vars, rows
  <2>2. CASE Next
    <3>1. \A j \in Job : Moved(j)
      BY <1>2, <2>2, EveryMove DEF Next
    <3>2. \A j \in Job : state'[j] # state[j] => is_legal(state[j], state'[j])
      BY <1>2, <3>1, MovedIsLegal DEF Inv
    <3>3. state' \in [Job -> JOB_STATES \union {HISTORY_ORIGIN}]
      BY <1>2 DEF Inv, TypeOK
    <3> QED
      BY <3>2, <3>3
      DEF Platform!Move, Platform!is_legal, is_legal, Platform!LEGAL_TRANSITIONS,
          LEGAL_TRANSITIONS, Platform!JOB_STATES, Platform!LIVE_STATES,
          Platform!PRE_CLAIM_STATES, Platform!IN_FLIGHT_STATES,
          Platform!TERMINAL_STATES, Platform!HISTORY_ORIGIN
  <2> QED
    BY <1>2, <2>1, <2>2
<1>3. Init /\ [][Next]_vars /\ []Inv => Platform!Spec
  BY <1>1, <1>2, PTL DEF Platform!Spec
<1> QED
  BY <1>3, InvAlways, PTL DEF Spec

\* What retention deleted stays deleted, and nobody writes it: no wake, sweep,
\* retry or rerun and no transaction still open finds the row again, so a job's
\* last state outlives it unchanged in whatever was read of it.
DeletedStaysDeleted ==
    [][\A j \in gone : j \in gone' /\ state'[j] = state[j] /\ writing'[j] = None]_vars

\* A statement writes rows that exist.
LEMMA GoneIsNotWritten ==
    ASSUME Inv, Next, NEW j \in gone
    PROVE  state'[j] = state[j] /\ writing'[j] = None
<1> USE DEF Inv
<1>1. j \in Job /\ state[j] \in TERMINAL_STATES /\ ~Exists(j)
  BY DEF TypeOK, Exists
<1>2. writing[j] = None /\ stamp[j] = None
  BY <1>1 DEF Writes, TypeOK
<1>3. ASSUME NEW i \in Job, NEW to \in JOB_STATES, Exists(i), Write(i, to)
      PROVE  state'[j] = state[j] /\ writing'[j] = None
  <2>1. i # j
    BY <1>1, <1>3
  <2> QED
    BY <1>1, <1>2, <1>3, <2>1, Written
<1>4. ASSUME NEW B \in Batches, EnqueueBatch(B) PROVE state'[j] = state[j] /\ writing'[j] = None
  BY <1>1, <1>2, <1>4 DEF EnqueueBatch, dag
<1>5. ASSUME NEW i \in Job, Claim(i) \/ Finish(i) \/ Crash(i) \/ RetryAttempt(i)
                            \/ Cancel(i) \/ Requeue(i)
      PROVE  state'[j] = state[j] /\ writing'[j] = None
  <2>1. Initially(i) \in JOB_STATES
    BY DEF Initially
  <2> QED
    BY <1>3, <1>5, <2>1 DEF Claim, Finish, Crash, RetryAttempt, Cancel, Requeue, Move
<1>6. ASSUME NEW u \in Job, WakeDependents(u)
      PROVE  state'[j] = state[j] /\ writing'[j] = None
  BY <1>1, <1>2, <1>6 DEF WakeDependents, Release, Is, dag
<1>7. ASSUME NEW i \in Job, Transaction(i) PROVE state'[j] = state[j] /\ writing'[j] = None
  <2>1. writing[i] # None /\ Exists(i) /\ i # j
    BY <1>1, <1>7 DEF Transaction, Trigger, CommitMember, Rollback, Stamped, Writes
  <2> QED
    BY <1>1, <1>2, <1>7, <2>1
    DEF Transaction, Trigger, CommitMember, Rollback, Reach, rows, TypeOK
<1>8. CASE SweepWaiter
  <2>1. CASE UNCHANGED <<rows, dag, wakes>>
    BY <1>2, <2>1 DEF rows, dag
  <2> QED
    BY <1>3, <1>8, <2>1, SweepWrites
<1>9. CASE UNCHANGED <<state, dag>>
  BY <1>2, <1>9 DEF dag
<1> QED
  BY <1>4, <1>5, <1>6, <1>7, <1>8, <1>9
  DEF Next, Step, Worker, LoseWake, Monitor, ProbeWaiter, ProbeExpired, DeleteExpired, rows

\* A deleted row is gone for good.
THEOREM DeletedForGood == Spec => DeletedStaysDeleted
<1>1. Inv /\ [Next]_vars =>
        [\A j \in gone : j \in gone' /\ state'[j] = state[j] /\ writing'[j] = None]_vars
  <2> SUFFICES ASSUME Inv, Next, NEW j \in gone
               PROVE  j \in gone' /\ state'[j] = state[j] /\ writing'[j] = None
    OBVIOUS
  <2>1. j \in gone'
    BY OnlyRetentionDeletes DEF DeleteExpired
  <2> QED
    BY <2>1, GoneIsNotWritten
<1> QED
  BY InvAlways, <1>1, PTL DEF Spec, DeletedStaysDeleted

==============================================================================
