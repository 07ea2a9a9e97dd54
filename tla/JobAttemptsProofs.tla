--------------------------- MODULE JobAttemptsProofs ---------------------------
(***************************************************************************)
(* Theorems about the attempt protocol, for any sets of jobs and workers   *)
(* and any value of the other constants.  MaxEpoch is any natural number,  *)
(* and no proof uses a guard it appears in: what is proved holds of the    *)
(* protocol without that bound.                                            *)
(***************************************************************************)
EXTENDS JobAttempts, TLAPS

------------------------------------------------------------------------------
(* Type correctness.                                                        *)

\* The statement a worker records an outcome with keeps the rows' types.
LEMMA OutcomeRowType ==
    ASSUME TypeOK, NEW w \in Worker, pc[w] = "recording", OutcomeRow(w)
    PROVE  /\ state' \in [Job -> JOB_STATES \union {HISTORY_ORIGIN}]
           /\ run_epoch' \in [Job -> Nat]
           /\ error_count' \in [Job -> Nat]
           /\ timeout_at' \in [Job -> BOOLEAN]
           /\ UNCHANGED <<claimed_by, cancel_requested>>
<1> USE DEF TypeOK, LeaveAttempt, JOB_STATES, LIVE_STATES, PRE_CLAIM_STATES,
            TERMINAL_STATES, Holding
<1>1. CASE Finished(job[w])  BY <1>1 DEF Finished
<1>2. CASE Crashed(job[w])   BY <1>2 DEF Crashed
<1>3. CASE Cancelled(job[w]) BY <1>3 DEF Cancelled
<1>4. CASE Retry(job[w])     BY <1>4 DEF Retry
<1> QED  BY <1>1, <1>2, <1>3, <1>4 DEF OutcomeRow

\* So does the statement that begins its execution.
LEMMA RunRowType ==
    ASSUME TypeOK, NEW w \in Worker, pc[w] \in Holding, RunRow(w)
    PROVE  /\ state' \in [Job -> JOB_STATES \union {HISTORY_ORIGIN}]
           /\ timeout_at' \in [Job -> BOOLEAN]
           /\ UNCHANGED <<run_epoch, claimed_by, cancel_requested, error_count>>
<1> QED  BY DEF Holding, TypeOK, RunRow, JOB_STATES, LIVE_STATES, IN_FLIGHT_STATES

\* The rows and the processes of every behaviour have their types; a process
\* that holds a job knows which, and one that records knows what.
THEOREM TypeCorrect == Spec => []TypeOK
<1> USE DEF TypeOK, JOB_STATES, LIVE_STATES, PRE_CLAIM_STATES, IN_FLIGHT_STATES,
            TERMINAL_STATES, HISTORY_ORIGIN, Phases, Holding, Outcomes
<1>1. Init => TypeOK
  BY AttemptsAssumption DEF Init
<1>2. TypeOK /\ [Next]_vars => TypeOK'
  <2> SUFFICES ASSUME TypeOK, [Next]_vars PROVE TypeOK'
    OBVIOUS
  <2> USE AttemptsAssumption DEF jorb, attempt, process
  <2>1. CASE UNCHANGED vars
    BY <2>1 DEF vars
  <2>2. ASSUME NEW w \in Worker, Process(w) PROVE TypeOK'
    <3> USE DEF GoTo, LetGo, Resolve
    <3>1. CASE Start(w)     BY <3>1 DEF Start
    <3>2. CASE Beat(w)      BY <3>2 DEF Beat
    <3>3. CASE GoStale(w)   BY <3>3 DEF GoStale
    <3>4. CASE Shutdown(w)  BY <3>4 DEF Shutdown
    <3>5. CASE Exit(w)      BY <3>5 DEF Exit
    <3>6. CASE GiveUp(w)    BY <3>6 DEF GiveUp
    <3>7. CASE Crash(w)     BY <3>7 DEF Crash
    <3>8. ASSUME NEW j \in Job, Claim(w, j) PROVE TypeOK'
      BY <3>8 DEF Claim, ClaimRow
    <3>9. ASSUME NEW j \in Job, LoseClaimAck(w, j) PROVE TypeOK'
      BY <3>9 DEF LoseClaimAck, ClaimRow
    <3>10. CASE PrepareFails(w)      BY <3>10 DEF PrepareFails, FailureOutcome
    <3>11. CASE RunBegins(w)
      <4>1. pc[w] \in Holding /\ RunRow(w)
        BY <3>11 DEF RunBegins
      <4> QED  BY <3>11, <4>1, RunRowType DEF RunBegins
    <3>12. CASE RunFindsCancel(w)
      <4>1. pc[w] \in Holding /\ RunRow(w)
        BY <3>12 DEF RunFindsCancel
      <4> QED  BY <3>12, <4>1, RunRowType DEF RunFindsCancel
    <3>13. CASE RunSuperseded(w)     BY <3>13 DEF RunSuperseded
    <3>14. CASE LoseRunAck(w)
      <4>1. pc[w] \in Holding /\ RunRow(w) /\ UNCHANGED <<process, abandoned>>
        BY <3>14 DEF LoseRunAck
      <4>2. CASE LetGo(w, "down")
        BY <4>1, <4>2, RunRowType
      <4>3. CASE /\ GoTo(w, "starting") /\ note' = [note EXCEPT ![w] = FALSE]
                 /\ UNCHANGED <<job, epoch, errors, op>>
        BY <4>1, <4>3, RunRowType
      <4> QED  BY <3>14, <4>2, <4>3 DEF LoseRunAck, Reconnect
    <3>15. CASE TaskReturns(w)       BY <3>15 DEF TaskReturns
    <3>16. CASE TaskRaises(w)        BY <3>16 DEF TaskRaises, FailureOutcome
    <3>17. CASE TaskTimesOut(w)
      BY <3>17 DEF TaskTimesOut, MayAbandonCode, FailureOutcome
    <3>18. CASE TaskCancelled(w)     BY <3>18 DEF TaskCancelled, MayAbandonCode
    <3>19. CASE FinishRefused(w)     BY <3>19 DEF FinishRefused, FailureOutcome
    <3>20. CASE TaskReschedules(w)   BY <3>20 DEF TaskReschedules
    <3>21. CASE TaskUnwinds(w)       BY <3>21 DEF TaskUnwinds
    <3>22. CASE Record(w)            BY <3>22, OutcomeRowType DEF Record
    <3>23. CASE RecordSuperseded(w)  BY <3>23 DEF RecordSuperseded
    <3>24. CASE LoseRecordAck(w)
      <4>1. pc[w] = "recording" /\ OutcomeRow(w) /\ UNCHANGED <<process, abandoned>>
        BY <3>24 DEF LoseRecordAck
      <4>2. CASE LetGo(w, "down")
        BY <4>1, <4>2, OutcomeRowType
      <4>3. CASE /\ GoTo(w, "recording") /\ note' = [note EXCEPT ![w] = FALSE]
                 /\ UNCHANGED <<job, epoch, errors, op>>
        BY <4>1, <4>3, OutcomeRowType
      <4> QED  BY <3>24, <4>2, <4>3 DEF LoseRecordAck, Reconnect
    <3>25. CASE LoseNotification(w)  BY <3>25 DEF LoseNotification
    <3> QED
      BY <2>2, <3>1, <3>2, <3>3, <3>4, <3>5, <3>6, <3>7, <3>8, <3>9, <3>10,
         <3>11, <3>12, <3>13, <3>14, <3>15, <3>16, <3>17, <3>18, <3>19, <3>20,
         <3>21, <3>22, <3>23, <3>24, <3>25 DEF Process
  <2>3. ASSUME NEW a \in abandoned, AbandonedCodeEnds(a) PROVE TypeOK'
    BY <2>3 DEF AbandonedCodeEnds
  <2>4. ASSUME NEW S \in SUBSET Job, SweepTimedOut(S) PROVE TypeOK'
    BY <2>4 DEF SweepTimedOut
  <2>5. ASSUME NEW S \in SUBSET Job, SweepDeadWorkers(S) PROVE TypeOK'
    BY <2>5 DEF SweepDeadWorkers, RequeueRows
  <2>6. ASSUME NEW S \in SUBSET Job, SweepStuckClaims(S) PROVE TypeOK'
    BY <2>6 DEF SweepStuckClaims, RequeueRows
  <2>7. ASSUME NEW w \in Worker, DeleteRetiredWorker(w) PROVE TypeOK'
    BY <2>7 DEF DeleteRetiredWorker
  <2>8. ASSUME NEW j \in Job, Enqueue(j) PROVE TypeOK'
    BY <2>8 DEF Enqueue
  <2>9. ASSUME NEW j \in Job, Cancel(j) PROVE TypeOK'
    <3>1. CASE state[j] \in PRE_CLAIM_STATES
      <4>1. state' \in [Job -> JOB_STATES \union {HISTORY_ORIGIN}] /\ UNCHANGED <<cancel_requested, note>>
        BY <2>9, <3>1 DEF Cancel
      <4> QED  BY <2>9, <4>1 DEF Cancel
    <3>2. CASE state[j] \in IN_FLIGHT_STATES
      <4>1. PICK heard : note' = [w \in Worker |-> note[w] \/ w \in heard]
        BY <2>9, <3>2 DEF Cancel, IN_FLIGHT_STATES, PRE_CLAIM_STATES
      <4>3. note' \in [Worker -> BOOLEAN]
        BY <4>1, Zenon
      <4>2. UNCHANGED state /\ cancel_requested' \in [Job -> BOOLEAN]
        BY <2>9, <3>2 DEF Cancel
      <4> QED  BY <2>9, <4>2, <4>3 DEF Cancel
    <3> QED  BY <2>9, <3>1, <3>2 DEF Cancel
  <2>10. ASSUME NEW j \in Job, NEW r \in BOOLEAN, Requeue(j, r) PROVE TypeOK'
    BY <2>10 DEF Requeue
  <2> QED
    BY <2>1, <2>2, <2>3, <2>4, <2>5, <2>6, <2>7, <2>8, <2>9, <2>10
       DEF Next, Monitor, Operator
<1> QED
  BY <1>1, <1>2, PTL DEF Spec

------------------------------------------------------------------------------
(* The fencing token.                                                       *)

\* What a step may do to a row: advance its epoch, or keep it, and then the row
\* stays in flight if it was, with the same owner, the same charge and any
\* request to cancel it.
RowStep(j) ==
    \/ run_epoch'[j] = run_epoch[j] + 1
    \/ /\ run_epoch'[j] = run_epoch[j]
       /\ state[j] \in IN_FLIGHT_STATES => state'[j] \in IN_FLIGHT_STATES
       /\ claimed_by'[j] = claimed_by[j]
       /\ error_count'[j] = error_count[j]
       /\ cancel_requested[j] => cancel_requested'[j]

\* No execution knows an epoch its row has yet to reach.
EpochsReached == \A a \in Executions : a[3] <= run_epoch[a[2]]

FenceInv == TypeOK /\ EpochsReached /\ EpochIdentifiesAttempt

LEMMA OutcomeRowStep ==
    ASSUME TypeOK, NEW w \in Worker, pc[w] = "recording", OutcomeRow(w),
           NEW j \in Job
    PROVE  RowStep(j)
<1> USE DEF TypeOK, LeaveAttempt, RowStep, Holding
<1>1. CASE Finished(job[w])  BY <1>1 DEF Finished
<1>2. CASE Crashed(job[w])   BY <1>2 DEF Crashed
<1>3. CASE Cancelled(job[w]) BY <1>3 DEF Cancelled
<1>4. CASE Retry(job[w])     BY <1>4 DEF Retry
<1> QED  BY <1>1, <1>2, <1>3, <1>4 DEF OutcomeRow

LEMMA RunRowStep ==
    ASSUME TypeOK, NEW w \in Worker, pc[w] \in Holding, RunRow(w), NEW j \in Job
    PROVE  RowStep(j)
BY DEF TypeOK, RunRow, RowStep, IN_FLIGHT_STATES

\* Every statement of the platform treats a row that way.
LEMMA EveryRowStep ==
    ASSUME TypeOK, [Next]_vars, NEW j \in Job
    PROVE  RowStep(j)
<1> USE DEF jorb
<1>1. CASE UNCHANGED jorb
  BY <1>1 DEF RowStep, TypeOK
<1>2. ASSUME NEW w \in Worker, Process(w) PROVE RowStep(j)
  <2>1. CASE \E k \in Job : Claim(w, k) \/ LoseClaimAck(w, k)
    BY <2>1 DEF Claim, LoseClaimAck, ClaimRow, RowStep, TypeOK
  <2>2. CASE RunBegins(w) \/ RunFindsCancel(w) \/ LoseRunAck(w)
    BY <2>2, RunRowStep DEF RunBegins, RunFindsCancel, LoseRunAck, Holding
  <2>3. CASE TaskReschedules(w)
    BY <2>3 DEF TaskReschedules, RowStep, TypeOK, Holding
  <2>4. CASE Record(w) \/ LoseRecordAck(w)
    BY <2>4, OutcomeRowStep DEF Record, LoseRecordAck
  <2> QED
    BY <1>1, <1>2, <2>1, <2>2, <2>3, <2>4
       DEF Process, Start, Beat, GoStale, Shutdown, Exit, GiveUp, Crash,
           PrepareFails, RunSuperseded, TaskReturns, TaskRaises, TaskTimesOut,
           TaskCancelled, FinishRefused, TaskUnwinds, RecordSuperseded,
           LoseNotification
<1>3. CASE \E a \in abandoned : AbandonedCodeEnds(a)
  BY <1>1, <1>3 DEF AbandonedCodeEnds
<1>4. CASE Monitor
  BY <1>1, <1>4 DEF Monitor, SweepTimedOut, SweepDeadWorkers, SweepStuckClaims,
                    RequeueRows, DeleteRetiredWorker, RowStep, TypeOK
<1>5. CASE Operator
  BY <1>5 DEF Operator, Enqueue, Cancel, Requeue, RowStep, TypeOK,
              IN_FLIGHT_STATES, PRE_CLAIM_STATES, TERMINAL_STATES, HISTORY_ORIGIN
<1> QED
  BY <1>1, <1>2, <1>3, <1>4, <1>5 DEF Next, vars

LEMMA ExecutionsType == TypeOK => Executions \subseteq Worker \X Job \X Nat
BY DEF TypeOK, Executions

\* A worker that lets go of its job or goes on with it adds no execution.
LEMMA NoNewExecution ==
    ASSUME TypeOK, NEW w \in Worker, NEW phase,
           \/ /\ phase \notin Holding
              /\ LetGo(w, phase)
              /\ abandoned' \subseteq abandoned
           \/ /\ pc[w] \in Holding
              /\ GoTo(w, phase)
              /\ UNCHANGED <<job, epoch>>
              /\ abandoned' \subseteq abandoned \union {<<w, job[w], epoch[w]>>}
    PROVE  Executions' \subseteq Executions
BY DEF TypeOK, Executions, LetGo, GoTo

\* Only a claim that its worker learns of does, at the epoch it gave the row.
LEMMA ExecutionsStep ==
    ASSUME TypeOK, [Next]_vars
    PROVE  \/ Executions' \subseteq Executions
           \/ \E w \in Worker, j \in Job :
                 /\ Claim(w, j)
                 /\ Executions' \subseteq Executions \union {<<w, j, run_epoch[j] + 1>>}
<1> DEFINE Adds(w, j) ==
        /\ Claim(w, j)
        /\ Executions' \subseteq Executions \union {<<w, j, run_epoch[j] + 1>>}
<1> USE DEF attempt, process
<1>1. ASSUME UNCHANGED <<pc, job, epoch>>, abandoned' \subseteq abandoned
      PROVE  Executions' \subseteq Executions
  BY <1>1 DEF Executions
<1>2. ASSUME NEW w \in Worker, Process(w)
      PROVE  Executions' \subseteq Executions \/ \E j \in Job : Adds(w, j)
  <2>1. CASE Start(w)
    BY <2>1 DEF Start, GoTo, Executions, TypeOK, Holding
  <2>2. CASE Exit(w) \/ GiveUp(w) \/ Crash(w)
    BY <2>2, NoNewExecution DEF Exit, GiveUp, Crash, Holding
  <2>3. ASSUME NEW j \in Job, Claim(w, j) PROVE Adds(w, j)
    BY <2>3 DEF Claim, ClaimRow, GoTo, Executions, TypeOK, Holding
  <2>4. CASE PrepareFails(w) \/ RunBegins(w) \/ RunFindsCancel(w)
             \/ TaskReturns(w) \/ TaskRaises(w) \/ FinishRefused(w)
    BY <2>4, NoNewExecution DEF PrepareFails, RunBegins, RunFindsCancel,
             TaskReturns, TaskRaises, FinishRefused, Resolve, Holding
  <2>5. CASE TaskTimesOut(w) \/ TaskCancelled(w)
    BY <2>5, NoNewExecution DEF TaskTimesOut, TaskCancelled, MayAbandonCode,
             Resolve, Holding
  <2>6. CASE RunSuperseded(w) \/ TaskUnwinds(w) \/ RecordSuperseded(w) \/ Record(w)
    BY <2>6, NoNewExecution DEF RunSuperseded, TaskUnwinds, RecordSuperseded,
             Record, Holding
  <2>7. CASE LoseRunAck(w) \/ LoseRecordAck(w)
    BY <2>7, NoNewExecution DEF LoseRunAck, LoseRecordAck, Reconnect, Holding
  <2>8. CASE Beat(w) \/ GoStale(w) \/ Shutdown(w)
             \/ TaskReschedules(w) \/ LoseNotification(w)
             \/ \E j \in Job : LoseClaimAck(w, j)
    <3>1. UNCHANGED <<pc, job, epoch, abandoned>>
      BY <2>8 DEF Beat, GoStale, Shutdown, LoseClaimAck, TaskReschedules, LoseNotification
    <3> QED  BY <1>1, <3>1
  <2> QED
    BY <1>2, <2>1, <2>2, <2>3, <2>4, <2>5, <2>6, <2>7, <2>8 DEF Process
<1>3. CASE \E a \in abandoned : AbandonedCodeEnds(a)
  BY <1>1, <1>3 DEF AbandonedCodeEnds
<1>4. CASE Monitor
  BY <1>1, <1>4 DEF Monitor, SweepTimedOut, SweepDeadWorkers, SweepStuckClaims,
                    DeleteRetiredWorker
<1>5. CASE Operator
  BY <1>1, <1>5 DEF Operator, Enqueue, Cancel, Requeue
<1> QED
  BY <1>1, <1>2, <1>3, <1>4, <1>5 DEF Next, vars

\* The inductive invariant.  EpochIdentifiesAttempt alone is not inductive: an
\* epoch that advances must not catch up with a token some execution already
\* holds, and that is what EpochsReached adds.
THEOREM FenceInvariant == Spec => []FenceInv
<1>1. Init => FenceInv
  <2>1. Init => TypeOK
    BY AttemptsAssumption DEF Init, TypeOK, JOB_STATES, HISTORY_ORIGIN, Phases, Holding, Outcomes
  <2>2. Init => Executions = {}
    BY DEF Init, Executions, Holding
  <2> QED  BY <2>1, <2>2 DEF FenceInv, EpochsReached, EpochIdentifiesAttempt
<1>2. FenceInv /\ TypeOK' /\ [Next]_vars => FenceInv'
  <2> SUFFICES ASSUME FenceInv, TypeOK', [Next]_vars PROVE FenceInv'
    OBVIOUS
  <2> USE DEF FenceInv
  <2>1. \A j \in Job : RowStep(j)
    BY EveryRowStep
  <2>2. /\ Executions \subseteq Worker \X Job \X Nat
        /\ Executions' \subseteq Worker \X Job \X Nat
    BY ExecutionsType DEF TypeOK, Executions
  <2>3. run_epoch \in [Job -> Nat] /\ run_epoch' \in [Job -> Nat]
    BY DEF TypeOK
  <2>4. CASE Executions' \subseteq Executions
    <3>1. EpochsReached'
      BY <2>1, <2>2, <2>3, <2>4 DEF EpochsReached, RowStep
    <3>2. EpochIdentifiesAttempt'
      <4> SUFFICES ASSUME NEW a \in Executions', run_epoch'[a[2]] = a[3]
                   PROVE  /\ state'[a[2]] \in IN_FLIGHT_STATES
                          /\ claimed_by'[a[2]] \in {a[1], None}
                          /\ \A b \in Executions' :
                                b[2] = a[2] /\ b[3] = a[3] => b[1] = a[1]
        BY DEF EpochIdentifiesAttempt
      <4>1. run_epoch[a[2]] = a[3] /\ run_epoch'[a[2]] = run_epoch[a[2]]
        BY <2>1, <2>2, <2>3, <2>4 DEF EpochsReached, RowStep
      <4> QED
        BY <2>1, <2>2, <2>3, <2>4, <4>1 DEF EpochIdentifiesAttempt, RowStep
    <3> QED  BY <3>1, <3>2
  <2>5. ASSUME NEW w \in Worker, NEW j \in Job, Claim(w, j),
               Executions' \subseteq Executions \union {<<w, j, run_epoch[j] + 1>>}
        PROVE  FenceInv'
    <3>1. /\ run_epoch' = [run_epoch EXCEPT ![j] = @ + 1]
          /\ state'[j] = "claimed"
          /\ claimed_by'[j] \in {w, None}
      BY <2>5 DEF Claim, ClaimRow, TypeOK
    <3>2. EpochsReached'
      BY <2>2, <2>3, <2>5, <3>1 DEF EpochsReached
    <3>3. EpochIdentifiesAttempt'
      <4> SUFFICES ASSUME NEW a \in Executions', run_epoch'[a[2]] = a[3]
                   PROVE  /\ state'[a[2]] \in IN_FLIGHT_STATES
                          /\ claimed_by'[a[2]] \in {a[1], None}
                          /\ \A b \in Executions' :
                                b[2] = a[2] /\ b[3] = a[3] => b[1] = a[1]
        BY DEF EpochIdentifiesAttempt
      <4>1. CASE a[2] = j
        \* no execution but the new one knows the epoch the claim just gave
        <5>1. \A b \in Executions' : b[2] = j /\ b[3] = run_epoch[j] + 1 => b[1] = w
          BY <2>2, <2>3, <2>5 DEF EpochsReached
        <5> QED
          BY <2>2, <2>3, <3>1, <4>1, <5>1 DEF IN_FLIGHT_STATES
      <4>2. CASE a[2] # j
        <5>1. a \in Executions /\ run_epoch[a[2]] = a[3] /\ run_epoch'[a[2]] = run_epoch[a[2]]
          BY <2>2, <2>3, <2>5, <3>1, <4>2
        <5> QED
          BY <2>1, <2>2, <2>3, <2>5, <4>2, <5>1 DEF EpochIdentifiesAttempt, RowStep
      <4> QED  BY <4>1, <4>2
    <3> QED  BY <3>2, <3>3
  <2> QED  BY <2>4, <2>5, ExecutionsStep
<1> QED
  BY <1>1, <1>2, TypeCorrect, PTL DEF Spec

\* The run epoch identifies the attempt: whoever can still pass a fence on a
\* row's epoch runs in the one worker that claimed the row last, and the row is
\* in flight (the fences of pj.py's statements and of dxe.py's durable writes).
THEOREM FencingToken == Spec => []EpochIdentifiesAttempt
<1>1. FenceInv => EpochIdentifiesAttempt
  BY DEF FenceInv
<1> QED
  BY <1>1, FenceInvariant, PTL

------------------------------------------------------------------------------
(* The row as a lock.                                                       *)

\* The executions that every fence on row j lets write, and their worker.
Passing(j) == {a \in Executions : a[2] = j /\ a[3] = run_epoch[j]}
HolderOf(j) == IF Passing(j) = {} THEN None ELSE (CHOOSE a \in Passing(j) : TRUE)[1]

Row(j) == INSTANCE FencedRow WITH holder <- HolderOf(j), token <- run_epoch[j]

LEMMA TheHolder ==
    ASSUME FenceInv, NEW j \in Job
    PROVE  /\ HolderOf(j) \in Worker \union {None}
           /\ HolderOf(j) = None <=> Passing(j) = {}
           /\ \A a \in Passing(j) : HolderOf(j) = a[1]
<1>1. Passing(j) \subseteq Worker \X Job \X Nat
  BY ExecutionsType DEF FenceInv, Passing
<1>2. \A a \in Passing(j) : a[1] \in Worker /\ a[1] # None
  BY <1>1, AttemptsAssumption
<1>3. \A a, b \in Passing(j) : b[1] = a[1]
  BY DEF FenceInv, EpochIdentifiesAttempt, Passing
<1>4. CASE Passing(j) = {}
  BY <1>4 DEF HolderOf
<1>5. CASE Passing(j) # {}
  <2> DEFINE c == CHOOSE a \in Passing(j) : TRUE
  <2>1. c \in Passing(j)
    BY <1>5
  <2>2. HolderOf(j) = c[1]
    BY <1>5 DEF HolderOf
  <2> HIDE DEF c
  <2> QED  BY <1>2, <1>3, <1>5, <2>1, <2>2
<1> QED  BY <1>4, <1>5

LEMMA TheNextHolder ==
    ASSUME FenceInv', NEW j \in Job
    PROVE  /\ HolderOf(j)' \in Worker \union {None}
           /\ HolderOf(j)' = None <=> Passing(j)' = {}
           /\ \A a \in Passing(j)' : HolderOf(j)' = a[1]
<1>1. Passing(j)' \subseteq Worker \X Job \X Nat
  <2>1. Executions' \subseteq Worker \X Job \X Nat
    BY DEF FenceInv, TypeOK, Executions
  <2> QED  BY <2>1 DEF Passing
<1>2. \A a \in Passing(j)' : a[1] \in Worker /\ a[1] # None
  BY <1>1, AttemptsAssumption
<1>3. \A a, b \in Passing(j)' : b[1] = a[1]
  BY DEF FenceInv, EpochIdentifiesAttempt, Passing
<1>4. CASE Passing(j)' = {}
  BY <1>4 DEF HolderOf
<1>5. CASE Passing(j)' # {}
  <2> DEFINE c == CHOOSE a \in Passing(j)' : TRUE
  <2>1. c \in Passing(j)'
    BY <1>5
  <2>2. HolderOf(j)' = c[1]
    BY <1>5 DEF HolderOf
  <2> HIDE DEF c
  <2> QED  BY <1>2, <1>3, <1>5, <2>1, <2>2
<1> QED  BY <1>4, <1>5

\* A step that adds no execution of row j leaves it with its holder or with none,
\* and one that advances the epoch with none.
LEMMA HolderStep ==
    ASSUME FenceInv, FenceInv', [Next]_vars, NEW j \in Job,
           \A a \in Executions' : a[2] = j => a \in Executions
    PROVE  [Row(j)!Next]_<<HolderOf(j), run_epoch[j]>>
<1>1. RowStep(j)
  BY EveryRowStep DEF FenceInv
<1>2. run_epoch[j] \in Nat /\ run_epoch'[j] \in {run_epoch[j], run_epoch[j] + 1}
  BY <1>1 DEF FenceInv, TypeOK, RowStep
<1>3. CASE run_epoch'[j] = run_epoch[j]
  <2>1. Passing(j)' \subseteq Passing(j)
    BY <1>3 DEF Passing
  <2>2. HolderOf(j)' = HolderOf(j) \/ HolderOf(j)' = None
    BY <2>1, TheHolder, TheNextHolder
  <2> QED  BY <1>3, <2>2 DEF Row!Next, Row!Lose
<1>4. CASE run_epoch'[j] = run_epoch[j] + 1
  <2>1. Executions \subseteq Worker \X Job \X Nat
    BY ExecutionsType DEF FenceInv
  <2>2. Passing(j)' = {}
    BY <1>2, <1>4, <2>1 DEF FenceInv, EpochsReached, Passing
  <2>3. HolderOf(j)' = None
    BY <2>2, TheNextHolder
  <2> QED  BY <1>4, <2>3 DEF Row!Next, Row!Lose, Row!Advance
<1> QED  BY <1>2, <1>3, <1>4

\* For every row, run_epoch is a lock with a fencing token.
THEOREM RowIsFenced ==
    ASSUME NEW j \in Job
    PROVE  Spec => Row(j)!Spec
<1>1. Init => Row(j)!Init
  <2> SUFFICES ASSUME Init PROVE Row(j)!Init
    OBVIOUS
  <2>1. Executions = {}
    BY DEF Init, Executions, Holding
  <2> QED  BY <2>1 DEF Init, Row!Init, HolderOf, Passing
<1>2. FenceInv /\ FenceInv' /\ [Next]_vars => [Row(j)!Next]_<<HolderOf(j), run_epoch[j]>>
  <2> SUFFICES ASSUME FenceInv, FenceInv', [Next]_vars
               PROVE  [Row(j)!Next]_<<HolderOf(j), run_epoch[j]>>
    OBVIOUS
  <2>1. CASE Executions' \subseteq Executions
    BY <2>1, HolderStep
  <2>2. ASSUME NEW w \in Worker, NEW k \in Job, Claim(w, k),
               Executions' \subseteq Executions \union {<<w, k, run_epoch[k] + 1>>}
        PROVE  [Row(j)!Next]_<<HolderOf(j), run_epoch[j]>>
    <3>1. CASE k # j
      BY <2>2, <3>1, HolderStep
    <3>2. CASE k = j
      <4>1. Passing(j) = {}
        BY <2>2, <3>2 DEF Claim, ClaimRow, FenceInv, EpochIdentifiesAttempt, Passing,
                          IN_FLIGHT_STATES
      <4>2. run_epoch'[j] = run_epoch[j] + 1
        BY <2>2, <3>2 DEF Claim, ClaimRow, FenceInv, TypeOK
      <4>3. <<w, j, run_epoch'[j]>> \in Passing(j)'
        BY <2>2, <3>2, <4>2 DEF Claim, GoTo, FenceInv, TypeOK, Passing, Executions, Holding
      <4>4. HolderOf(j) = None /\ HolderOf(j)' = w
        BY <4>1, <4>3, TheHolder, TheNextHolder
      <4> QED  BY <4>2, <4>4 DEF Row!Next, Row!Take
    <3> QED  BY <3>1, <3>2
  <2> QED  BY <2>1, <2>2, ExecutionsStep DEF FenceInv
<1> QED  BY <1>1, <1>2, FenceInvariant, PTL DEF Spec, Row!Spec

Lock(j) == INSTANCE RowLock WITH holder <- HolderOf(j)

\* So a row passes from one worker to another only through nobody: what a module
\* that keeps an owner in place of the epoch may assume.
THEOREM RowIsALock ==
    ASSUME NEW j \in Job
    PROVE  Spec => Lock(j)!Spec
<1>1. Row(j)!Init => Lock(j)!Init
  BY DEF Row!Init, Lock!Init
<1>2. [Row(j)!Next]_<<HolderOf(j), run_epoch[j]>> => [Lock(j)!Next]_(HolderOf(j))
  BY DEF Row!Next, Row!Take, Row!Lose, Row!Advance, Lock!Next, Lock!Take, Lock!Lose
<1> QED  BY <1>1, <1>2, RowIsFenced, PTL DEF Row!Spec, Lock!Spec

------------------------------------------------------------------------------
(* Who may end an attempt, and with what.                                   *)

\* The ways a row is charged with a failure or ends: the outcome statement of
\* the worker on it, the timeout sweep, or an operator who cancels it unclaimed.
RowDecision(j) ==
    \/ \E w \in Worker : pc[w] = "recording" /\ job[w] = j /\ OutcomeRow(w)
    \/ \E S \in SUBSET Job : j \in S /\ SweepTimedOut(S)
    \/ /\ error_count'[j] <= error_count[j]
       /\ \/ state'[j] \in {state[j]} \union LIVE_STATES
          \/ state[j] \in PRE_CLAIM_STATES /\ state'[j] = "cancelled"

LEMMA EveryRowDecision ==
    ASSUME TypeOK, [Next]_vars, NEW j \in Job
    PROVE  RowDecision(j)
<1> USE DEF jorb, LIVE_STATES, PRE_CLAIM_STATES, IN_FLIGHT_STATES
<1>1. ASSUME UNCHANGED <<state, error_count>> PROVE RowDecision(j)
  BY <1>1 DEF RowDecision, TypeOK
<1>2. ASSUME NEW w \in Worker, Process(w) PROVE RowDecision(j)
  <2>1. CASE \E k \in Job : Claim(w, k) \/ LoseClaimAck(w, k)
    BY <2>1 DEF Claim, LoseClaimAck, ClaimRow, RowDecision, TypeOK
  <2>2. CASE RunBegins(w) \/ RunFindsCancel(w) \/ LoseRunAck(w)
    <3>1. RunRow(w) /\ job[w] \in Job
      BY <2>2 DEF RunBegins, RunFindsCancel, LoseRunAck, TypeOK, Holding
    <3> QED  BY <3>1 DEF RunRow, RowDecision, TypeOK
  <2>3. CASE TaskReschedules(w)
    BY <2>3 DEF TaskReschedules, RowDecision, TypeOK, Holding
  <2>4. CASE Record(w) \/ LoseRecordAck(w)
    <3>1. pc[w] = "recording" /\ OutcomeRow(w) /\ job[w] \in Job
      BY <2>4 DEF Record, LoseRecordAck, TypeOK, Holding
    <3>2. CASE job[w] = j  BY <3>1, <3>2 DEF RowDecision
    <3>3. CASE job[w] # j
      <4>1. state'[j] = state[j] /\ error_count'[j] = error_count[j]
        BY <3>1, <3>3 DEF OutcomeRow, Finished, Crashed, Cancelled, Retry,
                          LeaveAttempt, TypeOK
      <4> QED  BY <4>1 DEF RowDecision, TypeOK
    <3> QED  BY <3>2, <3>3
  <2>5. CASE Start(w) \/ Beat(w) \/ GoStale(w) \/ Shutdown(w) \/ Exit(w)
             \/ GiveUp(w) \/ Crash(w) \/ LoseNotification(w)
    BY <1>1, <2>5 DEF Start, Beat, GoStale, Shutdown, Exit, GiveUp, Crash,
                      LoseNotification
  <2>6. CASE PrepareFails(w) \/ RunSuperseded(w) \/ TaskReturns(w)
             \/ TaskRaises(w) \/ TaskTimesOut(w) \/ TaskCancelled(w)
             \/ FinishRefused(w) \/ TaskUnwinds(w) \/ RecordSuperseded(w)
    BY <1>1, <2>6 DEF PrepareFails, RunSuperseded, TaskReturns, TaskRaises,
                      TaskTimesOut, TaskCancelled, FinishRefused,
                      TaskUnwinds, RecordSuperseded
  <2> QED  BY <1>2, <2>1, <2>2, <2>3, <2>4, <2>5, <2>6 DEF Process
<1>3. CASE \E a \in abandoned : AbandonedCodeEnds(a)
  BY <1>1, <1>3 DEF AbandonedCodeEnds
<1>4. ASSUME NEW S \in SUBSET Job, SweepTimedOut(S) PROVE RowDecision(j)
  <2>1. CASE j \in S  BY <1>4, <2>1 DEF RowDecision
  <2>2. CASE j \notin S
    BY <1>4, <2>2 DEF SweepTimedOut, RowDecision, TypeOK
  <2> QED  BY <2>1, <2>2
<1>5. ASSUME NEW S \in SUBSET Job, SweepDeadWorkers(S) \/ SweepStuckClaims(S)
      PROVE  RowDecision(j)
  BY <1>5 DEF SweepDeadWorkers, SweepStuckClaims, RequeueRows, RowDecision, TypeOK
<1>6. CASE \E w \in Worker : DeleteRetiredWorker(w)
  BY <1>1, <1>6 DEF DeleteRetiredWorker
<1>7. CASE Operator
  BY <1>7 DEF Operator, Enqueue, Cancel, Requeue, RowDecision, TypeOK
<1>8. CASE UNCHANGED vars
  BY <1>1, <1>8 DEF vars
<1> QED
  BY <1>2, <1>3, <1>4, <1>5, <1>6, <1>7, <1>8 DEF Next, Monitor

\* An execution that is a worker's is one of Executions.
LEMMA CurrentOwner ==
    ASSUME FenceInv, NEW w \in Worker, Current(w)
    PROVE  claimed_by[job[w]] \in {w, None} /\ state[job[w]] \in IN_FLIGHT_STATES
BY DEF FenceInv, EpochIdentifiesAttempt, Executions, Current

\* However late and however often an outcome is reported, it is the latest
\* claimant's (or the timeout sweep's) that ends or charges the attempt.
THEOREM OutcomeIsTheOwners == Spec => LatestClaimDecides
<1> DEFINE Decided(j) ==
        \/ \E w \in Worker : /\ pc[w] = "recording" /\ job[w] = j /\ Current(w)
                             /\ claimed_by[j] \in {w, None}
        \/ /\ state[j] = "running" /\ timeout_at[j]
           /\ state'[j] # "finished" /\ error_count'[j] = error_count[j] + 1
<1> DEFINE Rule == \A j \in Job :
        (state[j] # "finished" /\ state'[j] = "finished")
            \/ error_count'[j] > error_count[j] => Decided(j)
<1>1. FenceInv /\ TypeOK' /\ [Next]_vars => [Rule]_vars
  <2> SUFFICES ASSUME FenceInv, TypeOK', [Next]_vars, NEW j \in Job,
                      \/ state[j] # "finished" /\ state'[j] = "finished"
                      \/ error_count'[j] > error_count[j]
               PROVE  Decided(j)
    OBVIOUS
  <2>1. RowDecision(j)
    BY EveryRowDecision DEF FenceInv
  <2>2. ASSUME NEW w \in Worker, pc[w] = "recording", job[w] = j, OutcomeRow(w)
        PROVE  Decided(j)
    <3>1. Current(w)
      BY <2>2 DEF OutcomeRow, Fence, Current, Holding
    <3> QED  BY <2>2, <3>1, CurrentOwner
  <2>3. ASSUME NEW S \in SUBSET Job, j \in S, SweepTimedOut(S)
        PROVE  Decided(j)
    BY <2>3 DEF SweepTimedOut, FenceInv, TypeOK
  <2>4. CASE /\ error_count'[j] <= error_count[j]
             /\ \/ state'[j] \in {state[j]} \union LIVE_STATES
                \/ state[j] \in PRE_CLAIM_STATES /\ state'[j] = "cancelled"
    BY <2>4 DEF FenceInv, TypeOK, LIVE_STATES, PRE_CLAIM_STATES, IN_FLIGHT_STATES
  <2> QED  BY <2>1, <2>2, <2>3, <2>4 DEF RowDecision
<1> QED
  BY <1>1, FenceInvariant, TypeCorrect, PTL DEF Spec, LatestClaimDecides

------------------------------------------------------------------------------
(* What a worker remembers of its attempt.                                  *)

\* What a step may do to worker w's copy of its attempt.
Unchanged(w) ==
    /\ pc'[w] = pc[w] /\ job'[w] = job[w] /\ epoch'[w] = epoch[w]
    /\ errors'[w] = errors[w] /\ op'[w] = op[w]
    /\ note'[w] => \/ note[w]
                   \/ pc[w] = "executing" /\ cancel_requested'[job[w]]

Released(w) == pc'[w] \notin Holding /\ (note'[w] => note[w] /\ pc[w] \notin Holding)

Advanced(w) ==
    /\ pc[w] \in Holding
    /\ job'[w] = job[w] /\ epoch'[w] = epoch[w] /\ errors'[w] = errors[w]
    /\ \/ pc'[w] = "starting" /\ ~note'[w]
       \/ pc'[w] = "executing" /\ note'[w] = note[w]
       \/ pc'[w] = "recording" /\ ~note'[w] /\ pc[w] = "recording" /\ op'[w] = op[w]
       \/ /\ pc'[w] = "recording" /\ ~note'[w]
          /\ op'[w] = "retry" => errors[w] + 1 < MaxRetries
          /\ op'[w] = "cancelled" => note[w] \/ cancel_requested[job[w]]

WorkerStep(w) == \/ Unchanged(w) \/ Released(w) \/ Advanced(w)
                 \/ \E j \in Job : Claim(w, j)

LEMMA EveryWorkerStep ==
    ASSUME TypeOK, [Next]_vars, NEW w \in Worker
    PROVE  WorkerStep(w)
<1> USE DEF attempt
<1>1. ASSUME UNCHANGED <<pc, attempt>> PROVE WorkerStep(w)
  BY <1>1 DEF WorkerStep, Unchanged
<1>2. ASSUME NEW v \in Worker, Process(v) PROVE WorkerStep(w)
  <2> USE DEF GoTo, LetGo, Resolve, TypeOK, Holding
  <2>1. CASE Beat(v) \/ GoStale(v) \/ Shutdown(v) \/ TaskReschedules(v)
             \/ \E j \in Job : LoseClaimAck(v, j)
    BY <1>1, <2>1 DEF Beat, GoStale, Shutdown, TaskReschedules, LoseClaimAck
  <2>2. CASE LoseNotification(v)
    BY <2>2 DEF LoseNotification, WorkerStep, Unchanged
  <2>3. CASE Start(v)
    BY <2>3 DEF Start, WorkerStep, Unchanged, Released
  <2>4. CASE \/ LetGo(v, "down") \/ LetGo(v, "idle")
    BY <2>4 DEF WorkerStep, Unchanged, Released
  <2>5. CASE \E j \in Job : Claim(v, j)
    <3>1. CASE v = w  BY <2>5, <3>1 DEF WorkerStep
    <3>2. CASE v # w
      <4>1. Unchanged(w)  BY <2>5, <3>2 DEF Claim, Unchanged
      <4> QED  BY <4>1 DEF WorkerStep
    <3> QED  BY <3>1, <3>2
  <2>6. CASE RunBegins(v)
    BY <2>6 DEF RunBegins, WorkerStep, Unchanged, Advanced
  <2>7. CASE PrepareFails(v) \/ TaskRaises(v) \/ FinishRefused(v)
    BY <2>7, AttemptsAssumption
       DEF PrepareFails, TaskRaises, FinishRefused, FailureOutcome, WorkerStep, Unchanged, Advanced
  <2>8. CASE TaskTimesOut(v)
    <3>1. FailureOutcome(v, TRUE) = "retry" => errors[v] + 1 < MaxRetries
      BY DEF FailureOutcome
    <3>2. FailureOutcome(v, TRUE) # "cancelled"
      BY DEF FailureOutcome
    <3> QED  BY <2>8, <3>1, <3>2 DEF TaskTimesOut, WorkerStep, Unchanged, Advanced
  <2>9. CASE RunFindsCancel(v)
    BY <2>9 DEF RunFindsCancel, WorkerStep, Unchanged, Advanced
  <2>10. CASE TaskReturns(v) \/ TaskCancelled(v)
    BY <2>10 DEF TaskReturns, TaskCancelled, WorkerStep, Unchanged, Advanced
  <2>11. CASE LoseRunAck(v)
    BY <2>4, <2>11 DEF LoseRunAck, Reconnect, WorkerStep, Unchanged, Advanced
  <2>12. CASE LoseRecordAck(v)
    BY <2>4, <2>12 DEF LoseRecordAck, Reconnect, WorkerStep, Unchanged, Advanced
  <2>13. CASE Exit(v) \/ GiveUp(v) \/ Crash(v) \/ RunSuperseded(v)
              \/ TaskUnwinds(v) \/ Record(v) \/ RecordSuperseded(v)
    BY <2>4, <2>13 DEF Exit, GiveUp, Crash, RunSuperseded, TaskUnwinds, Record,
                       RecordSuperseded
  <2> QED
    BY <1>2, <2>1, <2>2, <2>3, <2>5, <2>6, <2>7, <2>8, <2>9, <2>10, <2>11,
       <2>12, <2>13 DEF Process
<1>3. CASE \E a \in abandoned : AbandonedCodeEnds(a)
  BY <1>1, <1>3 DEF AbandonedCodeEnds
<1>4. CASE Monitor
  BY <1>1, <1>4 DEF Monitor, SweepTimedOut, SweepDeadWorkers, SweepStuckClaims,
                    DeleteRetiredWorker
<1>5. ASSUME NEW j \in Job, Cancel(j) PROVE WorkerStep(w)
  BY <1>5 DEF Cancel, WorkerStep, Unchanged, TypeOK, PRE_CLAIM_STATES,
              IN_FLIGHT_STATES
<1>6. CASE \E j \in Job : Enqueue(j) \/ \E r \in BOOLEAN : Requeue(j, r)
  BY <1>1, <1>6 DEF Enqueue, Requeue
<1>7. CASE UNCHANGED vars
  BY <1>1, <1>7 DEF vars
<1> QED
  BY <1>2, <1>3, <1>4, <1>5, <1>6, <1>7 DEF Next, Operator

\* The charge a worker claimed with is still the row's while the attempt is
\* current, and only a failure that leaves an attempt over becomes a retry.
ChargeKnown ==
    \A w \in Worker :
        /\ Current(w) => errors[w] = error_count[job[w]]
        /\ pc[w] = "recording" /\ op[w] = "retry" => errors[w] + 1 < MaxRetries

\* A notification waits only for an executing task; one that waits, or that
\* ended the attempt, goes with a request that stands on the current row.
RequestKnown ==
    \A w \in Worker :
        /\ note[w] => pc[w] = "executing"
        /\ Current(w) /\ (note[w] \/ (pc[w] = "recording" /\ op[w] = "cancelled"))
               => cancel_requested[job[w]]

AttemptInv == FenceInv /\ ChargeKnown /\ RequestKnown

\* What an execution knows of its attempt stays true while it holds the epoch:
\* the error_count _handle_failure decides on is the row's, and a jorb_cancel
\* notification in its connection was requested of this very attempt.
THEOREM AttemptInvariant == Spec => []AttemptInv
<1>1. Init => ChargeKnown /\ RequestKnown
  BY DEF Init, ChargeKnown, RequestKnown, Current, Holding
<1>2. AttemptInv /\ FenceInv' /\ [Next]_vars => (ChargeKnown /\ RequestKnown)'
  <2> SUFFICES ASSUME AttemptInv, FenceInv', [Next]_vars, NEW w \in Worker
               PROVE  /\ Current(w)' => errors'[w] = error_count'[job'[w]]
                      /\ pc'[w] = "recording" /\ op'[w] = "retry"
                            => errors'[w] + 1 < MaxRetries
                      /\ note'[w] => pc'[w] = "executing"
                      /\ Current(w)' /\ (note'[w] \/ (pc'[w] = "recording" /\ op'[w] = "cancelled"))
                            => cancel_requested'[job'[w]]
    BY DEF ChargeKnown, RequestKnown
  <2> USE DEF AttemptInv, FenceInv, ChargeKnown, RequestKnown
  <2>1. WorkerStep(w)
    BY EveryWorkerStep
  <2>2. /\ run_epoch \in [Job -> Nat] /\ run_epoch' \in [Job -> Nat]
        /\ epoch[w] \in Nat
        /\ pc[w] \in Holding => job[w] \in Job
    BY DEF TypeOK
  <2>3. ASSUME pc[w] \in Holding, job'[w] = job[w], epoch'[w] = epoch[w], Current(w)'
        PROVE  /\ Current(w)
               /\ error_count'[job[w]] = error_count[job[w]]
               /\ cancel_requested[job[w]] => cancel_requested'[job[w]]
    <3>1. RowStep(job[w])
      BY <2>2, <2>3, EveryRowStep
    <3>2. epoch[w] <= run_epoch[job[w]]
      <4> DEFINE a == <<w, job[w], epoch[w]>>
      <4>1. a \in Executions
        BY <2>3 DEF Executions
      <4>2. a[3] <= run_epoch[a[2]]
        BY <4>1 DEF EpochsReached
      <4> QED  BY <4>2
    <3> QED  BY <2>2, <2>3, <3>1, <3>2 DEF RowStep, Current
  <2>4. CASE Unchanged(w)
    BY <2>3, <2>4 DEF Unchanged, Current, Holding
  <2>5. CASE Released(w)
    BY <2>5 DEF Released, Current, Holding
  <2>6. CASE Advanced(w)
    BY <2>3, <2>6 DEF Advanced, Current, Holding
  <2>7. ASSUME NEW j \in Job, Claim(w, j)
        PROVE  /\ pc'[w] = "claimed" /\ ~note'[w]
               /\ errors'[w] = error_count'[job'[w]]
    BY <2>7 DEF Claim, ClaimRow, GoTo, TypeOK
  <2> QED  BY <2>1, <2>4, <2>5, <2>6, <2>7 DEF WorkerStep
<1> QED
  BY <1>1, <1>2, FenceInvariant, PTL DEF Spec, AttemptInv

\* The failure path decides on the error_count it claimed with, possibly long
\* ago; a requeued failure leaves the row within its budget all the same.
THEOREM RetriesStayInBudget == Spec => RetryWithinBudget
<1> DEFINE Rule == \A j \in Job :
        state'[j] = "queued" /\ error_count'[j] > error_count[j]
            => error_count'[j] < MaxRetries
<1>1. AttemptInv /\ TypeOK' /\ [Next]_vars => [Rule]_vars
  <2> SUFFICES ASSUME AttemptInv, TypeOK', [Next]_vars, NEW j \in Job,
                      state'[j] = "queued", error_count'[j] > error_count[j]
               PROVE  error_count'[j] < MaxRetries
    OBVIOUS
  <2> USE DEF AttemptInv, FenceInv
  <2>1. error_count \in [Job -> Nat] /\ error_count' \in [Job -> Nat] /\ state \in [Job -> JOB_STATES \union {HISTORY_ORIGIN}]
    BY DEF TypeOK
  <2>2. ASSUME NEW w \in Worker, pc[w] = "recording", job[w] = j, OutcomeRow(w)
        PROVE  error_count'[j] < MaxRetries
    <3>1. Current(w)
      BY <2>2 DEF OutcomeRow, Fence, Current, Holding
    <3>2. CASE op[w] = "retry"
      BY <2>1, <2>2, <3>1, <3>2 DEF OutcomeRow, Retry, ChargeKnown
    <3>3. CASE op[w] # "retry"
      <4>1. state'[j] # "queued" \/ error_count'[j] = error_count[j]
        BY <2>1, <2>2, <3>3 DEF OutcomeRow, Finished, Crashed, Cancelled, LeaveAttempt
      <4> QED  BY <2>1, <4>1
    <3> QED  BY <3>2, <3>3
  <2>3. ASSUME NEW S \in SUBSET Job, j \in S, SweepTimedOut(S)
        PROVE  error_count'[j] < MaxRetries
    BY <2>1, <2>3 DEF SweepTimedOut
  <2> QED
    BY <2>1, <2>2, <2>3, EveryRowDecision DEF RowDecision
<1> QED
  BY <1>1, AttemptInvariant, TypeCorrect, PTL DEF Spec, RetryWithinBudget

\* A notification names a job, not an attempt; no attempt is ever cancelled by
\* one that was meant for an earlier attempt of the same job.
THEOREM CancellationIsRequested == Spec => CancelledOnRequest
<1> DEFINE Rule == \A j \in Job :
        state[j] \in IN_FLIGHT_STATES /\ state'[j] = "cancelled" => cancel_requested[j]
<1>1. AttemptInv /\ [Next]_vars => [Rule]_vars
  <2> SUFFICES ASSUME AttemptInv, [Next]_vars, NEW j \in Job,
                      state[j] \in IN_FLIGHT_STATES, state'[j] = "cancelled"
               PROVE  cancel_requested[j]
    OBVIOUS
  <2> USE DEF AttemptInv, FenceInv, IN_FLIGHT_STATES, PRE_CLAIM_STATES, LIVE_STATES
  <2>1. ASSUME NEW w \in Worker, pc[w] = "recording", job[w] = j, OutcomeRow(w)
        PROVE  cancel_requested[j]
    <3>1. Current(w)
      BY <2>1 DEF OutcomeRow, Fence, Current, Holding
    <3>2. op[w] = "cancelled"
      BY <2>1 DEF OutcomeRow, Finished, Crashed, Retry, LeaveAttempt, TypeOK
    <3> QED  BY <2>1, <3>1, <3>2 DEF RequestKnown
  <2>2. ASSUME NEW S \in SUBSET Job, j \in S, SweepTimedOut(S)
        PROVE  FALSE
    BY <2>2 DEF SweepTimedOut
  <2> QED
    BY <2>1, <2>2, EveryRowDecision DEF RowDecision
<1> QED
  BY <1>1, AttemptInvariant, PTL DEF Spec, CancelledOnRequest

------------------------------------------------------------------------------
(* The lifecycle.                                                           *)

\* Row j keeps its state or moves along an edge.
LegalStep(j) == state'[j] = state[j] \/ Abstract!is_legal(state[j], state'[j])

\* The edges the statements of this module take, by the guard each one has.
LEMMA Edges ==
    /\ \A s \in IN_FLIGHT_STATES : \A t \in TERMINAL_STATES \union {"queued"} :
          Abstract!is_legal(s, t)
    /\ \A s \in IN_FLIGHT_STATES : Abstract!is_legal(s, "running")
    /\ \A s \in TERMINAL_STATES : Abstract!is_legal(s, "queued")
    /\ \A s \in PRE_CLAIM_STATES : Abstract!is_legal(s, "cancelled")
    /\ Abstract!is_legal("queued", "claimed")
    /\ Abstract!is_legal(HISTORY_ORIGIN, "queued")
BY DEF IN_FLIGHT_STATES, TERMINAL_STATES, PRE_CLAIM_STATES, HISTORY_ORIGIN,
       Abstract!is_legal, Abstract!LEGAL_TRANSITIONS

LEMMA EveryStepLegal ==
    ASSUME TypeOK, [Next]_vars, NEW j \in Job
    PROVE  LegalStep(j)
<1> USE DEF jorb
<1>1. ASSUME UNCHANGED state PROVE LegalStep(j)
  BY <1>1 DEF LegalStep
<1>2. ASSUME NEW w \in Worker, Process(w) PROVE LegalStep(j)
  <2>1. CASE \E k \in Job : Claim(w, k) \/ LoseClaimAck(w, k)
    BY <2>1, Edges DEF Claim, LoseClaimAck, ClaimRow, LegalStep, TypeOK
  <2>2. CASE RunBegins(w) \/ RunFindsCancel(w) \/ LoseRunAck(w)
    <3>1. RunRow(w)
      BY <2>2 DEF RunBegins, RunFindsCancel, LoseRunAck
    <3> QED  BY <3>1, Edges DEF RunRow, Fence, LegalStep, TypeOK
  <2>3. CASE TaskReschedules(w)
    BY <2>3, Edges DEF TaskReschedules, Fence, LegalStep, TypeOK
  <2>4. CASE Record(w) \/ LoseRecordAck(w)
    <3>1. OutcomeRow(w)
      BY <2>4 DEF Record, LoseRecordAck
    <3>2. \E t \in TERMINAL_STATES \union {"queued"} :
             state' = [state EXCEPT ![job[w]] = t]
      BY <3>1 DEF OutcomeRow, Finished, Crashed, Cancelled, Retry, LeaveAttempt,
                  TERMINAL_STATES
    <3> QED  BY <3>1, <3>2, Edges DEF OutcomeRow, Fence, LegalStep, TypeOK
  <2>5. CASE Start(w) \/ Beat(w) \/ GoStale(w) \/ Shutdown(w) \/ Exit(w)
             \/ GiveUp(w) \/ Crash(w) \/ LoseNotification(w)
    BY <1>1, <2>5 DEF Start, Beat, GoStale, Shutdown, Exit, GiveUp, Crash,
                      LoseNotification
  <2>6. CASE PrepareFails(w) \/ RunSuperseded(w) \/ TaskReturns(w)
             \/ TaskRaises(w) \/ TaskTimesOut(w) \/ TaskCancelled(w)
             \/ FinishRefused(w) \/ TaskUnwinds(w) \/ RecordSuperseded(w)
    BY <1>1, <2>6 DEF PrepareFails, RunSuperseded, TaskReturns, TaskRaises,
                      TaskTimesOut, TaskCancelled, FinishRefused,
                      TaskUnwinds, RecordSuperseded
  <2> QED  BY <1>2, <2>1, <2>2, <2>3, <2>4, <2>5, <2>6 DEF Process
<1>3. CASE \E a \in abandoned : AbandonedCodeEnds(a)
  BY <1>1, <1>3 DEF AbandonedCodeEnds
<1>4. ASSUME NEW S \in SUBSET Job, SweepTimedOut(S) PROVE LegalStep(j)
  BY <1>4, Edges DEF SweepTimedOut, LegalStep, TypeOK, IN_FLIGHT_STATES, TERMINAL_STATES
<1>5. ASSUME NEW S \in SUBSET Job, SweepDeadWorkers(S) \/ SweepStuckClaims(S)
      PROVE  LegalStep(j)
  BY <1>5, Edges DEF SweepDeadWorkers, SweepStuckClaims, DeadWorkerJob, RequeueRows,
                     LegalStep, TypeOK, IN_FLIGHT_STATES
<1>6. CASE \E w \in Worker : DeleteRetiredWorker(w)
  BY <1>1, <1>6 DEF DeleteRetiredWorker
<1>7. CASE Operator
  BY <1>7, Edges DEF Operator, Enqueue, Cancel, Requeue, LegalStep, TypeOK
<1>8. CASE UNCHANGED vars
  BY <1>1, <1>8 DEF vars
<1> QED
  BY <1>2, <1>3, <1>4, <1>5, <1>6, <1>7, <1>8 DEF Next, Monitor

\* The attempt protocol implements the lifecycle lifecycle.py declares: its
\* initial rows are the abstract ones and each of its steps is one of theirs.
THEOREM LifecycleImplemented == Spec => ImplementsLifecycle
<1>1. Init => Abstract!Init
  BY DEF Init, Abstract!Init, HISTORY_ORIGIN, Abstract!HISTORY_ORIGIN
<1>2. TypeOK /\ TypeOK' /\ [Next]_vars => [Abstract!Move]_state
  <2> SUFFICES ASSUME TypeOK, TypeOK', [Next]_vars PROVE Abstract!Move
    OBVIOUS
  <2>1. state' \in [Job -> Abstract!JOB_STATES \union {Abstract!HISTORY_ORIGIN}]
    BY DEF TypeOK, JOB_STATES, LIVE_STATES, PRE_CLAIM_STATES, IN_FLIGHT_STATES,
           TERMINAL_STATES, HISTORY_ORIGIN, Abstract!JOB_STATES,
           Abstract!LIVE_STATES, Abstract!PRE_CLAIM_STATES,
           Abstract!IN_FLIGHT_STATES, Abstract!TERMINAL_STATES,
           Abstract!HISTORY_ORIGIN
  <2> QED
    BY <2>1, EveryStepLegal DEF Abstract!Move, LegalStep
<1> QED
  BY <1>1, <1>2, TypeCorrect, PTL DEF Spec, ImplementsLifecycle, Abstract!Spec

------------------------------------------------------------------------------
(* Recovery.                                                                *)

\* Somebody can still end the attempt row j is in.
InReach(j) ==
    \/ \E w \in Worker : Current(w) /\ job[w] = j
    \/ state[j] = "claimed"
    \/ timeout_at[j]
    \/ claimed_by[j] = None
    \/ /\ pc[claimed_by[j]] = "down" \/ stopping[claimed_by[j]]
       /\ registry[claimed_by[j]] \in {"fresh", "stale"}

\* A claim names only registered workers, and only a process that is gone loses
\* its registry row.
RegistryKnown ==
    /\ \A w \in Worker : /\ pc[w] = "unborn" => registry[w] = "unregistered"
                         /\ registry[w] = "deleted" => pc[w] = "down"
    /\ \A j \in Job : claimed_by[j] # None => registry[claimed_by[j]] # "unregistered"

\* The registry row of a worker that lives is deleted by nobody, and a row that
\* owns an attempt in flight is not deleted either.
LEMMA RegistryStep ==
    ASSUME TypeOK, RegistryKnown, [Next]_vars
    PROVE  /\ RegistryKnown'
           /\ \A j \in Job : \A w \in Worker :
                 /\ claimed_by[j] = w /\ state[j] \in IN_FLIGHT_STATES
                 /\ registry[w] \in {"fresh", "stale"}
                 => registry'[w] \in {"fresh", "stale"}
           /\ \A w \in Worker : /\ pc[w] = "down" => pc'[w] = "down"
                                /\ stopping[w] => stopping'[w]
<1> USE DEF jorb, attempt, process, GoTo, LetGo, Resolve, RegistryKnown, TypeOK
<1>1. ASSUME UNCHANGED <<claimed_by, registry, stopping>>,
             \A w \in Worker : /\ pc[w] = "down" => pc'[w] = "down"
                               /\ pc'[w] = "unborn" => pc[w] = "unborn"
      PROVE  /\ RegistryKnown'
             /\ \A w \in Worker : stopping[w] => stopping'[w]
             /\ \A w \in Worker : registry'[w] = registry[w]
  BY <1>1
<1>2. ASSUME NEW w \in Worker, Process(w)
      PROVE  /\ RegistryKnown'
             /\ \A v \in Worker : registry[v] \in {"fresh", "stale"}
                                   => registry'[v] \in {"fresh", "stale"}
             /\ \A v \in Worker : /\ pc[v] = "down" => pc'[v] = "down"
                                  /\ stopping[v] => stopping'[v]
  <2>1. CASE Start(w)
    <3>1. \A v \in Worker : pc[v] = "down" => pc'[v] = "down"
      BY <2>1 DEF Start
    <3>2. registry'[w] # "deleted" /\ \A v \in Worker \ {w} : registry'[v] = registry[v]
      BY <2>1 DEF Start
    <3>3. UNCHANGED <<claimed_by, stopping>> /\ registry[w] = "unregistered"
      BY <2>1 DEF Start
    <3>4. pc'[w] # "unborn" /\ \A v \in Worker \ {w} : pc'[v] = pc[v]
      BY <2>1 DEF Start
    <3> QED  BY <3>1, <3>2, <3>3, <3>4
  <2>2. CASE Beat(w)      BY <2>2 DEF Beat, Up
  <2>3. CASE GoStale(w)   BY <2>3 DEF GoStale
  <2>4. CASE Shutdown(w)
    <3>1. \A v \in Worker : stopping[v] => stopping'[v]
      <4> TAKE v \in Worker
      <4>1. CASE v = w  BY <2>4, <4>1 DEF Shutdown
      <4>2. CASE v # w  BY <2>4, <4>2 DEF Shutdown
      <4> QED  BY <4>1, <4>2
    <3> QED  BY <2>4, <3>1 DEF Shutdown
  <2>5. ASSUME NEW j \in Job, Claim(w, j) \/ LoseClaimAck(w, j)
        PROVE  /\ UNCHANGED <<registry, stopping>>
               /\ claimed_by' \in [Job -> Worker \union {None}]
               /\ \A k \in Job : claimed_by'[k] = claimed_by[k]
                     \/ claimed_by'[k] = None \/ registry[claimed_by'[k]] # "unregistered"
               /\ \A v \in Worker : /\ pc[v] = "down" => pc'[v] = "down"
                                    /\ pc'[v] = "unborn" => pc[v] = "unborn"
    BY <2>5 DEF Claim, LoseClaimAck, ClaimRow
  <2>6. CASE /\ UNCHANGED <<claimed_by, process>>
             /\ \/ UNCHANGED pc
                \/ LetGo(w, "down")
                \/ /\ pc[w] \in Holding
                   /\ \/ LetGo(w, "idle")
                      \/ \E o \in Outcomes : Resolve(w, o)
                      \/ \E phase \in Holding : GoTo(w, phase)
    <3>1. \A v \in Worker : /\ pc[v] = "down" => pc'[v] = "down"
                            /\ pc'[v] = "unborn" => pc[v] = "unborn"
      BY <2>6 DEF Holding
    <3> QED  BY <1>1, <2>6, <3>1
  <2>7. CASE Exit(w) \/ GiveUp(w) \/ Crash(w)
    BY <2>6, <2>7 DEF Exit, GiveUp, Crash
  <2>8. CASE PrepareFails(w) \/ TaskReturns(w) \/ TaskRaises(w) \/ TaskTimesOut(w)
             \/ TaskCancelled(w) \/ FinishRefused(w)
    BY <2>6, <2>8 DEF PrepareFails, TaskReturns, TaskRaises, TaskTimesOut,
                TaskCancelled, FinishRefused, FailureOutcome, Outcomes, Holding
  <2>9. CASE RunBegins(w) \/ RunFindsCancel(w) \/ LoseRunAck(w)
    BY <2>6, <2>9 DEF RunBegins, RunFindsCancel, LoseRunAck, RunRow, Reconnect,
                      Outcomes, Holding
  <2>10. CASE RunSuperseded(w) \/ TaskUnwinds(w) \/ RecordSuperseded(w)
    BY <2>6, <2>10 DEF RunSuperseded, TaskUnwinds, RecordSuperseded, Holding
  <2>11. CASE TaskReschedules(w) \/ LoseNotification(w)
    BY <2>6, <2>11 DEF TaskReschedules, LoseNotification
  <2>12. CASE Record(w) \/ LoseRecordAck(w)
    <3>1. OutcomeRow(w) /\ pc[w] = "recording" /\ UNCHANGED process
      BY <2>12 DEF Record, LoseRecordAck
    <3>2. UNCHANGED claimed_by
      BY <3>1, OutcomeRowType
    <3> QED
      BY <2>6, <2>12, <3>1, <3>2 DEF Record, LoseRecordAck, Reconnect, Holding
  <2> QED
    BY <1>2, <2>1, <2>2, <2>3, <2>4, <2>5, <2>7, <2>8, <2>9, <2>10, <2>11, <2>12
       DEF Process
<1>3. CASE \E a \in abandoned : AbandonedCodeEnds(a)
  BY <1>1, <1>3 DEF AbandonedCodeEnds
<1>4. CASE \E S \in SUBSET Job :
             SweepTimedOut(S) \/ SweepDeadWorkers(S) \/ SweepStuckClaims(S)
  BY <1>1, <1>4 DEF SweepTimedOut, SweepDeadWorkers, SweepStuckClaims, RequeueRows
<1>5. CASE \E w \in Worker : DeleteRetiredWorker(w)
  BY <1>5 DEF DeleteRetiredWorker
<1>6. CASE Operator
  BY <1>1, <1>6 DEF Operator, Enqueue, Cancel, Requeue
<1>7. CASE UNCHANGED vars
  BY <1>1, <1>7 DEF vars
<1> QED
  BY <1>2, <1>3, <1>4, <1>5, <1>6, <1>7 DEF Next, Monitor

\* A row a worker is on stays in reach while the worker stays on it, and when it
\* goes down: then the dead-worker sweep will see it.
LEMMA HolderKeepsReach ==
    ASSUME FenceInv, RegistryKnown, TypeOK', [Next]_vars,
           NEW w \in Worker, Current(w), NEW j \in Job, job[w] = j,
           UNCHANGED <<run_epoch, claimed_by>>,
           \/ pc'[w] \in Holding /\ job'[w] = job[w] /\ epoch'[w] = epoch[w]
           \/ pc'[w] = "down" \/ stopping[w]
    PROVE  InReach(j)'
<1>1. claimed_by[j] \in {w, None} /\ state[j] \in IN_FLIGHT_STATES
  BY CurrentOwner DEF FenceInv, TypeOK, Current
<1>2. CASE pc'[w] \in Holding /\ job'[w] = job[w] /\ epoch'[w] = epoch[w]
  BY <1>2 DEF InReach, Current
<1>3. CASE claimed_by[j] = None
  BY <1>3 DEF InReach
<1>4. CASE claimed_by[j] = w /\ (pc'[w] = "down" \/ stopping[w])
  <2>1. registry[w] \in {"fresh", "stale"}
    BY <1>1, <1>4, AttemptsAssumption DEF FenceInv, TypeOK, RegistryKnown, Current, Holding
  <2>2. registry'[w] \in {"fresh", "stale"} /\ (stopping[w] => stopping'[w])
    BY <1>1, <1>4, <2>1, RegistryStep DEF FenceInv
  <2> QED  BY <1>4, <2>2 DEF InReach
<1> QED  BY <1>1, <1>2, <1>3, <1>4

\* A row the step leaves alone stays in reach, if whoever is on it does.
LEMMA OthersKeepReach ==
    ASSUME FenceInv, RegistryKnown, TypeOK', [Next]_vars,
           NEW j \in Job, InReach(j), state[j] \in IN_FLIGHT_STATES,
           state'[j] = state[j], run_epoch'[j] = run_epoch[j],
           claimed_by'[j] = claimed_by[j], timeout_at[j] => timeout_at'[j],
           \A w \in Worker : Current(w) /\ job[w] = j =>
              pc'[w] \in Holding /\ job'[w] = job[w] /\ epoch'[w] = epoch[w]
    PROVE  InReach(j)'
<1>1. CASE \E w \in Worker : Current(w) /\ job[w] = j
  BY <1>1 DEF InReach, Current
<1>2. CASE claimed_by[j] # None /\ registry[claimed_by[j]] \in {"fresh", "stale"}
           /\ (pc[claimed_by[j]] = "down" \/ stopping[claimed_by[j]])
  <2>1. claimed_by[j] \in Worker
    BY <1>2 DEF FenceInv, TypeOK
  <2> QED
    <3> DEFINE w == claimed_by[j]
    <3>1. w \in Worker /\ registry'[w] \in {"fresh", "stale"}
      BY <1>2, <2>1, RegistryStep DEF FenceInv
    <3>2. pc'[w] = "down" \/ stopping'[w]
      BY <1>2, <2>1, RegistryStep DEF FenceInv
    <3> QED  BY <3>1, <3>2 DEF InReach
<1> QED
  BY <1>1, <1>2 DEF InReach

\* No in-flight row escapes recovery: its process is on it, or one of the
\* monitor's sweeps (timed out, dead worker, stuck claim) has it in sight.
THEOREM NothingOrphaned == Spec => []NoOrphan
<1>1. Init => RegistryKnown /\ NoOrphan
  BY DEF Init, RegistryKnown, NoOrphan, IN_FLIGHT_STATES, HISTORY_ORIGIN
<1>2. FenceInv /\ RegistryKnown /\ NoOrphan /\ TypeOK' /\ [Next]_vars
          => (RegistryKnown /\ NoOrphan)'
  <2> SUFFICES ASSUME FenceInv, RegistryKnown, NoOrphan, TypeOK', [Next]_vars,
                      NEW j \in Job, state'[j] \in IN_FLIGHT_STATES
               PROVE  InReach(j)'
    BY RegistryStep DEF FenceInv, NoOrphan, InReach
  <2> USE DEF jorb, attempt, process
  <2>1. state[j] \in IN_FLIGHT_STATES => InReach(j)
    BY DEF NoOrphan, InReach
  <2>2. ASSUME UNCHANGED <<state, run_epoch, claimed_by, timeout_at>>,
               \A w \in Worker : Current(w) /\ job[w] = j =>
                  pc'[w] \in Holding /\ job'[w] = job[w] /\ epoch'[w] = epoch[w]
        PROVE  InReach(j)'
    BY <2>1, <2>2, OthersKeepReach
  <2>3. ASSUME UNCHANGED <<state, run_epoch, claimed_by, timeout_at, pc, job, epoch>>
        PROVE  InReach(j)'
    BY <2>2, <2>3 DEF Current
  <2>4. ASSUME NEW w \in Worker, Process(w) PROVE InReach(j)'
    <3> USE DEF GoTo, LetGo, Resolve
    <3>0. TypeOK
      BY DEF FenceInv
    <3>1. CASE Beat(w) \/ GoStale(w) \/ Shutdown(w) \/ LoseNotification(w)
      BY <2>3, <3>1 DEF Beat, GoStale, Shutdown, LoseNotification
    <3>2. CASE Start(w)
      BY <2>2, <3>0, <3>2 DEF Start, Current, Holding, TypeOK
    <3>3. ASSUME NEW k \in Job, Claim(w, k) \/ LoseClaimAck(w, k) PROVE InReach(j)'
      <4>1. CASE j = k
        BY <3>0, <3>3, <4>1 DEF Claim, LoseClaimAck, ClaimRow, InReach, TypeOK
      <4>2. CASE j # k
        <5>1. /\ state'[j] = state[j] /\ run_epoch'[j] = run_epoch[j]
              /\ claimed_by'[j] = claimed_by[j] /\ timeout_at' = timeout_at
          BY <3>0, <3>3, <4>2 DEF Claim, LoseClaimAck, ClaimRow, TypeOK
        <5>2. \A v \in Worker : Current(v) => pc'[v] \in Holding /\ job'[v] = job[v] /\ epoch'[v] = epoch[v]
          BY <3>0, <3>3 DEF Claim, LoseClaimAck, Current, Holding, TypeOK
        <5> QED  BY <2>1, <5>1, <5>2, OthersKeepReach
      <4> QED  BY <4>1, <4>2
    <3>4. CASE PrepareFails(w) \/ TaskReturns(w) \/ TaskRaises(w)
               \/ TaskTimesOut(w) \/ TaskCancelled(w) \/ FinishRefused(w)
      <4>1. UNCHANGED <<state, run_epoch, claimed_by, timeout_at, job, epoch>>
        BY <3>4 DEF PrepareFails, TaskReturns, TaskRaises, TaskTimesOut,
                    TaskCancelled, FinishRefused
      <4>2. \A v \in Worker : pc[v] \in Holding => pc'[v] \in Holding
        BY <3>0, <3>4 DEF PrepareFails, TaskReturns, TaskRaises, TaskTimesOut,
                   TaskCancelled, FinishRefused, TypeOK, Holding
      <4> QED  BY <2>2, <4>1, <4>2 DEF Current
    <3>5. CASE RunBegins(w) \/ RunFindsCancel(w) \/ LoseRunAck(w)
      <4>1. /\ RunRow(w) /\ Current(w) /\ job[w] \in Job
        BY <3>0, <3>5 DEF RunBegins, RunFindsCancel, LoseRunAck, RunRow, Fence,
                    Current, TypeOK, Holding
      <4>2. UNCHANGED <<run_epoch, claimed_by>>
        BY <4>1 DEF RunRow
      <4>3. /\ \/ pc'[w] \in Holding /\ job'[w] = job[w] /\ epoch'[w] = epoch[w]
               \/ pc'[w] = "down"
            /\ \A v \in Worker \ {w} : pc'[v] = pc[v] /\ job'[v] = job[v] /\ epoch'[v] = epoch[v]
        BY <3>0, <3>5 DEF RunBegins, RunFindsCancel, LoseRunAck, Reconnect, TypeOK, Holding
      <4>4. CASE j = job[w]
        BY <4>1, <4>2, <4>3, <4>4, HolderKeepsReach
      <4>5. CASE j # job[w]
        <5>1. state'[j] = state[j] /\ timeout_at'[j] = timeout_at[j]
          BY <3>0, <4>1, <4>5 DEF RunRow, TypeOK
        <5>2. \A v \in Worker : Current(v) /\ job[v] = j =>
                 pc'[v] \in Holding /\ job'[v] = job[v] /\ epoch'[v] = epoch[v]
          BY <4>3, <4>5 DEF Current
        <5> QED  BY <2>1, <4>2, <5>1, <5>2, OthersKeepReach
      <4> QED  BY <4>4, <4>5
    <3>6. CASE RunSuperseded(w) \/ TaskUnwinds(w) \/ RecordSuperseded(w) \/ Exit(w)
      <4>1. ~Current(w)
        BY <3>6, CurrentOwner DEF RunSuperseded, TaskUnwinds, RecordSuperseded, Exit,
                                  Fence, Current, Holding
      <4>2. UNCHANGED jorb /\ (LetGo(w, "idle") \/ LetGo(w, "down"))
        BY <3>6 DEF RunSuperseded, TaskUnwinds, RecordSuperseded, Exit
      <4>3. \A v \in Worker \ {w} : pc'[v] = pc[v] /\ job'[v] = job[v] /\ epoch'[v] = epoch[v]
        BY <3>0, <4>2 DEF TypeOK
      <4> QED  BY <2>2, <4>1, <4>2, <4>3 DEF Current
    <3>7. CASE GiveUp(w) \/ Crash(w)
      <4>1. UNCHANGED jorb /\ LetGo(w, "down")
        BY <3>7 DEF GiveUp, Crash
      <4>2. pc'[w] = "down" /\ \A v \in Worker \ {w} : pc'[v] = pc[v] /\ job'[v] = job[v] /\ epoch'[v] = epoch[v]
        BY <3>0, <4>1 DEF TypeOK
      <4>3. CASE Current(w) /\ job[w] = j
        BY <4>1, <4>2, <4>3, HolderKeepsReach
      <4>4. CASE ~(Current(w) /\ job[w] = j)
        BY <2>2, <4>1, <4>2, <4>4 DEF Current
      <4> QED  BY <4>3, <4>4
    <3>8. CASE TaskReschedules(w)
      <4>1. j # job[w]
        BY <3>0, <3>8 DEF TaskReschedules, TypeOK, IN_FLIGHT_STATES
      <4> QED
        BY <2>1, <3>0, <3>8, <4>1, OthersKeepReach DEF TaskReschedules, TypeOK, Current
    <3>9. CASE Record(w) \/ LoseRecordAck(w)
      <4>1. pc[w] = "recording" /\ OutcomeRow(w) /\ job[w] \in Job
        BY <3>0, <3>9 DEF Record, LoseRecordAck, TypeOK, Holding
      <4>2. /\ j # job[w] /\ state'[j] = state[j] /\ run_epoch'[j] = run_epoch[j]
            /\ claimed_by'[j] = claimed_by[j] /\ timeout_at'[j] = timeout_at[j]
        BY <3>0, <4>1 DEF OutcomeRow, Finished, Crashed, Cancelled, Retry, LeaveAttempt,
                    TypeOK, IN_FLIGHT_STATES
      <4>3. \A v \in Worker \ {w} : pc'[v] = pc[v] /\ job'[v] = job[v] /\ epoch'[v] = epoch[v]
        BY <3>0, <3>9 DEF Record, LoseRecordAck, Reconnect, TypeOK
      <4> QED
        BY <2>1, <4>2, <4>3, OthersKeepReach DEF Current
    <3> QED
      BY <2>4, <3>1, <3>2, <3>3, <3>4, <3>5, <3>6, <3>7, <3>8, <3>9 DEF Process
  <2>5. CASE \E a \in abandoned : AbandonedCodeEnds(a)
    BY <2>3, <2>5 DEF AbandonedCodeEnds
  <2>6. ASSUME NEW S \in SUBSET Job,
               SweepTimedOut(S) \/ SweepDeadWorkers(S) \/ SweepStuckClaims(S)
        PROVE  InReach(j)'
    <3>1. /\ UNCHANGED <<claimed_by, pc, job, epoch>>
          /\ state'[j] = state[j] /\ run_epoch'[j] = run_epoch[j]
          /\ timeout_at[j] => timeout_at'[j]
      BY <2>6 DEF SweepTimedOut, SweepDeadWorkers, SweepStuckClaims, RequeueRows,
                  FenceInv, TypeOK, IN_FLIGHT_STATES
    <3> QED  BY <2>1, <3>1, OthersKeepReach DEF Current
  <2>7. CASE \E w \in Worker : DeleteRetiredWorker(w)
    BY <2>3, <2>7 DEF DeleteRetiredWorker
  <2>8. ASSUME NEW k \in Job, Enqueue(k) \/ Cancel(k) \/ \E r \in BOOLEAN : Requeue(k, r)
        PROVE  InReach(j)'
    <3>1. /\ UNCHANGED <<claimed_by, pc, job, epoch>>
          /\ state'[j] = state[j] /\ run_epoch'[j] = run_epoch[j]
          /\ timeout_at[j] => timeout_at'[j]
      BY <2>8 DEF Enqueue, Cancel, Requeue, FenceInv, TypeOK, IN_FLIGHT_STATES,
                  PRE_CLAIM_STATES
    <3> QED  BY <2>1, <3>1, OthersKeepReach DEF Current
  <2>9. CASE UNCHANGED vars
    BY <2>3, <2>9 DEF vars
  <2> QED
    BY <2>4, <2>5, <2>6, <2>7, <2>8, <2>9 DEF Next, Monitor, Operator
<1> QED
  BY <1>1, <1>2, FenceInvariant, TypeCorrect, PTL DEF Spec
==============================================================================
