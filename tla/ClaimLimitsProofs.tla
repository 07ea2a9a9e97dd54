-------------------------- MODULE ClaimLimitsProofs --------------------------
(***************************************************************************)
(* What claim_jorb() holds to, for any number of claimers and jobs and any *)
(* controls.                                                               *)
(*                                                                         *)
(* The argument.  Only the claim that holds the queue's advisory lock adds *)
(* to what was counted (LockExcludes), so its counts bound their scopes    *)
(* until it commits (CapKnown, RateKnown), and its commit adds one row.  A *)
(* row that is locked stays queued until its claim commits (ClaimsSound).  *)
(* A claim counts the stamps after its own start, later ones too, so the   *)
(* last admission of any window has counted all of that window.            *)
(***************************************************************************)
EXTENDS ClaimLimits, FiniteSetTheorems, TLAPS

ScopeSet == {<<"queue">>} \union {<<"lane", partition_key[j]>> : j \in Job}

LEMMA FullType ==
    ASSUME NEW c \in Controls, NEW rows \in SUBSET Job, NEW limit
    PROVE  Full(c, rows, limit) \subseteq ScopeSet
BY DEF Full, Scopes, Scope, ScopeSet

LEMMA EndTransactionType ==
    ASSUME TypeOK, NEW w \in Worker, EndTransaction(w),
           controls' = controls, pc[w] # "out" \/ lock # w
    PROVE  /\ pc' \in [Worker -> {"out", "locking", "concurrency", "rate", "picking", "picked"}]
           /\ q' \in [Worker -> Controls]
           /\ start' \in [Worker -> 0..MaxTime]
           /\ blocked' \in [Worker -> SUBSET ScopeSet]
           /\ picked' \in [Worker -> Job \union {None}]
           /\ lock' \in Worker \union {None}
           /\ \A v \in Worker : (pc'[v] = "picked") <=> (picked'[v] # None)
           /\ \A v \in Worker : (lock' = v) <=> (pc'[v] \notin {"out", "locking"} /\ Limited(q'[v]))
           /\ \A v \in Worker : pc'[v] = "locking" => Limited(q'[v])
<1> USE LimitsAssumption
<1>1. /\ pc' \in [Worker -> {"out", "locking", "concurrency", "rate", "picking", "picked"}]
      /\ q' \in [Worker -> Controls]
      /\ start' \in [Worker -> 0..MaxTime]
      /\ blocked' \in [Worker -> SUBSET ScopeSet]
      /\ picked' \in [Worker -> Job \union {None}]
      /\ lock' \in Worker \union {None}
  BY DEF TypeOK, EndTransaction, ScopeSet
<1>2. ASSUME NEW v \in Worker
      PROVE  /\ (pc'[v] = "picked") <=> (picked'[v] # None)
             /\ (lock' = v) <=> (pc'[v] \notin {"out", "locking"} /\ Limited(q'[v]))
             /\ pc'[v] = "locking" => Limited(q'[v])
  <2>1. CASE v = w
    BY <2>1 DEF TypeOK, EndTransaction
  <2>2. CASE v # w
    <3>1. pc'[v] = pc[v] /\ q'[v] = q[v] /\ picked'[v] = picked[v]
      BY <2>2 DEF TypeOK, EndTransaction
    <3>2. lock' = v <=> lock = v
      BY <2>2 DEF EndTransaction
    <3> QED  BY <3>1, <3>2 DEF TypeOK
  <2> QED  BY <2>1, <2>2
<1> QED  BY <1>1, <1>2

\* Rows, clock, lock and claim transactions keep their types; the advisory
\* lock is held by exactly the claims that are past it.
THEOREM TypeCorrect == Spec => []TypeOK
<1> USE LimitsAssumption
<1>1. Init => TypeOK
  BY DEF Init, TypeOK
<1>2. TypeOK /\ [Next]_vars => TypeOK'
  <2> SUFFICES ASSUME TypeOK, [Next]_vars PROVE TypeOK'
    OBVIOUS
  <2> USE DEF control, jorb, claim
  <2>1. CASE UNCHANGED vars
    BY <2>1 DEF vars, TypeOK
  <2>2. ASSUME NEW w \in Worker, Begin(w) PROVE TypeOK'
    BY <2>2 DEF Begin, TypeOK
  <2>3. ASSUME NEW w \in Worker, AcquireLock(w) PROVE TypeOK'
    <3>1. pc[w] = "locking" /\ lock = None /\ Limited(q[w])'
      BY <2>3 DEF AcquireLock, TypeOK
    <3>2. ASSUME NEW v \in Worker
          PROVE  (lock' = v) <=> (pc'[v] \notin {"out", "locking"} /\ Limited(q'[v]))
      BY <2>3, <3>1, <3>2 DEF AcquireLock, TypeOK
    <3> QED  BY <2>3, <3>2 DEF AcquireLock, TypeOK
  <2>4. ASSUME NEW w \in Worker,
               LockTimeout(w) \/ ClaimNothing(w) \/ Abort(w)
        PROVE  TypeOK'
    BY <2>4, EndTransactionType
       DEF LockTimeout, ClaimNothing, Abort, TypeOK, ScopeSet
  <2>5. ASSUME NEW w \in Worker, CountInFlight(w) PROVE TypeOK'
    <3>1. Full(q[w], InFlight, q[w].max_concurrency) \subseteq ScopeSet
      BY FullType DEF TypeOK, InFlight
    <3> QED  BY <2>5, <3>1 DEF CountInFlight, TypeOK, ScopeSet
  <2>6. ASSUME NEW w \in Worker, CountAdmitted(w) PROVE TypeOK'
    <3>1. Full(q[w], AdmittedSince(start[w]), q[w].rate_limit) \subseteq ScopeSet
      BY FullType DEF TypeOK, AdmittedSince, InWindow
    <3> QED  BY <2>6, <3>1 DEF CountAdmitted, TypeOK, ScopeSet
  <2>7. ASSUME NEW w \in Worker, Pick(w) PROVE TypeOK'
    BY <2>7 DEF Pick, Claimable, TypeOK
  <2>8. ASSUME NEW w \in Worker, Commit(w) PROVE TypeOK'
    <3>1. /\ state' \in [Job -> {"out", "queued", "claimed"}]
          /\ claimed_at' \in [Job -> 0..MaxTime \union {None}]
          /\ run_count' \in [Job -> Nat]
      BY <2>8 DEF Commit, TypeOK
    <3>2. excused' \subseteq Worker
      BY <2>8 DEF Commit, Claiming, TypeOK
    <3> QED  BY <2>8, <3>1, <3>2, EndTransactionType DEF Commit, TypeOK, ScopeSet
  <2>9. ASSUME NEW j \in Job, Leave(j) \/ Queue(j) PROVE TypeOK'
    BY <2>9 DEF Leave, Queue, SetRow, TypeOK
  <2>10. ASSUME NEW c \in Controls, SetControls(c) PROVE TypeOK'
    BY <2>10 DEF SetControls, Claiming, TypeOK
  <2>11. CASE Tick
    BY <2>11 DEF Tick, TypeOK
  <2> QED
    BY <2>1, <2>2, <2>3, <2>4, <2>5, <2>6, <2>7, <2>8, <2>9, <2>10, <2>11
       DEF Next, ClaimStep
<1> QED  BY <1>1, <1>2, PTL DEF Spec

------------------------------------------------------------------------------
(* Counting.                                                               *)

InScope(c, rows, s) == {j \in rows : Scope(c, j) = s}

LEMMA FiniteScope ==
    ASSUME NEW c, NEW rows \in SUBSET Job, NEW s
    PROVE  /\ IsFiniteSet(InScope(c, rows, s))
           /\ Cardinality(InScope(c, rows, s)) \in Nat
<1>1. IsFiniteSet(InScope(c, rows, s))
  BY FS_Subset, LimitsAssumption DEF InScope
<1> QED  BY <1>1, FS_CardinalityType

LEMMA FewerRows ==
    ASSUME NEW c, NEW rows \in SUBSET Job, NEW fewer \in SUBSET rows, NEW s
    PROVE  Cardinality(InScope(c, fewer, s)) <= Cardinality(InScope(c, rows, s))
<1>1. InScope(c, fewer, s) \in SUBSET InScope(c, rows, s)
  BY DEF InScope
<1>2. IsFiniteSet(InScope(c, rows, s))
  BY FiniteScope
<1> QED  BY <1>1, <1>2, FS_Subset

LEMMA OneMoreRow ==
    ASSUME NEW c, NEW rows \in SUBSET Job, NEW more \in SUBSET Job, NEW j \in Job, NEW s,
           more \subseteq rows \union {j}
    PROVE  Cardinality(InScope(c, more, s)) <= Cardinality(InScope(c, rows, s)) + 1
<1> DEFINE S == InScope(c, rows, s)
<1>1. IsFiniteSet(S) /\ Cardinality(S) \in Nat
  BY FiniteScope
<1>3. InScope(c, more, s) \in SUBSET (S \union {j})
  BY DEF InScope
<1> HIDE DEF S
<1>2. IsFiniteSet(S \union {j}) /\ Cardinality(S \union {j}) <= Cardinality(S) + 1
  <2>1. /\ IsFiniteSet(S \union {j})
        /\ Cardinality(S \union {j}) =
               IF j \in S THEN Cardinality(S) ELSE Cardinality(S) + 1
    BY <1>1, FS_AddElement, Zenon
  <2> QED  BY <1>1, <2>1
<1>4. Cardinality(InScope(c, more, s)) <= Cardinality(S \union {j})
  BY <1>2, <1>3, FS_Subset
<1>5. Cardinality(InScope(c, more, s)) \in Nat /\ Cardinality(S \union {j}) \in Nat
  BY <1>2, FiniteScope, FS_CardinalityType
<1> QED  BY <1>1, <1>2, <1>4, <1>5 DEF S

\* A scope that was not found full has room.
LEMMA NotFull ==
    ASSUME NEW c \in Controls, NEW rows \in SUBSET Job, NEW limit \in Nat,
           c.partition_limits => limit # 0,
           NEW j \in Job, Scope(c, j) \notin Full(c, rows, limit)
    PROVE  Cardinality(InScope(c, rows, Scope(c, j))) < limit
<1> DEFINE s == Scope(c, j)
<1>1. Cardinality(InScope(c, rows, s)) \in Nat
  BY FiniteScope
<1>2. CASE s \in Scopes(c, rows)
  BY <1>1, <1>2 DEF Full, InScope
<1>3. CASE s \notin Scopes(c, rows)
  <2>1. c.partition_limits
    BY <1>3 DEF Scopes, Scope
  <2>2. InScope(c, rows, s) = {}
    BY <1>3, <2>1 DEF Scopes, InScope
  <2> QED  BY <2>1, <2>2, FS_EmptySet
<1> QED  BY <1>2, <1>3

------------------------------------------------------------------------------
(* The claim that holds the lock.                                          *)

Counted == {"rate", "picking", "picked"}

\* An excuse aside, a claim runs under the controls it read, and they were not
\* paused; no two claims hold one row; and the row a claim holds is queued, the
\* worker may run it, and its scope was not found full.
ClaimsSound ==
    /\ \A w \in Worker : pc[w] # "out" /\ w \notin excused => q[w] = controls
    /\ \A v, w \in Worker : picked[v] = picked[w] /\ picked[w] # None => v = w
    /\ \A w \in Worker : pc[w] = "picked" => /\ state[picked[w]] = "queued"
                                            /\ picked[w] \in Serves[w]
                                            /\ Scope(q[w], picked[w]) \notin blocked[w]
    /\ \A w \in Worker : pc[w] # "out" => ~q[w].paused

\* What a claim counted stays an upper bound until it commits.
CapOpen(w, j) ==
    /\ pc[w] \in Counted /\ w \notin excused
    /\ Enforced(q[w], q[w].max_concurrency) /\ Scope(q[w], j) \notin blocked[w]

CapKnownFor(w, j) ==
    CapOpen(w, j) =>
        Cardinality(InScope(q[w], InFlight, Scope(q[w], j))) < q[w].max_concurrency

RateOpen(w, j) ==
    /\ pc[w] \in {"picking", "picked"} /\ w \notin excused
    /\ Enforced(q[w], q[w].rate_limit) /\ Scope(q[w], j) \notin blocked[w]

RateKnownFor(w, j) ==
    RateOpen(w, j) =>
        Cardinality(InScope(q[w], AdmittedSince(start[w]), Scope(q[w], j))) < q[w].rate_limit

CapKnown == \A w \in Worker, j \in Job : CapKnownFor(w, j)
RateKnown == \A w \in Worker, j \in Job : RateKnownFor(w, j)

LimitsInv == TypeOK /\ ClaimsSound /\ CapKnown /\ RateKnown

\* Nothing a limited claim goes by changes but at its own hands, or else the
\* claim is excused.
Undisturbed(w) ==
    /\ w \notin excused
    /\ pc'[w] = pc[w] /\ q'[w] = q[w] /\ start'[w] = start[w]
    /\ blocked'[w] = blocked[w] /\ picked'[w] = picked[w]
    /\ InFlight' \subseteq InFlight
    /\ claimed_at' = claimed_at

LEMMA EndOfAnother ==
    ASSUME TypeOK, NEW v \in Worker, NEW w \in Worker, v # w, EndTransaction(v)
    PROVE  /\ pc'[w] = pc[w] /\ q'[w] = q[w] /\ start'[w] = start[w]
           /\ blocked'[w] = blocked[w] /\ picked'[w] = picked[w]
BY DEF TypeOK, EndTransaction

LEMMA LockExcludes ==
    ASSUME LimitsInv, NEW w \in Worker, pc[w] \in Counted, Limited(q[w]),
           NEW v \in Worker, v # w, Commit(v), w \notin excused'
    PROVE  FALSE
<1>1. lock = w
  BY DEF LimitsInv, TypeOK, Counted
<1>2. pc[v] = "picked" /\ ~Limited(q[v])
  BY <1>1 DEF LimitsInv, TypeOK, Commit
<1>3. CASE q[v] # controls
  BY <1>3 DEF Commit, Claiming, Counted
<1>4. CASE q[v] = controls
  <2>1. w \notin excused
    BY <1>4 DEF Commit
  <2> QED  BY <1>2, <1>4, <2>1 DEF LimitsInv, ClaimsSound, Counted
<1> QED  BY <1>3, <1>4

LEMMA ClaimSteps ==
    ASSUME LimitsInv, [Next]_vars, NEW w \in Worker,
           pc'[w] \in Counted, w \notin excused', Limited(q'[w])
    PROVE  Undisturbed(w) \/ CountInFlight(w) \/ CountAdmitted(w) \/ Pick(w)
<1> USE DEF control, jorb, claim, Counted
<1>t. TypeOK
  BY DEF LimitsInv
<1>1. CASE UNCHANGED vars
  BY <1>1 DEF vars, Undisturbed, InFlight
<1>2. CASE Begin(w) \/ AcquireLock(w)
  BY <1>2, <1>t DEF Begin, AcquireLock, TypeOK
<1>3. CASE LockTimeout(w) \/ ClaimNothing(w) \/ Commit(w) \/ Abort(w)
  <2>1. EndTransaction(w)
    BY <1>3 DEF LockTimeout, ClaimNothing, Commit, Abort
  <2> QED  BY <2>1, <1>t DEF EndTransaction, TypeOK
<1>4. ASSUME NEW v \in Worker, v # w, Commit(v)
      PROVE  FALSE
  <2>1. pc[w] \in Counted /\ Limited(q[w])
    BY <1>4, <1>t, EndOfAnother DEF Commit
  <2> QED  BY <1>4, <2>1, LockExcludes
<1>5. ASSUME NEW v \in Worker, v # w,
             LockTimeout(v) \/ ClaimNothing(v) \/ Abort(v)
      PROVE  Undisturbed(w)
  <2>1. EndTransaction(v) /\ excused' = excused \ {v} /\ UNCHANGED <<control, jorb>>
    BY <1>5 DEF LockTimeout, ClaimNothing, Abort
  <2> QED  BY <1>5, <2>1, <1>t, EndOfAnother DEF Undisturbed, InFlight
<1>6. ASSUME NEW v \in Worker, v # w,
             Begin(v) \/ AcquireLock(v) \/ CountInFlight(v) \/ CountAdmitted(v) \/ Pick(v)
      PROVE  Undisturbed(w)
  BY <1>6, <1>t DEF Begin, AcquireLock, CountInFlight, CountAdmitted, Pick, TypeOK,
                    Undisturbed, InFlight
<1>7. ASSUME NEW j \in Job, Leave(j) \/ Queue(j) PROVE Undisturbed(w)
  BY <1>7, <1>t DEF Leave, Queue, SetRow, TypeOK, Undisturbed, InFlight
<1>8. ASSUME NEW c \in Controls, SetControls(c) PROVE FALSE
  BY <1>8, <1>t DEF SetControls, Claiming, TypeOK
<1>9. CASE Tick
  BY <1>9 DEF Tick, Undisturbed, InFlight
<1> QED
  BY <1>1, <1>2, <1>3, <1>4, <1>5, <1>6, <1>7, <1>8, <1>9 DEF Next, ClaimStep

LEMMA SoundStep ==
    ASSUME TypeOK, ClaimsSound, [Next]_vars
    PROVE  ClaimsSound'
<1> USE DEF control, jorb, claim, ClaimsSound
<1>t. TypeOK /\ ClaimsSound
  OBVIOUS
<1>n. None \notin Job
  BY LimitsAssumption
<1>1. CASE UNCHANGED vars
  BY <1>1, <1>t DEF vars
<1>2. ASSUME NEW w \in Worker, Begin(w) PROVE ClaimsSound'
  BY <1>2, <1>t DEF Begin, TypeOK
<1>3. ASSUME NEW w \in Worker, AcquireLock(w) PROVE ClaimsSound'
  BY <1>3, <1>t DEF AcquireLock, TypeOK
<1>4. ASSUME NEW w \in Worker, EndTransaction(w), UNCHANGED controls,
             \A v \in Worker \ {w} : pc[v] # "out" /\ v \notin excused' => v \notin excused,
             \A j \in Job \ {picked[w]} : state'[j] = state[j]
      PROVE  ClaimsSound'
  <2>1. pc'[w] = "out" /\ picked'[w] = None
    BY <1>4, <1>t DEF EndTransaction, TypeOK
  <2>2. ASSUME NEW v \in Worker, v # w
        PROVE  /\ pc'[v] = pc[v] /\ q'[v] = q[v]
               /\ blocked'[v] = blocked[v] /\ picked'[v] = picked[v]
    BY <1>4, <1>t, <2>2, EndOfAnother
  <2>3. ASSUME NEW v \in Worker, v # w, pc[v] = "picked"
        PROVE  state'[picked[v]] = "queued"
    <3>1. picked[v] \in Job \ {picked[w]}
      BY <1>t, <2>3 DEF TypeOK
    <3> QED  BY <1>4, <1>t, <2>3, <3>1
  <2>4. \A v \in Worker : pc'[v] # "out" /\ v \notin excused' => q'[v] = controls'
    BY <1>4, <1>t, <2>1, <2>2
  <2>5. \A u, v \in Worker : picked'[u] = picked'[v] /\ picked'[u] # None => u = v
    BY <1>t, <2>1, <2>2
  <2>6. \A v \in Worker : pc'[v] = "picked" =>
            /\ state'[picked'[v]] = "queued"
            /\ picked'[v] \in Serves[v]
            /\ Scope(q'[v], picked'[v]) \notin blocked'[v]
    BY <1>t, <2>1, <2>2, <2>3
  <2>7. \A v \in Worker : pc'[v] # "out" => ~q'[v].paused
    BY <1>t, <2>1, <2>2
  <2>8. \A v \in Worker : Scope(q[v], picked[v])' = Scope(q'[v], picked'[v])
    BY DEF Scope
  <2> QED  BY <2>4, <2>5, <2>6, <2>7, <2>8
<1>5. ASSUME NEW w \in Worker,
             LockTimeout(w) \/ ClaimNothing(w) \/ Abort(w) \/ Commit(w)
      PROVE  ClaimsSound'
  <2>1. CASE LockTimeout(w) \/ ClaimNothing(w) \/ Abort(w)
    BY <1>4, <2>1 DEF LockTimeout, ClaimNothing, Abort
  <2>2. CASE Commit(w)
    <3>1. EndTransaction(w) /\ UNCHANGED controls
      BY <2>2 DEF Commit
    <3>2. \A v \in Worker \ {w} : pc[v] # "out" /\ v \notin excused' => v \notin excused
      BY <2>2 DEF Commit, Claiming
    <3>3. \A j \in Job \ {picked[w]} : state'[j] = state[j]
      BY <2>2, <1>t DEF Commit, TypeOK
    <3> QED  BY <1>4, <3>1, <3>2, <3>3
  <2> QED  BY <1>5, <2>1, <2>2
<1>6. ASSUME NEW w \in Worker, CountInFlight(w) \/ CountAdmitted(w)
      PROVE  ClaimsSound'
  BY <1>6, <1>t DEF CountInFlight, CountAdmitted, TypeOK
<1>7. ASSUME NEW w \in Worker, Pick(w) PROVE ClaimsSound'
  <2>1. PICK j \in Claimable(w) : picked' = [picked EXCEPT ![w] = j]
    BY <1>7 DEF Pick
  <2>2. /\ j \in Serves[w] /\ state[j] = "queued"
        /\ \A v \in Worker : picked[v] # j
        /\ Scope(q[w], j) \notin blocked[w]
    BY <2>1 DEF Claimable, RowLocked
  <2>3. picked'[w] = j /\ \A v \in Worker \ {w} : picked'[v] = picked[v]
    BY <1>t, <2>1 DEF TypeOK
  <2>4. /\ UNCHANGED <<controls, state, q, blocked, excused>>
        /\ pc[w] = "picking" /\ pc'[w] = "picked"
        /\ \A v \in Worker \ {w} : pc'[v] = pc[v]
    BY <1>7, <1>t DEF Pick, TypeOK
  <2>5. \A v \in Worker : Scope(q[v], picked[v])' = Scope(q[v], picked'[v])
    BY <2>4 DEF Scope
  <2> QED  BY <1>t, <2>2, <2>3, <2>4, <2>5
<1>8. ASSUME NEW j \in Job, Leave(j) \/ Queue(j) PROVE ClaimsSound'
  <2>1. /\ UNCHANGED <<control, pc, claim, excused>>
        /\ \A i \in Job \ {j} : state'[i] = state[i]
        /\ \A v \in Worker : picked[v] # j
    BY <1>8, <1>t DEF Leave, Queue, SetRow, RowLocked, TypeOK
  <2>2. \A v \in Worker : pc[v] = "picked" => picked[v] \in Job \ {j}
    BY <1>t, <2>1 DEF TypeOK
  <2>3. \A v \in Worker : Scope(q[v], picked[v])' = Scope(q[v], picked[v])
    BY <2>1 DEF Scope
  <2> QED  BY <1>t, <2>1, <2>2, <2>3
<1>9. ASSUME NEW c \in Controls, SetControls(c) PROVE ClaimsSound'
  BY <1>9, <1>t DEF SetControls, Claiming, TypeOK
<1>10. CASE Tick
  BY <1>10, <1>t DEF Tick
<1> QED
  BY <1>1, <1>2, <1>3, <1>5, <1>6, <1>7, <1>8, <1>9, <1>10 DEF Next, ClaimStep

LEMMA CapStep ==
    ASSUME LimitsInv, [Next]_vars
    PROVE  CapKnown'
<1> SUFFICES ASSUME NEW w \in Worker, NEW j \in Job, CapOpen(w, j)'
             PROVE  CapKnownFor(w, j)'
  BY DEF CapKnown, CapKnownFor
<1>o. /\ pc'[w] \in Counted /\ w \notin excused'
      /\ q'[w].max_concurrency # None /\ Enforced(q'[w], q'[w].max_concurrency)
      /\ Scope(q'[w], j) \notin blocked'[w]
  BY DEF CapOpen, Scope, Enforced
<1> SUFFICES Cardinality(InScope(q'[w], InFlight', Scope(q'[w], j))) < q'[w].max_concurrency
  BY DEF CapKnownFor, InScope, Scope
<1> USE DEF control, jorb, claim, Counted
<1>t. TypeOK /\ CapKnown
  BY DEF LimitsInv
<1>f. InFlight \in SUBSET Job
  BY DEF InFlight
<1>l. Limited(q'[w])
  BY <1>o DEF Limited
<1>c. q[w] \in Controls /\ (q[w].max_concurrency # None => q[w].max_concurrency \in Nat)
  BY <1>t, LimitsAssumption DEF TypeOK
<1>1. CASE Undisturbed(w)
  <2>1. Cardinality(InScope(q[w], InFlight, Scope(q[w], j))) < q[w].max_concurrency
    BY <1>1, <1>o, <1>t DEF Undisturbed, CapKnown, CapKnownFor, CapOpen
  <2>2. InFlight' \in SUBSET InFlight /\ q'[w] = q[w]
    BY <1>1 DEF Undisturbed
  <2>3. Cardinality(InScope(q[w], InFlight', Scope(q[w], j)))
            <= Cardinality(InScope(q[w], InFlight, Scope(q[w], j)))
    BY <1>f, <2>2, FewerRows
  <2>4. /\ Cardinality(InScope(q[w], InFlight', Scope(q[w], j))) \in Nat
        /\ Cardinality(InScope(q[w], InFlight, Scope(q[w], j))) \in Nat
    BY <1>f, <2>2, FiniteScope
  <2> QED  BY <1>c, <1>o, <2>1, <2>2, <2>3, <2>4
<1>2. CASE CountInFlight(w)
  <2>1. InFlight' = InFlight /\ q'[w] = q[w]
    BY <1>2 DEF CountInFlight, InFlight
  <2>2. Scope(q[w], j) \notin Full(q[w], InFlight, q[w].max_concurrency)
    BY <1>2, <1>o, <1>t, <2>1 DEF CountInFlight, TypeOK
  <2> QED  BY <1>c, <1>f, <1>o, <2>1, <2>2, NotFull DEF Enforced
<1>3. CASE CountAdmitted(w) \/ Pick(w)
  <2>1. /\ InFlight' = InFlight /\ q'[w] = q[w] /\ w \notin excused
        /\ pc[w] \in Counted /\ Scope(q[w], j) \notin blocked[w]
    BY <1>3, <1>o, <1>t DEF CountAdmitted, Pick, InFlight, TypeOK
  <2> QED  BY <1>o, <1>t, <2>1 DEF CapKnown, CapKnownFor, CapOpen
<1> QED  BY <1>1, <1>2, <1>3, <1>l, <1>o, ClaimSteps

LEMMA RateStep ==
    ASSUME LimitsInv, [Next]_vars
    PROVE  RateKnown'
<1> SUFFICES ASSUME NEW w \in Worker, NEW j \in Job, RateOpen(w, j)'
             PROVE  RateKnownFor(w, j)'
  BY DEF RateKnown, RateKnownFor
<1>o. /\ pc'[w] \in {"picking", "picked"} /\ w \notin excused'
      /\ q'[w].rate_limit # None /\ Enforced(q'[w], q'[w].rate_limit)
      /\ Scope(q'[w], j) \notin blocked'[w]
  BY DEF RateOpen, Scope, Enforced
<1> SUFFICES Cardinality(InScope(q'[w], AdmittedSince(start[w])', Scope(q'[w], j)))
                 < q'[w].rate_limit
  BY DEF RateKnownFor, InScope, Scope
<1> USE DEF control, jorb, claim, Counted
<1>t. TypeOK /\ RateKnown
  BY DEF LimitsInv
<1>f. AdmittedSince(start[w]) \in SUBSET Job
  BY DEF AdmittedSince, InWindow
<1>l. Limited(q'[w])
  BY <1>o DEF Limited
<1>c. q[w] \in Controls /\ (q[w].rate_limit # None => q[w].rate_limit \in Nat)
  BY <1>t, LimitsAssumption DEF TypeOK
<1>1. CASE Undisturbed(w) \/ Pick(w)
  <2>1. /\ AdmittedSince(start[w])' = AdmittedSince(start[w])
        /\ q'[w] = q[w] /\ w \notin excused
        /\ pc[w] \in {"picking", "picked"} /\ Scope(q[w], j) \notin blocked[w]
    BY <1>1, <1>o, <1>t DEF Undisturbed, Pick, AdmittedSince, InWindow, TypeOK
  <2> QED  BY <1>o, <1>t, <2>1 DEF RateKnown, RateKnownFor, RateOpen
<1>2. CASE CountAdmitted(w)
  <2>1. AdmittedSince(start[w])' = AdmittedSince(start[w]) /\ q'[w] = q[w]
    BY <1>2 DEF CountAdmitted, AdmittedSince, InWindow
  <2>2. Scope(q[w], j) \notin Full(q[w], AdmittedSince(start[w]), q[w].rate_limit)
    BY <1>2, <1>o, <1>t, <2>1 DEF CountAdmitted, TypeOK
  <2> QED  BY <1>c, <1>f, <1>o, <2>1, <2>2, NotFull DEF Enforced
<1>3. CASE CountInFlight(w)
  BY <1>3, <1>o, <1>t DEF CountInFlight, TypeOK
<1> QED  BY <1>1, <1>2, <1>3, <1>l, <1>o, ClaimSteps

\* What a claimer counted under the lock bounds its scope until it commits.
THEOREM CountsStayValid == Spec => []LimitsInv
<1>1. Init => LimitsInv
  <2> SUFFICES ASSUME Init PROVE LimitsInv
    OBVIOUS
  <2>1. TypeOK
    BY LimitsAssumption DEF Init, TypeOK
  <2>2. ClaimsSound
    BY LimitsAssumption DEF Init, ClaimsSound
  <2>3. \A w \in Worker : pc[w] \notin {"rate", "picking", "picked"}
    BY DEF Init
  <2>4. CapKnown /\ RateKnown
    BY <2>3 DEF CapKnown, CapKnownFor, CapOpen, RateKnown, RateKnownFor, RateOpen, Counted
  <2> QED  BY <2>1, <2>2, <2>4 DEF LimitsInv
<1>2. LimitsInv /\ TypeOK' /\ [Next]_vars => LimitsInv'
  BY SoundStep, CapStep, RateStep DEF LimitsInv
<1> QED  BY <1>1, <1>2, TypeCorrect, PTL DEF Spec

\* An admission is a commit of the claim itself, of a row it holds alone.
LEMMA AdmissionIsCommit ==
    ASSUME LimitsInv, [Next]_vars, NEW w \in Worker, Admits(w)
    PROVE  Commit(w) /\ picked[w] \in Job
<1> USE DEF control, jorb, claim
<1>t. TypeOK /\ ClaimsSound
  BY DEF LimitsInv
<1>1. pc[w] = "picked" /\ picked[w] \in Job /\ state'[picked[w]] # state[picked[w]]
  BY <1>t, LimitsAssumption DEF Admits, TypeOK
<1>2. ASSUME NEW v \in Worker, v # w, Commit(v) PROVE FALSE
  <2>1. picked[v] # picked[w]
    BY <1>1, <1>2, <1>t, LimitsAssumption DEF ClaimsSound, TypeOK, Commit
  <2> QED  BY <1>1, <1>2, <1>t, <2>1 DEF Commit, TypeOK
<1>3. ASSUME NEW j \in Job, Leave(j) \/ Queue(j) PROVE FALSE
  BY <1>1, <1>3, <1>t DEF Leave, Queue, SetRow, RowLocked, TypeOK
<1>4. \/ UNCHANGED state
      \/ \E v \in Worker : Commit(v)
      \/ \E j \in Job : Leave(j) \/ Queue(j)
  BY DEF Next, ClaimStep, Begin, AcquireLock, LockTimeout, CountInFlight,
         CountAdmitted, Pick, ClaimNothing, Abort, SetControls, Tick, vars
<1> QED  BY <1>1, <1>2, <1>3, <1>4

\* What a commit leaves in its scope: the rows in flight,
LEMMA CapAtCommit ==
    ASSUME LimitsInv, NEW w \in Worker, Commit(w), picked[w] \in Job,
           w \notin excused, Enforced(q[w], q[w].max_concurrency)
    PROVE  Cardinality(InScope(q[w], InFlight', Scope(q[w], picked[w]))) <= q[w].max_concurrency
<1>1. InFlight \in SUBSET Job /\ InFlight' \in SUBSET Job
      /\ InFlight' \subseteq InFlight \union {picked[w]}
  BY DEF Commit, InFlight, LimitsInv, TypeOK
<1>2. q[w].max_concurrency \in Nat
  BY LimitsAssumption DEF LimitsInv, TypeOK, Enforced
<1>3. Cardinality(InScope(q[w], InFlight, Scope(q[w], picked[w]))) < q[w].max_concurrency
  BY DEF LimitsInv, CapKnown, CapKnownFor, CapOpen, ClaimsSound, Counted, Commit
<1>4. Cardinality(InScope(q[w], InFlight', Scope(q[w], picked[w])))
          <= Cardinality(InScope(q[w], InFlight, Scope(q[w], picked[w]))) + 1
  BY <1>1, OneMoreRow
<1>5. /\ Cardinality(InScope(q[w], InFlight, Scope(q[w], picked[w]))) \in Nat
      /\ Cardinality(InScope(q[w], InFlight', Scope(q[w], picked[w]))) \in Nat
  BY <1>1, FiniteScope
<1> QED  BY <1>2, <1>3, <1>4, <1>5

\* and the rows stamped since a period before its start.
LEMMA RateAtCommit ==
    ASSUME LimitsInv, NEW w \in Worker, Commit(w), picked[w] \in Job,
           w \notin excused, Enforced(q[w], q[w].rate_limit)
    PROVE  Cardinality(InScope(q[w], InWindow(claimed_at', start[w]), Scope(q[w], picked[w])))
               <= q[w].rate_limit
<1> DEFINE before == AdmittedSince(start[w])
           after == InWindow(claimed_at', start[w])
<1>1. before \in SUBSET Job /\ after \in SUBSET Job
      /\ after \subseteq before \union {picked[w]}
  BY DEF Commit, AdmittedSince, InWindow, LimitsInv, TypeOK
<1>2. q[w].rate_limit \in Nat
  BY LimitsAssumption DEF LimitsInv, TypeOK, Enforced
<1>3. Cardinality(InScope(q[w], before, Scope(q[w], picked[w]))) < q[w].rate_limit
  BY DEF LimitsInv, RateKnown, RateKnownFor, RateOpen, ClaimsSound, Commit
<1>4. Cardinality(InScope(q[w], after, Scope(q[w], picked[w])))
          <= Cardinality(InScope(q[w], before, Scope(q[w], picked[w]))) + 1
  BY <1>1, OneMoreRow
<1>5. /\ Cardinality(InScope(q[w], before, Scope(q[w], picked[w]))) \in Nat
      /\ Cardinality(InScope(q[w], after, Scope(q[w], picked[w]))) \in Nat
  BY <1>1, FiniteScope
<1> HIDE DEF before, after
<1>6. Cardinality(InScope(q[w], after, Scope(q[w], picked[w]))) <= q[w].rate_limit
  BY <1>2, <1>3, <1>4, <1>5
<1> QED  BY <1>6 DEF after

\* max_concurrency, per queue or per lane, bounds every admission, for any
\* number of claimers (claim_jorb() under claim_queue_lock()).
THEOREM CapHolds == Spec => CapRespected
<1>1. LimitsInv /\ [Next]_vars =>
        [\A w \in Worker :
            Admits(w) /\ w \notin excused /\ Enforced(q[w], q[w].max_concurrency)
                => SameScope(w, InFlight') <= q[w].max_concurrency]_vars
  BY AdmissionIsCommit, CapAtCommit DEF SameScope, InScope
<1> QED  BY <1>1, CountsStayValid, PTL DEF Spec, CapRespected

\* rate_limit bounds the claimed_at stamps of every trailing window at each
\* admission.
THEOREM RateHolds == Spec => RateRespected
<1>1. LimitsInv /\ [Next]_vars =>
        [\A w \in Worker :
            Admits(w) /\ w \notin excused /\ Enforced(q[w], q[w].rate_limit)
                => SameScope(w, InWindow(claimed_at', start[w])) <= q[w].rate_limit]_vars
  BY AdmissionIsCommit, RateAtCommit DEF SameScope, InScope
<1> QED  BY <1>1, CountsStayValid, PTL DEF Spec, RateRespected

------------------------------------------------------------------------------
(* What an admission is.                                                   *)

\* A row is claimed by one transaction at a time, whatever the interleaving:
\* run_count moves with the state, from queued, by one, at the hands of the one
\* claim that held the row, of a worker that may run it.
ClaimedOnce ==
    [][\A j \in Job :
           run_count'[j] # run_count[j] \/ (state[j] # "claimed" /\ state'[j] = "claimed") =>
               /\ state[j] = "queued" /\ state'[j] = "claimed"
               /\ run_count'[j] = run_count[j] + 1
               /\ \E w \in Worker : /\ picked[w] = j /\ j \in Serves[w]
                                    /\ claimed_at'[j] = start[w]
                                    /\ pc[w] = "picked" /\ pc'[w] = "out"
                                    /\ \A v \in Worker \ {w} : picked[v] # j]_vars

\* A paused queue admits nothing, but from claims that were already open when
\* it was paused (claim_jorb() reads the control row once).
PauseHonoured ==
    [][\A w \in Worker : Admits(w) /\ w \notin excused => ~controls.paused]_vars

------------------------------------------------------------------------------
(* The limits as facts of every state, not of admissions only.             *)

WithinCap ==
    Enforced(controls, controls.max_concurrency) =>
        \A j \in Job : Cardinality(InScope(controls, InFlight, Scope(controls, j)))
                           <= controls.max_concurrency

Window(stamps, t) == {j \in Job : stamps[j] # None /\ t <= stamps[j] /\ stamps[j] < t + Period}

\* Of every window of one period, past or present.
WithinRate ==
    Enforced(controls, controls.rate_limit) =>
        \A t \in Nat, j \in Job :
            Cardinality(InScope(controls, Window(claimed_at, t), Scope(controls, j)))
                <= controls.rate_limit

\* Until an operator changes the controls, no state has more rows in flight, and
\* no window of a period more rows stamped in it, than the controls admit.
WithinLimits == changes = 0 => WithinCap /\ WithinRate

\* After a change, once the claims it overlapped are over, a queue that is back
\* within a limit stays within it until the next change.
LimitsKept ==
    [][controls' = controls /\ excused = {} =>
           (WithinCap => WithinCap') /\ (WithinRate => WithinRate')]_vars

\* A step that is no commit admits nothing and stamps nothing.
LEMMA OnlyCommitAdmits ==
    ASSUME TypeOK, [Next]_vars
    PROVE  \/ \E w \in Worker : Commit(w)
           \/ /\ UNCHANGED <<claimed_at, run_count>>
              /\ \A j \in Job : state'[j] = "claimed" => state[j] = "claimed"
<1> USE DEF control, jorb, claim
<1>1. ASSUME NEW j \in Job, Leave(j) \/ Queue(j)
      PROVE  /\ UNCHANGED <<claimed_at, run_count>>
             /\ \A i \in Job : state'[i] = "claimed" => state[i] = "claimed"
  BY <1>1 DEF Leave, Queue, SetRow, TypeOK
<1>2. \/ UNCHANGED jorb
      \/ \E w \in Worker : Commit(w)
      \/ \E j \in Job : Leave(j) \/ Queue(j)
  BY DEF Next, ClaimStep, Begin, AcquireLock, LockTimeout, CountInFlight,
         CountAdmitted, Pick, ClaimNothing, Abort, SetControls, Tick, vars
<1>3. CASE UNCHANGED jorb
  BY <1>3
<1> QED  BY <1>1, <1>2, <1>3

\* What a commit does to the row it picked, and to no other.
LEMMA CommittedRow ==
    ASSUME LimitsInv, NEW w \in Worker, Commit(w)
    PROVE  /\ picked[w] \in Job /\ picked[w] \in Serves[w]
           /\ pc[w] = "picked" /\ pc'[w] = "out"
           /\ state[picked[w]] = "queued" /\ state'[picked[w]] = "claimed"
           /\ claimed_at'[picked[w]] = start[w]
           /\ run_count'[picked[w]] = run_count[picked[w]] + 1
           /\ \A v \in Worker \ {w} : picked[v] # picked[w]
           /\ \A i \in Job \ {picked[w]} : /\ state'[i] = state[i]
                                           /\ claimed_at'[i] = claimed_at[i]
                                           /\ run_count'[i] = run_count[i]
<1>1. pc[w] = "picked" /\ picked[w] # None /\ picked[w] \in Job
  BY DEF LimitsInv, TypeOK, Commit
<1>2. pc'[w] = "out"
  BY DEF LimitsInv, TypeOK, Commit, EndTransaction
<1>3. /\ state[picked[w]] = "queued" /\ picked[w] \in Serves[w]
      /\ \A v \in Worker \ {w} : picked[v] # picked[w]
  BY <1>1 DEF LimitsInv, ClaimsSound
<1> QED  BY <1>1, <1>2, <1>3 DEF LimitsInv, TypeOK, Commit

\* No job is handed to two workers and no attempt is counted twice.
THEOREM NoDoubleClaim == Spec => ClaimedOnce
<1>1. LimitsInv /\ [Next]_vars =>
        [\A j \in Job :
           run_count'[j] # run_count[j] \/ (state[j] # "claimed" /\ state'[j] = "claimed") =>
               /\ state[j] = "queued" /\ state'[j] = "claimed"
               /\ run_count'[j] = run_count[j] + 1
               /\ \E w \in Worker : /\ picked[w] = j /\ j \in Serves[w]
                                    /\ claimed_at'[j] = start[w]
                                    /\ pc[w] = "picked" /\ pc'[w] = "out"
                                    /\ \A v \in Worker \ {w} : picked[v] # j]_vars
  <2> SUFFICES ASSUME LimitsInv, [Next]_vars, NEW j \in Job,
                      run_count'[j] # run_count[j] \/ (state[j] # "claimed" /\ state'[j] = "claimed")
               PROVE  /\ state[j] = "queued" /\ state'[j] = "claimed"
                      /\ run_count'[j] = run_count[j] + 1
                      /\ \E w \in Worker : /\ picked[w] = j /\ j \in Serves[w]
                                           /\ claimed_at'[j] = start[w]
                                           /\ pc[w] = "picked" /\ pc'[w] = "out"
                                           /\ \A v \in Worker \ {w} : picked[v] # j
    OBVIOUS
  <2>1. PICK w \in Worker : Commit(w)
    BY OnlyCommitAdmits DEF LimitsInv
  <2>2. picked[w] = j
    BY <2>1, CommittedRow
  <2> QED  BY <2>1, <2>2, CommittedRow
<1> QED  BY <1>1, CountsStayValid, PTL DEF Spec, ClaimedOnce

\* Nothing is admitted from a queue that is paused, an overlapped claim aside.
THEOREM PauseHolds == Spec => PauseHonoured
<1>1. LimitsInv /\ [Next]_vars =>
        [\A w \in Worker : Admits(w) /\ w \notin excused => ~controls.paused]_vars
  BY DEF Admits, LimitsInv, ClaimsSound
<1> QED  BY <1>1, CountsStayValid, PTL DEF Spec, PauseHonoured

\* A step under the same controls, with no claim left that read others.
LEMMA CapIsKept ==
    ASSUME LimitsInv, [Next]_vars, controls' = controls, excused = {}, WithinCap
    PROVE  WithinCap'
<1> SUFFICES ASSUME Enforced(controls, controls.max_concurrency), NEW j \in Job
             PROVE  Cardinality(InScope(controls, InFlight', Scope(controls, j)))
                        <= controls.max_concurrency
  BY DEF WithinCap, Enforced, InScope, Scope
<1>t. TypeOK
  BY DEF LimitsInv
<1>1. Cardinality(InScope(controls, InFlight, Scope(controls, j))) <= controls.max_concurrency
  BY DEF WithinCap
<1>2. InFlight \in SUBSET Job /\ InFlight' \in SUBSET Job
  BY DEF InFlight
<1>3. /\ Cardinality(InScope(controls, InFlight, Scope(controls, j))) \in Nat
      /\ Cardinality(InScope(controls, InFlight', Scope(controls, j))) \in Nat
      /\ controls.max_concurrency \in Nat
  BY <1>2, <1>t, FiniteScope, LimitsAssumption DEF TypeOK, Enforced
<1>4. CASE InScope(controls, InFlight', Scope(controls, j))
               \subseteq InScope(controls, InFlight, Scope(controls, j))
  <2>1. Cardinality(InScope(controls, InFlight', Scope(controls, j)))
            <= Cardinality(InScope(controls, InFlight, Scope(controls, j)))
    BY <1>2, <1>4, FiniteScope, FS_Subset
  <2> QED  BY <1>1, <1>3, <2>1
<1>5. CASE \A i \in Job : state'[i] = "claimed" => state[i] = "claimed"
  <2>1. InScope(controls, InFlight', Scope(controls, j))
            \subseteq InScope(controls, InFlight, Scope(controls, j))
    BY <1>5 DEF InScope, InFlight
  <2> QED  BY <1>4, <2>1
<1>6. ASSUME NEW w \in Worker, Commit(w)
      PROVE  Cardinality(InScope(controls, InFlight', Scope(controls, j)))
                 <= controls.max_concurrency
  <2>1. picked[w] \in Job /\ q[w] = controls
    BY <1>6, CommittedRow DEF LimitsInv, ClaimsSound, Commit
  <2>2. CASE Scope(controls, picked[w]) = Scope(controls, j)
    BY <1>6, <2>1, <2>2, CapAtCommit
  <2>3. CASE Scope(controls, picked[w]) # Scope(controls, j)
    <3>1. InScope(controls, InFlight', Scope(controls, j))
              \subseteq InScope(controls, InFlight, Scope(controls, j))
      BY <1>6, <2>3, CommittedRow DEF InScope, InFlight
    <3> QED  BY <1>4, <3>1
  <2> QED  BY <2>2, <2>3
<1> QED  BY <1>t, <1>5, <1>6, OnlyCommitAdmits

\* A claim counts all that was stamped later than a period before its start, so
\* the last admission of a window has counted the rest of the window.
LEMMA RateIsKept ==
    ASSUME LimitsInv, [Next]_vars, controls' = controls, excused = {}, WithinRate
    PROVE  WithinRate'
<1> SUFFICES ASSUME Enforced(controls, controls.rate_limit), NEW t \in Nat, NEW j \in Job
             PROVE  Cardinality(InScope(controls, Window(claimed_at', t), Scope(controls, j)))
                        <= controls.rate_limit
  BY DEF WithinRate, Enforced, InScope, Scope, Window
<1>t. TypeOK
  BY DEF LimitsInv
<1> DEFINE s == Scope(controls, j)
           before == InScope(controls, Window(claimed_at, t), s)
           after == InScope(controls, Window(claimed_at', t), s)
<1>1. Cardinality(before) <= controls.rate_limit
  BY DEF WithinRate
<1>2. Window(claimed_at, t) \in SUBSET Job /\ Window(claimed_at', t) \in SUBSET Job
  BY DEF Window
<1>3. /\ IsFiniteSet(before) /\ Cardinality(before) \in Nat
      /\ IsFiniteSet(after) /\ Cardinality(after) \in Nat
      /\ controls.rate_limit \in Nat
  BY <1>2, <1>t, FiniteScope, LimitsAssumption DEF TypeOK, Enforced
<1>4. CASE after \subseteq before
  <2> HIDE DEF before, after
  <2>1. Cardinality(after) <= Cardinality(before)
    BY <1>3, <1>4, FS_Subset
  <2>2. Cardinality(after) <= controls.rate_limit
    BY <1>1, <1>3, <2>1
  <2> QED  BY <2>2 DEF after
<1>5. CASE UNCHANGED claimed_at
  BY <1>4, <1>5
<1>6. ASSUME NEW w \in Worker, Commit(w)
      PROVE  Cardinality(after) <= controls.rate_limit
  <2>1. picked[w] \in Job /\ q[w] = controls
    BY <1>6, CommittedRow DEF LimitsInv, ClaimsSound, Commit
  <2>2. /\ claimed_at'[picked[w]] = start[w] /\ start[w] \in Nat
        /\ \A i \in Job \ {picked[w]} : claimed_at'[i] = claimed_at[i]
    BY <1>6, <1>t, CommittedRow, LimitsAssumption DEF TypeOK
  <2>3. CASE Scope(controls, picked[w]) = s /\ start[w] < t + Period
    <3> DEFINE counted == InScope(controls, InWindow(claimed_at', start[w]), s)
    <3>1. Cardinality(counted) <= controls.rate_limit
      BY <1>6, <2>1, <2>3, RateAtCommit
    <3>2. Window(claimed_at', t) \subseteq InWindow(claimed_at', start[w])
      <4> SUFFICES ASSUME NEW i \in Job, claimed_at'[i] # None,
                          t <= claimed_at'[i], claimed_at'[i] < t + Period
                   PROVE  claimed_at'[i] + Period > start[w]
        BY DEF Window, InWindow
      <4>1. claimed_at'[i] \in Nat
        BY <1>6, <1>t, LimitsAssumption DEF Commit, TypeOK
      <4> QED  BY <2>2, <2>3, <4>1, LimitsAssumption
    <3>3. after \in SUBSET counted
      BY <3>2 DEF InScope
    <3>4. IsFiniteSet(counted) /\ Cardinality(counted) \in Nat
      BY FiniteScope DEF InWindow
    <3> HIDE DEF counted, after
    <3>5. Cardinality(after) <= Cardinality(counted)
      BY <3>3, <3>4, FS_Subset
    <3> QED  BY <1>3, <3>1, <3>4, <3>5
  <2>4. CASE Scope(controls, picked[w]) # s \/ ~(start[w] < t + Period)
    <3>1. after \subseteq before
      BY <2>2, <2>4 DEF InScope, Window
    <3> QED  BY <1>4, <3>1
  <2> QED  BY <2>3, <2>4
<1> QED  BY <1>t, <1>5, <1>6, OnlyCommitAdmits

\* A queue that is within its limits stays within them, whatever its workers
\* do, until an operator changes them.
THEOREM LimitsAreKept == Spec => LimitsKept
<1>1. LimitsInv /\ [Next]_vars =>
        [controls' = controls /\ excused = {} =>
           (WithinCap => WithinCap') /\ (WithinRate => WithinRate')]_vars
  BY CapIsKept, RateIsKept
<1> QED  BY <1>1, CountsStayValid, PTL DEF Spec, LimitsKept

Untouched == changes = 0 => excused = {}

LEMMA UntouchedAlways == Spec => []Untouched
<1>1. Init => Untouched
  BY DEF Init, Untouched
<1>2. LimitsInv /\ Untouched /\ [Next]_vars => Untouched'
  <2> SUFFICES ASSUME LimitsInv, Untouched, [Next]_vars, changes' = 0 PROVE excused' = {}
    BY DEF Untouched
  <2> USE DEF control, jorb, claim
  <2>1. changes = 0
    BY LimitsAssumption DEF Next, ClaimStep, Begin, AcquireLock, LockTimeout, CountInFlight,
           CountAdmitted, Pick, ClaimNothing, Commit, Abort, Leave, Queue, SetRow,
           SetControls, Tick, vars, LimitsInv, TypeOK
  <2>2. excused = {}
    BY <2>1 DEF Untouched
  <2>3. ASSUME NEW w \in Worker, Commit(w) PROVE excused' = {}
    BY <2>2, <2>3 DEF Commit, LimitsInv, ClaimsSound
  <2>4. ASSUME NEW c \in Controls, SetControls(c) PROVE FALSE
    BY <2>1, <2>4 DEF SetControls
  <2>5. \/ excused' \subseteq excused
        \/ \E w \in Worker : Commit(w)
        \/ \E c \in Controls : SetControls(c)
    BY DEF Next, ClaimStep, Begin, AcquireLock, LockTimeout, CountInFlight,
           CountAdmitted, Pick, ClaimNothing, Abort, Leave, Queue, SetRow, Tick, vars
  <2> QED  BY <2>2, <2>3, <2>4, <2>5
<1> QED  BY <1>1, <1>2, CountsStayValid, PTL DEF Spec

\* Under the controls a queue starts with, every state keeps the cap and every
\* window of a period the rate, for any number of claimers and jobs.
THEOREM LimitsHoldInEveryState == Spec => []WithinLimits
<1>1. Init => WithinLimits
  <2> SUFFICES ASSUME Init PROVE WithinCap /\ WithinRate
    BY DEF WithinLimits
  <2>1. controls \in Controls
    BY DEF Init
  <2>2. WithinCap
    <3>1. \A j \in Job : InScope(controls, InFlight, Scope(controls, j)) = {}
      BY DEF Init, InScope, InFlight
    <3>2. Enforced(controls, controls.max_concurrency) => controls.max_concurrency \in Nat
      BY <2>1, LimitsAssumption DEF Enforced
    <3> QED  BY <3>1, <3>2, FS_EmptySet DEF WithinCap
  <2>3. WithinRate
    <3>1. \A t \in Nat, j \in Job :
              InScope(controls, Window(claimed_at, t), Scope(controls, j)) = {}
      BY DEF Init, InScope, Window
    <3>2. Enforced(controls, controls.rate_limit) => controls.rate_limit \in Nat
      BY <2>1, LimitsAssumption DEF Enforced
    <3> QED  BY <3>1, <3>2, FS_EmptySet DEF WithinRate
  <2> QED  BY <2>2, <2>3
<1>2. LimitsInv /\ Untouched /\ WithinLimits /\ [Next]_vars => WithinLimits'
  <2> SUFFICES ASSUME LimitsInv, Untouched, WithinLimits, [Next]_vars, changes' = 0
               PROVE  WithinCap' /\ WithinRate'
    BY DEF WithinLimits
  <2>1. changes = 0 /\ controls' = controls
    BY LimitsAssumption DEF Next, ClaimStep, Begin, AcquireLock, LockTimeout, CountInFlight,
           CountAdmitted, Pick, ClaimNothing, Commit, Abort, Leave, Queue, SetRow,
           SetControls, Tick, vars, LimitsInv, TypeOK, control, claim
  <2> QED  BY <2>1, CapIsKept, RateIsKept DEF Untouched, WithinLimits
<1> QED  BY <1>1, <1>2, CountsStayValid, UntouchedAlways, PTL DEF Spec
==============================================================================
