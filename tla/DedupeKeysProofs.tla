-------------------------- MODULE DedupeKeysProofs --------------------------
(***************************************************************************)
(* What a key promises, for any number of jobs, callers and classes.       *)
(*                                                                         *)
(* The argument.  Only an insert brings a row into the index, and only     *)
(* into an empty one (HoldersShrink): a row that is put back enters it     *)
(* only if it never left.  So one row at most holds the key (Unique), no   *)
(* requeue can collide, and a row of the index that left it never comes    *)
(* back under a call that had seen it (Passed).  A call that finds the key *)
(* taken by a row it has not seen was told of it (Fresh).                  *)
(***************************************************************************)
EXTENDS DedupeKeys, FiniteSetTheorems, TLAPS

Unique == \A i, j \in Job : Holds(i) /\ Holds(j) => i = j

Ran ==
    /\ \A j \in Job : claimed[j] => state[j] \in {"queued", "running", "done"}
    /\ \A j \in Job : kwargs[j] # None => job_class[kwargs[j]] = class[j]
    /\ \A c \in Caller : pc[c] = "bounce" => kind = "debounce"

Passed ==
    \A c \in Caller, j \in Job : pc[c] \in {"bounce", "insert"} /\ seen[c] = j =>
        /\ state[j] # "none"
        /\ kind = "debounce" /\ pc[c] = "insert" => ~Holds(j)

Fresh ==
    \A c \in Caller :
        /\ pc[c] \in {"bounce", "insert"}
        /\ Visible # {}
        /\ \A j \in Job : seen[c] = j => ~Holds(j)
        => news[c]

Inv == TypeOK /\ Unique /\ Ran /\ Passed /\ Fresh /\ RequeueNeverRaises

------------------------------------------------------------------------------
(* The index.                                                              *)

LEMMA InsertFillsEmptyIndex ==
    ASSUME TypeOK, NEW c \in Caller, NEW j \in Job, Insert(c, j)
    PROVE  \A i \in Job : ~Holds(i) /\ (Holds(i)' => i = j)
<1>1. \A i \in Job : i # j => state'[i] = state[i] /\ keyed'[i] = keyed[i]
  BY DEF Insert, TypeOK
<1>2. kind' = kind /\ claimed' = claimed
  BY DEF Insert, fixed
<1> QED
  BY <1>1, <1>2 DEF Insert, Holds, InIndex

\* A batch of rows that are put back takes no place in the index.
LEMMA RequeueTakesNoPlace ==
    ASSUME TypeOK, Unique, NEW batch \in SUBSET Job, Requeue(batch)
    PROVE  /\ raised' = raised
           /\ \A j \in Job : Holds(j)' => Holds(j) /\ (state'[j] # "open" => state[j] # "open")
<1> DEFINE after(j) == IF j \in batch THEN "queued" ELSE state[j]
           key(j) == IF j \in batch THEN KeyAfterRequeue(j) ELSE keyed[j]
           held == {j \in Job : InIndex(after(j), key(j), claimed[j])}
<1>1. \A j \in batch : state[j] \in {"running", "done"}
  BY DEF Requeue
<1>2. \A j \in held : Holds(j) /\ j \in Job
  <2>1. ASSUME NEW j \in Job, j \in batch, InIndex("queued", KeyAfterRequeue(j), claimed[j])
        PROVE  Holds(j)
    BY <1>1, <2>1 DEF InIndex, Holds, KeyAfterRequeue
  <2>2. ASSUME NEW j \in Job, j \notin batch, InIndex(state[j], keyed[j], claimed[j])
        PROVE  Holds(j)
    BY <2>2 DEF Holds
  <2> QED
    BY <2>1, <2>2
<1>3. Cardinality(held) = 0 \/ Cardinality(held) = 1
  <2>1. CASE held = {}
    BY <2>1, FS_EmptySet
  <2>2. ASSUME NEW x, x \in held PROVE held = {x}
    BY <1>2, <2>2 DEF Unique
  <2> QED
    BY <2>1, <2>2, FS_Singleton
<1>4. ~(Cardinality(held) > 1)
  BY <1>3
<1>5. /\ state' = [j \in Job |-> after(j)] /\ keyed' = [j \in Job |-> key(j)]
      /\ raised' = raised /\ claimed' = claimed /\ kind' = kind
  BY <1>4 DEF Requeue, fixed
<1>6. ASSUME NEW j \in Job, Holds(j)' PROVE j \in held
  BY <1>5, <1>6 DEF Holds, InIndex
<1> QED
  BY <1>1, <1>2, <1>5, <1>6

\* Nothing but an insert brings a row into the index, and nothing but an insert
\* or a commit shows it to others.
LEMMA HoldersShrink ==
    ASSUME TypeOK, Unique, Next
    PROVE  \/ \E c \in Caller, j \in Job : Insert(c, j)
           \/ /\ \A j \in Job : Holds(j)' => Holds(j)
              /\ \/ \E c \in Caller, j \in Job : Commit(c, j)
                 \/ Visible' \subseteq Visible
<1>1. ASSUME UNCHANGED <<kind, state, keyed, claimed>>
      PROVE  (\A j \in Job : Holds(j)' => Holds(j)) /\ Visible' \subseteq Visible
  BY <1>1 DEF Visible, Holds, InIndex
<1>2. ASSUME NEW j \in Job, kind' = kind,
             \A i \in Job : i # j => /\ state'[i] = state[i] /\ keyed'[i] = keyed[i]
                                     /\ claimed'[i] = claimed[i],
             Holds(j)' => Holds(j) /\ (state[j] = "open" => state'[j] = "open")
      PROVE  (\A i \in Job : Holds(i)' => Holds(i)) /\ Visible' \subseteq Visible
  <2>1. \A i \in Job : Holds(i)' => Holds(i)
    BY <1>2 DEF Holds, InIndex
  <2> QED
    BY <1>2, <2>1 DEF Visible
<1>3. ASSUME NEW c \in Caller, Call(c),
             ~ \E j \in Job : Insert(c, j) \/ Commit(c, j) \/ Rollback(c, j)
      PROVE  UNCHANGED <<kind, state, keyed, claimed>>
  BY <1>3 DEF Call, Look, Bounce, Refused, NoBounce, Answered, AskAgain, GiveUp, fixed, rows
<1>4. ASSUME NEW c \in Caller, NEW j \in Job, Commit(c, j)
      PROVE  \A i \in Job : Holds(i)' => Holds(i)
  BY <1>4 DEF Commit, Holds, InIndex, TypeOK, fixed
<1>5. ASSUME NEW c \in Caller, NEW j \in Job, Rollback(c, j)
      PROVE  (\A i \in Job : Holds(i)' => Holds(i)) /\ Visible' \subseteq Visible
  <2>1. /\ kind' = kind /\ ~keyed'[j]
        /\ \A i \in Job : i # j => /\ state'[i] = state[i] /\ keyed'[i] = keyed[i]
                                   /\ claimed'[i] = claimed[i]
    BY <1>5 DEF Rollback, Gone, TypeOK, fixed
  <2>2. ~Holds(j)'
    BY <2>1 DEF Holds, InIndex
  <2> QED
    BY <1>2, <2>1, <2>2
<1>6. ASSUME NEW j \in Job, Retire(j)
      PROVE  (\A i \in Job : Holds(i)' => Holds(i)) /\ Visible' \subseteq Visible
  <2>1. /\ kind' = kind /\ ~keyed'[j]
        /\ \A i \in Job : i # j => /\ state'[i] = state[i] /\ keyed'[i] = keyed[i]
                                   /\ claimed'[i] = claimed[i]
    BY <1>6 DEF Retire, Gone, TypeOK, fixed
  <2>2. ~Holds(j)'
    BY <2>1 DEF Holds, InIndex
  <2> QED
    BY <1>2, <2>1, <2>2
<1>7. ASSUME NEW j \in Job, Claim(j) \/ End(j) \/ Fires(j) \/ CapPasses(j)
      PROVE  (\A i \in Job : Holds(i)' => Holds(i)) /\ Visible' \subseteq Visible
  <2>1. /\ kind' = kind /\ keyed' = keyed
        /\ \A i \in Job : i # j => state'[i] = state[i] /\ claimed'[i] = claimed[i]
    BY <1>7 DEF Claim, End, Fires, CapPasses, TypeOK, fixed
  <2>2. /\ Holds(j)' => Holds(j)
        /\ state[j] = "open" => state'[j] = "open"
    BY <1>7 DEF Claim, End, Fires, CapPasses, TypeOK, Holds, InIndex, fixed
  <2> QED
    BY <1>2, <2>1, <2>2
<1>8. ASSUME NEW batch \in SUBSET Job, Requeue(batch)
      PROVE  (\A i \in Job : Holds(i)' => Holds(i)) /\ Visible' \subseteq Visible
  BY <1>8, RequeueTakesNoPlace DEF Visible
<1> QED
  BY <1>1, <1>3, <1>4, <1>5, <1>6, <1>7, <1>8 DEF Next, Call

LEMMA ReturnTypes ==
    ASSUME TypeOK, NEW c \in Caller
    PROVE  /\ Return(c) => /\ pc' \in [Caller -> {"idle", "again", "bounce", "insert", "open"}]
                           /\ seen' \in [Caller -> Job \union {None}]
                           /\ tries' \in [Caller -> 0..(MaxTries - 1)]
           /\ Quiet(c) \/ Told(c) => news' \in [Caller -> BOOLEAN]
<1>1. 0 \in 0..(MaxTries - 1)
  BY KeysAssumption
<1>2. Return(c) => tries' \in [Caller -> 0..(MaxTries - 1)]
  BY <1>1 DEF Return, TypeOK
<1>3. Return(c) => /\ pc' \in [Caller -> {"idle", "again", "bounce", "insert", "open"}]
                   /\ seen' \in [Caller -> Job \union {None}]
  BY DEF Return, TypeOK
<1>4. Told(c) => news' \in [Caller -> BOOLEAN]
  BY DEF Told
<1>5. Quiet(c) => news' \in [Caller -> BOOLEAN]
  BY DEF Quiet, TypeOK
<1> QED
  BY <1>2, <1>3, <1>4, <1>5

LEMMA TypesKept ==
    ASSUME TypeOK, Unique, Next
    PROVE  TypeOK'
<1>1. ASSUME NEW c \in Caller, Look(c) PROVE TypeOK'
  <2>1. seen' \in [Caller -> Job \union {None}]
    BY <1>1 DEF Look, Visible, TypeOK
  <2> QED
    BY <1>1, <2>1 DEF Look, TypeOK, fixed, rows, content, timer
<1>2. ASSUME NEW c \in Caller, Bounce(c) PROVE TypeOK'
  <2>1. kwargs' \in [Job -> Caller \union {None}] /\ parked' \in [Job -> BOOLEAN]
    BY <1>2 DEF Bounce, Bounceable, Clamped, TypeOK
  <2> QED
    BY <1>2, <2>1, ReturnTypes DEF Bounce, TypeOK, fixed
<1>3. ASSUME NEW c \in Caller, Refused(c) \/ Answered(c) \/ GiveUp(c)
      PROVE  TypeOK'
  BY <1>3, ReturnTypes DEF Refused, Answered, GiveUp, TypeOK, fixed, rows, content, timer
<1>4. ASSUME NEW c \in Caller, NoBounce(c) \/ AskAgain(c) PROVE TypeOK'
  <2>1. CASE NoBounce(c)
    BY <1>4, <2>1 DEF NoBounce, TypeOK, fixed, rows, content, timer
  <2>2. CASE AskAgain(c)
    <3>1. tries[c] + 1 \in 0..(MaxTries - 1)
      BY <2>2, KeysAssumption DEF AskAgain, TypeOK
    <3>2. tries' \in [Caller -> 0..(MaxTries - 1)]
      BY <2>2, <3>1 DEF AskAgain, TypeOK
    <3>3. news' \in [Caller -> BOOLEAN]
      BY <2>2, ReturnTypes DEF AskAgain, Retry
    <3>4. /\ pc' \in [Caller -> {"idle", "again", "bounce", "insert", "open"}]
          /\ seen' \in [Caller -> Job \union {None}]
      BY <2>2 DEF AskAgain, Retry, TypeOK
    <3> QED
      BY <2>2, <3>2, <3>3, <3>4 DEF AskAgain, TypeOK, fixed, rows, content, timer
  <2> QED
    BY <1>4, <2>1, <2>2
<1>5. ASSUME NEW c \in Caller, NEW j \in Job, Insert(c, j) PROVE TypeOK'
  <2>1. /\ keyed' \in [Job -> BOOLEAN] /\ parked' \in [Job -> BOOLEAN]
        /\ cap' \in [Job -> {"none", "ahead", "passed"}]
        /\ kwargs' \in [Job -> Caller \union {None}]
        /\ class' \in [Job -> Class \union {None}]
        /\ state' \in [Job -> {"none", "open", "queued", "running", "done", "gone"}]
    BY <1>5 DEF Insert, TypeOK
  <2>2. \/ Return(c) /\ Told(c)
        \/ pc' = [pc EXCEPT ![c] = "open"] /\ UNCHANGED <<seen, tries, news>>
    BY <1>5 DEF Insert
  <2>3. /\ pc' \in [Caller -> {"idle", "again", "bounce", "insert", "open"}]
        /\ seen' \in [Caller -> Job \union {None}]
        /\ tries' \in [Caller -> 0..(MaxTries - 1)]
        /\ news' \in [Caller -> BOOLEAN]
    BY <2>2, ReturnTypes DEF TypeOK
  <2> QED
    BY <1>5, <2>1, <2>3 DEF Insert, TypeOK, fixed
<1>6. ASSUME NEW c \in Caller, NEW j \in Job, Commit(c, j) \/ Rollback(c, j) PROVE TypeOK'
  <2>1. /\ keyed' \in [Job -> BOOLEAN] /\ claimed' \in [Job -> BOOLEAN]
        /\ parked' \in [Job -> BOOLEAN] /\ cap' \in [Job -> {"none", "ahead", "passed"}]
        /\ kwargs' \in [Job -> Caller \union {None}] /\ class' = class
        /\ state' \in [Job -> {"none", "open", "queued", "running", "done", "gone"}]
    BY <1>6 DEF Commit, Rollback, Gone, TypeOK, content, timer
  <2>2. Return(c) /\ (Told(c) \/ Quiet(c)) /\ UNCHANGED <<fixed, raised>>
    BY <1>6 DEF Commit, Rollback
  <2> QED
    BY <2>1, <2>2, ReturnTypes DEF TypeOK, fixed
<1>7. ASSUME NEW j \in Job, Claim(j) \/ End(j) \/ Retire(j) \/ Fires(j) \/ CapPasses(j)
      PROVE  TypeOK'
  BY <1>7
  DEF Claim, End, Retire, Gone, Fires, CapPasses, TypeOK, fixed, content, timer, calls
<1>8. ASSUME NEW batch \in SUBSET Job, Requeue(batch) PROVE TypeOK'
  <2>1. \A j \in Job : /\ (IF j \in batch THEN KeyAfterRequeue(j) ELSE keyed[j]) \in BOOLEAN
                       /\ (parked[j] /\ j \notin batch) \in BOOLEAN
    BY DEF KeyAfterRequeue, TypeOK
  <2>2. CASE UNCHANGED <<state, keyed, timer>> /\ raised' = TRUE
    BY <1>8, <2>2 DEF Requeue, TypeOK, fixed, content, calls, timer
  <2>3. CASE /\ state' = [j \in Job |-> IF j \in batch THEN "queued" ELSE state[j]]
             /\ keyed' = [j \in Job |-> IF j \in batch THEN KeyAfterRequeue(j) ELSE keyed[j]]
             /\ parked' = [j \in Job |-> parked[j] /\ j \notin batch]
             /\ cap' = [j \in Job |-> IF j \in batch THEN "none" ELSE cap[j]]
             /\ UNCHANGED raised
    <3>1. /\ state' \in [Job -> {"none", "open", "queued", "running", "done", "gone"}]
          /\ cap' \in [Job -> {"none", "ahead", "passed"}]
      BY <2>3 DEF TypeOK
    <3>2. keyed' \in [Job -> BOOLEAN] /\ parked' \in [Job -> BOOLEAN]
      BY <2>1, <2>3
    <3> QED
      BY <1>8, <2>3, <3>1, <3>2 DEF Requeue, TypeOK, fixed, content, calls
  <2> QED
    BY <1>8, <2>2, <2>3 DEF Requeue
<1> QED
  BY <1>1, <1>2, <1>3, <1>4, <1>5, <1>6, <1>7, <1>8 DEF Next, Call

LEMMA UniqueKept ==
    ASSUME TypeOK, Unique, Next
    PROVE  Unique'
<1>1. CASE \E c \in Caller, j \in Job : Insert(c, j)
  BY <1>1, InsertFillsEmptyIndex DEF Unique
<1> QED
  BY <1>1, HoldersShrink DEF Unique

LEMMA RanKept ==
    ASSUME TypeOK, Unique, Ran, Next
    PROVE  Ran'
<1>1. ASSUME NEW c \in Caller, Look(c) PROVE Ran'
  BY <1>1 DEF Look, TypeOK, Ran, fixed, rows, content
<1>2. ASSUME NEW c \in Caller, Bounce(c) PROVE Ran'
  BY <1>2 DEF Bounce, Bounceable, Return, TypeOK, Ran, fixed
<1>3. ASSUME NEW c \in Caller,
             Refused(c) \/ NoBounce(c) \/ Answered(c) \/ GiveUp(c) \/ AskAgain(c)
      PROVE  Ran'
  BY <1>3
  DEF Refused, NoBounce, Answered, GiveUp, AskAgain, Retry, Return, TypeOK, Ran, fixed,
      rows, content
<1>4. ASSUME NEW c \in Caller, NEW j \in Job, Insert(c, j) PROVE Ran'
  <2>1. \A i \in Job : claimed'[i] => state'[i] \in {"queued", "running", "done"}
    BY <1>4 DEF Insert, TypeOK, Ran
  <2>2. \A i \in Job : kwargs'[i] # None => job_class'[kwargs'[i]] = class'[i]
    BY <1>4 DEF Insert, TypeOK, Ran, fixed
  <2>3. \A d \in Caller : pc'[d] = "bounce" => kind' = "debounce"
    BY <1>4 DEF Insert, Return, TypeOK, Ran, fixed
  <2> QED
    BY <2>1, <2>2, <2>3 DEF Ran
<1>5. ASSUME NEW c \in Caller, NEW j \in Job, Commit(c, j) \/ Rollback(c, j) PROVE Ran'
  BY <1>5 DEF Commit, Rollback, Gone, Return, TypeOK, Ran, fixed, content
<1>6. ASSUME NEW j \in Job, Claim(j) \/ End(j) \/ Retire(j) \/ Fires(j) \/ CapPasses(j)
      PROVE  Ran'
  BY <1>6 DEF Claim, End, Retire, Gone, Fires, CapPasses, TypeOK, Ran, fixed, content, calls
<1>7. ASSUME NEW batch \in SUBSET Job, Requeue(batch) PROVE Ran'
  BY <1>7 DEF Requeue, TypeOK, Ran, fixed, content, calls
<1> QED
  BY <1>1, <1>2, <1>3, <1>4, <1>5, <1>6, <1>7 DEF Next, Call

\* Where a step leaves a call.
LEMMA CallsMove ==
    ASSUME TypeOK, Next, NEW c \in Caller, Look(c) \/ pc'[c] \in {"bounce", "insert"}
    PROVE  \/ Look(c)
           \/ /\ pc[c] \in {"bounce", "insert"} /\ seen'[c] = seen[c]
              /\ news[c] => news'[c]
              /\ pc'[c] = pc[c] \/ NoBounce(c)
<1>1. ASSUME NEW d \in Caller, Return(d), Told(d) \/ Quiet(d), ~Look(c)
      PROVE  /\ pc[c] \in {"bounce", "insert"} /\ seen'[c] = seen[c]
             /\ pc'[c] = pc[c] /\ (news[c] => news'[c])
  BY <1>1 DEF Return, Told, Quiet, TypeOK
<1>2. ASSUME NEW d \in Caller,
             Bounce(d) \/ Refused(d) \/ Answered(d) \/ GiveUp(d)
               \/ \E j \in Job : Commit(d, j) \/ Rollback(d, j)
      PROVE  Return(d) /\ (Told(d) \/ Quiet(d))
  BY <1>2 DEF Bounce, Refused, Answered, GiveUp, Commit, Rollback
<1>3. ASSUME NEW d \in Caller, Look(d) \/ NoBounce(d) \/ AskAgain(d), ~Look(c)
      PROVE  /\ pc[c] \in {"bounce", "insert"} /\ seen'[c] = seen[c]
             /\ news[c] => news'[c]
             /\ pc'[c] = pc[c] \/ NoBounce(c)
  BY <1>3 DEF Look, NoBounce, AskAgain, Retry, Quiet, TypeOK
<1>4. ASSUME NEW d \in Caller, NEW j \in Job, Insert(d, j), ~Look(c)
      PROVE  /\ pc[c] \in {"bounce", "insert"} /\ seen'[c] = seen[c]
             /\ pc'[c] = pc[c] /\ (news[c] => news'[c])
  <2>1. CASE pc' = [pc EXCEPT ![d] = "open"] /\ UNCHANGED <<seen, tries, news>>
    BY <1>4, <2>1 DEF TypeOK
  <2> QED
    BY <1>1, <1>4, <2>1 DEF Insert
<1>5. ASSUME UNCHANGED calls, ~Look(c)
      PROVE  /\ pc[c] \in {"bounce", "insert"} /\ seen'[c] = seen[c]
             /\ pc'[c] = pc[c] /\ (news[c] => news'[c])
  BY <1>5 DEF calls
<1>6. (\E d \in Caller : Call(d)) \/ UNCHANGED calls
  BY DEF Next, Claim, End, Retire, Fires, CapPasses, Requeue
<1>7. ASSUME NEW d \in Caller, Call(d), ~Look(c)
      PROVE  /\ pc[c] \in {"bounce", "insert"} /\ seen'[c] = seen[c]
             /\ news[c] => news'[c]
             /\ pc'[c] = pc[c] \/ NoBounce(c)
  <2>1. CASE Look(d) \/ NoBounce(d) \/ AskAgain(d)
    BY <1>3, <1>7, <2>1
  <2>2. CASE \E j \in Job : Insert(d, j)
    BY <1>4, <1>7, <2>2
  <2>3. CASE Return(d) /\ (Told(d) \/ Quiet(d))
    BY <1>1, <1>7, <2>3
  <2> QED
    BY <1>2, <1>7, <2>1, <2>2, <2>3 DEF Call
<1> QED
  <2>1. CASE Look(c)
    BY <2>1
  <2>2. CASE ~Look(c) /\ UNCHANGED calls
    BY <1>5, <2>2
  <2>3. ASSUME ~Look(c), NEW d \in Caller, Call(d)
        PROVE  /\ pc[c] \in {"bounce", "insert"} /\ seen'[c] = seen[c]
               /\ news[c] => news'[c]
               /\ pc'[c] = pc[c] \/ NoBounce(c)
    BY <1>7, <2>3
  <2> QED
    BY <1>6, <2>1, <2>2, <2>3

LEMMA NoneIsFirst ==
    ASSUME TypeOK, Next, NEW j \in Job, state[j] # "none"
    PROVE  state'[j] # "none"
<1>1. ASSUME NEW i \in Job, NEW s \in {"open", "queued", "running", "done", "gone"},
             state' = [state EXCEPT ![i] = s]
      PROVE  state'[j] # "none"
  BY <1>1 DEF TypeOK
<1>2. ASSUME NEW batch \in SUBSET Job, Requeue(batch) PROVE state'[j] # "none"
  BY <1>2 DEF Requeue
<1>3. ASSUME NEW i \in Job, NEW c \in Caller,
             Insert(c, i) \/ Commit(c, i) \/ Rollback(c, i)
      PROVE  state'[j] # "none"
  BY <1>1, <1>3 DEF Insert, Commit, Rollback, Gone
<1>4. ASSUME NEW i \in Job, Claim(i) \/ End(i) \/ Retire(i) \/ Fires(i) \/ CapPasses(i)
      PROVE  state'[j] # "none"
  BY <1>1, <1>4 DEF Claim, End, Retire, Gone, Fires, CapPasses
<1>5. ASSUME UNCHANGED state PROVE state'[j] # "none"
  BY <1>5
<1> QED
  BY <1>2, <1>3, <1>4, <1>5
  DEF Next, Call, Look, Bounce, Refused, NoBounce, Answered, AskAgain, GiveUp, rows

LEMMA PassedKept ==
    ASSUME TypeOK, Unique, Ran, Passed, Next
    PROVE  Passed'
<1> SUFFICES ASSUME NEW c \in Caller, NEW r \in Job,
                    pc'[c] \in {"bounce", "insert"}, seen'[c] = r
             PROVE  /\ state'[r] # "none"
                    /\ kind' = "debounce" /\ pc'[c] = "insert" => ~Holds(r)'
  BY DEF Passed
<1>2. CASE Look(c)
  <2>1. UNCHANGED <<kind, state, keyed, claimed>> /\ r \in Visible
    BY <1>2, KeysAssumption DEF Look, fixed, rows, TypeOK
  <2>2. kind = "debounce" => pc'[c] # "insert"
    BY <1>2 DEF Look, TypeOK
  <2> QED
    BY <2>1, <2>2 DEF Visible, Holds, InIndex
<1>3. CASE ~Look(c)
  <2>1. /\ pc[c] \in {"bounce", "insert"} /\ seen[c] = r
        /\ pc'[c] = pc[c] \/ NoBounce(c)
    BY <1>3, CallsMove
  <2>2. state[r] # "none"
    BY <2>1 DEF Passed
  <2>3. kind = "debounce" /\ pc'[c] = "insert" => ~Holds(r)
    <3>1. CASE pc'[c] = pc[c]
      BY <2>1, <3>1 DEF Passed
    <3>2. CASE NoBounce(c)
      BY <2>1, <3>2, KeysAssumption DEF NoBounce, Bounceable, OtherClass
    <3> QED
      BY <2>1, <3>1, <3>2
  <2>4. kind' = kind
    BY DEF Next, Call, Look, Bounce, Refused, NoBounce, Insert, Answered, AskAgain, GiveUp,
       Commit, Rollback, Claim, End, Retire, Fires, CapPasses, Requeue, fixed
  <2>5. CASE \E d \in Caller, j \in Job : Insert(d, j)
    <3>1. PICK d \in Caller, j \in Job : Insert(d, j)
      BY <2>5
    <3>2. r # j /\ state'[r] = state[r]
      BY <2>1, <2>2, <3>1 DEF Insert, TypeOK
    <3>3. ~Holds(r)'
      BY <2>1, <3>1, <3>2, InsertFillsEmptyIndex
    <3> QED
      BY <2>1, <2>2, <3>2, <3>3 DEF Holds, InIndex
  <2>6. CASE ~ \E d \in Caller, j \in Job : Insert(d, j)
    <3>1. Holds(r)' => Holds(r)
      BY <2>1, <2>6, HoldersShrink
    <3>2. state'[r] # "none"
      BY <2>1, <2>2, <2>6, NoneIsFirst
    <3> QED
      BY <2>1, <2>3, <2>4, <3>1, <3>2 DEF Holds, InIndex
  <2> QED
    BY <2>5, <2>6
<1> QED
  BY <1>2, <1>3

LEMMA FreshKept ==
    ASSUME TypeOK, Unique, Fresh, Next
    PROVE  Fresh'
<1> SUFFICES ASSUME NEW c \in Caller, pc'[c] \in {"bounce", "insert"}, Visible' # {},
                    \A j \in Job : seen'[c] = j => ~Holds(j)'
             PROVE  news'[c]
  BY DEF Fresh
<1>1. ~Look(c)
  <2>1. ASSUME Look(c) PROVE FALSE
    <3>1. Visible' = Visible /\ UNCHANGED <<kind, state, keyed, claimed>>
      BY <2>1 DEF Look, fixed, rows, Visible, Holds, InIndex
    <3>2. seen'[c] \in Visible
      BY <2>1, <3>1 DEF Look, TypeOK
    <3> QED
      BY <3>1, <3>2 DEF Visible, Holds, InIndex
  <2> QED
    BY <2>1
<1>2. pc[c] \in {"bounce", "insert"} /\ seen'[c] = seen[c] /\ (news[c] => news'[c])
  BY <1>1, CallsMove
<1>3. ASSUME NEW d \in Caller, Return(d), Told(d) PROVE news'[c]
  BY <1>2, <1>3 DEF Return, Told, TypeOK
<1>4. ASSUME NEW d \in Caller, NEW j \in Job, Insert(d, j) PROVE news'[c]
  <2>1. CASE state' = [state EXCEPT ![j] = "open"]
    <3>1. state'[j] = "open"
      BY <2>1 DEF TypeOK
    <3> QED
      BY <1>4, <3>1, InsertFillsEmptyIndex DEF Visible
  <2> QED
    BY <1>3, <1>4, <2>1 DEF Insert
<1>5. ASSUME NEW d \in Caller, NEW j \in Job, Commit(d, j) PROVE news'[c]
  BY <1>3, <1>5 DEF Commit
<1>6. CASE /\ \A j \in Job : Holds(j)' => Holds(j)
           /\ Visible' \subseteq Visible
  <2>1. PICK v \in Visible' : v \in Visible /\ v \in Job /\ Holds(v)' /\ Holds(v)
    BY <1>6 DEF Visible
  <2>2. ASSUME NEW j \in Job, seen[c] = j PROVE ~Holds(j)
    <3>1. ~Holds(j)'
      BY <1>2, <2>2
    <3>2. Holds(j) => j = v
      BY <2>1 DEF Unique
    <3> QED
      BY <2>1, <3>1, <3>2
  <2> QED
    BY <1>2, <2>1, <2>2 DEF Fresh
<1> QED
  BY <1>4, <1>5, <1>6, HoldersShrink

LEMMA InvInitial == Init => Inv
<1> SUFFICES ASSUME Init PROVE Inv
  OBVIOUS
<1>1. \A j \in Job : ~Holds(j)
  BY DEF Init, Holds, InIndex
<1>2. TypeOK
  <2>1. 0 \in 0..(MaxTries - 1)
    BY KeysAssumption
  <2> QED
    BY <2>1 DEF Init, TypeOK
<1>3. Ran /\ Passed /\ Fresh /\ RequeueNeverRaises
  BY DEF Init, Ran, Passed, Fresh, RequeueNeverRaises
<1> QED
  BY <1>1, <1>2, <1>3 DEF Inv, Unique

LEMMA InvInductive == Inv /\ [Next]_vars => Inv'
<1> SUFFICES ASSUME Inv, [Next]_vars PROVE Inv'
  OBVIOUS
<1>1. CASE Next
  <2>1. RequeueNeverRaises'
    BY <1>1, RequeueTakesNoPlace
    DEF Inv, RequeueNeverRaises, Next, Call, Look, Bounce, Refused, NoBounce, Insert, Answered,
        AskAgain, GiveUp, Commit, Rollback, Claim, End, Retire, Fires, CapPasses
  <2> QED
    BY <1>1, <2>1, TypesKept, UniqueKept, RanKept, PassedKept, FreshKept DEF Inv
<1>2. CASE UNCHANGED vars
  BY <1>2
  DEF vars, fixed, rows, content, timer, calls, Inv, TypeOK, Unique, Ran, Passed, Fresh,
      RequeueNeverRaises, Holds, InIndex, Visible
<1> QED
  BY <1>1, <1>2

LEMMA InvAlways == Spec => []Inv
BY InvInitial, InvInductive, PTL DEF Spec

\* Calls and rows keep their types; an attempt is counted up to MaxTries.
THEOREM TypeCorrect == Spec => []TypeOK
<1>1. Inv => TypeOK
  BY DEF Inv
<1> QED
  BY InvAlways, <1>1, PTL

\* At most one row holds the key, for any number of callers and rows, however
\* inserts, requeues of whole batches, commits and rollbacks interleave.
THEOREM OneHolder == Spec => []Unique
<1>1. Inv => Unique
  BY DEF Inv
<1> QED
  BY InvAlways, <1>1, PTL

\* No statement that puts rows back collides on a unique index.
THEOREM RequeuesPass == Spec => []RequeueNeverRaises
<1>1. Inv => RequeueNeverRaises
  BY DEF Inv
<1> QED
  BY InvAlways, <1>1, PTL

\* A key used for two classes never leaves one with the other's arguments.
THEOREM ArgumentsFit == Spec => []ArgumentsOfItsClass
<1>1. Inv => ArgumentsOfItsClass
  BY DEF Inv, Ran, ArgumentsOfItsClass
<1> QED
  BY InvAlways, <1>1, PTL

\* No bounce, however late, rewrites the arguments of a job once claimed.
THEOREM ClaimFixesArguments == Spec => ArgumentsFixedAtClaim
<1> DEFINE Kept == \A j \in Job : claimed[j] /\ state'[j] # "gone" => kwargs'[j] = kwargs[j]
<1>1. Inv /\ [Next]_vars => [Kept]_vars
  <2> SUFFICES ASSUME Inv, Next, NEW j \in Job, claimed[j], state'[j] # "gone"
               PROVE  kwargs'[j] = kwargs[j]
    OBVIOUS
  <2>1. state[j] \in {"queued", "running", "done"}
    BY DEF Inv, Ran
  <2>2. ASSUME NEW c \in Caller, Bounce(c) PROVE kwargs'[j] = kwargs[j]
    <3>1. kind = "debounce" /\ Holds(seen[c])
      BY <2>2 DEF Bounce, Bounceable, Inv, Ran
    <3>2. seen[c] # j
      BY <3>1 DEF Holds, InIndex
    <3> QED
      BY <2>2, <3>2 DEF Bounce, Inv, TypeOK
  <2>3. ASSUME NEW c \in Caller, NEW i \in Job, Insert(c, i) PROVE kwargs'[j] = kwargs[j]
    BY <2>1, <2>3 DEF Insert, Inv, TypeOK
  <2>4. ASSUME NEW i \in Job, Gone(i) PROVE kwargs'[j] = kwargs[j]
    BY <2>4 DEF Gone, Inv, TypeOK
  <2> QED
    BY <2>2, <2>3, <2>4
    DEF Next, Call, Look, Refused, NoBounce, Answered, AskAgain, GiveUp, Commit, Rollback,
        Claim, End, Retire, Fires, CapPasses, Requeue, rows, content
<1> QED
  BY InvAlways, <1>1, PTL DEF Spec, ArgumentsFixedAtClaim

\* A call gives up only when, in its last attempt too, somebody took the key
\* after the call's snapshot.
THEOREM ExhaustionIsTraffic == Spec => GivesUpOnlyToTraffic
<1> DEFINE Traffic == \A c \in Caller : GiveUp(c) => news[c]
<1>1. Inv => [Traffic]_vars
  <2> SUFFICES ASSUME Inv, NEW c \in Caller, GiveUp(c) PROVE news[c]
    OBVIOUS
  <2>1. /\ pc[c] = "insert" /\ Visible # {}
        /\ kind = "debounce" \/ seen[c] = None
    BY DEF GiveUp, LostRace
  <2>2. \A j \in Job : seen[c] = j => ~Holds(j)
    BY <2>1, KeysAssumption DEF Inv, Passed
  <2> QED
    BY <2>1, <2>2 DEF Inv, Fresh
<1> QED
  BY InvAlways, <1>1, PTL DEF Spec, GivesUpOnlyToTraffic

------------------------------------------------------------------------------
(* The key as a slot.                                                      *)

holder == IF \E j \in Job : Holds(j) THEN CHOOSE j \in Job : Holds(j) ELSE None
inserted == {j \in Job : state[j] # "none"}

Slot == INSTANCE KeySlot

LEMMA TheHolder ==
    ASSUME Unique
    PROVE  /\ \A j \in Job : Holds(j) => holder = j
           /\ holder # None => holder \in Job /\ Holds(holder)
           /\ (\A j \in Job : ~Holds(j)) => holder = None
<1>1. (\E j \in Job : Holds(j)) => holder \in Job /\ Holds(holder)
  BY DEF holder
<1> QED
  BY <1>1 DEF Unique, holder

LEMMA TheNextHolder ==
    ASSUME Unique'
    PROVE  /\ \A j \in Job : Holds(j)' => holder' = j
           /\ holder' # None => holder' \in Job /\ \E j \in Job : j = holder' /\ Holds(j)'
           /\ (\A j \in Job : ~Holds(j)') => holder' = None
<1>1. (\E j \in Job : Holds(j)') => \E j \in Job : j = holder' /\ Holds(j)'
  BY DEF holder
<1> QED
  BY <1>1 DEF Unique, holder

\* Rows come into being only by an insert, and nothing undoes that.
LEMMA InsertedOnce ==
    ASSUME TypeOK, Unique, Next
    PROVE  inserted' = inserted \/ \E c \in Caller, j \in Job : Insert(c, j)
<1>1. ASSUME NEW c \in Caller, Call(c), ~ \E j \in Job : Insert(c, j) PROVE inserted' = inserted
  BY <1>1
  DEF Call, Look, Bounce, Refused, NoBounce, Answered, AskAgain, GiveUp, Commit, Rollback,
      Gone, fixed, rows, inserted, TypeOK
<1>2. ASSUME NEW j \in Job, Claim(j) \/ End(j) \/ Retire(j) \/ Fires(j) \/ CapPasses(j)
      PROVE  inserted' = inserted
  BY <1>2 DEF Claim, End, Retire, Gone, Fires, CapPasses, inserted, TypeOK
<1>3. ASSUME NEW batch \in SUBSET Job, Requeue(batch) PROVE inserted' = inserted
  BY <1>3 DEF Requeue, inserted, TypeOK
<1> QED
  BY <1>1, <1>2, <1>3 DEF Next

\* Whatever its kind, a key is a slot: an insert takes it when it is free, the
\* row that has it gives it up for good, and no statement that moves rows (a
\* retry, a sweep over a batch, a rerun, a commit or a rollback) hands it over
\* or takes it back.
THEOREM KeyIsASlot == Spec => Slot!Spec
<1>1. Init => Slot!Init
  <2> SUFFICES ASSUME Init PROVE holder = None /\ inserted = {}
    BY DEF Slot!Init
  <2>1. \A j \in Job : ~Holds(j)
    BY DEF Init, Holds, InIndex
  <2> QED
    BY <2>1 DEF Init, holder, inserted
<1>2. ASSUME Inv, Inv', [Next]_vars PROVE [Slot!Next]_<<holder, inserted>>
  <2> USE DEF Inv
  <2>1. CASE UNCHANGED vars
    BY <1>2, <2>1
    DEF vars, fixed, rows, holder, inserted, Holds, InIndex
  <2>2. ASSUME NEW c \in Caller, NEW j \in Job, Insert(c, j) PROVE Slot!Take(j)
    <3>1. holder = None
      BY <1>2, <2>2, InsertFillsEmptyIndex, TheHolder
    <3>2. /\ state[j] = "none" /\ ~claimed[j]
          /\ state' = [state EXCEPT ![j] = "queued"] \/ state' = [state EXCEPT ![j] = "open"]
          /\ keyed' = [keyed EXCEPT ![j] = TRUE]
          /\ claimed' = claimed /\ kind' = kind
      BY <1>2, <2>2 DEF Insert, fixed, Ran
    <3>3. state'[j] \in {"open", "queued"} /\ keyed'[j] /\ ~claimed'[j]
      BY <1>2, <3>2 DEF TypeOK
    <3>4. Holds(j)'
      BY <1>2, <3>2, <3>3 DEF Holds, InIndex, TypeOK
    <3>5. holder' = j
      BY <1>2, <3>4, TheNextHolder
    <3>6. inserted' = inserted \union {j} /\ j \notin inserted
      BY <1>2, <3>2 DEF inserted, TypeOK
    <3> QED
      BY <3>1, <3>5, <3>6 DEF Slot!Take
  <2>3. CASE Next /\ ~ \E c \in Caller, j \in Job : Insert(c, j)
    <3>1. inserted' = inserted /\ \A j \in Job : Holds(j)' => Holds(j)
      BY <1>2, <2>3, InsertedOnce, HoldersShrink
    <3>2. holder' = holder \/ holder' = None
      BY <1>2, <3>1, TheHolder, TheNextHolder
    <3>3. CASE holder' = holder
      BY <3>1, <3>3
    <3>4. CASE holder' = None /\ holder # None
      BY <3>1, <3>4 DEF Slot!Next, Slot!GiveUp
    <3> QED
      BY <3>2, <3>3, <3>4
  <2> QED
    BY <1>2, <2>1, <2>2, <2>3 DEF Slot!Next
<1> QED
  BY InvAlways, <1>1, <1>2, PTL DEF Spec, Slot!Spec

==============================================================================
