------------------------------- MODULE KeySlot -------------------------------
(***************************************************************************)
(* What a caller-chosen key is to those who use it: a slot that one job at *)
(* most is in.  A job takes it when it is inserted, if it is free, and     *)
(* gives it up for good; it is never handed from one job to another.       *)
(* DedupeKeys is shown to implement this specification for keys of every   *)
(* kind.                                                                   *)
(***************************************************************************)
CONSTANTS Job, None

VARIABLES
    holder,         \* the job in the slot
    inserted        \* the jobs that have been inserted with the key

Init == holder = None /\ inserted = {}

Take(j) ==
    /\ holder = None /\ j \notin inserted
    /\ holder' = j
    /\ inserted' = inserted \union {j}

GiveUp ==
    /\ holder # None
    /\ holder' = None
    /\ UNCHANGED inserted

Next == GiveUp \/ \E j \in Job : Take(j)

Spec == Init /\ [][Next]_<<holder, inserted>>

==============================================================================
