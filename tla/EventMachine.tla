---------------------------- MODULE EventMachine ----------------------------
(***************************************************************************)
(* What a durable state machine promises to those who send it events,      *)
(* whatever happens to the workers that run it: events are taken oldest    *)
(* first and one at a time, the action of an edge takes effect once, and   *)
(* the position moves only along the edge of the event that was taken.  A  *)
(* "fresh" rerun gives up the event in hand and the output so far, and     *)
(* nothing else.  StateMachine is shown to implement this specification.   *)
(***************************************************************************)
EXTENDS MachineTable

VARIABLES
    position,       \* where the machine is
    sent, inbox,    \* every event sent, and those not taken, by number
    taken, done,    \* the event in hand (0 is none), and those dealt with
    out             \* what actions put out: the events they acted on

vars == <<position, sent, inbox, taken, done, out>>

Init ==
    /\ position = initial
    /\ sent = <<>> /\ inbox = {}
    /\ taken = 0 /\ done = {}
    /\ out = <<>>

Arrive(e) ==
    /\ sent' = Append(sent, e)
    /\ inbox' = inbox \union {Len(sent) + 1}
    /\ UNCHANGED <<position, taken, done, out>>

Take(m) ==
    /\ taken = 0 /\ position \notin final
    /\ \A n \in inbox : m <= n
    /\ taken' = m
    /\ inbox' = inbox \ {m}
    /\ UNCHANGED <<position, sent, done, out>>

Acted == \E i \in DOMAIN out : out[i] = taken

Act ==
    /\ taken # 0 /\ may(position, sent[taken])
    /\ edges[<<position, sent[taken]>>].action /\ ~Acted
    /\ out' = Append(out, taken)
    /\ UNCHANGED <<position, sent, inbox, taken, done>>

Dealt == taken' = 0 /\ done' = done \union {taken}

Turn ==
    /\ taken # 0 /\ may(position, sent[taken])
    /\ edges[<<position, sent[taken]>>].action => Acted
    /\ position' = edges[<<position, sent[taken]>>].target
    /\ Dealt
    /\ UNCHANGED <<sent, inbox, out>>

Drop ==
    /\ taken # 0 /\ ~may(position, sent[taken])
    /\ Dealt
    /\ UNCHANGED <<position, sent, inbox, out>>

StartOver ==
    /\ out' = <<>>
    /\ taken' = 0 /\ done' = done \union ({taken} \ {0})
    /\ UNCHANGED <<position, sent, inbox>>

Next ==
    \/ \E e \in Event : Arrive(e)
    \/ \E m \in inbox : Take(m)
    \/ Act \/ Turn \/ Drop \/ StartOver

Spec == Init /\ [][Next]_vars

==============================================================================
