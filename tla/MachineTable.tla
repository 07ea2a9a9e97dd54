---------------------------- MODULE MachineTable ----------------------------
(***************************************************************************)
(* The declaration of a state machine job: fsm.normalize()'s table, and    *)
(* what fsm.validate() demands of it when the class is created.            *)
(***************************************************************************)
EXTENDS Integers, Sequences

CONSTANTS
    State, Event,
    initial, final,
    edges           \* <<state, event>> |-> [target, action]

Edge == DOMAIN edges
may(s, e) == <<s, e>> \in Edge

ASSUME DeclarationAssumption ==
    /\ Edge \subseteq State \X Event
    /\ edges \in [Edge -> [target : State, action : BOOLEAN]]
    /\ initial \in State /\ final \subseteq State
    /\ \A e \in Edge : e[1] \notin final
    /\ \A s \in State \ {initial} : \E e \in Edge : edges[e].target = s

==============================================================================
