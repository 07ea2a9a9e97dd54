--------------------------- MODULE MCStateMachine ----------------------------
(***************************************************************************)
(* A small machine: `go' submits a draft (with an action) and approves it, *)
(* `no' sends it back from review and is dropped by a draft.               *)
(***************************************************************************)
EXTENDS StateMachine, TLC

CONSTANTS draft, review, approved, go, no

ReviewEdges ==
    <<draft, go>> :> [target |-> review, action |-> TRUE]
        @@ <<review, no>> :> [target |-> draft, action |-> FALSE]
        @@ <<review, go>> :> [target |-> approved, action |-> TRUE]
==============================================================================
