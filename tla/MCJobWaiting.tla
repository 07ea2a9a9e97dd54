----------------------------- MODULE MCJobWaiting -----------------------------
(***************************************************************************)
(* Small instances of JobWaiting for TLC: a wait of each kind and a reader *)
(* without a listener, in pairs; the dashboard's clients by themselves.    *)
(***************************************************************************)
EXTENDS JobWaiting, TLC

CONSTANTS result, value, reader, polled, c1, c2, app, dashboard

WaitChannel == (result :> "jorb_done") @@ (value :> "jorb_event")
               @@ [w \in {reader, polled} |-> "jorb_stream"]

SecondValue == [w \in Wait |-> 2]

ListenSets == (app :> Channel) @@ (dashboard :> {"jorb_done"})

Groups == ({result, value} :> 2) @@ ({reader} :> 2) @@ ({polled} :> 2)
          @@ ({c1} :> 2) @@ ({c1, c2} :> 1)

Dashboard == {c1, c2} :> 1
==============================================================================
