-------------------------- MODULE MCJobDependencies ---------------------------
(***************************************************************************)
(* A small instance of JobDependencies: u and m form a DAG in which m     *)
(* waits for u, and g waits for the group they make up.  u, which is never *)
(* parked, reads what g returned: g may be there first, or have had a run. *)
(***************************************************************************)
EXTENDS JobDependencies

CONSTANTS u, m, g

UpstreamJob == [j \in Job |-> IF j = m THEN u ELSE None]
UpstreamGroup == [j \in Job |-> IF j = g THEN "fan" ELSE None]
Reads == [j \in Job |-> IF j = u THEN g ELSE None]
Group == [j \in Job |-> IF j \in {u, m} THEN "fan" ELSE None]
Inserts == {{u, m}, {g}}
==============================================================================
