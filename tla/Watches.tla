------------------------------- MODULE Watches -------------------------------
(***************************************************************************)
(* The dashboard server's job watches (websocket_server.py), on one job:   *)
(* watch_job, unwatch_job, the jorb_done broadcast, and the beat that      *)
(* reopens the listening connection and re-arms the watches.  One event    *)
(* loop, so what lies between two awaits is one step.                      *)
(***************************************************************************)
EXTENDS AwaitedJob, FiniteSets

CONSTANTS
    Client,       \* WebSocket clients
    Fanout,       \* process_notification tasks that may run at once
    rearm,        \* the beat's own broadcast
    notify_conn   \* the server's connection

\* A broadcast holds the set it found: "listed" while that is the table's,
\* "empty" when its last member left and took the key along, "orphan" when
\* the key was dropped under members.
Broadcast == [left : SUBSET Client, set : {"listed", "empty", "orphan"}]

ASSUME WatchesAssumption ==
    /\ rearm \notin Fanout
    /\ notify_conn \in Connection /\ Listens[notify_conn] = {"jorb_done"}
    /\ None \notin Broadcast

VARIABLES
    asked,           \* asked[c]: WATCH_JOB_SQL's answer on its way, or None
    channels,        \* the clients whose own list holds the job's channel
    subscriptions,   \* the set the server's table holds for the channel
    broadcast,       \* broadcast[t]: its recipients left, its view of the set
    found,           \* the beat read that the job is over
    heard            \* heard[c]: what client c was last told of the job

watchVars == <<asked, channels, subscriptions, broadcast, found, heard>>

WatchTypeOK ==
    /\ asked \in [Client -> {"live", "over", None}]
    /\ channels \subseteq Client /\ subscriptions \subseteq Client
    /\ broadcast \in [Fanout \union {rearm} -> Broadcast \union {None}]
    /\ found \in BOOLEAN
    /\ heard \in [Client -> {"live", "over", None}]

WatchInit ==
    /\ asked = [c \in Client |-> None]
    /\ channels = {} /\ subscriptions = {}
    /\ broadcast = [t \in Fanout \union {rearm} |-> None]
    /\ found = FALSE
    /\ heard = [c \in Client |-> None]

\* The views of the running broadcasts when the table's set becomes `kept`.
Seen(b, kept) ==
    [t \in DOMAIN b |->
        IF b[t] # None /\ b[t].set = "listed" /\ kept = {}
        THEN [b[t] EXCEPT !.set = "empty"] ELSE b[t]]

------------------------------------------------------------------------------
(* Clients.                                                                 *)

\* WATCH_JOB_SQL: raises the latch and answers the state.
Watch(c) ==
    /\ asked[c] = None /\ state # None
    /\ RaiseLatch
    /\ asked' = [asked EXCEPT ![c] = state]
    /\ UNCHANGED <<state, stream, event, txn, run, inbox,
                   channels, subscriptions, broadcast, found, heard>>

\* The answer arrives: attach, and the reply.
Watching(c) ==
    /\ asked[c] # None
    /\ channels' = channels \union {c}
    /\ subscriptions' = IF c \in channels THEN subscriptions
                        ELSE subscriptions \union {c}
    /\ heard' = [heard EXCEPT ![c] = asked[c]]
    /\ asked' = [asked EXCEPT ![c] = None]
    /\ UNCHANGED <<jobVars, broadcast, found>>

\* unwatch_job, and a connection that closes.
Unwatch(c) ==
    /\ c \in channels /\ asked[c] = None
    /\ channels' = channels \ {c}
    /\ subscriptions' = subscriptions \ {c}
    /\ broadcast' = Seen(broadcast, subscriptions')
    /\ heard' = [heard EXCEPT ![c] = None]
    /\ UNCHANGED <<jobVars, asked, found>>

------------------------------------------------------------------------------
(* broadcast_event.                                                         *)

Starting(t) ==
    broadcast' = [broadcast EXCEPT ![t] =
                    IF subscriptions = {} THEN None
                    ELSE [left |-> subscriptions, set |-> "listed"]]

\* handle_notification makes a task of it.
Notify(t) ==
    /\ t \in Fanout /\ broadcast[t] = None
    /\ inbox[notify_conn] # None /\ "jorb_done" \in inbox[notify_conn]
    /\ inbox' = [inbox EXCEPT ![notify_conn] = {}]
    /\ Starting(t)
    /\ UNCHANGED <<state, awaited, stream, event, txn, run,
                   asked, channels, subscriptions, found, heard>>

\* Too many tasks are pending: the notification is dropped.
DropNotification ==
    /\ inbox[notify_conn] # None /\ "jorb_done" \in inbox[notify_conn]
    /\ \A t \in Fanout : broadcast[t] # None
    /\ inbox' = [inbox EXCEPT ![notify_conn] = {}]
    /\ UNCHANGED <<state, awaited, stream, event, txn, run, watchVars>>

\* One send_json.  Whoever has left since does not hear it.
Send(t, c) ==
    /\ broadcast[t] # None /\ c \in broadcast[t].left
    /\ broadcast' = [broadcast EXCEPT ![t].left = @ \ {c}]
    /\ heard' = [heard EXCEPT ![c] = IF c \in channels THEN "over" ELSE @]
    /\ UNCHANGED <<jobVars, asked, channels, subscriptions, found>>

\* `if not subscribers: self.subscriptions.pop(channel)`: the set it looks at
\* is its own, the key it drops is the table's.
Reaped(t) == broadcast[t].set = "empty"

Others(t) == [u \in DOMAIN broadcast |->
                IF u = t THEN None
                ELSE IF /\ Reaped(t) /\ broadcast[u] # None
                        /\ broadcast[u].set = "listed"
                     THEN [broadcast[u] EXCEPT !.set = "orphan"]
                     ELSE broadcast[u]]

EndBroadcast(t) ==
    /\ t \in Fanout
    /\ broadcast[t] # None /\ broadcast[t].left = {}
    /\ subscriptions' = IF Reaped(t) THEN {} ELSE subscriptions
    /\ broadcast' = Others(t)
    /\ UNCHANGED <<jobVars, asked, channels, found, heard>>

------------------------------------------------------------------------------
(* The beat (snapshot_broadcast).                                           *)

\* The LISTEN watchdog.
Reopen == /\ inbox[notify_conn] = None
          /\ inbox' = [inbox EXCEPT ![notify_conn] = {}]
          /\ UNCHANGED <<state, awaited, stream, event, txn, run, watchVars>>

\* Mutant: the beat re-arms watches only to raise the latch again.
RearmReads_LatchOnly ==
    /\ subscriptions # {} /\ ~found /\ broadcast[rearm] = None
    /\ RaiseLatch
    /\ UNCHANGED <<state, stream, event, txn, run, inbox, watchVars>>

\* _rearm_job_watches reads the job by WATCH_JOB_SQL ...
RearmReads ==
    /\ subscriptions # {} /\ ~found /\ broadcast[rearm] = None
    /\ RaiseLatch
    /\ found' = (state # "live")
    /\ UNCHANGED <<state, stream, event, txn, run, inbox,
                   asked, channels, subscriptions, broadcast, heard>>

\* ... tells the watchers that it is over ...
RearmTells ==
    /\ found /\ broadcast[rearm] = None
    /\ found' = (subscriptions # {})
    /\ Starting(rearm)
    /\ UNCHANGED <<jobVars, asked, channels, subscriptions, heard>>

\* ... and drops whoever the table holds for the channel by then.
RearmDrops ==
    /\ broadcast[rearm] # None /\ broadcast[rearm].left = {}
    /\ LET kept == IF Reaped(rearm) THEN {} ELSE subscriptions
       IN channels' = channels \ kept
    /\ subscriptions' = {}
    /\ broadcast' = [Seen(Others(rearm), {}) EXCEPT ![rearm] = None]
    /\ found' = FALSE
    /\ UNCHANGED <<jobVars, asked, heard>>

WatchStep == \/ \E c \in Client : Watching(c) \/ Unwatch(c)
             \/ \E t \in Fanout : Notify(t) \/ EndBroadcast(t)
             \/ \E t \in Fanout \union {rearm}, c \in Client : Send(t, c)
             \/ DropNotification \/ Reopen
             \/ RearmReads \/ RearmTells \/ RearmDrops

==============================================================================
