----------------------------- MODULE LinkTimers -----------------------------
(***************************************************************************)
(* The timers of the protocol against each other (the constants of         *)
(* src/protocol/mod.rs, the intervals of src/protocol/task_manager.rs):    *)
(* one router, one of its neighbours, one route that the neighbour         *)
(* advertises.  RouterNode lets timeouts happen at any moment; here they   *)
(* take the time they take.                                                *)
(*                                                                         *)
(* Time goes in seconds.  A message takes less than a second or is lost,   *)
(* and of what happens in the same second any order is possible; an age    *)
(* that is equal to a timeout may therefore be over it or not.             *)
(***************************************************************************)
EXTENDS Naturals

CONSTANTS
    HELLO_INTERVAL, UPDATE_INTERVAL, CLEANUP_INTERVAL,
    NEIGHBOR_TIMEOUT, ROUTE_TIMEOUT,
    Metric,    \* the metrics the neighbour can advertise
    MaxLost,   \* how many HELLOs, or UPDATEs, are lost in a row at most
    NoRoute

ASSUME IntervalAssumption ==
    /\ {HELLO_INTERVAL, UPDATE_INTERVAL, CLEANUP_INTERVAL} \subseteq Nat \ {0}
    /\ {NEIGHBOR_TIMEOUT, ROUTE_TIMEOUT} \subseteq Nat
    /\ NEIGHBOR_TIMEOUT <= ROUTE_TIMEOUT

ASSUME LinkAssumption ==
    /\ Metric \subseteq Nat
    /\ MaxLost \in Nat
    /\ NoRoute \notin Nat

VARIABLES
    (* the neighbour *)
    sending,         \* its protocol runs
    offered,         \* the metric of the route it advertises, or NoRoute
    until_hello,     \* seconds to its next HELLO
    until_update,    \* and to its next UPDATE
    lost,            \* how many of them have been lost in a row
    (* the router *)
    until_cleanup,
    neighbor,        \* what it thinks of the neighbour
    last_seen,       \* seconds since it heard of it
    route,           \* the metric of the route it has, or NoRoute
    last_advertised, \* seconds since it accepted it
    (* for the properties *)
    since,           \* seconds since sending changed
    differs          \* seconds that the neighbour has run and the route
                     \* has not been what it offers

timers == <<until_hello, until_update, until_cleanup>>
ages == <<last_seen, last_advertised, since, differs>>
vars == <<sending, offered, lost, neighbor, route, timers, ages>>

Message == {"hello", "update"}

Offer == Metric \cup {NoRoute}

(* Bounds of the ages: more than any of them is compared with. *)
MaxSeen == NEIGHBOR_TIMEOUT + CLEANUP_INTERVAL + 1
MaxAdvertised == ROUTE_TIMEOUT + CLEANUP_INTERVAL + 1
MaxSince == MaxAdvertised
MaxDiffers == ROUTE_TIMEOUT + (MaxLost + 1) * UPDATE_INTERVAL + 1

older(age, bound) == IF age < bound THEN age + 1 ELSE age

(* The router runs, with its cleanup somewhere in its interval; the        *)
(* neighbour has not been started.                                         *)
Init ==
    /\ sending = FALSE
    /\ offered \in Offer
    /\ until_hello = 0
    /\ until_update = 0
    /\ lost = [t \in Message |-> 0]
    /\ until_cleanup \in 0 .. CLEANUP_INTERVAL
    /\ neighbor = "unknown"
    /\ last_seen = 0
    /\ route = NoRoute
    /\ last_advertised = 0
    /\ since = 0
    /\ differs = 0

(***************************************************************************)
(* The neighbour.  Its intervals tick at once when they are made, and its  *)
(* phases are its own.                                                     *)
(***************************************************************************)
Start ==
    /\ ~sending
    /\ sending' = TRUE
    /\ until_hello' = 0
    /\ until_update' = 0
    /\ since' = 0
    /\ differs' = 0
    /\ UNCHANGED <<offered, lost, until_cleanup, neighbor, route, last_seen, last_advertised>>

(* It is stopped, crashes, or the link is cut. *)
Stop ==
    /\ sending
    /\ sending' = FALSE
    /\ since' = 0
    /\ differs' = 0
    /\ UNCHANGED <<offered, lost, timers, neighbor, route, last_seen, last_advertised>>

(* Its own route to the destination changes, goes, or comes back.  There is *)
(* no message that says so: the UPDATEs that follow tell the new metric, or *)
(* leave the route out.                                                     *)
Change ==
    /\ offered' \in Offer \ {offered}
    /\ differs' = 0
    /\ UNCHANGED <<sending, lost, timers, neighbor, route, last_seen, last_advertised, since>>

Arrives(t) == lost' = [lost EXCEPT ![t] = 0]

Lost(t) == lost[t] < MaxLost /\ lost' = [lost EXCEPT ![t] = @ + 1]

hello_task ==
    /\ sending
    /\ until_hello = 0
    /\ until_hello' = HELLO_INTERVAL
    /\ UNCHANGED <<sending, offered, until_update, until_cleanup,
                   route, last_advertised, since, differs>>

MutHelloNotSeen ==
    /\ hello_task
    /\ Arrives("hello")
    /\ neighbor' = "alive"
    /\ last_seen' = IF neighbor = "unknown" THEN 0 ELSE last_seen

handle_hello_message ==
    /\ hello_task
    /\ Arrives("hello")
    /\ neighbor' = "alive"
    /\ last_seen' = 0

HelloLost ==
    /\ hello_task
    /\ Lost("hello")
    /\ UNCHANGED <<neighbor, last_seen>>

update_task ==
    /\ sending
    /\ until_update = 0
    /\ until_update' = UPDATE_INTERVAL
    /\ UNCHANGED <<sending, offered, until_hello, until_cleanup, since>>

MutMetricNotIncremented(metric) == metric

next_metric(metric) == metric + 1

(* The next hop is the same always: it is the neighbour. *)
should_accept_route(metric) == route = NoRoute \/ metric < route

accepted == offered # NoRoute /\ should_accept_route(next_metric(offered))

(* The route that the router should have. *)
news == IF offered = NoRoute THEN NoRoute ELSE next_metric(offered)

MutRefusedRenews ==
    /\ update_task
    /\ Arrives("update")
    /\ IF neighbor = "unknown"
       THEN UNCHANGED <<neighbor, last_seen>>
       ELSE neighbor' = "alive" /\ last_seen' = 0
    /\ last_advertised' = 0
    /\ IF accepted
       THEN route' = next_metric(offered) /\ differs' = 0
       ELSE UNCHANGED <<route, differs>>

handle_update_message ==
    /\ update_task
    /\ Arrives("update")
    /\ IF neighbor = "unknown"
       THEN UNCHANGED <<neighbor, last_seen>>
       ELSE neighbor' = "alive" /\ last_seen' = 0
    /\ IF accepted
       THEN route' = next_metric(offered) /\ last_advertised' = 0 /\ differs' = 0
       ELSE UNCHANGED <<route, last_advertised, differs>>

UpdateLost ==
    /\ update_task
    /\ Lost("update")
    /\ UNCHANGED <<neighbor, last_seen, route, last_advertised, differs>>

(***************************************************************************)
(* The router's cleanup                                                    *)
(***************************************************************************)
MutTwiceTheTimeout(age, timeout) == {over \in BOOLEAN : over <=> age > 2 * timeout}

(* Whether an age is over the timeout; if they are equal, it may be. *)
expired(age, timeout) ==
    {over \in BOOLEAN : (over => age >= timeout) /\ (~over => age <= timeout)}

MutOnlyStaleRemoved(silent, stale) == stale

(* The neighbour's routes are removed when it is declared dead. *)
removed(silent, stale) == stale \/ (neighbor = "alive" /\ silent)

perform_cleanup ==
    /\ until_cleanup = 0
    /\ until_cleanup' = CLEANUP_INTERVAL
    /\ \E silent \in expired(last_seen, NEIGHBOR_TIMEOUT) :
       \E stale \in expired(last_advertised, ROUTE_TIMEOUT) :
          /\ neighbor' = IF neighbor = "unknown" THEN "unknown"
                         ELSE IF silent THEN "dead" ELSE "alive"
          /\ IF removed(silent, stale)
             THEN route' = NoRoute /\ last_advertised' = 0
             ELSE UNCHANGED <<route, last_advertised>>
    /\ differs' = IF route' = news THEN 0 ELSE differs
    /\ UNCHANGED <<sending, offered, lost, until_hello, until_update, last_seen, since>>

(***************************************************************************)
(* A second passes; whatever is due has been done before.                  *)
(***************************************************************************)
SecondPasses ==
    /\ until_cleanup > 0
    /\ sending => until_hello > 0 /\ until_update > 0
    /\ until_cleanup' = until_cleanup - 1
    /\ until_hello' = IF sending THEN until_hello - 1 ELSE 0
    /\ until_update' = IF sending THEN until_update - 1 ELSE 0
    /\ last_seen' = IF neighbor = "unknown" THEN 0 ELSE older(last_seen, MaxSeen)
    /\ last_advertised' = IF route = NoRoute THEN 0 ELSE older(last_advertised, MaxAdvertised)
    /\ since' = older(since, MaxSince)
    /\ differs' = IF sending /\ route # news THEN older(differs, MaxDiffers) ELSE 0
    /\ UNCHANGED <<sending, offered, lost, neighbor, route>>

(* All but a change of the route advertised. *)
Steady ==
    \/ Start
    \/ Stop
    \/ handle_hello_message
    \/ HelloLost
    \/ handle_update_message
    \/ UpdateLost
    \/ perform_cleanup
    \/ SecondPasses

Next == Change \/ Steady

Spec == Init /\ [][Next]_vars

(* The network is stable: a route that is advertised stays advertised. *)
SteadySpec == Init /\ [][Steady]_vars

(***************************************************************************)
(* Properties                                                              *)
(***************************************************************************)
TypeOK ==
    /\ sending \in BOOLEAN
    /\ offered \in Offer
    /\ until_hello \in 0 .. HELLO_INTERVAL
    /\ until_update \in 0 .. UPDATE_INTERVAL
    /\ lost \in [Message -> 0 .. MaxLost]
    /\ until_cleanup \in 0 .. CLEANUP_INTERVAL
    /\ neighbor \in {"unknown", "alive", "dead"}
    /\ last_seen \in 0 .. MaxSeen
    /\ route \in {m + 1 : m \in Metric} \cup {NoRoute}
    /\ last_advertised \in 0 .. MaxAdvertised
    /\ since \in 0 .. MaxSince
    /\ differs \in 0 .. MaxDiffers

(* perform_cleanup finds out that a neighbour is gone at most one cleanup  *)
(* interval after NEIGHBOR_TIMEOUT.                                        *)
DeathDetected ==
    neighbor = "alive" /\ ~sending => since <= NEIGHBOR_TIMEOUT + CLEANUP_INTERVAL

(* The route of a neighbour that is gone is used no longer than that, and  *)
(* if only UPDATEs of it ever arrived, until ROUTE_TIMEOUT has passed.     *)
DeadRouteGoes ==
    route # NoRoute /\ ~sending =>
        since <= IF neighbor = "unknown" THEN ROUTE_TIMEOUT + CLEANUP_INTERVAL
                 ELSE NEIGHBOR_TIMEOUT + CLEANUP_INTERVAL

(* A neighbour that has run long enough for a HELLO to arrive is not       *)
(* declared dead: NEIGHBOR_TIMEOUT outlasts MaxLost HELLOs lost in a row.  *)
NoFalseDeath ==
    [][neighbor = "alive" /\ neighbor' = "dead" =>
           ~sending \/ since <= MaxLost * HELLO_INTERVAL]_vars

(* The route becomes what the neighbour offers, better or worse, and goes  *)
(* when the neighbour offers none any more.  A worse metric is not         *)
(* accepted before the route has expired, and nothing else removes one     *)
(* that a living neighbour has lost; the wait for the cleanup then is part *)
(* of the wait for the next UPDATE.                                        *)
NewsArrives == differs <= ROUTE_TIMEOUT + (MaxLost + 1) * UPDATE_INTERVAL

(* ROUTE_TIMEOUT is for obsolete routes: one that a neighbour has kept     *)
(* advertising for as long is not removed.                                 *)
AdvertisedRouteStays ==
    [][route # NoRoute /\ route' = NoRoute => ~sending \/ since <= ROUTE_TIMEOUT]_vars
=============================================================================
