----------------------------- MODULE RouterNode -----------------------------
(***************************************************************************)
(* One router: the tasks that share its tables (src/protocol), at the      *)
(* grain of their awaits.                                                  *)
(*                                                                         *)
(*  - a listener takes HELLO and UPDATE messages from the socket.  An      *)
(*    UPDATE is handled in stages (check each route, record the states,    *)
(*    apply to the table), and no lock is held from one stage to the next; *)
(*  - the cleanup task marks silent neighbours dead and removes expired    *)
(*    routes, in stages as well;                                           *)
(*  - stop_protocol aborts the cleanup task wherever it is, and the task   *)
(*    is dropped at once or, if it is being polled, at a later await that  *)
(*    makes it wait.  The abort does not reach a listener, which runs in a *)
(*    task of its own that listen_task spawned: it finishes its message    *)
(*    and leaves when it next sees the shutdown signal.  start_protocol    *)
(*    spawns a new one, so two can be at work;                             *)
(*  - the process can be killed (CrashSpec), and the kernel keeps its      *)
(*    routes.                                                              *)
(*                                                                         *)
(* The messages are a constant: whatever other routers running this        *)
(* program may send, in any order, any number of times, or never.          *)
(*                                                                         *)
(* Clocks are abstracted to flags: a state or a neighbour becomes overdue  *)
(* when its timestamp is older than ROUTE_TIMEOUT or NEIGHBOR_TIMEOUT.     *)
(* Locks are not variables: who holds one follows from where the tasks     *)
(* are (RouterLockFree, StatesLockFree).                                   *)
(***************************************************************************)
EXTENDS RoutingTable

CONSTANTS
    Self,           \* our router_id
    RouterId,       \* the other routers' ids
    Interfaces,     \* prefixes of the interfaces the protocol runs on
    LocalNetworks,  \* prefixes of every interface that is up
    Hellos,         \* HELLO messages: [router_id, addr]
    Updates,        \* UPDATE messages: [router_id, addr, routes]
    Listener,       \* slots for listener tasks: how many can overlap
    None            \* a map without an entry

Message == [router_id : RouterId \cup {Self}, addr : Address]

UpdateMessage == [router_id : RouterId \cup {Self}, addr : Address,
                  routes : SUBSET RouteInfo]

ASSUME NodeAssumption ==
    /\ Self \notin RouterId
    /\ Interfaces \subseteq LocalNetworks
    /\ LocalNetworks \subseteq Ipv4Network
    /\ Hellos \subseteq Message
    /\ Updates \subseteq UpdateMessage

(* An interface has a host address, never the address of its network. *)
ASSUME InterfaceAssumption == \A i \in Interfaces : i.host # Zero

(* No two of them are on one subnet. *)
ASSUME SubnetAssumption == \A i, j \in Interfaces : i.net = j.net => i = j

RouteState == [route : RouteEntry, overdue : BOOLEAN,
               advertising_neighbor : RouterId]

NeighborInfo == [addr : Address, overdue : BOOLEAN, is_alive : BOOLEAN]

ASSUME NoneAssumption ==
    /\ None \notin RouteState
    /\ None \notin NeighborInfo
    /\ None \notin UpdateMessage
    /\ None \notin Address
    /\ None \notin RouteEntry

(* An accepted route with the key its state goes under: the prefix as it   *)
(* was advertised, host bits included.                                     *)
Accepted == [key : Ipv4Network, route : RouteEntry]

VARIABLES
    \* shared state
    routes,        \* the routing table's entries
    kernel,        \* the system's routing table
    route_states,  \* advertised prefix -> RouteState, or None
    neighbors,     \* router_id -> NeighborInfo, or None
    is_running,
    \* listener tasks
    lpc,           \* "off", "idle", "check", "wait" or "apply"
    update,        \* the UPDATE a listener handles, or None
    todo,          \* its routes not checked yet
    accepted,      \* new_routes and updated_route_states
    shutdown,      \* the listeners that have been sent the shutdown signal
    \* the cleanup task
    cpc,           \* where perform_cleanup is
    dead_neighbors,
    stale_routes,
    doomed,        \* routes_to_remove
    removing,      \* the entry remove_route is at, or None
    dead_neighbor_ip

node == <<routes, kernel, route_states, neighbors>>
table == <<routes, kernel>>
handling == <<update, todo, accepted>>
listeners == <<lpc, handling, shutdown>>
cleanup == <<cpc, dead_neighbors, stale_routes, doomed, removing, dead_neighbor_ip>>
vars == <<node, is_running, listeners, cleanup>>

our_ips == Interfaces

(* The kernel's own addresses: one per interface that is up. *)
own_addresses == LocalNetworks

(***************************************************************************)
(* Locks.  A listener holds the router's lock while it applies routes; the *)
(* cleanup task holds it while it waits for that of route_states and       *)
(* removes expired routes under both, and alone while it purges a gateway. *)
(***************************************************************************)
CleanupHoldsStates == cpc \in {"forget", "unlist"}

StatesLockFree == ~CleanupHoldsStates

RouterLockFree ==
    /\ cpc \notin {"states", "forget", "unlist", "purge"}
    /\ \A l \in Listener : lpc[l] # "apply"

CleanupIdle ==
    /\ cpc = "idle"
    /\ dead_neighbors = {}
    /\ stale_routes = {}
    /\ doomed = {}
    /\ removing = None
    /\ dead_neighbor_ip = None

CleanupReset ==
    /\ cpc' = "idle"
    /\ dead_neighbors' = {}
    /\ stale_routes' = {}
    /\ doomed' = {}
    /\ removing' = None
    /\ dead_neighbor_ip' = None

OneListener(first) == [l \in Listener |-> IF l = first THEN "idle" ELSE "off"]

(* main: a fresh process, started. *)
Init ==
    /\ kernel = {}
    /\ routes = direct_routes(Interfaces)
    /\ route_states = [k \in Ipv4Network |-> None]
    /\ neighbors = [n \in RouterId |-> None]
    /\ is_running = TRUE
    /\ \E first \in Listener : lpc = OneListener(first)
    /\ update = [l \in Listener |-> None]
    /\ todo = [l \in Listener |-> {}]
    /\ accepted = [l \in Listener |-> {}]
    /\ shutdown = {}
    /\ CleanupIdle

(***************************************************************************)
(* Timeouts                                                                *)
(***************************************************************************)

(* A message is handled in milliseconds, the timeouts are seconds: a state *)
(* does not expire while the handler that recorded it is at work.  Nor     *)
(* does one between the two scans of the cleanup task, which reads the     *)
(* clock once, before the first.                                           *)
JustRecorded(k) ==
    \E l \in Listener : lpc[l] \in {"wait", "apply"} /\ \E a \in accepted[l] : a.key = k

RouteTimeout(k) ==
    /\ route_states[k] # None
    /\ ~JustRecorded(k)
    /\ cpc # "stale"
    /\ ~route_states[k].overdue
    /\ route_states' = [route_states EXCEPT ![k].overdue = TRUE]
    /\ UNCHANGED <<table, neighbors, is_running, listeners, cleanup>>

NeighborTimeout(n) ==
    /\ neighbors[n] # None
    /\ ~neighbors[n].overdue
    /\ neighbors' = [neighbors EXCEPT ![n].overdue = TRUE]
    /\ UNCHANGED <<table, route_states, is_running, listeners, cleanup>>

(***************************************************************************)
(* A listener.  It takes no message from our own addresses or our own id.  *)
(* Taking it and comparing the id, under the router's lock, is one step.   *)
(***************************************************************************)
MutReceivableFromSelf(l, m) ==
    /\ is_running
    /\ lpc[l] = "idle"
    /\ RouterLockFree
    /\ m.addr \notin our_ips

Receivable(l, m) ==
    /\ is_running
    /\ lpc[l] = "idle"
    /\ RouterLockFree
    /\ m.addr \notin our_ips
    /\ m.router_id # Self

handle_hello_message(l, m) ==
    /\ Receivable(l, m)
    /\ neighbors' = [neighbors EXCEPT ![m.router_id] =
                        [addr |-> m.addr, overdue |-> FALSE, is_alive |-> TRUE]]
    /\ UNCHANGED <<table, route_states, is_running, listeners, cleanup>>

(* What an UPDATE does to the sender's entry, when it has one. *)
MutRefreshedNotRevived(info) == [info EXCEPT !.overdue = FALSE]

refreshed(info) == [info EXCEPT !.overdue = FALSE, !.is_alive = TRUE]

handle_update_message(l, m) ==
    /\ Receivable(l, m)
    /\ neighbors' = [neighbors EXCEPT ![m.router_id] =
                        IF @ = None THEN None ELSE refreshed(@)]
    /\ lpc' = [lpc EXCEPT ![l] = "check"]
    /\ update' = [update EXCEPT ![l] = m]
    /\ todo' = [todo EXCEPT ![l] = m.routes]
    /\ UNCHANGED <<table, route_states, is_running, accepted, shutdown, cleanup>>

(* One round of process_routing_update's loop: the router's lock is taken  *)
(* for the look-up and released.                                           *)
CheckRoute(l, info) ==
    /\ lpc[l] = "check"
    /\ RouterLockFree
    /\ todo' = [todo EXCEPT ![l] = @ \ {info}]
    /\ accepted' = [accepted EXCEPT ![l] = @ \cup
           {[key |-> info.destination, route |-> r] :
               r \in {r \in process_single_route(info, update[l].addr, Interfaces) :
                         should_accept_route(routes, r)}}]
    /\ UNCHANGED <<node, is_running, lpc, update, shutdown, cleanup>>

(* The state update_route_states inserts under each accepted key. *)
recorded(l, k) ==
    [route |-> (CHOOSE a \in accepted[l] : a.key = k).route,
     overdue |-> FALSE,
     advertising_neighbor |-> update[l].router_id]

MutStatesStartAnew(l) ==
    /\ lpc[l] = "check"
    /\ todo[l] = {}
    /\ StatesLockFree
    /\ route_states' = [k \in Ipv4Network |->
           IF \E a \in accepted[l] : a.key = k THEN recorded(l, k) ELSE None]
    /\ IF accepted[l] = {}
       THEN /\ lpc' = [lpc EXCEPT ![l] = "idle"]
            /\ update' = [update EXCEPT ![l] = None]
       ELSE /\ lpc' = [lpc EXCEPT ![l] = "wait"]
            /\ UNCHANGED update
    /\ UNCHANGED <<table, neighbors, is_running, todo, accepted, shutdown, cleanup>>

update_route_states(l) ==
    /\ lpc[l] = "check"
    /\ todo[l] = {}
    /\ StatesLockFree
    /\ route_states' = [k \in Ipv4Network |->
           IF \E a \in accepted[l] : a.key = k THEN recorded(l, k) ELSE route_states[k]]
    /\ IF accepted[l] = {}
       THEN /\ lpc' = [lpc EXCEPT ![l] = "idle"]
            /\ update' = [update EXCEPT ![l] = None]
       ELSE /\ lpc' = [lpc EXCEPT ![l] = "wait"]
            /\ UNCHANGED update
    /\ UNCHANGED <<table, neighbors, is_running, todo, accepted, shutdown, cleanup>>

MutApplyWithoutLock(l) ==
    /\ lpc[l] = "wait"
    /\ lpc' = [lpc EXCEPT ![l] = "apply"]
    /\ UNCHANGED <<node, is_running, handling, shutdown, cleanup>>

(* apply_new_routes takes the router's lock and keeps it to the end. *)
apply_new_routes(l) ==
    /\ lpc[l] = "wait"
    /\ RouterLockFree
    /\ lpc' = [lpc EXCEPT ![l] = "apply"]
    /\ UNCHANGED <<node, is_running, handling, shutdown, cleanup>>

(* One round of update_routing_table's loop; the last one releases it. *)
ApplyRoute(l, a) ==
    LET t == update_routing_table(Table(routes, kernel), a.route, LocalNetworks, own_addresses)
        last == accepted[l] = {a}
    IN  /\ lpc[l] = "apply"
        /\ routes' = t.routes
        /\ kernel' = t.kernel
        /\ accepted' = [accepted EXCEPT ![l] = @ \ {a}]
        /\ lpc' = [lpc EXCEPT ![l] = IF last THEN "idle" ELSE "apply"]
        /\ update' = [update EXCEPT ![l] = IF last THEN None ELSE @]
        /\ UNCHANGED <<route_states, neighbors, is_running, todo, shutdown, cleanup>>

(* What a listener does once it has taken an UPDATE, and all it does. *)
Handle(l) ==
    \/ \E info \in todo[l] : CheckRoute(l, info)
    \/ update_route_states(l)
    \/ apply_new_routes(l)
    \/ \E a \in accepted[l] : ApplyRoute(l, a)

Listen(l) ==
    \/ \E m \in Hellos : handle_hello_message(l, m)
    \/ \E m \in Updates : handle_update_message(l, m)
    \/ Handle(l)

(* A listener that is signalled leaves between two messages; select! picks *)
(* a ready branch at random, so it may take more messages before.          *)
ListenerExit(l) ==
    /\ lpc[l] = "idle"
    /\ l \in shutdown
    /\ lpc' = [lpc EXCEPT ![l] = "off"]
    /\ shutdown' = shutdown \ {l}
    /\ UNCHANGED <<node, is_running, handling, cleanup>>

(***************************************************************************)
(* The cleanup task: perform_cleanup.                                      *)
(***************************************************************************)

MutScannedWithoutTimeout(info) == info

(* The entry of a neighbour after the scan. *)
scanned(info) ==
    IF info = None THEN None ELSE [info EXCEPT !.is_alive = ~info.overdue]

CleanupNeighbors ==
    /\ is_running
    /\ cpc = "idle"
    /\ dead_neighbors' = {n \in RouterId : /\ neighbors[n] # None
                                           /\ neighbors[n].overdue
                                           /\ neighbors[n].is_alive}
    /\ neighbors' = [n \in RouterId |-> scanned(neighbors[n])]
    /\ cpc' = "stale"
    /\ UNCHANGED <<table, route_states, is_running, listeners,
                   stale_routes, doomed, removing, dead_neighbor_ip>>

CleanupStale ==
    /\ cpc = "stale"
    /\ stale_routes' = {k \in Ipv4Network : /\ route_states[k] # None
                                            /\ route_states[k].overdue}
    /\ cpc' = IF dead_neighbors = {} /\ stale_routes' = {} THEN "idle" ELSE "collect"
    /\ UNCHANGED <<node, is_running, listeners,
                   dead_neighbors, doomed, removing, dead_neighbor_ip>>

MutOnlyDeadNeighborsRoutes ==
    {k \in Ipv4Network : /\ route_states[k] # None
                         /\ route_states[k].advertising_neighbor \in dead_neighbors}

routes_to_remove ==
    {k \in Ipv4Network : /\ route_states[k] # None
                         /\ \/ route_states[k].advertising_neighbor \in dead_neighbors
                            \/ k \in stale_routes}

CleanupCollect ==
    /\ cpc = "collect"
    /\ doomed' = routes_to_remove
    /\ stale_routes' = {}
    /\ cpc' = IF routes_to_remove = {} THEN "gateway" ELSE "lock"
    /\ UNCHANGED <<node, is_running, listeners, dead_neighbors, removing, dead_neighbor_ip>>

(* route_manager::remove_routes_via_nexthop takes the router's lock, and   *)
(* keeps it while it waits for that of route_states.                       *)
CleanupLock ==
    /\ cpc = "lock"
    /\ RouterLockFree
    /\ cpc' = "states"
    /\ UNCHANGED <<node, is_running, listeners,
                   dead_neighbors, stale_routes, doomed, removing, dead_neighbor_ip>>

CleanupLockStates ==
    /\ cpc = "states"
    /\ StatesLockFree
    /\ cpc' = "forget"
    /\ UNCHANGED <<node, is_running, listeners,
                   dead_neighbors, stale_routes, doomed, removing, dead_neighbor_ip>>

(* Drops the state under one key.  Whatever route the table has to its     *)
(* destination is then deleted from the system (the request is sent before *)
(* the await) and, after the await, from the table (CleanupUnlist).        *)
CleanupForget(k) ==
    LET existing == find_route_index(routes, route_states[k].route.destination) IN
    /\ cpc = "forget"
    /\ doomed' = doomed \ {k}
    /\ route_states' = [route_states EXCEPT ![k] = None]
    /\ IF route_states[k] # None /\ existing # {}
       THEN /\ kernel' = withdraw(kernel, found(existing))
            /\ removing' = found(existing)
            /\ cpc' = "unlist"
       ELSE UNCHANGED <<kernel, removing, cpc>>
    /\ UNCHANGED <<routes, neighbors, is_running, listeners,
                   dead_neighbors, stale_routes, dead_neighbor_ip>>

CleanupUnlist ==
    /\ cpc = "unlist"
    /\ routes' = routes \ {removing}
    /\ removing' = None
    /\ cpc' = "forget"
    /\ UNCHANGED <<kernel, route_states, neighbors, is_running, listeners,
                   dead_neighbors, stale_routes, doomed, dead_neighbor_ip>>

CleanupForgetDone ==
    /\ cpc = "forget"
    /\ doomed = {}
    /\ cpc' = "gateway"
    /\ UNCHANGED <<node, is_running, listeners,
                   dead_neighbors, stale_routes, doomed, removing, dead_neighbor_ip>>

(* get_neighbor_ip: the address the neighbour was last heard from. *)
CleanupGateway(n) ==
    /\ cpc = "gateway"
    /\ dead_neighbors' = dead_neighbors \ {n}
    /\ IF neighbors[n] = None
       THEN UNCHANGED <<dead_neighbor_ip, cpc>>
       ELSE dead_neighbor_ip' = neighbors[n].addr /\ cpc' = "purge_wait"
    /\ UNCHANGED <<node, is_running, listeners, stale_routes, doomed, removing>>

CleanupPurgeLock ==
    /\ cpc = "purge_wait"
    /\ RouterLockFree
    /\ cpc' = "purge"
    /\ UNCHANGED <<node, is_running, listeners,
                   dead_neighbors, stale_routes, doomed, removing, dead_neighbor_ip>>

(* RoutingTable::remove_routes_via_nexthop, one entry of its loop: here    *)
(* the table loses the entry before the await.                             *)
ViaGateway == {r \in routes : r.next_hop = dead_neighbor_ip /\ r.source = "Protocol"}

CleanupPurge(r) ==
    LET t == drop(Table(routes, kernel), r) IN
    /\ cpc = "purge"
    /\ routes' = t.routes
    /\ kernel' = t.kernel
    /\ UNCHANGED <<route_states, neighbors, is_running, listeners, cleanup>>

CleanupPurgeDone ==
    /\ cpc = "purge"
    /\ ViaGateway = {}
    /\ dead_neighbor_ip' = None
    /\ cpc' = "gateway"
    /\ UNCHANGED <<node, is_running, listeners,
                   dead_neighbors, stale_routes, doomed, removing>>

CleanupDone ==
    /\ cpc = "gateway"
    /\ dead_neighbors = {}
    /\ cpc' = "idle"
    /\ UNCHANGED <<node, is_running, listeners,
                   dead_neighbors, stale_routes, doomed, removing, dead_neighbor_ip>>

perform_cleanup ==
    \/ CleanupNeighbors
    \/ CleanupStale
    \/ CleanupCollect
    \/ CleanupLock
    \/ CleanupLockStates
    \/ \E k \in doomed : CleanupForget(k)
    \/ CleanupUnlist
    \/ CleanupForgetDone
    \/ \E n \in dead_neighbors : CleanupGateway(n)
    \/ CleanupPurgeLock
    \/ \E r \in ViaGateway : CleanupPurge(r)
    \/ CleanupPurgeDone
    \/ CleanupDone

(***************************************************************************)
(* Control commands and the life of the process                            *)
(***************************************************************************)

(* The cleanup task is aborted.  If a thread of the runtime is polling it, *)
(* it goes on, past awaits that are ready, until one makes it wait.        *)
stop_protocol ==
    /\ is_running
    /\ is_running' = FALSE
    /\ shutdown' = {l \in Listener : lpc[l] # "off"}
    /\ CleanupReset \/ UNCHANGED cleanup
    /\ UNCHANGED <<node, lpc, handling>>

(* Dropping the aborted task drops its locals and releases its locks. *)
CleanupAborted ==
    /\ ~is_running
    /\ cpc # "idle"
    /\ CleanupReset
    /\ UNCHANGED <<node, is_running, listeners>>

(* Nothing of the tables is reset.  Bounds: Listener, how many overlap;    *)
(* and there is one cleanup task at a time.  What an aborted one could do  *)
(* beside a new listener, the new one does, and a stop can abort it, too.  *)
start_protocol(l) ==
    /\ ~is_running
    /\ cpc = "idle"
    /\ lpc[l] = "off"
    /\ is_running' = TRUE
    /\ lpc' = [lpc EXCEPT ![l] = "idle"]
    /\ UNCHANGED <<node, handling, shutdown, cleanup>>

(* The process is killed (no signal is handled, so no destructor runs) and *)
(* started again.                                                          *)
Crash ==
    /\ UNCHANGED kernel
    /\ routes' = direct_routes(Interfaces)
    /\ route_states' = [k \in Ipv4Network |-> None]
    /\ neighbors' = [n \in RouterId |-> None]
    /\ is_running' = TRUE
    /\ \E first \in Listener : lpc' = OneListener(first)
    /\ update' = [l \in Listener |-> None]
    /\ todo' = [l \in Listener |-> {}]
    /\ accepted' = [l \in Listener |-> {}]
    /\ shutdown' = {}
    /\ CleanupReset

(***************************************************************************)
(* Specifications: a router that runs undisturbed; one that is stopped and *)
(* started by command; one whose process dies as well.                     *)
(***************************************************************************)
RunNext ==
    \/ \E k \in Ipv4Network : RouteTimeout(k)
    \/ \E n \in RouterId : NeighborTimeout(n)
    \/ \E l \in Listener : Listen(l)
    \/ perform_cleanup

Next ==
    \/ RunNext
    \/ \E l \in Listener : ListenerExit(l)
    \/ stop_protocol
    \/ CleanupAborted
    \/ \E l \in Listener : start_protocol(l)

RunSpec == Init /\ [][RunNext]_vars

Spec == Init /\ [][Next]_vars

CrashSpec == Init /\ [][Next \/ Crash]_vars

(* The runtime polls every task that is ready, the interval keeps ticking, *)
(* tokio's mutex is a queue, so a task that waits for a lock that is free  *)
(* again and again gets it, and select! picks at random, so a signal is    *)
(* not passed over for ever.  No message, timeout or command has to come.  *)
Fairness ==
    /\ SF_vars(perform_cleanup)
    /\ \A l \in Listener : SF_vars(Handle(l)) /\ SF_vars(ListenerExit(l))

FairSpec == Spec /\ Fairness

(***************************************************************************)
(* Properties                                                              *)
(***************************************************************************)

(* Every variable holds values of its kind; a route state names a          *)
(* neighbour, never ourselves.                                             *)
TypeOK ==
    /\ routes \subseteq RouteEntry
    /\ kernel \subseteq KernelRoute
    /\ route_states \in [Ipv4Network -> RouteState \cup {None}]
    /\ neighbors \in [RouterId -> NeighborInfo \cup {None}]
    /\ is_running \in BOOLEAN
    /\ lpc \in [Listener -> {"off", "idle", "check", "wait", "apply"}]
    /\ update \in [Listener -> UpdateMessage \cup {None}]
    /\ todo \in [Listener -> SUBSET RouteInfo]
    /\ accepted \in [Listener -> SUBSET Accepted]
    /\ shutdown \in SUBSET Listener
    /\ cpc \in {"idle", "stale", "collect", "lock", "states", "forget", "unlist",
                "gateway", "purge_wait", "purge"}
    /\ dead_neighbors \in SUBSET RouterId
    /\ stale_routes \in SUBSET Ipv4Network
    /\ doomed \in SUBSET Ipv4Network
    /\ removing \in RouteEntry \cup {None}
    /\ dead_neighbor_ip \in Address \cup {None}

(* No subnet has two entries in the table: neither two learned ones, nor a *)
(* learned one beside the Direct one, although is_our_network lets routes  *)
(* to our own subnets through (it compares host bits) and a listener       *)
(* applies routes it accepted before the table changed.                    *)
OneRoutePerSubnet ==
    \A r, s \in routes : network(r.destination) = network(s.destination) => r = s

(* The Direct routes are never lost: states kept for our own subnets       *)
(* expire and are removed by destination like any other.                   *)
DirectRoutesStay == direct_routes(Interfaces) \subseteq routes

(* The system has no route of ours that the table does not list, wherever  *)
(* the tasks are and whenever they are stopped: what the table forgets has *)
(* been deleted from the system.                                           *)
KernelWithinTable ==
    \A p \in kernel : \E r \in routes : r.source = "Protocol" /\ system_pair(r) = p

(* An entry is never replaced by one with a higher metric, even when two   *)
(* listeners apply routes they accepted against an older table.            *)
RouteOnlyImproves ==
    [][\A r \in routes : \A s \in routes' :
           r.destination = s.destination => s.metric <= r.metric]_vars

(* A neighbour is marked dead only while nothing has been heard from it    *)
(* for NEIGHBOR_TIMEOUT: each message that ends the silence also revives.  *)
DeadMeansSilent ==
    \A n \in RouterId :
        neighbors[n] # None /\ ~neighbors[n].is_alive => neighbors[n].overdue

(* A learned entry gets out of step with the system in one place only:     *)
(* inside remove_route, between the system's deletion and the table's      *)
(* (where an abort leaves it so).  Adding, superseding and replacing keep  *)
(* the two in step, though a failed request to the system is only logged.  *)
(* An entry whose next hop is an address of our own never reaches the      *)
(* system: the kernel refuses it.                                          *)
TableApplied ==
    [][\A r \in routes' :
          /\ r.source = "Protocol"
          /\ r.next_hop \notin own_addresses
          /\ system_pair(r) \notin kernel'
          => removing' = r \/ (r \in routes /\ system_pair(r) \notin kernel)]_vars

Tracked(r) ==
    \E k \in Ipv4Network : route_states[k] # None /\ network(k) = r.destination

(* A route of the table that can expire stays so until remove_route is at  *)
(* it: although states go under raw prefixes and entries under networks,   *)
(* and other handlers record states at the same time, whatever takes the   *)
(* last state of an entry takes the entry too (unless it is aborted).      *)
TrackedUntilRemoved ==
    [][\A r \in routes \cap routes' :
          r.source = "Protocol" /\ Tracked(r) => Tracked(r)' \/ removing' = r]_vars

(* An expired route state is dropped or renewed, as long as the protocol   *)
(* is not stopped.                                                         *)
Expired(k) == route_states[k] # None /\ route_states[k].overdue

ExpiredStatesGo == \A k \in Ipv4Network : Expired(k) ~> (~Expired(k) \/ ~is_running)

(* A silent neighbour is marked dead or heard again, as long as the        *)
(* protocol is not stopped.                                                *)
SilentButAlive(n) == neighbors[n] # None /\ neighbors[n].overdue /\ neighbors[n].is_alive

SilentNeighborsDie ==
    \A n \in RouterId : SilentButAlive(n) ~> (~SilentButAlive(n) \/ ~is_running)

(***************************************************************************)
(* What the repository's documents say and the code does not do            *)
(***************************************************************************)
Quiet == cpc = "idle" /\ \A l \in Listener : lpc[l] \in {"off", "idle"}

(* "La tache de nettoyage automatique assure la coherence [...] en         *)
(* supprimant les routes obsoletes": every learned route has a state that  *)
(* the cleanup task can expire.                                            *)
TrackedRoutes ==
    Quiet => \A r \in routes : r.source = "Protocol" => Tracked(r)

(* "Suppression de toutes les routes via ce voisin": once the cleanup task *)
(* has run, no learned route goes through a neighbour that is dead.        *)
NoRouteViaDead ==
    Quiet => \A n \in RouterId : neighbors[n] # None /\ ~neighbors[n].is_alive =>
                 \A r \in routes : r.source = "Protocol" => r.next_hop # neighbors[n].addr

(* What an UPDATE that is not our own offers us. *)
offers(m) == UNION {process_single_route(info, m.addr, Interfaces) : info \in m.routes}

Offered == UNION {offers(m) : m \in {m \in Updates : m.router_id # Self /\ m.addr \notin our_ips}}

Service == INSTANCE TableService WITH offered <- Offered

(* The stages of the handlers do not show in the table: although a route   *)
(* is checked, recorded and applied under three different locks, with      *)
(* other listeners and the cleanup task in between, it is as if it had     *)
(* been weighed at the moment it is put in; and an entry is only ever      *)
(* learned as it was offered.                                              *)
TableServed == Service!LifeSpec
=============================================================================
