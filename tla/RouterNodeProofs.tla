-------------------------- MODULE RouterNodeProofs --------------------------
(***************************************************************************)
(* Proofs about RouterNode, for any set of interfaces, neighbours,         *)
(* messages and overlapping listeners.                                     *)
(***************************************************************************)
EXTENDS RouterNode, RoutingTableProofs

(***************************************************************************)
(* The inductive invariant.                                                *)
(***************************************************************************)

(* What a listener holds: the UPDATE of another router, and learned routes *)
(* in network form.                                                        *)
HandlerShape ==
    \A l \in Listener :
        /\ lpc[l] \in {"check", "wait", "apply"} =>
              update[l] \in UpdateMessage /\ update[l].router_id \in RouterId
        /\ \A x \in accepted[l] : Learned(x.route)

(* The two holders of the router's lock exclude each other. *)
LockExclusion ==
    cpc \in {"states", "forget", "unlist", "purge"} => \A l \in Listener : lpc[l] # "apply"

(* Between its two halves, remove_route is at a learned entry of the table *)
(* that the system no longer has.                                          *)
RemovingShape ==
    cpc = "unlist" =>
        removing \in routes /\ Learned(removing) /\ system_pair(removing) \notin kernel

(* States record learned routes, so what remove_route looks up by          *)
(* destination is never a Direct entry.                                    *)
StatesShape ==
    \A k \in Ipv4Network : route_states[k] # None => Learned(route_states[k].route)

IInv ==
    /\ TypeOK
    /\ HandlerShape
    /\ StatesShape
    /\ LockExclusion
    /\ TableShape(routes, Interfaces, LocalNetworks)
    /\ KernelShape(routes, kernel)
    /\ RemovingShape

(***************************************************************************)
(* Initial states                                                          *)
(***************************************************************************)
LEMMA DirectTable ==
    TableShape(direct_routes(Interfaces), Interfaces, LocalNetworks)
<1>1. ASSUME NEW i \in Interfaces
      PROVE  direct_route(i) \in RouteEntry
  BY NodeAssumption, MetricAssumption
  DEF direct_route, RouteEntry, NextHop, Metric, RouteSource
<1>2. direct_routes(Interfaces) \subseteq RouteEntry
  BY <1>1 DEF direct_routes
<1>3. ASSUME NEW r \in direct_routes(Interfaces), NEW s \in direct_routes(Interfaces),
             r.destination = s.destination
      PROVE  r = s
  BY <1>3 DEF direct_routes, direct_route
<1> QED
  BY <1>2, <1>3 DEF TableShape

LEMMA InitIInv == Init => IInv
<1> SUFFICES ASSUME Init
             PROVE  IInv
  OBVIOUS
<1>1. TypeOK
  BY DirectTable DEF Init, TypeOK, CleanupIdle, OneListener, TableShape, KernelRoute
<1>2. HandlerShape /\ LockExclusion /\ RemovingShape
  BY DEF Init, HandlerShape, LockExclusion, RemovingShape, CleanupIdle, OneListener
<1>3. StatesShape
  BY DEF Init, StatesShape
<1>4. TableShape(routes, Interfaces, LocalNetworks) /\ KernelShape(routes, kernel)
  BY DirectTable DEF Init, KernelShape
<1> QED
  BY <1>1, <1>2, <1>3, <1>4 DEF IInv

(***************************************************************************)
(* What the handlers compute                                               *)
(***************************************************************************)

(* u32 addition wraps, so the metric stays one. *)
LEMMA NextMetric ==
    ASSUME NEW info \in RouteInfo
    PROVE  next_metric(info) \in Metric
<1>1. info.metric + 1 \in Int /\ MetricModulus \in Nat \ {0}
  BY MetricAssumption DEF RouteInfo, Metric
<1>2. ASSUME NEW m \in Int, NEW n \in Nat \ {0}
      PROVE  m % n \in 0 .. (n - 1)
  BY Z3
<1> QED
  BY <1>1, <1>2 DEF next_metric, Metric

(* process_single_route makes learned routes. *)
LEMMA ProcessedIsLearned ==
    ASSUME NEW info \in RouteInfo, NEW sender \in Address, NEW ifs,
           NEW r \in process_single_route(info, sender, ifs)
    PROVE  Learned(r)
<1>1. host_to_network_route(info.destination) \in Ipv4Network
  BY AddressAssumption DEF host_to_network_route, network, RouteInfo, Ipv4Network, Address
<1>2. determine_next_hop(info.next_hop, sender, ifs) \in NextHop
  BY DEF determine_next_hop, NextHop, RouteInfo
<1>3. r = [destination |-> host_to_network_route(info.destination),
           next_hop    |-> determine_next_hop(info.next_hop, sender, ifs),
           metric      |-> next_metric(info),
           source      |-> "Protocol"]
  BY DEF process_single_route
<1>4. r \in RouteEntry
  BY <1>1, <1>2, <1>3, NextMetric DEF RouteEntry, RouteSource
<1> QED
  BY <1>3, <1>4 DEF Learned, host_to_network_route, network

LEMMA RecordedState ==
    ASSUME IInv, NEW l \in Listener, lpc[l] = "check",
           NEW k, \E x \in accepted[l] : x.key = k
    PROVE  recorded(l, k) \in RouteState /\ Learned(recorded(l, k).route)
<1> DEFINE x == CHOOSE x \in accepted[l] : x.key = k
<1>1. x \in accepted[l]
  OBVIOUS
<1>2. Learned(x.route)
  BY <1>1 DEF IInv, HandlerShape
<1>3. update[l].router_id \in RouterId
  BY DEF IInv, HandlerShape
<1>4. recorded(l, k) = [route |-> x.route, overdue |-> FALSE,
                        advertising_neighbor |-> update[l].router_id]
  BY DEF recorded
<1> HIDE DEF x
<1> QED
  BY <1>2, <1>3, <1>4 DEF RouteState, Learned

(***************************************************************************)
(* The table: every step keeps its shape, the system's routes within it,   *)
(* and replaces an entry only by one whose metric is not higher.           *)
(***************************************************************************)
TableKept ==
    /\ TableShape(routes', Interfaces, LocalNetworks)
    /\ KernelShape(routes', kernel')
    /\ Improves(routes, routes')
    /\ RemovingShape'

LEMMA ImprovesItself ==
    ASSUME TableShape(routes, Interfaces, LocalNetworks),
           NEW R, R \subseteq routes
    PROVE  Improves(routes, R)
<1> SUFFICES ASSUME NEW r \in routes, NEW s \in R, r.destination = s.destination
             PROVE  s.metric <= r.metric
  BY DEF Improves
<1>1. r = s
  BY DEF TableShape
<1>2. r.metric \in Int
  BY MetricAssumption DEF TableShape, RouteEntry, Metric
<1> QED
  BY <1>1, <1>2

(* A step that leaves the table alone, and does not start a removal. *)
LEMMA TableUntouched ==
    ASSUME IInv, UNCHANGED <<routes, kernel>>,
           cpc' = "unlist" => cpc = "unlist" /\ removing' = removing
    PROVE  TableKept
BY ImprovesItself DEF TableKept, IInv, RemovingShape

LEMMA ApplyRouteKeepsTable ==
    ASSUME IInv, NEW l \in Listener, NEW x \in accepted[l], ApplyRoute(l, x)
    PROVE  TableKept
<1> DEFINE t == Table(routes, kernel)
           u == update_routing_table(t, x.route, LocalNetworks, own_addresses)
<1>1. Learned(x.route)
  BY DEF IInv, HandlerShape
<1>2. t.routes = routes /\ t.kernel = kernel
  BY DEF Table
<1>3. Keeps(t, u, Interfaces, LocalNetworks)
  BY <1>1, <1>2, InterfaceAssumption, UpdateKeepsShape DEF IInv
<1>4. routes' = u.routes /\ kernel' = u.kernel /\ cpc' = cpc
  BY DEF ApplyRoute, cleanup
<1>5. cpc # "unlist"
  BY DEF ApplyRoute, IInv, LockExclusion
<1> QED
  BY <1>2, <1>3, <1>4, <1>5 DEF Keeps, TableKept, RemovingShape

LEMMA ForgetKeepsTable ==
    ASSUME IInv, NEW k \in doomed, CleanupForget(k)
    PROVE  TableKept
<1> DEFINE E == find_route_index(routes, route_states[k].route.destination)
           old == found(E)
<1>1. k \in Ipv4Network
  BY DEF IInv, TypeOK
<1>2. CASE route_states[k] # None /\ E # {}
  <2>1. old \in routes /\ old.destination = route_states[k].route.destination
    BY <1>2, FoundIsAnEntry DEF find_route_index
  <2>2. old.destination.host = Zero
    BY <1>1, <1>2, <2>1 DEF IInv, StatesShape, Learned
  <2>3. Learned(old)
    BY <2>1, <2>2, InterfaceAssumption
    DEF IInv, TableShape, LearnedEntry, direct_routes, direct_route
  <2>4. kernel' = kernel \ {system_pair(old)} /\ removing' = old /\ routes' = routes
    BY <1>2, <2>3, KernelSteps DEF CleanupForget, Learned
  <2>5. KernelShape(routes', kernel')
    BY <2>4 DEF IInv, KernelShape
  <2> QED
    BY <2>1, <2>3, <2>4, <2>5, ImprovesItself DEF TableKept, IInv, RemovingShape
<1>3. CASE ~(route_states[k] # None /\ E # {})
  BY <1>3, TableUntouched DEF CleanupForget
<1> QED
  BY <1>2, <1>3

(* Taking away a learned entry the system does not have any more. *)
LEMMA RemovalKeepsTable ==
    ASSUME IInv, NEW old \in routes, Learned(old),
           routes' = routes \ {old},
           kernel' = kernel \ {system_pair(old)},
           cpc' # "unlist"
    PROVE  TableKept
<1>1. old \notin direct_routes(Interfaces)
  BY InterfaceAssumption, LearnedIsNotDirect
<1>2. TableShape(routes', Interfaces, LocalNetworks)
  BY <1>1 DEF IInv, TableShape
<1>3. KernelShape(routes', kernel')
  BY DEF IInv, KernelShape
<1> QED
  BY <1>2, <1>3, ImprovesItself DEF TableKept, IInv, RemovingShape

LEMMA UnlistKeepsTable ==
    ASSUME IInv, CleanupUnlist
    PROVE  TableKept
<1>1. removing \in routes /\ Learned(removing) /\ system_pair(removing) \notin kernel
  BY DEF IInv, RemovingShape, CleanupUnlist
<1>2. kernel' = kernel \ {system_pair(removing)}
  BY <1>1 DEF CleanupUnlist
<1> QED
  BY <1>1, <1>2, RemovalKeepsTable DEF CleanupUnlist

LEMMA PurgeKeepsTable ==
    ASSUME IInv, NEW r \in ViaGateway, CleanupPurge(r)
    PROVE  TableKept
<1>1. r \in routes /\ r.source = "Protocol"
  BY DEF ViaGateway
<1>2. Learned(r)
  BY <1>1 DEF IInv, TableShape, LearnedEntry, direct_routes, direct_route
<1>3. routes' = routes \ {r} /\ kernel' = kernel \ {system_pair(r)}
  BY <1>1, KernelSteps DEF CleanupPurge, drop, Table
<1>4. cpc' # "unlist"
  BY DEF CleanupPurge, cleanup
<1> QED
  BY <1>1, <1>2, <1>3, <1>4, RemovalKeepsTable

LEMMA NextKeepsTable ==
    ASSUME IInv, [Next]_vars
    PROVE  TableKept
<1>1. ASSUME NEW k \in Ipv4Network, RouteTimeout(k)
      PROVE  TableKept
  BY <1>1, TableUntouched DEF RouteTimeout, table, cleanup
<1>2. ASSUME NEW n \in RouterId, NeighborTimeout(n)
      PROVE  TableKept
  BY <1>2, TableUntouched DEF NeighborTimeout, table, cleanup
<1>3. ASSUME NEW l \in Listener, Listen(l)
      PROVE  TableKept
  <2>1. ASSUME NEW m \in Hellos, handle_hello_message(l, m)
        PROVE  TableKept
    BY <2>1, TableUntouched DEF handle_hello_message, table, cleanup
  <2>2. ASSUME NEW m \in Updates, handle_update_message(l, m)
        PROVE  TableKept
    BY <2>2, TableUntouched DEF handle_update_message, table, cleanup
  <2>3. ASSUME NEW info \in todo[l], CheckRoute(l, info)
        PROVE  TableKept
    BY <2>3, TableUntouched DEF CheckRoute, node, cleanup
  <2>4. CASE update_route_states(l)
    BY <2>4, TableUntouched DEF update_route_states, table, cleanup
  <2>5. CASE apply_new_routes(l)
    BY <2>5, TableUntouched DEF apply_new_routes, node, cleanup
  <2>6. ASSUME NEW x \in accepted[l], ApplyRoute(l, x)
        PROVE  TableKept
    BY <2>6, ApplyRouteKeepsTable
  <2> QED
    BY <1>3, <2>1, <2>2, <2>3, <2>4, <2>5, <2>6 DEF Listen, Handle
<1>4. ASSUME NEW l \in Listener, ListenerExit(l)
      PROVE  TableKept
  BY <1>4, TableUntouched DEF ListenerExit, node, cleanup
<1>5. CASE perform_cleanup
  <2>1. CASE CleanupNeighbors
    BY <2>1, TableUntouched DEF CleanupNeighbors, table
  <2>2. CASE CleanupStale
    BY <2>2, TableUntouched DEF CleanupStale, node
  <2>3. CASE CleanupCollect
    BY <2>3, TableUntouched DEF CleanupCollect, node
  <2>4. CASE CleanupLock \/ CleanupLockStates
    BY <2>4, TableUntouched DEF CleanupLock, CleanupLockStates, node
  <2>5. ASSUME NEW k \in doomed, CleanupForget(k)
        PROVE  TableKept
    BY <2>5, ForgetKeepsTable
  <2>6. CASE CleanupUnlist
    BY <2>6, UnlistKeepsTable
  <2>7. CASE CleanupForgetDone
    BY <2>7, TableUntouched DEF CleanupForgetDone, node
  <2>8. ASSUME NEW n \in dead_neighbors, CleanupGateway(n)
        PROVE  TableKept
    BY <2>8, TableUntouched DEF CleanupGateway, node
  <2>9. CASE CleanupPurgeLock
    BY <2>9, TableUntouched DEF CleanupPurgeLock, node
  <2>10. ASSUME NEW r \in ViaGateway, CleanupPurge(r)
         PROVE  TableKept
    BY <2>10, PurgeKeepsTable
  <2>11. CASE CleanupPurgeDone
    BY <2>11, TableUntouched DEF CleanupPurgeDone, node
  <2>12. CASE CleanupDone
    BY <2>12, TableUntouched DEF CleanupDone, node
  <2> QED
    BY <1>5, <2>1, <2>2, <2>3, <2>4, <2>5, <2>6, <2>7, <2>8, <2>9, <2>10, <2>11, <2>12
    DEF perform_cleanup
<1>6. CASE stop_protocol
  BY <1>6, TableUntouched DEF stop_protocol, CleanupReset, node, cleanup
<1>7. ASSUME NEW l \in Listener, start_protocol(l)
      PROVE  TableKept
  BY <1>7, TableUntouched DEF start_protocol, node, cleanup
<1>8. CASE CleanupAborted
  BY <1>8, TableUntouched DEF CleanupAborted, CleanupReset, node
<1>9. CASE UNCHANGED vars
  BY <1>9, TableUntouched DEF vars, node, cleanup
<1> QED
  BY <1>1, <1>2, <1>3, <1>4, <1>5, <1>6, <1>7, <1>8, <1>9 DEF Next, RunNext

(***************************************************************************)
(* The rest of the invariant: types, what listeners and states hold, and   *)
(* the router's lock.                                                      *)
(***************************************************************************)
RestKept == TypeOK' /\ HandlerShape' /\ StatesShape' /\ LockExclusion'

(* The types of the table follow from its shape. *)
LEMMA TableTypes ==
    ASSUME TableKept
    PROVE  routes' \subseteq RouteEntry /\ kernel' \subseteq KernelRoute
BY DEF TableKept, TableShape, KernelShape

LEMMA TimeoutsKeepRest ==
    ASSUME IInv,
           \/ \E k \in Ipv4Network : RouteTimeout(k)
           \/ \E n \in RouterId : NeighborTimeout(n)
    PROVE  RestKept
<1>1. ASSUME NEW k \in Ipv4Network, RouteTimeout(k)
      PROVE  RestKept
  <2>1. route_states[k] \in RouteState /\ Learned(route_states[k].route)
    BY <1>1 DEF RouteTimeout, IInv, TypeOK, StatesShape
  <2> DEFINE new == [route_states[k] EXCEPT !.overdue = TRUE]
  <2>2. new \in RouteState /\ new.route = route_states[k].route
    BY <2>1 DEF RouteState
  <2>3. route_states' = [route_states EXCEPT ![k] = new]
    BY <1>1 DEF RouteTimeout
  <2> HIDE DEF new
  <2>4. StatesShape'
    BY <2>1, <2>2, <2>3 DEF IInv, StatesShape, TypeOK
  <2>5. route_states' \in [Ipv4Network -> RouteState \cup {None}]
    BY <2>2, <2>3 DEF IInv, TypeOK
  <2> QED
    BY <1>1, <2>4, <2>5
    DEF RestKept, IInv, TypeOK, HandlerShape, LockExclusion, RouteTimeout,
        table, listeners, handling, cleanup
<1>2. ASSUME NEW n \in RouterId, NeighborTimeout(n)
      PROVE  RestKept
  <2>1. neighbors' \in [RouterId -> NeighborInfo \cup {None}]
    <3> DEFINE new == [neighbors[n] EXCEPT !.overdue = TRUE]
    <3>1. neighbors[n] \in NeighborInfo
      BY <1>2 DEF NeighborTimeout, IInv, TypeOK
    <3>2. new \in NeighborInfo
      BY <3>1 DEF NeighborInfo
    <3>3. neighbors' = [neighbors EXCEPT ![n] = new]
      BY <1>2 DEF NeighborTimeout
    <3> HIDE DEF new
    <3> QED
      BY <3>2, <3>3 DEF IInv, TypeOK
  <2> QED
    BY <1>2, <2>1
    DEF RestKept, IInv, TypeOK, HandlerShape, StatesShape, LockExclusion, NeighborTimeout,
        table, listeners, handling, cleanup
<1> QED
  BY <1>1, <1>2

LEMMA MessagesKeepRest ==
    ASSUME IInv, NEW l \in Listener,
           \/ \E m \in Hellos : handle_hello_message(l, m)
           \/ \E m \in Updates : handle_update_message(l, m)
    PROVE  RestKept
<1>1. ASSUME NEW m \in Hellos, handle_hello_message(l, m)
      PROVE  RestKept
  <2>1. m.addr \in Address /\ m.router_id \in RouterId
    BY <1>1, NodeAssumption DEF handle_hello_message, Receivable, Message
  <2>2. neighbors' \in [RouterId -> NeighborInfo \cup {None}]
    BY <1>1, <2>1 DEF handle_hello_message, IInv, TypeOK, NeighborInfo
  <2> QED
    BY <1>1, <2>2
    DEF RestKept, IInv, TypeOK, HandlerShape, StatesShape, LockExclusion,
        handle_hello_message, table, listeners, handling, cleanup
<1>2. ASSUME NEW m \in Updates, handle_update_message(l, m)
      PROVE  RestKept
  <2>1. m \in UpdateMessage /\ m.router_id \in RouterId /\ m.routes \subseteq RouteInfo
    BY <1>2, NodeAssumption DEF handle_update_message, Receivable, UpdateMessage
  <2>2. neighbors' \in [RouterId -> NeighborInfo \cup {None}]
    <3>1. ASSUME NEW info \in NeighborInfo
          PROVE  refreshed(info) \in NeighborInfo
      BY DEF refreshed, NeighborInfo
    <3> QED
      BY <1>2, <2>1, <3>1 DEF handle_update_message, IInv, TypeOK
  <2>3. TypeOK'
    BY <1>2, <2>1, <2>2 DEF IInv, TypeOK, handle_update_message, table, cleanup
  <2>4. HandlerShape'
    BY <1>2, <2>1 DEF IInv, TypeOK, HandlerShape, handle_update_message
  <2>5. StatesShape' /\ LockExclusion'
    BY <1>2 DEF IInv, TypeOK, StatesShape, LockExclusion, handle_update_message, cleanup
  <2> QED
    BY <2>3, <2>4, <2>5 DEF RestKept
<1> QED
  BY <1>1, <1>2

LEMMA HandleKeepsRest ==
    ASSUME IInv, NEW l \in Listener, Handle(l), TableKept
    PROVE  RestKept
<1>1. ASSUME NEW info \in todo[l], CheckRoute(l, info)
      PROVE  RestKept
  <2>1. info \in RouteInfo /\ update[l].addr \in Address
    BY <1>1 DEF IInv, TypeOK, HandlerShape, CheckRoute, UpdateMessage
  <2>2. ASSUME NEW r \in process_single_route(info, update[l].addr, Interfaces)
        PROVE  Learned(r) /\ [key |-> info.destination, route |-> r] \in Accepted
    BY <2>1, ProcessedIsLearned DEF Accepted, Learned, RouteInfo
  <2> DEFINE new == {[key |-> info.destination, route |-> r] :
                        r \in {r \in process_single_route(info, update[l].addr, Interfaces) :
                                  should_accept_route(routes, r)}}
  <2>3. new \subseteq Accepted /\ \A x \in new : Learned(x.route)
    BY <2>2
  <2>4. accepted' = [accepted EXCEPT ![l] = accepted[l] \cup new]
    BY <1>1 DEF CheckRoute, IInv, TypeOK
  <2> HIDE DEF new
  <2>5. TypeOK'
    BY <1>1, <2>3, <2>4 DEF IInv, TypeOK, CheckRoute, node, cleanup
  <2>6. HandlerShape'
    BY <1>1, <2>3, <2>4 DEF IInv, TypeOK, HandlerShape, CheckRoute
  <2>7. StatesShape' /\ LockExclusion'
    BY <1>1 DEF IInv, StatesShape, LockExclusion, CheckRoute, node, cleanup
  <2> QED
    BY <2>5, <2>6, <2>7 DEF RestKept
<1>2. CASE update_route_states(l)
  <2>1. ASSUME NEW k, \E x \in accepted[l] : x.key = k
        PROVE  recorded(l, k) \in RouteState /\ Learned(recorded(l, k).route)
    BY <1>2, <2>1, RecordedState DEF update_route_states
  <2>2. /\ route_states' \in [Ipv4Network -> RouteState \cup {None}]
        /\ StatesShape'
    BY <1>2, <2>1 DEF update_route_states, IInv, TypeOK, StatesShape
  <2>3. TypeOK'
    BY <1>2, <2>2 DEF IInv, TypeOK, update_route_states, table, cleanup
  <2>4. HandlerShape' /\ LockExclusion'
    BY <1>2 DEF IInv, TypeOK, HandlerShape, LockExclusion, update_route_states, cleanup
  <2> QED
    BY <2>2, <2>3, <2>4 DEF RestKept
<1>3. CASE apply_new_routes(l)
  <2>1. TypeOK' /\ StatesShape'
    BY <1>3 DEF IInv, TypeOK, StatesShape, apply_new_routes, node, handling, cleanup
  <2>2. HandlerShape'
    BY <1>3 DEF IInv, TypeOK, HandlerShape, apply_new_routes, handling
  <2>3. LockExclusion'
    BY <1>3 DEF IInv, TypeOK, LockExclusion, apply_new_routes, RouterLockFree, cleanup
  <2> QED
    BY <2>1, <2>2, <2>3 DEF RestKept
<1>4. ASSUME NEW x \in accepted[l], ApplyRoute(l, x)
      PROVE  RestKept
  <2>1. /\ lpc[l] = "apply"
        /\ accepted' = [accepted EXCEPT ![l] = accepted[l] \ {x}]
        /\ \/ /\ lpc' = [lpc EXCEPT ![l] = "idle"]
              /\ update' = [update EXCEPT ![l] = None]
           \/ /\ lpc' = [lpc EXCEPT ![l] = "apply"]
              /\ update' = [update EXCEPT ![l] = update[l]]
        /\ UNCHANGED <<route_states, neighbors, is_running, todo, shutdown, cleanup>>
    BY <1>4 DEF ApplyRoute, IInv, TypeOK
  <2>2. TypeOK'
    BY <2>1, TableTypes DEF IInv, TypeOK, cleanup
  <2>3. HandlerShape'
    BY <2>1 DEF IInv, TypeOK, HandlerShape
  <2>4. StatesShape' /\ LockExclusion'
    BY <2>1 DEF IInv, TypeOK, StatesShape, LockExclusion, cleanup
  <2> QED
    BY <2>2, <2>3, <2>4 DEF RestKept
<1> QED
  BY <1>1, <1>2, <1>3, <1>4 DEF Handle

(* A step of the cleanup task that leaves the shared state and the         *)
(* listeners alone, and takes the router's lock only when it is free.      *)
LEMMA QuietCleanupKeepsRest ==
    ASSUME IInv, UNCHANGED <<node, is_running, listeners>>,
           cpc' \in {"idle", "stale", "collect", "lock", "states", "forget", "unlist",
                     "gateway", "purge_wait", "purge"},
           dead_neighbors' \subseteq RouterId,
           stale_routes' \subseteq Ipv4Network,
           doomed' \subseteq Ipv4Network,
           removing' \in RouteEntry \cup {None},
           dead_neighbor_ip' \in Address \cup {None},
           cpc' \in {"states", "forget", "unlist", "purge"} => \A l \in Listener : lpc[l] # "apply"
    PROVE  RestKept
<1>1. TypeOK'
  BY DEF IInv, TypeOK, node, listeners, handling
<1>2. HandlerShape' /\ StatesShape' /\ LockExclusion'
  BY DEF IInv, HandlerShape, StatesShape, LockExclusion, node, listeners, handling
<1> QED
  BY <1>1, <1>2 DEF RestKept

LEMMA CleanupKeepsRest ==
    ASSUME IInv, perform_cleanup, TableKept
    PROVE  RestKept
<1>1. CASE CleanupNeighbors
  <2>1. neighbors' \in [RouterId -> NeighborInfo \cup {None}]
    <3>1. ASSUME NEW info \in NeighborInfo \cup {None}
          PROVE  scanned(info) \in NeighborInfo \cup {None}
      BY DEF scanned, NeighborInfo
    <3> QED
      BY <1>1, <3>1 DEF CleanupNeighbors, IInv, TypeOK
  <2>2. TypeOK'
    BY <1>1, <2>1 DEF CleanupNeighbors, IInv, TypeOK, table, listeners, handling
  <2>3. HandlerShape' /\ StatesShape' /\ LockExclusion'
    BY <1>1
    DEF CleanupNeighbors, IInv, HandlerShape, StatesShape, LockExclusion, listeners, handling
  <2> QED
    BY <2>2, <2>3 DEF RestKept
<1>2. CASE CleanupStale
  BY <1>2, QuietCleanupKeepsRest DEF CleanupStale, IInv, TypeOK
<1>3. CASE CleanupCollect
  <2>1. routes_to_remove \subseteq Ipv4Network
    BY DEF routes_to_remove
  <2> QED
    BY <1>3, <2>1, QuietCleanupKeepsRest DEF CleanupCollect, IInv, TypeOK
<1>4. CASE CleanupLock \/ CleanupLockStates
  BY <1>4, QuietCleanupKeepsRest
  DEF CleanupLock, CleanupLockStates, RouterLockFree, IInv, TypeOK, LockExclusion
<1>5. ASSUME NEW k \in doomed, CleanupForget(k)
      PROVE  RestKept
  <2>1. route_states' = [route_states EXCEPT ![k] = None]
    BY <1>5 DEF CleanupForget
  <2>2. /\ removing' \in RouteEntry \cup {None}
        /\ cpc' \in {"forget", "unlist"}
    <3> DEFINE E == find_route_index(routes, route_states[k].route.destination)
    <3>1. E # {} => found(E) \in RouteEntry
      BY FoundIsAnEntry DEF find_route_index, IInv, TypeOK
    <3> QED
      BY <1>5, <3>1 DEF CleanupForget, IInv, TypeOK
  <2>3. TypeOK'
    BY <1>5, <2>1, <2>2, TableTypes DEF CleanupForget, IInv, TypeOK, listeners, handling
  <2>4. StatesShape'
    BY <2>1 DEF IInv, TypeOK, StatesShape
  <2>5. HandlerShape' /\ LockExclusion'
    BY <1>5 DEF CleanupForget, IInv, HandlerShape, LockExclusion, listeners, handling
  <2> QED
    BY <2>3, <2>4, <2>5 DEF RestKept
<1>6. CASE CleanupUnlist
  <2>1. TypeOK'
    BY <1>6, TableTypes DEF CleanupUnlist, IInv, TypeOK, listeners, handling
  <2>2. HandlerShape' /\ StatesShape' /\ LockExclusion'
    BY <1>6
    DEF CleanupUnlist, IInv, HandlerShape, StatesShape, LockExclusion, listeners, handling
  <2> QED
    BY <2>1, <2>2 DEF RestKept
<1>7. CASE CleanupForgetDone
  BY <1>7, QuietCleanupKeepsRest DEF CleanupForgetDone, IInv, TypeOK
<1>8. ASSUME NEW n \in dead_neighbors, CleanupGateway(n)
      PROVE  RestKept
  <2>1. neighbors[n] \in NeighborInfo \cup {None} /\ cpc' \in {"gateway", "purge_wait"}
    BY <1>8 DEF CleanupGateway, IInv, TypeOK
  <2>2. dead_neighbor_ip' \in Address \cup {None}
    BY <1>8, <2>1 DEF CleanupGateway, IInv, TypeOK, NeighborInfo
  <2> QED
    BY <1>8, <2>1, <2>2, QuietCleanupKeepsRest DEF CleanupGateway, IInv, TypeOK
<1>9. CASE CleanupPurgeLock
  BY <1>9, QuietCleanupKeepsRest DEF CleanupPurgeLock, RouterLockFree, IInv, TypeOK
<1>10. ASSUME NEW r \in ViaGateway, CleanupPurge(r)
       PROVE  RestKept
  <2>1. TypeOK'
    BY <1>10, TableTypes DEF CleanupPurge, IInv, TypeOK, listeners, handling, cleanup
  <2>2. HandlerShape' /\ StatesShape' /\ LockExclusion'
    BY <1>10
    DEF CleanupPurge, IInv, HandlerShape, StatesShape, LockExclusion, listeners, handling, cleanup
  <2> QED
    BY <2>1, <2>2 DEF RestKept
<1>11. CASE CleanupPurgeDone
  BY <1>11, QuietCleanupKeepsRest DEF CleanupPurgeDone, IInv, TypeOK
<1>12. CASE CleanupDone
  BY <1>12, QuietCleanupKeepsRest DEF CleanupDone, IInv, TypeOK
<1> QED
  BY <1>1, <1>2, <1>3, <1>4, <1>5, <1>6, <1>7, <1>8, <1>9, <1>10, <1>11, <1>12
  DEF perform_cleanup

LEMMA CommandsKeepRest ==
    ASSUME IInv,
           \/ \E l \in Listener : ListenerExit(l)
           \/ stop_protocol
           \/ CleanupAborted
           \/ \E l \in Listener : start_protocol(l)
    PROVE  RestKept
<1>1. ASSUME NEW l \in Listener, ListenerExit(l)
      PROVE  RestKept
  BY <1>1
  DEF ListenerExit, RestKept, IInv, TypeOK, HandlerShape, StatesShape, LockExclusion,
      node, handling, cleanup
<1>2. CASE stop_protocol
  <2>1. CASE CleanupReset
    BY <1>2, <2>1
    DEF stop_protocol, CleanupReset, RestKept, IInv, TypeOK, HandlerShape, StatesShape,
        LockExclusion, node, handling
  <2>2. CASE UNCHANGED cleanup
    BY <1>2, <2>2
    DEF stop_protocol, RestKept, IInv, TypeOK, HandlerShape, StatesShape, LockExclusion,
        node, handling, cleanup
  <2> QED
    BY <1>2, <2>1, <2>2 DEF stop_protocol
<1>3. ASSUME NEW l \in Listener, start_protocol(l)
      PROVE  RestKept
  BY <1>3
  DEF start_protocol, RestKept, IInv, TypeOK, HandlerShape, StatesShape, LockExclusion,
      node, handling, cleanup
<1>4. CASE CleanupAborted
  BY <1>4
  DEF CleanupAborted, CleanupReset, RestKept, IInv, TypeOK, HandlerShape, StatesShape,
      LockExclusion, node, listeners, handling
<1> QED
  BY <1>1, <1>2, <1>3, <1>4

LEMMA NextIInv ==
    ASSUME IInv, [Next]_vars
    PROVE  IInv'
<1>1. TableKept
  BY NextKeepsTable
<1>2. RestKept
  <2>1. CASE RunNext
    BY <1>1, <2>1, TimeoutsKeepRest, MessagesKeepRest, HandleKeepsRest, CleanupKeepsRest
    DEF RunNext, Listen
  <2>2. CASE UNCHANGED vars
    BY <2>2
    DEF vars, RestKept, IInv, TypeOK, HandlerShape, StatesShape, LockExclusion,
        node, listeners, handling, cleanup
  <2> QED
    BY <2>1, <2>2, CommandsKeepRest DEF Next
<1> QED
  BY <1>1, <1>2 DEF IInv, TableKept, RestKept

THEOREM Invariance == Spec => []IInv
<1>1. Init => IInv
  BY InitIInv
<1>2. IInv /\ [Next]_vars => IInv'
  BY NextIInv
<1> QED
  BY <1>1, <1>2, PTL DEF Spec

(***************************************************************************)
(* The theorems                                                            *)
(***************************************************************************)

(* Every variable keeps its type; in particular a route state always names *)
(* another router (handle_update_message ignores our own id).              *)
THEOREM TypeCorrect == Spec => []TypeOK
<1>1. IInv => TypeOK
  BY DEF IInv
<1> QED
  BY <1>1, Invariance, PTL

(* Whatever UPDATEs arrive, and however handlers, cleanup, stop and start  *)
(* interleave, no subnet has two entries in the table.                     *)
THEOREM OneRouteEach == Spec => []OneRoutePerSubnet
<1>1. IInv => OneRoutePerSubnet
  <2> SUFFICES ASSUME IInv, NEW r \in routes, NEW s \in routes,
                      network(r.destination) = network(s.destination)
               PROVE  r = s
    BY DEF OneRoutePerSubnet
  <2>1. r.destination.net = s.destination.net
    BY DEF network
  <2>2. TableShape(routes, Interfaces, LocalNetworks)
    BY DEF IInv
  <2>3. CASE r \in direct_routes(Interfaces) /\ s \in direct_routes(Interfaces)
    BY <2>1, <2>3, SubnetAssumption DEF direct_routes, direct_route
  <2>4. CASE r \notin direct_routes(Interfaces) /\ s \notin direct_routes(Interfaces)
    <3>1. /\ r.destination \in Address /\ s.destination \in Address
          /\ r.destination.host = Zero /\ s.destination.host = Zero
      BY <2>2, <2>4 DEF TableShape, LearnedEntry, Learned, RouteEntry, Ipv4Network
    <3>2. r.destination = s.destination
      BY <2>1, <3>1 DEF Address
    <3> QED
      BY <2>2, <3>2 DEF TableShape
  <2>5. CASE r \in direct_routes(Interfaces) /\ s \notin direct_routes(Interfaces)
    BY <2>1, <2>2, <2>5, NodeAssumption
    DEF TableShape, LearnedEntry, direct_routes, direct_route
  <2>6. CASE r \notin direct_routes(Interfaces) /\ s \in direct_routes(Interfaces)
    BY <2>1, <2>2, <2>6, NodeAssumption
    DEF TableShape, LearnedEntry, direct_routes, direct_route
  <2> QED
    BY <2>3, <2>4, <2>5, <2>6
<1> QED
  BY <1>1, Invariance, PTL

(* Expired states of our own subnets never take a Direct route with them.  *)
THEOREM DirectRoutesKept == Spec => []DirectRoutesStay
<1>1. IInv => DirectRoutesStay
  BY DEF IInv, TableShape, DirectRoutesStay
<1> QED
  BY <1>1, Invariance, PTL

(* Stopping the protocol at any await leaves no route in the system that   *)
(* the table has forgotten.                                                *)
THEOREM KernelCovered == Spec => []KernelWithinTable
<1>1. IInv => KernelWithinTable
  BY DEF IInv, KernelShape, KernelWithinTable
<1> QED
  BY <1>1, Invariance, PTL

(* A listener that applies what it accepted against an older table never   *)
(* makes an entry worse.                                                   *)
THEOREM OnlyImprovements == Spec => RouteOnlyImproves
<1>1. ASSUME IInv, [Next]_vars
      PROVE  [\A r \in routes : \A s \in routes' :
                 r.destination = s.destination => s.metric <= r.metric]_vars
  BY <1>1, NextKeepsTable DEF TableKept, Improves
<1> QED
  BY <1>1, Invariance, PTL DEF Spec, RouteOnlyImproves

(* Every step keeps table and system in step, except that of remove_route  *)
(* which has told the system and not yet the table.                        *)
AppliedStep ==
    \A r : Unapplied(Table(routes, kernel)', r, own_addresses) =>
              removing' = r \/ Unapplied(Table(routes, kernel), r, own_addresses)

LEMMA ForgetApplied ==
    ASSUME IInv, NEW k \in doomed, CleanupForget(k)
    PROVE  AppliedStep
<1> DEFINE E == find_route_index(routes, route_states[k].route.destination)
           old == found(E)
<1>1. k \in Ipv4Network
  BY DEF IInv, TypeOK
<1>2. CASE route_states[k] # None /\ E # {}
  <2>1. old \in routes /\ old.destination = route_states[k].route.destination
    BY <1>2, FoundIsAnEntry DEF find_route_index
  <2>2. old.destination.host = Zero
    BY <1>1, <1>2, <2>1 DEF IInv, StatesShape, Learned
  <2>3. Learned(old)
    BY <2>1, <2>2, InterfaceAssumption
    DEF IInv, TableShape, LearnedEntry, direct_routes, direct_route
  <2>4. InStep(Table(routes, kernel), drop(Table(routes, kernel), old), own_addresses)
    BY <2>1, <2>3, DropInStep DEF IInv, Table
  <2>5. /\ routes' = routes /\ removing' = old
        /\ kernel' = drop(Table(routes, kernel), old).kernel
    BY <1>2 DEF CleanupForget, drop, Table
  <2> QED
    BY <2>4, <2>5 DEF AppliedStep, InStep, Unapplied, drop, Table
<1>3. CASE ~(route_states[k] # None /\ E # {})
  BY <1>3 DEF CleanupForget, AppliedStep, Unapplied, Table
<1> QED
  BY <1>2, <1>3

LEMMA PurgeApplied ==
    ASSUME IInv, NEW r \in ViaGateway, CleanupPurge(r)
    PROVE  AppliedStep
<1>1. r \in routes /\ Learned(r)
  BY DEF ViaGateway, IInv, TableShape, LearnedEntry, direct_routes, direct_route
<1>2. InStep(Table(routes, kernel), drop(Table(routes, kernel), r), own_addresses)
  BY <1>1, DropInStep DEF IInv, Table
<1>3. Table(routes, kernel)' = drop(Table(routes, kernel), r)
  BY DEF CleanupPurge, drop, Table
<1> QED
  BY <1>2, <1>3 DEF AppliedStep, InStep

LEMMA ApplyRouteApplied ==
    ASSUME IInv, NEW l \in Listener, NEW x \in accepted[l], ApplyRoute(l, x)
    PROVE  AppliedStep
<1> DEFINE t == Table(routes, kernel)
           u == update_routing_table(t, x.route, LocalNetworks, own_addresses)
<1>1. Learned(x.route)
  BY DEF IInv, HandlerShape
<1>2. t.routes = routes /\ t.kernel = kernel
  BY DEF Table
<1>3. InStep(t, u, own_addresses)
  BY <1>1, <1>2, InterfaceAssumption, UpdateInStep DEF IInv
<1>4. routes' = u.routes /\ kernel' = u.kernel
  BY DEF ApplyRoute
<1> QED
  BY <1>3, <1>4 DEF AppliedStep, InStep, Unapplied, Table

(* All other actions leave table and system alone; CleanupUnlist only      *)
(* takes an entry out.                                                     *)
LEMMA NextApplied ==
    ASSUME IInv, [Next]_vars
    PROVE  AppliedStep
<1>1. CASE routes' \subseteq routes /\ kernel' = kernel
  BY <1>1 DEF AppliedStep, Unapplied, Table
<1>2. ASSUME NEW k \in doomed, CleanupForget(k)
      PROVE  AppliedStep
  BY <1>2, ForgetApplied
<1>3. ASSUME NEW r \in ViaGateway, CleanupPurge(r)
      PROVE  AppliedStep
  BY <1>3, PurgeApplied
<1>4. ASSUME NEW l \in Listener, NEW x \in accepted[l], ApplyRoute(l, x)
      PROVE  AppliedStep
  BY <1>4, ApplyRouteApplied
<1>5. ASSUME NEW l \in Listener, Listen(l)
      PROVE  \/ \E x \in accepted[l] : ApplyRoute(l, x)
             \/ routes' \subseteq routes /\ kernel' = kernel
  BY <1>5 DEF Listen, Handle, handle_hello_message, handle_update_message, CheckRoute,
              update_route_states, apply_new_routes, node, table
<1>6. CASE perform_cleanup
  <2>1. \/ \E k \in doomed : CleanupForget(k)
        \/ \E r \in ViaGateway : CleanupPurge(r)
        \/ routes' \subseteq routes /\ kernel' = kernel
    BY <1>6 DEF perform_cleanup, CleanupNeighbors, CleanupStale, CleanupCollect, CleanupLock,
                CleanupLockStates, CleanupUnlist, CleanupForgetDone, CleanupGateway,
                CleanupPurgeLock,
                CleanupPurgeDone, CleanupDone, node, table
  <2> QED
    BY <1>1, <1>2, <1>3, <2>1
<1> QED
  BY <1>1, <1>4, <1>5, <1>2, <1>3, <1>6
  DEF Next, RunNext, RouteTimeout, NeighborTimeout, ListenerExit, stop_protocol,
      CleanupAborted, start_protocol, vars, node, table

(* Table and system part only inside remove_route, for any messages, any   *)
(* overlap of listeners and any abort of the cleanup task.                 *)
THEOREM TableAndSystemAgree == Spec => TableApplied
<1>1. ASSUME IInv, [Next]_vars
      PROVE  [\A r \in routes' :
                 /\ r.source = "Protocol"
                 /\ r.next_hop \notin own_addresses
                 /\ system_pair(r) \notin kernel'
                 => removing' = r \/ (r \in routes /\ system_pair(r) \notin kernel)]_vars
  BY <1>1, NextApplied DEF AppliedStep, Unapplied, Table
<1> QED
  BY <1>1, Invariance, PTL DEF Spec, TableApplied

(* A message that ends a neighbour's silence revives it in the same step.  *)
LEMMA MessagesRevive ==
    ASSUME TypeOK, DeadMeansSilent, NEW l \in Listener, Listen(l)
    PROVE  DeadMeansSilent'
<1>1. ASSUME NEW m \in Hellos, handle_hello_message(l, m)
      PROVE  DeadMeansSilent'
  BY <1>1 DEF handle_hello_message, DeadMeansSilent, TypeOK
<1>2. ASSUME NEW m \in Updates, handle_update_message(l, m)
      PROVE  DeadMeansSilent'
  BY <1>2 DEF handle_update_message, refreshed, DeadMeansSilent, TypeOK, NeighborInfo
<1>3. ASSUME Handle(l)
      PROVE  neighbors' = neighbors
  BY <1>3 DEF Handle, CheckRoute, update_route_states, apply_new_routes, ApplyRoute, node
<1> QED
  BY <1>1, <1>2, <1>3 DEF Listen, DeadMeansSilent

(* A neighbour that the cleanup task has marked dead is still silent.      *)
THEOREM DeadAreSilent == Spec => []DeadMeansSilent
<1>1. Init => DeadMeansSilent
  BY DEF Init, DeadMeansSilent
<1>2. ASSUME TypeOK, DeadMeansSilent, [Next]_vars
      PROVE  DeadMeansSilent'
  <2>1. CASE UNCHANGED vars
    BY <1>2, <2>1 DEF vars, node, DeadMeansSilent
  <2>2. ASSUME NEW n \in RouterId, NeighborTimeout(n)
        PROVE  DeadMeansSilent'
    BY <1>2, <2>2 DEF NeighborTimeout, DeadMeansSilent, TypeOK, NeighborInfo
  <2>3. ASSUME NEW l \in Listener, Listen(l)
        PROVE  DeadMeansSilent'
    BY <1>2, <2>3, MessagesRevive
  <2>4. CASE CleanupNeighbors
    BY <1>2, <2>4 DEF CleanupNeighbors, scanned, DeadMeansSilent, TypeOK, NeighborInfo
  <2>5. CASE perform_cleanup /\ ~CleanupNeighbors
    <3>1. neighbors' = neighbors
      BY <2>5 DEF perform_cleanup, CleanupStale, CleanupCollect, CleanupLock,
                  CleanupLockStates, CleanupForget,
                  CleanupUnlist, CleanupForgetDone, CleanupGateway, CleanupPurgeLock,
                  CleanupPurge, CleanupPurgeDone, CleanupDone, node
    <3> QED
      BY <1>2, <3>1 DEF DeadMeansSilent
  <2>6. ASSUME \/ \E k \in Ipv4Network : RouteTimeout(k)
               \/ \E l \in Listener : ListenerExit(l) \/ start_protocol(l)
               \/ stop_protocol \/ CleanupAborted
        PROVE  neighbors' = neighbors
    BY <2>6 DEF RouteTimeout, ListenerExit, start_protocol, stop_protocol, CleanupAborted, node
  <2> QED
    BY <1>2, <2>1, <2>2, <2>3, <2>4, <2>5, <2>6 DEF Next, RunNext, DeadMeansSilent
<1> QED
  BY <1>1, <1>2, TypeCorrect, PTL DEF Spec
=============================================================================
