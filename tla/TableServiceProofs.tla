------------------------- MODULE TableServiceProofs -------------------------
(***************************************************************************)
(* The tasks of a router, with their stages, locks and aborts, work on its *)
(* table as TableService promises, and lose track of no entry.             *)
(***************************************************************************)
EXTENDS RouterNodeProofs

(* The UPDATEs a listener does not ignore. *)
Foreign == {m \in Updates : m.router_id # Self /\ m.addr \notin our_ips}

(* What a listener carries from one stage to the next is what it was       *)
(* offered, however long ago.                                              *)
OffersInv ==
    \A l \in Listener :
        /\ lpc[l] = "check" => update[l] \in Foreign /\ todo[l] \subseteq update[l].routes
        /\ \A x \in accepted[l] : x.route \in Offered

LEMMA OfferIsUsable ==
    ASSUME NEW route \in Offered
    PROVE  Learned(route) /\ \E n \in LocalNetworks : contains(n, route.next_hop)
<1>1. PICK m \in Foreign : \E info \in m.routes :
         route \in process_single_route(info, m.addr, Interfaces)
  BY DEF Offered, offers, Foreign
<1>2. PICK info \in m.routes : route \in process_single_route(info, m.addr, Interfaces)
  BY <1>1
<1>3. info \in RouteInfo /\ m.addr \in Address
  BY NodeAssumption DEF Foreign, UpdateMessage
<1>4. Learned(route)
  BY <1>2, <1>3, ProcessedIsLearned
<1>5. \E i \in Interfaces : contains(i, m.addr)
  BY <1>2 DEF process_single_route, find_best_interface_for_sender
<1>6. route.next_hop = determine_next_hop(info.next_hop, m.addr, Interfaces)
  BY <1>2 DEF process_single_route
<1>7. \E i \in Interfaces : contains(i, route.next_hop)
  BY <1>5, <1>6 DEF determine_next_hop
<1> QED
  BY <1>4, <1>7, NodeAssumption

LEMMA InitOffers == Init => OffersInv
BY DEF Init, OffersInv, OneListener

LEMMA NextOffers ==
    ASSUME IInv, OffersInv, [Next]_vars
    PROVE  OffersInv'
<1>1. ASSUME UNCHANGED <<lpc, update, todo, accepted>>
      PROVE  OffersInv'
  BY <1>1 DEF OffersInv
<1>2. ASSUME NEW l \in Listener, NEW m \in Updates, handle_update_message(l, m)
      PROVE  OffersInv'
  BY <1>2
  DEF handle_update_message, Receivable, Foreign, OffersInv, IInv, TypeOK
<1>3. ASSUME NEW l \in Listener, NEW info \in todo[l], CheckRoute(l, info)
      PROVE  OffersInv'
  <2>1. lpc[l] = "check" /\ update[l] \in Foreign /\ info \in update[l].routes
    BY <1>3 DEF CheckRoute, OffersInv
  <2>2. process_single_route(info, update[l].addr, Interfaces) \subseteq Offered
    BY <2>1 DEF Foreign, Offered, offers
  <2> DEFINE new == {[key |-> info.destination, route |-> r] :
                        r \in {r \in process_single_route(info, update[l].addr, Interfaces) :
                                  should_accept_route(routes, r)}}
  <2>3. \A x \in new : x.route \in Offered
    BY <2>2
  <2>4. /\ accepted' = [accepted EXCEPT ![l] = accepted[l] \cup new]
        /\ todo' = [todo EXCEPT ![l] = todo[l] \ {info}]
        /\ UNCHANGED <<lpc, update>>
    BY <1>3 DEF CheckRoute, IInv, TypeOK
  <2> HIDE DEF new
  <2> QED
    BY <2>3, <2>4 DEF OffersInv, IInv, TypeOK
<1>4. ASSUME NEW l \in Listener,
             update_route_states(l) \/ apply_new_routes(l) \/ ListenerExit(l)
      PROVE  OffersInv'
  BY <1>4
  DEF update_route_states, apply_new_routes, ListenerExit, handling, OffersInv, IInv, TypeOK
<1>5. ASSUME NEW l \in Listener, NEW x \in accepted[l], ApplyRoute(l, x)
      PROVE  OffersInv'
  <2>1. /\ accepted' = [accepted EXCEPT ![l] = accepted[l] \ {x}]
        /\ \E at \in {"idle", "apply"} : lpc' = [lpc EXCEPT ![l] = at]
        /\ \A k \in Listener \ {l} : update'[k] = update[k]
        /\ todo' = todo
    BY <1>5 DEF ApplyRoute, IInv, TypeOK
  <2> QED
    BY <2>1 DEF OffersInv, IInv, TypeOK
<1>6. ASSUME NEW l \in Listener, start_protocol(l)
      PROVE  OffersInv'
  BY <1>6 DEF start_protocol, handling, OffersInv, IInv, TypeOK
<1>7. CASE perform_cleanup
  BY <1>1, <1>7
  DEF perform_cleanup, CleanupNeighbors, CleanupStale, CleanupCollect, CleanupLock,
      CleanupLockStates, CleanupForget, CleanupUnlist, CleanupForgetDone, CleanupGateway,
      CleanupPurgeLock,
      CleanupPurge, CleanupPurgeDone, CleanupDone, listeners, handling
<1>8. CASE stop_protocol \/ CleanupAborted \/ UNCHANGED vars
  BY <1>1, <1>8 DEF stop_protocol, CleanupAborted, vars, listeners, handling
<1>9. CASE \/ \E k \in Ipv4Network : RouteTimeout(k)
           \/ \E n \in RouterId : NeighborTimeout(n)
           \/ \E l \in Listener : \E m \in Hellos : handle_hello_message(l, m)
  BY <1>1, <1>9 DEF RouteTimeout, NeighborTimeout, handle_hello_message, listeners, handling
<1> QED
  BY <1>2, <1>3, <1>4, <1>5, <1>6, <1>7, <1>8, <1>9 DEF Next, RunNext, Listen, Handle

LEMMA OffersInvariant == Spec => [](IInv /\ OffersInv)
<1>1. IInv /\ OffersInv /\ [Next]_vars => OffersInv'
  BY NextOffers
<1> QED
  BY <1>1, InitOffers, Invariance, PTL DEF Spec

(***************************************************************************)
(* The refinement                                                          *)
(***************************************************************************)
LEMMA InitServed == Init => Service!Init
BY DEF Init, Service!Init, Service!Direct, direct_routes, direct_route

LEMMA ApplyIsLearn ==
    ASSUME IInv, OffersInv, NEW l \in Listener, NEW x \in accepted[l], ApplyRoute(l, x)
    PROVE  Service!Step \/ routes' = routes
<1> DEFINE t == Table(routes, kernel)
           u == update_routing_table(t, x.route, LocalNetworks, own_addresses)
<1>1. routes' = u.routes /\ t.routes = routes
  BY DEF ApplyRoute, Table
<1>2. /\ x.route \in Offered
      /\ Learned(x.route)
      /\ \E n \in LocalNetworks : contains(n, x.route.next_hop)
  BY OfferIsUsable DEF OffersInv
<1>3. u.routes = t.routes \/ Taken(t.routes, u.routes, x.route, LocalNetworks)
  BY <1>1, <1>2, UpdateTakes, InterfaceAssumption, NodeAssumption DEF IInv
<1> HIDE DEF t, u
<1>4. CASE Taken(routes, routes', x.route, LocalNetworks)
  <2>1. Service!Learn(x.route)
    BY <1>2, <1>4
    DEF Service!Learn, Service!OnLocalNetwork, Service!Preferred, Taken, LearnedEntry, contains
  <2> QED
    BY <1>2, <2>1 DEF Service!Step
<1> QED
  BY <1>1, <1>3, <1>4

LEMMA RemovalIsForget ==
    ASSUME NEW old, old.source = "Protocol", routes' = routes \ {old}
    PROVE  Service!Step
BY DEF Service!Step, Service!Forget

LEMMA NextServed ==
    ASSUME IInv, OffersInv, [Next]_vars
    PROVE  [Service!Step]_routes
<1>1. ASSUME NEW l \in Listener, NEW x \in accepted[l], ApplyRoute(l, x)
      PROVE  Service!Step \/ routes' = routes
  BY <1>1, ApplyIsLearn
<1>2. CASE CleanupUnlist
  <2>1. removing.source = "Protocol" /\ routes' = routes \ {removing}
    BY <1>2 DEF CleanupUnlist, IInv, RemovingShape, Learned
  <2> QED
    BY <2>1, RemovalIsForget
<1>3. ASSUME NEW r \in ViaGateway, CleanupPurge(r)
      PROVE  Service!Step
  <2>1. r.source = "Protocol" /\ routes' = routes \ {r}
    BY <1>3 DEF ViaGateway, CleanupPurge, drop, Table
  <2> QED
    BY <2>1, RemovalIsForget
<1>4. ASSUME NEW l \in Listener, Listen(l)
      PROVE  Service!Step \/ routes' = routes
  BY <1>1, <1>4
  DEF Listen, Handle, handle_hello_message, handle_update_message, CheckRoute,
      update_route_states, apply_new_routes, node, table
<1>5. CASE perform_cleanup
  BY <1>2, <1>3, <1>5
  DEF perform_cleanup, CleanupNeighbors, CleanupStale, CleanupCollect, CleanupLock,
      CleanupLockStates, CleanupForget, CleanupForgetDone, CleanupGateway, CleanupPurgeLock,
      CleanupPurgeDone, CleanupDone, node, table
<1>6. CASE \/ \E k \in Ipv4Network : RouteTimeout(k)
           \/ \E n \in RouterId : NeighborTimeout(n)
           \/ \E l \in Listener : ListenerExit(l) \/ start_protocol(l)
           \/ stop_protocol \/ CleanupAborted
           \/ UNCHANGED vars
  BY <1>6
  DEF RouteTimeout, NeighborTimeout, ListenerExit, start_protocol, stop_protocol,
      CleanupAborted, vars, node, table
<1> QED
  BY <1>4, <1>5, <1>6 DEF Next, RunNext

(* An UPDATE is checked, recorded and applied under three locks taken one  *)
(* after the other, with other listeners, the cleanup task, stops and      *)
(* starts in between; for the table it is as if each route were weighed at *)
(* the moment it is put in.  What was accepted and is refused by then      *)
(* changes nothing, nothing but learned routes is ever taken out, and what *)
(* is put in is what some UPDATE offered.                                  *)
THEOREM HandlersServeTheTable == Spec => TableServed
<1>1. IInv /\ OffersInv /\ [Next]_vars => [Service!Step]_routes
  BY NextServed
<1> QED
  BY <1>1, InitServed, OffersInvariant, PTL DEF Spec, TableServed, Service!LifeSpec

(***************************************************************************)
(* Entries and their states                                                *)
(***************************************************************************)
(* What goes under a raw prefix is a route to its network. *)
KeysInv ==
    /\ \A k \in Ipv4Network :
          route_states[k] # None => route_states[k].route.destination = network(k)
    /\ \A l \in Listener : \A x \in accepted[l] : x.route.destination = network(x.key)

LEMMA InitKeys == Init => KeysInv
BY DEF Init, KeysInv

LEMMA RecordedKey ==
    ASSUME KeysInv, NEW l \in Listener, NEW k, \E x \in accepted[l] : x.key = k
    PROVE  recorded(l, k).route.destination = network(k)
<1> DEFINE x == CHOOSE x \in accepted[l] : x.key = k
<1>1. x \in accepted[l] /\ x.key = k
  OBVIOUS
<1>2. recorded(l, k).route = x.route
  BY DEF recorded
<1> HIDE DEF x
<1> QED
  BY <1>1, <1>2 DEF KeysInv

LEMMA NextKeys ==
    ASSUME IInv, KeysInv, [Next]_vars
    PROVE  KeysInv'
<1>1. ASSUME UNCHANGED <<route_states, accepted>>
      PROVE  KeysInv'
  BY <1>1 DEF KeysInv
<1>2. ASSUME NEW k \in Ipv4Network, RouteTimeout(k)
      PROVE  KeysInv'
  <2>1. /\ route_states' = [route_states EXCEPT ![k] = [@ EXCEPT !.overdue = TRUE]]
        /\ route_states[k] \in RouteState
        /\ accepted' = accepted
    BY <1>2 DEF RouteTimeout, IInv, TypeOK, listeners, handling
  <2>2. [route_states[k] EXCEPT !.overdue = TRUE].route = route_states[k].route
    BY <2>1 DEF RouteState
  <2> QED
    BY <1>2, <2>1, <2>2 DEF RouteTimeout, KeysInv, IInv, TypeOK
<1>3. ASSUME NEW l \in Listener, NEW info \in todo[l], CheckRoute(l, info)
      PROVE  KeysInv'
  <2> DEFINE new == {[key |-> info.destination, route |-> r] :
                        r \in {r \in process_single_route(info, update[l].addr, Interfaces) :
                                  should_accept_route(routes, r)}}
  <2>1. \A x \in new : x.route.destination = network(x.key)
    BY DEF process_single_route, host_to_network_route
  <2>2. /\ accepted' = [accepted EXCEPT ![l] = accepted[l] \cup new]
        /\ route_states' = route_states
    BY <1>3 DEF CheckRoute, node, IInv, TypeOK
  <2> HIDE DEF new
  <2> QED
    BY <2>1, <2>2 DEF KeysInv, IInv, TypeOK
<1>4. ASSUME NEW l \in Listener, update_route_states(l)
      PROVE  KeysInv'
  <2>1. ASSUME NEW k \in Ipv4Network, \E x \in accepted[l] : x.key = k
        PROVE  recorded(l, k).route.destination = network(k)
    BY <2>1, RecordedKey
  <2> QED
    BY <1>4, <2>1 DEF update_route_states, KeysInv
<1>5. ASSUME NEW l \in Listener, NEW x \in accepted[l], ApplyRoute(l, x)
      PROVE  KeysInv'
  <2>1. /\ accepted' = [accepted EXCEPT ![l] = accepted[l] \ {x}]
        /\ route_states' = route_states
    BY <1>5 DEF ApplyRoute, IInv, TypeOK
  <2> QED
    BY <2>1 DEF KeysInv, IInv, TypeOK
<1>6. ASSUME NEW k \in doomed, CleanupForget(k)
      PROVE  KeysInv'
  BY <1>6 DEF CleanupForget, listeners, handling, KeysInv, IInv, TypeOK
<1>7. ASSUME NEW l \in Listener,
             \/ \E m \in Hellos : handle_hello_message(l, m)
             \/ \E m \in Updates : handle_update_message(l, m)
             \/ apply_new_routes(l)
             \/ ListenerExit(l)
             \/ start_protocol(l)
      PROVE  KeysInv'
  BY <1>1, <1>7
  DEF handle_hello_message, handle_update_message, apply_new_routes, ListenerExit,
      start_protocol, node, listeners, handling
<1>8. CASE perform_cleanup
  BY <1>1, <1>6, <1>8
  DEF perform_cleanup, CleanupNeighbors, CleanupStale, CleanupCollect, CleanupLock,
      CleanupLockStates, CleanupUnlist, CleanupForgetDone, CleanupGateway, CleanupPurgeLock,
      CleanupPurge, CleanupPurgeDone, CleanupDone, node, listeners, handling
<1>9. CASE \/ \E n \in RouterId : NeighborTimeout(n)
           \/ stop_protocol \/ CleanupAborted
           \/ UNCHANGED vars
  BY <1>1, <1>9 DEF NeighborTimeout, stop_protocol, CleanupAborted, vars, node, listeners, handling
<1> QED
  BY <1>2, <1>3, <1>4, <1>5, <1>7, <1>8, <1>9 DEF Next, RunNext, Listen, Handle

LEMMA KeysInvariant == Spec => [](IInv /\ KeysInv)
<1>1. IInv /\ KeysInv /\ [Next]_vars => KeysInv'
  BY NextKeys
<1> QED
  BY <1>1, InitKeys, Invariance, PTL DEF Spec

(* The entry that remove_route finds for a state is the one it is a state  *)
(* of, there being no second one to the same destination.                  *)
LEMMA ForgetIsRemoval ==
    ASSUME IInv, KeysInv, NEW k \in doomed, CleanupForget(k),
           NEW r \in routes, Tracked(r), ~Tracked(r)'
    PROVE  removing' = r
<1> DEFINE E == find_route_index(routes, route_states[k].route.destination)
<1>1. k \in Ipv4Network /\ route_states' = [route_states EXCEPT ![k] = None]
  BY DEF CleanupForget, IInv, TypeOK
<1>2. route_states[k] # None /\ network(k) = r.destination
  BY <1>1 DEF Tracked, IInv, TypeOK
<1>3. route_states[k].route.destination = r.destination
  BY <1>1, <1>2 DEF KeysInv
<1>4. r \in E /\ \A e \in E : e = r
  BY <1>3 DEF find_route_index, IInv, TableShape
<1>5. E # {} /\ found(E) = r
  BY <1>4, FoundIsAnEntry
<1> QED
  BY <1>2, <1>5 DEF CleanupForget

LEMMA NextTracked ==
    ASSUME IInv, KeysInv, [Next]_vars, NEW r \in routes, Tracked(r)
    PROVE  Tracked(r)' \/ removing' = r
<1>1. ASSUME route_states' = route_states
      PROVE  Tracked(r)'
  BY <1>1 DEF Tracked
<1>2. ASSUME NEW k \in Ipv4Network, RouteTimeout(k)
      PROVE  Tracked(r)'
  <2>1. /\ route_states' = [route_states EXCEPT ![k] = [@ EXCEPT !.overdue = TRUE]]
        /\ route_states[k] \in RouteState
    BY <1>2 DEF RouteTimeout, IInv, TypeOK
  <2>2. [route_states[k] EXCEPT !.overdue = TRUE] \in RouteState
    BY <2>1 DEF RouteState
  <2> QED
    BY <2>1, <2>2, NoneAssumption DEF Tracked, IInv, TypeOK
<1>3. ASSUME NEW l \in Listener, update_route_states(l)
      PROVE  Tracked(r)'
  <2>1. ASSUME NEW k \in Ipv4Network, \E x \in accepted[l] : x.key = k
        PROVE  recorded(l, k) # None
    <3>1. recorded(l, k) \in RouteState
      BY <1>3, <2>1, RecordedState DEF update_route_states
    <3> QED
      BY <3>1, NoneAssumption
  <2>2. \A k \in Ipv4Network : route_states[k] # None => route_states'[k] # None
    BY <1>3, <2>1 DEF update_route_states
  <2> QED
    BY <2>2 DEF Tracked
<1>4. ASSUME NEW k \in doomed, CleanupForget(k)
      PROVE  Tracked(r)' \/ removing' = r
  BY <1>4, ForgetIsRemoval
<1>5. ASSUME NEW l \in Listener,
             \/ \E m \in Hellos : handle_hello_message(l, m)
             \/ \E m \in Updates : handle_update_message(l, m)
             \/ \E info \in todo[l] : CheckRoute(l, info)
             \/ apply_new_routes(l)
             \/ \E x \in accepted[l] : ApplyRoute(l, x)
             \/ ListenerExit(l)
             \/ start_protocol(l)
      PROVE  Tracked(r)'
  BY <1>1, <1>5
  DEF handle_hello_message, handle_update_message, CheckRoute, apply_new_routes, ApplyRoute,
      ListenerExit, start_protocol, node
<1>6. CASE perform_cleanup
  BY <1>1, <1>4, <1>6
  DEF perform_cleanup, CleanupNeighbors, CleanupStale, CleanupCollect, CleanupLock,
      CleanupLockStates, CleanupUnlist, CleanupForgetDone, CleanupGateway, CleanupPurgeLock,
      CleanupPurge, CleanupPurgeDone, CleanupDone, node
<1>7. CASE \/ \E n \in RouterId : NeighborTimeout(n)
           \/ stop_protocol \/ CleanupAborted
           \/ UNCHANGED vars
  BY <1>1, <1>7 DEF NeighborTimeout, stop_protocol, CleanupAborted, vars, node
<1> QED
  BY <1>2, <1>3, <1>5, <1>6, <1>7 DEF Next, RunNext, Listen, Handle

(* A route of the table that can expire stays so to the end: what takes    *)
(* the last state of an entry takes the entry.  Routes that never expire   *)
(* are therefore born so, or left so by an aborted removal.                *)
THEOREM TracksAreKept == Spec => TrackedUntilRemoved
<1>1. ASSUME IInv, KeysInv, [Next]_vars
      PROVE  [\A r \in routes \cap routes' :
                 r.source = "Protocol" /\ Tracked(r) => Tracked(r)' \/ removing' = r]_vars
  BY <1>1, NextTracked
<1> QED
  BY <1>1, KeysInvariant, PTL DEF Spec, TrackedUntilRemoved
=============================================================================
