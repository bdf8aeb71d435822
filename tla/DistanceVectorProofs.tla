------------------------ MODULE DistanceVectorProofs ------------------------
(***************************************************************************)
(* For any network and any pattern of loss, expiry and failure: no router  *)
(* ever claims a shorter way than there is, every table is a TableService, *)
(* and no exchange of tables closes a loop: a loop takes an expiry.        *)
(***************************************************************************)
EXTENDS DistanceVector, RoutingTableProofs

(* Metrics that do not lie, for the entries or advertised routes in S of   *)
(* router r.                                                               *)
Honest(r, S) == \A e \in S : e.metric >= Distance[r][e.destination.net]

(* An UPDATE stays true while it is under way, although the table it was   *)
(* read from changes: distances are those of the whole network, which      *)
(* failures only make longer.                                              *)
DVInv ==
    /\ TypeOK
    /\ \A r \in Router : Honest(r, routes[r]) /\ Honest(r, sent[r])

LEMMA DistanceIsNat ==
    ASSUME NEW r \in Router, NEW d \in Subnet
    PROVE  Distance[r][d] \in Nat
BY DistanceAssumption

LEMMA DirectIsHonest ==
    ASSUME NEW r \in Router
    PROVE  /\ direct_routes(interfaces(r)) \subseteq RouteEntry
           /\ Honest(r, direct_routes(interfaces(r)))
<1> SUFFICES ASSUME NEW n \in Subnet, <<r, n>> \in Attached
             PROVE  LET e == direct_route(address(r, n)) IN
                    e \in RouteEntry /\ e.metric >= Distance[r][e.destination.net]
  BY DEF direct_routes, interfaces, Honest
<1>1. address(r, n) \in Ipv4Network
  BY RouterAssumption DEF address, Ipv4Network, Address
<1>2. direct_route(address(r, n)) \in RouteEntry
  BY <1>1, MetricAssumption DEF direct_route, RouteEntry, NextHop, Metric, RouteSource
<1>3. Distance[r][n] = 0
  BY DistanceAssumption
<1>4. /\ direct_route(address(r, n)).metric = 0
      /\ direct_route(address(r, n)).destination.net = n
  BY DEF direct_route, address
<1>5. 0 >= Distance[r][n]
  BY <1>3
<1> QED
  BY <1>2, <1>4, <1>5

LEMMA InitDVInv == Init => DVInv
<1> SUFFICES ASSUME Init
             PROVE  DVInv
  OBVIOUS
<1>1. TypeOK
  BY DirectIsHonest DEF Init, TypeOK
<1>2. ASSUME NEW r \in Router
      PROVE  Honest(r, routes[r]) /\ Honest(r, sent[r])
  BY DirectIsHonest DEF Init, Honest
<1> QED
  BY <1>1, <1>2 DEF DVInv

(* Whatever the outcome, the entries are old ones and the new route.       *)
LEMMA SupersedeEntries ==
    ASSUME NEW t, NEW route, NEW nets, NEW own
    PROVE  update_routing_table(t, route, nets, own).routes
              \subseteq t.routes \cup {route}
<1>1. ASSUME NEW u
      PROVE  add_route(u, route, nets, own).routes \subseteq u.routes \cup {route}
  BY AddRouteOutcome DEF Pushed, supersede, Table
<1>2. replace_route(t, route, nets, own).routes \subseteq t.routes \cup {route}
  <2> DEFINE E == find_route_index(t.routes, route.destination)
             u == IF E = {} THEN t ELSE drop(t, found(E))
  <2>1. u.routes \subseteq t.routes
    BY DEF drop, Table
  <2>2. replace_route(t, route, nets, own) = add_route(u, route, nets, own)
    BY DEF replace_route
  <2> HIDE DEF u
  <2> QED
    BY <1>1, <2>1, <2>2
<1>3. \/ update_routing_table(t, route, nets, own) = t
      \/ update_routing_table(t, route, nets, own) = replace_route(t, route, nets, own)
      \/ update_routing_table(t, route, nets, own) = add_route(t, route, nets, own)
  BY DEF update_routing_table
<1> QED
  BY <1>1, <1>2, <1>3

(* What a router makes of a route that a neighbour sends it: one hop more, *)
(* by way of the neighbour or of the neighbour's gateway, if that is on a  *)
(* local subnet.                                                           *)
LEMMA Processed ==
    ASSUME NEW r \in Router, NEW q \in Router, NEW n \in Subnet, Linked(q, r, n),
           NEW info \in RouteInfo, info.metric + 1 < MetricModulus,
           NEW route \in process_single_route(info, address(q, n), interfaces(r))
    PROVE  /\ Learned(route)
           /\ route.destination.net = info.destination.net
           /\ route.metric = info.metric + 1
           /\ \/ route.next_hop = address(q, n)
              \/ info.next_hop # Unspecified /\ route.next_hop = info.next_hop
           /\ \E i \in interfaces(r) : contains(i, route.next_hop)
<1> DEFINE d == info.destination.net
<1>1. d \in Subnet /\ info.metric \in Nat /\ MetricModulus \in Nat \ {0, 1}
  BY MetricAssumption DEF RouteInfo, Ipv4Network, Address, Metric
<1>2. next_metric(info) = info.metric + 1
  <2>1. ASSUME NEW m \in Nat, NEW k \in Nat \ {0}, m < k
        PROVE  m % k = m
    BY <2>1, Z3
  <2> QED
    BY <1>1, <2>1 DEF next_metric
<1>3. address(q, n) \in Address /\ address(q, n) # Unspecified
  BY RouterAssumption, AddressAssumption DEF address, Address
<1>4. /\ route.destination = network(info.destination)
      /\ route.next_hop = determine_next_hop(info.next_hop, address(q, n), interfaces(r))
      /\ route.metric = next_metric(info)
      /\ route = [destination |-> route.destination, next_hop |-> route.next_hop,
                  metric |-> route.metric, source |-> "Protocol"]
  BY DEF process_single_route, host_to_network_route
<1>5. Learned(route)
  <2>1. route.destination \in Ipv4Network /\ route.destination.host = Zero
    BY <1>1, <1>4, AddressAssumption DEF network, Ipv4Network, Address
  <2>2. route.next_hop \in NextHop
    BY <1>3, <1>4 DEF determine_next_hop, NextHop, RouteInfo
  <2>3. route.metric \in Metric
    BY <1>1, <1>2, <1>4 DEF Metric
  <2> QED
    BY <1>4, <2>1, <2>2, <2>3 DEF Learned, RouteEntry, RouteSource
<1>6. route.destination.net = d /\ route.metric = info.metric + 1
  BY <1>2, <1>4 DEF network
<1>7. \E i \in interfaces(r) : contains(i, address(q, n))
  <2>1. address(r, n) \in interfaces(r)
    BY DEF Linked, interfaces
  <2>2. contains(address(r, n), address(q, n))
    BY <1>3 DEF contains, address
  <2> QED
    BY <2>1, <2>2
<1>8. /\ \/ route.next_hop = address(q, n)
         \/ info.next_hop # Unspecified /\ route.next_hop = info.next_hop
      /\ \E i \in interfaces(r) : contains(i, route.next_hop)
  BY <1>4, <1>7 DEF determine_next_hop
<1> QED
  BY <1>5, <1>6, <1>8

(* What a router makes of a neighbour's honest route is honest. *)
LEMMA ProcessedIsHonest ==
    ASSUME NEW r \in Router, NEW q \in Router, NEW n \in Subnet, Linked(q, r, n),
           NEW info \in RouteInfo, info.metric + 1 < MetricModulus,
           info.metric >= Distance[q][info.destination.net],
           NEW route \in process_single_route(info, address(q, n), interfaces(r))
    PROVE  /\ route \in RouteEntry
           /\ route.metric >= Distance[r][route.destination.net]
<1> DEFINE d == info.destination.net
<1>1. d \in Subnet /\ info.metric \in Nat
  BY MetricAssumption DEF RouteInfo, Ipv4Network, Address, Metric
<1>2. Learned(route) /\ route.destination.net = d /\ route.metric = info.metric + 1
  BY Processed
<1>3. Distance[r][d] <= Distance[q][d] + 1
  BY <1>1, DistanceAssumption
<1>4. Distance[r][d] \in Nat /\ Distance[q][d] \in Nat
  BY <1>1, DistanceIsNat
<1>5. info.metric + 1 >= Distance[r][d]
  BY <1>1, <1>3, <1>4
<1> QED
  BY <1>2, <1>5 DEF Learned

LEMMA ReceiveKeeps ==
    ASSUME DVInv, NEW r \in Router, NEW q \in Router, NEW n \in Subnet,
           NEW info \in BelowWrap(sent[q]),
           process_routing_update(r, q, n, info)
    PROVE  DVInv'
<1>1. PICK route \in process_single_route(info, address(q, n), interfaces(r)) :
         /\ Linked(q, r, n)
         /\ info \in sent[q] /\ info.metric + 1 < MetricModulus
         /\ routes' = [routes EXCEPT ![r] =
                update_routing_table(Table(@, {}), route, interfaces(r), interfaces(r)).routes]
         /\ route_states' = [route_states EXCEPT ![r] =
                {s \in @ : s.key # info.destination}
                    \cup {[key |-> info.destination, advertising_neighbor |-> q]}]
         /\ UNCHANGED <<up, sent>>
  BY DEF process_routing_update, BelowWrap
<1>2. info \in RouteInfo /\ info.metric >= Distance[q][info.destination.net]
  BY <1>1 DEF DVInv, TypeOK, Honest
<1>3. route \in RouteEntry /\ route.metric >= Distance[r][route.destination.net]
  BY <1>1, <1>2, ProcessedIsHonest
<1>4. routes'[r] \subseteq routes[r] \cup {route}
  BY <1>1, SupersedeEntries DEF DVInv, TypeOK, Table
<1>5. TypeOK'
  <2>1. routes' \in [Router -> SUBSET RouteEntry]
    BY <1>1, <1>3, <1>4 DEF DVInv, TypeOK
  <2>2. route_states' \in [Router -> SUBSET State]
    BY <1>1, <1>2 DEF DVInv, TypeOK, State, RouteInfo
  <2> QED
    BY <1>1, <2>1, <2>2 DEF DVInv, TypeOK
<1>6. ASSUME NEW x \in Router
      PROVE  Honest(x, routes'[x]) /\ Honest(x, sent'[x])
  BY <1>1, <1>3, <1>4 DEF DVInv, TypeOK, Honest
<1> QED
  BY <1>5, <1>6 DEF DVInv

(* Any other step that changes a table takes entries away or starts anew.  *)
LEMMA OtherKeeps ==
    ASSUME DVInv, NEW r \in Router,
           up' \in [Router -> BOOLEAN],
           route_states' \in [Router -> SUBSET State],
           sent' = sent,
           NEW R \in SUBSET RouteEntry, routes' = [routes EXCEPT ![r] = R],
           R \subseteq routes[r] \/ R = direct_routes(interfaces(r))
    PROVE  DVInv'
<1>1. Honest(r, R)
  BY DirectIsHonest DEF DVInv, Honest
<1>2. TypeOK'
  BY DEF DVInv, TypeOK
<1> QED
  BY <1>1, <1>2 DEF DVInv, TypeOK, Honest

LEMMA NextKeepsDVInv == DVInv /\ [Next]_vars => DVInv'
<1> SUFFICES ASSUME DVInv, [Next]_vars
             PROVE  DVInv'
  OBVIOUS
<1>1. CASE UNCHANGED vars
  BY <1>1 DEF vars, DVInv, TypeOK, Honest
<1>2. ASSUME NEW r \in Router, send_routing_updates(r)
      PROVE  DVInv'
  <2>1. advertisement(routes[r]) \subseteq RouteInfo /\ Honest(r, advertisement(routes[r]))
    BY DEF DVInv, TypeOK, advertisement, Honest, RouteEntry, RouteInfo
  <2> QED
    BY <1>2, <2>1 DEF send_routing_updates, DVInv, TypeOK, Honest
<1>3. ASSUME NEW r \in Router, NEW q \in Router, NEW n \in Subnet, Receive(r, q, n)
      PROVE  DVInv'
  BY <1>3, ReceiveKeeps DEF Receive
<1>4. ASSUME NEW r \in Router, NEW s \in route_states[r], RouteExpires(r, s)
      PROVE  DVInv'
  <2> DEFINE R == routes[r] \ removed(routes[r], {s})
  <2>1. routes' = [routes EXCEPT ![r] = R] /\ R \in SUBSET RouteEntry
    BY <1>4 DEF RouteExpires, DVInv, TypeOK
  <2> QED
    BY <1>4, <2>1, OtherKeeps DEF RouteExpires, DVInv, TypeOK
<1>5. ASSUME NEW r \in Router, NEW q \in Router, NEW n \in Subnet, NeighborDies(r, q, n)
      PROVE  DVInv'
  <2> DEFINE R == routes'[r]
  <2>1. routes' = [routes EXCEPT ![r] = R] /\ R \subseteq routes[r]
    BY <1>5 DEF NeighborDies, DVInv, TypeOK
  <2>2. R \in SUBSET RouteEntry
    BY <2>1 DEF DVInv, TypeOK
  <2>3. /\ route_states' \in [Router -> SUBSET State]
        /\ up' \in [Router -> BOOLEAN]
        /\ sent' = sent
    BY <1>5 DEF NeighborDies, DVInv, TypeOK
  <2> HIDE DEF R
  <2> QED
    BY <2>1, <2>2, <2>3, OtherKeeps
<1>6. ASSUME NEW r \in Router, Crash(r)
      PROVE  DVInv'
  <2>1. /\ up' \in [Router -> BOOLEAN]
        /\ route_states' \in [Router -> SUBSET State]
    BY <1>6 DEF Crash, DVInv, TypeOK
  <2>2. routes' = [routes EXCEPT ![r] = {}] /\ sent' = sent
    BY <1>6 DEF Crash
  <2>3. {} \in SUBSET RouteEntry /\ {} \subseteq routes[r]
    OBVIOUS
  <2> QED
    BY <2>1, <2>2, <2>3, OtherKeeps
<1>7. ASSUME NEW r \in Router, Restart(r)
      PROVE  DVInv'
  BY <1>7, OtherKeeps, DirectIsHonest DEF Restart, DVInv, TypeOK
<1> QED
  BY <1>1, <1>2, <1>3, <1>4, <1>5, <1>6, <1>7 DEF Next, Exchange, Expiry, Failure

(* Type correctness: the values a router keeps and sends are of their kind *)
(* in any network.                                                         *)
THEOREM ExchangeTypeCorrect == Spec => []TypeOK
<1>1. DVInv => TypeOK
  BY DEF DVInv
<1> QED
  BY <1>1, InitDVInv, NextKeepsDVInv, PTL DEF Spec

(* No entry of any router's table claims fewer hops than its subnet is     *)
(* away: the +1 of process_single_route and the metric 0 of the Direct     *)
(* routes of Router::new are enough for that, whatever is lost, late,      *)
(* repeated or forgotten on the way.                                       *)
THEOREM NeverTooClose == Spec => []MetricNeverBelowDistance
<1>1. DVInv => MetricNeverBelowDistance
  BY DEF DVInv, Honest, MetricNeverBelowDistance
<1> QED
  BY <1>1, InitDVInv, NextKeepsDVInv, PTL DEF Spec

(***************************************************************************)
(* The tables                                                              *)
(***************************************************************************)
(* A running router has its Direct routes and learned ones, each with a    *)
(* gateway, no two to one subnet; a dead one has nothing.                  *)
TablesInv ==
    \A r \in Router :
        /\ up[r] => TableShape(routes[r], interfaces(r), interfaces(r))
        /\ ~up[r] => routes[r] = {}
        /\ \A e \in routes[r] : e.source = "Protocol" => e.next_hop # Unspecified

LEMMA OwnAddresses ==
    ASSUME NEW r \in Router
    PROVE  \A i \in interfaces(r) : i.host = r /\ i.host # Zero
<1> SUFFICES ASSUME NEW n \in Subnet
             PROVE  address(r, n).host = r /\ address(r, n).host # Zero
  BY DEF interfaces
<1> QED
  BY RouterAssumption DEF address

LEMMA DirectShape ==
    ASSUME NEW r \in Router
    PROVE  /\ TableShape(direct_routes(interfaces(r)), interfaces(r), interfaces(r))
           /\ \A e \in direct_routes(interfaces(r)) : e.source # "Protocol"
<1> DEFINE D == direct_routes(interfaces(r))
<1>1. D \subseteq RouteEntry
  BY DirectIsHonest
<1>2. \A e \in D : e = direct_route(e.destination)
  BY DEF direct_routes, direct_route
<1>3. \A e \in D : e.source = "Direct"
  BY DEF direct_routes, direct_route
<1>4. \A e, f \in D : e.destination = f.destination => e = f
  BY <1>2
<1> HIDE DEF D
<1>5. TableShape(D, interfaces(r), interfaces(r))
  BY <1>1, <1>4 DEF TableShape, D
<1> QED
  BY <1>3, <1>5 DEF D

(* An entry that is not Direct is learned, and not for a local subnet.     *)
LEMMA EntryKinds ==
    ASSUME NEW R, NEW r \in Router, TableShape(R, interfaces(r), interfaces(r)),
           NEW e \in R, e.source = "Protocol" \/ e.destination.host = Zero
    PROVE  LearnedEntry(e, interfaces(r)) /\ e \notin direct_routes(interfaces(r))
<1>1. e \notin direct_routes(interfaces(r))
  BY OwnAddresses DEF direct_routes, direct_route
<1> QED
  BY <1>1 DEF TableShape

(* What receiving a route does to the table, all told: nothing, a new      *)
(* entry, or a better one than before in its place.                        *)
Received(R, S, route) ==
    \/ S = R
    \/ S = R \cup {route}
    \/ \E old \in R : /\ old.destination = route.destination
                      /\ route.metric <= old.metric
                      /\ S = (R \ {old}) \cup {route}

LEMMA ReceivedTable ==
    ASSUME NEW R, NEW r \in Router, TableShape(R, interfaces(r), interfaces(r)),
           NEW route, Learned(route), \E i \in interfaces(r) : contains(i, route.next_hop)
    PROVE  LET S == update_routing_table(Table(R, {}), route, interfaces(r), interfaces(r)).routes
           IN  TableShape(S, interfaces(r), interfaces(r)) /\ Received(R, S, route)
<1> DEFINE ifs == interfaces(r)
           t == Table(R, {})
           u == update_routing_table(t, route, ifs, ifs)
<1>1. t.routes = R /\ KernelShape(t.routes, t.kernel)
  BY DEF Table, KernelShape
<1>2. TableShape(u.routes, ifs, ifs)
  BY <1>1, UpdateKeepsShape, OwnAddresses DEF Keeps
<1>3. Outcome(t, u, route, ifs, ifs)
  BY <1>1, UpdateOutcome DEF Learned
<1>4. ASSUME NEW old \in find_route(t.routes, route.destination)
      PROVE  is_valid_route(route, ifs)
  <2>1. old \in R /\ old.destination = route.destination
    BY <1>1 DEF find_route
  <2>2. LearnedEntry(old, ifs)
    BY <2>1, EntryKinds DEF Learned
  <2> QED
    BY <2>1, <2>2 DEF LearnedEntry, is_valid_route, network, contains
<1>5. Received(R, u.routes, route)
  <2>1. CASE u = t
    BY <1>1, <2>1 DEF Received
  <2>2. CASE u = Pushed(t, route, ifs)
    BY <1>1, <2>2 DEF Received, Pushed, Table
  <2>3. ASSUME NEW old \in find_route(t.routes, route.destination),
               route.metric <= old.metric, u = supersede(t, old, route, ifs)
        PROVE  Received(R, u.routes, route)
    <3>1. old \in R /\ old.destination = route.destination
      BY <1>1 DEF find_route
    <3>2. u.routes = (R \ {old}) \cup {route}
      BY <1>1, <2>3 DEF supersede, Table
    <3> HIDE DEF t, u
    <3> QED
      BY <2>3, <3>1, <3>2 DEF Received
  <2>4. \/ u = t
        \/ u = Pushed(t, route, ifs)
        \/ \E old \in find_route(t.routes, route.destination) :
              route.metric <= old.metric /\ u = supersede(t, old, route, ifs)
    BY <1>3, <1>4 DEF Outcome
  <2> HIDE DEF t, u
  <2> QED
    BY <2>1, <2>2, <2>3, <2>4
<1> QED
  BY <1>2, <1>5

(* All that a step in which r takes a route can have done. *)
LEMMA ReceiveOutcome ==
    ASSUME DVInv, TablesInv, NEW r \in Router, NEW q \in Router, NEW n \in Subnet,
           NEW info \in BelowWrap(sent[q]),
           process_routing_update(r, q, n, info)
    PROVE  \E route, S :
             /\ up[r] /\ UNCHANGED <<up, sent>>
             /\ routes' = [routes EXCEPT ![r] = S]
             /\ TableShape(S, interfaces(r), interfaces(r))
             /\ Received(routes[r], S, route)
             /\ Learned(route)
             /\ route.next_hop # Unspecified
             /\ route.destination.net = info.destination.net
             /\ route.metric = info.metric + 1
             /\ \/ route.next_hop = address(q, n)
                \/ info.next_hop # Unspecified /\ route.next_hop = info.next_hop
<1>1. PICK route \in process_single_route(info, address(q, n), interfaces(r)) :
         /\ up[r]
         /\ Linked(q, r, n)
         /\ info \in sent[q] /\ info.metric + 1 < MetricModulus
         /\ routes' = [routes EXCEPT ![r] =
                update_routing_table(Table(@, {}), route, interfaces(r), interfaces(r)).routes]
         /\ UNCHANGED <<up, sent>>
  BY DEF process_routing_update, BelowWrap
<1> DEFINE ifs == interfaces(r)
           S == update_routing_table(Table(routes[r], {}), route, ifs, ifs).routes
<1>2. info \in RouteInfo
  BY <1>1 DEF DVInv, TypeOK
<1>3. /\ Learned(route)
      /\ route.destination.net = info.destination.net
      /\ route.metric = info.metric + 1
      /\ \/ route.next_hop = address(q, n)
         \/ info.next_hop # Unspecified /\ route.next_hop = info.next_hop
      /\ \E i \in interfaces(r) : contains(i, route.next_hop)
  BY <1>1, <1>2, Processed
<1>4. route.next_hop # Unspecified
  BY <1>3 DEF contains
<1>5. TableShape(S, interfaces(r), interfaces(r)) /\ Received(routes[r], S, route)
  BY <1>1, <1>3, ReceivedTable DEF TablesInv
<1>6. routes' = [routes EXCEPT ![r] = S]
  BY <1>1
<1> HIDE DEF S
<1> QED
  BY <1>1, <1>3, <1>4, <1>5, <1>6

LEMMA InitTables == Init => TablesInv
BY DirectShape DEF Init, TablesInv

(* What a removal takes away is learned, so the Direct routes stay.        *)
LEMMA RemovalKeepsTables ==
    ASSUME DVInv, TablesInv, NEW r \in Router, up[r], up' = up,
           NEW R \in SUBSET routes[r], routes' = [routes EXCEPT ![r] = R],
           \A e \in routes[r] \ R : e.source = "Protocol" \/ e.destination.host = Zero
    PROVE  TablesInv'
<1>1. TableShape(R, interfaces(r), interfaces(r))
  <2>1. TableShape(routes[r], interfaces(r), interfaces(r))
    BY DEF TablesInv
  <2>2. direct_routes(interfaces(r)) \subseteq R
    BY <2>1, EntryKinds DEF TableShape
  <2> QED
    BY <2>1, <2>2 DEF TableShape
<1>2. routes'[r] = R /\ \A x \in Router \ {r} : routes'[x] = routes[x]
  BY DEF DVInv, TypeOK
<1> QED
  BY <1>1, <1>2 DEF TablesInv

LEMMA RemovedIsLearned ==
    ASSUME NEW R, NEW S, NEW e \in removed(R, S)
    PROVE  e \in R /\ e.destination.host = Zero
<1>1. PICK s \in S : e \in find_route_index(R, network(s.key))
  BY DEF removed
<1> QED
  BY <1>1 DEF find_route_index, network

LEMMA NextTables == DVInv /\ TablesInv /\ [Next]_vars => TablesInv'
<1> SUFFICES ASSUME DVInv, TablesInv, [Next]_vars
             PROVE  TablesInv'
  OBVIOUS
<1>1. ASSUME UNCHANGED <<up, routes>>
      PROVE  TablesInv'
  BY <1>1 DEF TablesInv
<1>2. ASSUME NEW r \in Router, NEW q \in Router, NEW n \in Subnet, Receive(r, q, n)
      PROVE  TablesInv'
  <2>1. PICK info \in BelowWrap(sent[q]) : process_routing_update(r, q, n, info)
    BY <1>2 DEF Receive
  <2>2. PICK route, S :
           /\ up' = up
           /\ routes' = [routes EXCEPT ![r] = S]
           /\ up[r] /\ TableShape(S, interfaces(r), interfaces(r))
           /\ Received(routes[r], S, route)
           /\ route.next_hop # Unspecified
    BY <2>1, ReceiveOutcome
  <2>3. routes'[r] = S /\ \A x \in Router \ {r} : routes'[x] = routes[x]
    BY <2>2 DEF DVInv, TypeOK
  <2>4. \A e \in S : e \in routes[r] \/ e = route
    BY <2>2 DEF Received
  <2> QED
    BY <2>2, <2>3, <2>4 DEF TablesInv
<1>3. ASSUME NEW r \in Router, NEW s \in route_states[r], RouteExpires(r, s)
      PROVE  TablesInv'
  <2> DEFINE R == routes[r] \ removed(routes[r], {s})
  <2>1. routes' = [routes EXCEPT ![r] = R] /\ R \in SUBSET routes[r] /\ up[r] /\ up' = up
    BY <1>3 DEF RouteExpires
  <2>2. \A e \in routes[r] \ R : e.destination.host = Zero
    BY RemovedIsLearned
  <2> HIDE DEF R
  <2> QED
    BY <2>1, <2>2, RemovalKeepsTables
<1>4. ASSUME NEW r \in Router, NEW q \in Router, NEW n \in Subnet, NeighborDies(r, q, n)
      PROVE  TablesInv'
  <2> DEFINE S == {s \in route_states[r] : s.advertising_neighbor = q}
             R == {e \in routes[r] \ removed(routes[r], S) :
                      ~(e.source = "Protocol" /\ e.next_hop = address(q, n))}
  <2>1. routes' = [routes EXCEPT ![r] = R] /\ R \in SUBSET routes[r] /\ up[r] /\ up' = up
    BY <1>4 DEF NeighborDies
  <2>2. \A e \in routes[r] \ R : e.source = "Protocol" \/ e.destination.host = Zero
    BY RemovedIsLearned
  <2> HIDE DEF R
  <2> QED
    BY <2>1, <2>2, RemovalKeepsTables
<1>5. ASSUME NEW r \in Router, Crash(r)
      PROVE  TablesInv'
  BY <1>5 DEF Crash, DVInv, TypeOK, TablesInv
<1>6. ASSUME NEW r \in Router, Restart(r)
      PROVE  TablesInv'
  <2>1. up'[r] /\ \A x \in Router \ {r} : up'[x] = up[x]
    BY <1>6 DEF Restart, DVInv, TypeOK
  <2>2. routes'[r] = direct_routes(interfaces(r)) /\ \A x \in Router \ {r} : routes'[x] = routes[x]
    BY <1>6 DEF Restart, DVInv, TypeOK
  <2> QED
    BY <2>1, <2>2, DirectShape DEF TablesInv
<1> QED
  BY <1>1, <1>2, <1>3, <1>4, <1>5, <1>6
  DEF Next, Exchange, Expiry, Failure, send_routing_updates, vars

LEMMA TablesInvariant == Spec => [](DVInv /\ TablesInv)
BY InitDVInv, NextKeepsDVInv, InitTables, NextTables, PTL DEF Spec

(***************************************************************************)
(* The tables serve as that of a RouterNode does.                          *)
(***************************************************************************)
LEMMA ReceiveServes ==
    ASSUME DVInv, TablesInv, NEW r \in Router, NEW q \in Router, NEW n \in Subnet,
           NEW info \in BelowWrap(sent[q]),
           process_routing_update(r, q, n, info)
    PROVE  Service(r)!Next \/ routes'[r] = routes[r]
<1>1. PICK route \in process_single_route(info, address(q, n), interfaces(r)) :
         /\ up[r]
         /\ Linked(q, r, n)
         /\ info \in sent[q] /\ info.metric + 1 < MetricModulus
         /\ routes' = [routes EXCEPT ![r] =
                update_routing_table(Table(@, {}), route, interfaces(r), interfaces(r)).routes]
  BY DEF process_routing_update, BelowWrap
<1> DEFINE t == Table(routes[r], {})
           S == update_routing_table(t, route, interfaces(r), interfaces(r)).routes
<1>2. t.routes = routes[r] /\ routes'[r] = S
  BY <1>1 DEF Table, DVInv, TypeOK
<1>3. Learned(route) /\ \E i \in interfaces(r) : contains(i, route.next_hop)
  BY <1>1, Processed DEF DVInv, TypeOK
<1>4. TableShape(t.routes, interfaces(r), interfaces(r))
  BY <1>1, <1>2 DEF TablesInv
<1>5. S = t.routes \/ Taken(t.routes, S, route, interfaces(r))
  BY <1>3, <1>4, UpdateTakes, OwnAddresses
<1>6. route \in Offered(r)
  <2>1. route \in offers(r, q, n)
    BY <1>1 DEF offers, BelowWrap
  <2>2. <<q, n>> \in {l \in Attached : Linked(l[1], r, l[2])}
    BY <1>1 DEF Linked
  <2> HIDE DEF S, t
  <2> QED
    BY <2>1, <2>2 DEF Offered
<1> HIDE DEF S, t
<1>7. CASE Taken(routes[r], routes'[r], route, interfaces(r))
  <2>1. Service(r)!Learn(route)
    BY <1>3, <1>7
    DEF Service!Learn, Service!OnLocalNetwork, Service!Preferred, Taken, LearnedEntry, contains
  <2> QED
    BY <1>6, <2>1 DEF Service!Next, Service!Step
<1> QED
  BY <1>2, <1>5, <1>7

LEMMA NextServes ==
    ASSUME DVInv, TablesInv, [Next]_vars, NEW r \in Router
    PROVE  [Service(r)!Next]_(routes[r])
<1>1. ASSUME NEW q \in Router, NEW n \in Subnet, Receive(r, q, n)
      PROVE  Service(r)!Next \/ routes'[r] = routes[r]
  BY <1>1, ReceiveServes DEF Receive
<1>2. ASSUME routes'[r] \subseteq routes[r],
             \A e \in routes[r] \ routes'[r] : e.source = "Protocol"
      PROVE  Service(r)!Next
  BY <1>2 DEF Service!Next, Service!Step, Service!Forget
<1>3. ASSUME NEW S
      PROVE  \A e \in removed(routes[r], S) :
                up[r] => e \in routes[r] /\ e.source = "Protocol"
  BY RemovedIsLearned, EntryKinds DEF TablesInv, LearnedEntry, Learned
<1>4. ASSUME NEW s \in route_states[r], RouteExpires(r, s)
      PROVE  Service(r)!Next
  <2>1. routes'[r] = routes[r] \ removed(routes[r], {s}) /\ up[r]
    BY <1>4 DEF RouteExpires, DVInv, TypeOK
  <2> QED
    BY <1>2, <1>3, <2>1
<1>5. ASSUME NEW q \in Router, NEW n \in Subnet, NeighborDies(r, q, n)
      PROVE  Service(r)!Next
  <2> DEFINE S == {s \in route_states[r] : s.advertising_neighbor = q}
  <2>1. /\ routes'[r] = {e \in routes[r] \ removed(routes[r], S) :
                           ~(e.source = "Protocol" /\ e.next_hop = address(q, n))}
        /\ up[r]
    BY <1>5 DEF NeighborDies, DVInv, TypeOK
  <2> HIDE DEF S
  <2> QED
    BY <1>2, <1>3, <2>1
<1>6. ASSUME Crash(r)
      PROVE  Service(r)!Next
  BY <1>6 DEF Crash, DVInv, TypeOK, Service!Next, Service!Die
<1>7. ASSUME Restart(r)
      PROVE  Service(r)!Next
  <2>1. routes[r] = {} /\ routes'[r] = direct_routes(interfaces(r))
    BY <1>7 DEF Restart, DVInv, TypeOK, TablesInv
  <2> QED
    BY <2>1
    DEF Service!Next, Service!Restart, Service!Direct, direct_routes, direct_route
<1>8. ASSUME NEW x \in Router, x # r,
             \/ \E q \in Router, n \in Subnet : Receive(x, q, n) \/ NeighborDies(x, q, n)
             \/ \E s \in route_states[x] : RouteExpires(x, s)
             \/ Crash(x)
             \/ Restart(x)
      PROVE  routes'[r] = routes[r]
  BY <1>8
  DEF Receive, process_routing_update, NeighborDies, RouteExpires, Crash, Restart, DVInv, TypeOK
<1> QED
  BY <1>1, <1>4, <1>5, <1>6, <1>7, <1>8
  DEF Next, Exchange, Expiry, Failure, send_routing_updates, vars

(* The exchange between routers, with its atomic handlers, asks no more of *)
(* a table than a RouterNode, with all its stages, provides.               *)
THEOREM ExchangeServesTheTables == Spec => TablesServed
<1>1. Init => \A r \in Router : Service(r)!Init
  BY DEF Init, Service!Init, Service!Direct, direct_routes, direct_route
<1>2. ASSUME DVInv, TablesInv, [Next]_vars
      PROVE  [\A r \in Router : [Service(r)!Next]_(routes[r])]_vars
  BY <1>2, NextServes
<1> QED
  BY <1>1, <1>2, TablesInvariant, PTL DEF Spec, TablesServed

(***************************************************************************)
(* Loop freedom                                                            *)
(***************************************************************************)
(* What a router sends is what it has.                                     *)
LEMMA SendKeepsDescent ==
    ASSUME DVInv, Descends, NEW r \in Router, send_routing_updates(r)
    PROVE  Descends'
<1>1. routes' = routes /\ sent' = [sent EXCEPT ![r] = advertisement(routes[r])]
  BY DEF send_routing_updates
<1>2. sent'[r] = advertisement(routes[r]) /\ \A q \in Router \ {r} : sent'[q] = sent[q]
  BY <1>1 DEF DVInv, TypeOK
<1>3. ASSUME NEW info \in advertisement(routes[r])
      PROVE  /\ info.next_hop # Unspecified =>
                   Closer(info.next_hop.host, info.destination.net, info.metric)
             /\ Closer(r, info.destination.net, info.metric + 1)
  <2>1. PICK e \in routes[r] : /\ info.destination = e.destination
                               /\ info.next_hop = e.next_hop
                               /\ info.metric = e.metric
    BY DEF advertisement
  <2>2. e.metric \in Nat
    BY MetricAssumption DEF DVInv, TypeOK, RouteEntry, Metric
  <2>3. e.next_hop # Unspecified => Closer(e.next_hop.host, e.destination.net, e.metric)
    BY DEF Descends, LeadsDown
  <2>4. e.metric < e.metric + 1
    BY <2>2
  <2>5. Closer(r, e.destination.net, e.metric + 1)
    BY <2>4 DEF Closer
  <2> QED
    BY <2>1, <2>3, <2>5
<1>4. ASSUME NEW q \in Router
      PROVE  /\ LeadsDown(routes[q])'
             /\ LeadsDown(sent[q])'
             /\ \A info \in sent'[q] : Closer(q, info.destination.net, info.metric + 1)'
  <2>1. \A x, d, m : Closer(x, d, m)' = Closer(x, d, m)
    BY <1>1 DEF Closer
  <2>2. LeadsDown(routes[q])'
    BY <1>1 DEF Descends, LeadsDown, Closer
  <2>3. CASE q = r
    BY <1>1, <1>2, <1>3, <2>2, <2>3 DEF LeadsDown, Closer
  <2>4. CASE q # r
    BY <1>1, <1>2, <2>2, <2>4 DEF Descends, LeadsDown, Closer
  <2> QED
    BY <2>3, <2>4
<1> QED
  BY <1>4 DEF Descends

(* Taking a route makes no router's own way longer.                        *)
LEMMA ReceivedIsCloser ==
    ASSUME DVInv, NEW r \in Router, NEW S, NEW route \in RouteEntry,
           routes' = [routes EXCEPT ![r] = S], Received(routes[r], S, route),
           NEW x, NEW d, NEW m \in Nat, Closer(x, d, m)
    PROVE  Closer(x, d, m)'
<1>1. PICK e \in routes[x] : e.destination.net = d /\ e.metric < m /\ x \in Router
  BY DEF Closer
<1>2. \E f \in routes'[x] : f.destination.net = d /\ f.metric < m
  <2>1. CASE x # r
    BY <1>1, <2>1 DEF DVInv, TypeOK
  <2>2. ASSUME x = r, e \notin S
        PROVE  route.destination = e.destination /\ route.metric <= e.metric /\ route \in S
    BY <1>1, <2>2 DEF Received
  <2>3. CASE x = r
    <3>1. routes'[x] = S
      BY <2>3 DEF DVInv, TypeOK
    <3>2. CASE e \in S
      BY <1>1, <3>1, <3>2
    <3>3. CASE e \notin S
      <4>1. route.metric \in Nat /\ e.metric \in Nat
        BY <1>1, MetricAssumption DEF DVInv, TypeOK, RouteEntry, Metric
      <4>2. route.metric < m
        BY <1>1, <2>2, <2>3, <3>3, <4>1
      <4> QED
        BY <1>1, <2>2, <2>3, <3>1, <3>3, <4>2
    <3> QED
      BY <3>2, <3>3
  <2> QED
    BY <2>1, <2>3
<1> QED
  BY <1>1, <1>2 DEF Closer

(* The gateway of what is taken is closer: the sender, which has as good a *)
(* route as it ever sent, or the gateway the sender named.                 *)
LEMMA ReceiveKeepsDescent ==
    ASSUME DVInv, TablesInv, Descends, NEW r \in Router, NEW q \in Router, NEW n \in Subnet,
           NEW info \in BelowWrap(sent[q]),
           process_routing_update(r, q, n, info)
    PROVE  Descends'
<1>0. info \in sent[q]
  BY DEF BelowWrap
<1>1. PICK route, S :
         /\ sent' = sent
         /\ routes' = [routes EXCEPT ![r] = S]
         /\ Received(routes[r], S, route)
         /\ Learned(route)
         /\ route.destination.net = info.destination.net
         /\ route.metric = info.metric + 1
         /\ \/ route.next_hop = address(q, n)
            \/ info.next_hop # Unspecified /\ route.next_hop = info.next_hop
  BY ReceiveOutcome
<1>2. ASSUME NEW x, NEW d, NEW m \in Nat, Closer(x, d, m)
      PROVE  Closer(x, d, m)'
  BY <1>1, <1>2, ReceivedIsCloser DEF Learned
<1>3. info \in RouteInfo /\ info.metric \in Nat
  BY <1>0, MetricAssumption DEF DVInv, TypeOK, RouteInfo, Metric
<1>4. Closer(route.next_hop.host, route.destination.net, route.metric)
  <2>1. CASE route.next_hop = address(q, n)
    BY <1>0, <1>1, <2>1 DEF Descends, address
  <2>2. CASE info.next_hop # Unspecified /\ route.next_hop = info.next_hop
    <3>1. Closer(info.next_hop.host, info.destination.net, info.metric)
      BY <1>0, <2>2 DEF Descends, LeadsDown
    <3>2. PICK e \in routes[info.next_hop.host] :
             e.destination.net = info.destination.net /\ e.metric < info.metric
      BY <3>1 DEF Closer
    <3>3. info.next_hop.host \in Router
      BY <3>1 DEF Closer
    <3>4. e.metric \in Nat
      BY <3>3, MetricAssumption DEF DVInv, TypeOK, RouteEntry, Metric
    <3>5. e.metric < info.metric + 1
      BY <1>3, <3>2, <3>4
    <3> QED
      BY <1>1, <2>2, <3>2, <3>3, <3>5 DEF Closer
  <2> QED
    BY <1>1, <2>1, <2>2
<1>5. ASSUME NEW x \in Router
      PROVE  /\ LeadsDown(routes[x])'
             /\ LeadsDown(sent[x])'
             /\ \A i \in sent'[x] : Closer(x, i.destination.net, i.metric + 1)'
  <2>1. ASSUME NEW e \in routes'[x], e.next_hop # Unspecified
        PROVE  Closer(e.next_hop.host, e.destination.net, e.metric)'
    <3>1. CASE e = route
      BY <1>1, <1>2, <1>4, <3>1, MetricAssumption DEF Learned, RouteEntry, Metric
    <3>2. CASE e \in routes[x]
      <4>1. e.metric \in Nat
        BY <3>2, MetricAssumption DEF DVInv, TypeOK, RouteEntry, Metric
      <4>2. Closer(e.next_hop.host, e.destination.net, e.metric)
        BY <2>1, <3>2 DEF Descends, LeadsDown
      <4> QED
        BY <1>2, <4>1, <4>2
    <3>3. e = route \/ e \in routes[x]
      BY <1>1 DEF DVInv, TypeOK, Received
    <3> QED
      BY <3>1, <3>2, <3>3
  <2>2. ASSUME NEW i \in sent[x]
        PROVE  /\ i.next_hop # Unspecified =>
                     Closer(i.next_hop.host, i.destination.net, i.metric)'
               /\ Closer(x, i.destination.net, i.metric + 1)'
    <3>1. i.metric \in Nat /\ i.metric + 1 \in Nat
      BY MetricAssumption DEF DVInv, TypeOK, RouteInfo, Metric
    <3>2. i.next_hop # Unspecified => Closer(i.next_hop.host, i.destination.net, i.metric)
      BY DEF Descends, LeadsDown
    <3>3. Closer(x, i.destination.net, i.metric + 1)
      BY DEF Descends
    <3> QED
      BY <1>2, <3>1, <3>2, <3>3
  <2> QED
    BY <1>1, <2>1, <2>2 DEF LeadsDown
<1> QED
  BY <1>5 DEF Descends

LEMMA ExchangeDescends ==
    DVInv /\ TablesInv => (Exchange /\ Descends => Descends')
BY SendKeepsDescent, ReceiveKeepsDescent DEF Exchange, Receive

(* Where every gateway is closer to its destination than the router that   *)
(* uses it, no exchange of UPDATEs changes that, in any network, however   *)
(* the datagrams are delayed, repeated and interleaved: the +1 of          *)
(* process_single_route outweighs determine_next_hop's third-party gateway *)
(* and the entries that update_routing_table replaces at equal metric.     *)
THEOREM ExchangeMakesNoLoop == Spec => ExchangeKeepsDescent
<1>1. DVInv /\ TablesInv /\ [Next]_vars => [Exchange /\ Descends => Descends']_vars
  BY ExchangeDescends
<1> QED
  BY <1>1, TablesInvariant, PTL DEF Spec, ExchangeKeepsDescent

(* Two learned entries of a running router for one subnet are the same,    *)
(* and where there is one, every entry for the subnet is learned.          *)
LEMMA OneLearnedEntry ==
    ASSUME DVInv, TablesInv, NEW r \in Router, up[r],
           NEW e \in routes[r], e.source = "Protocol",
           NEW f \in routes[r], f.destination.net = e.destination.net
    PROVE  f = e
<1>1. TableShape(routes[r], interfaces(r), interfaces(r))
  BY DEF TablesInv
<1>2. LearnedEntry(e, interfaces(r))
  BY <1>1, EntryKinds
<1>3. f \notin direct_routes(interfaces(r))
  BY <1>2 DEF direct_routes, direct_route, LearnedEntry
<1>4. LearnedEntry(f, interfaces(r))
  BY <1>1, <1>3 DEF TableShape
<1>5. f.destination = e.destination
  BY <1>2, <1>4 DEF LearnedEntry, Learned, RouteEntry, Ipv4Network, Address
<1> QED
  BY <1>1, <1>5 DEF TableShape

(* Around a loop the metrics would fall for ever.                          *)
LEMMA DescentHasNoLoop == DVInv /\ TablesInv /\ Descends => NoForwardingLoop
<1> SUFFICES ASSUME DVInv, TablesInv, Descends,
                    NEW d \in Destination, NEW L \in SUBSET Router, L # {},
                    \A q \in L : up[q] /\ \E r \in L : Forwards(q, r, d)
             PROVE  FALSE
  BY DEF NoForwardingLoop
<1> DEFINE Uses(q, e) == e \in routes[q] /\ e.destination.net = d /\ e.source = "Protocol"
           M == {m \in Nat : \E q \in L : \E e \in routes[q] : Uses(q, e) /\ e.metric = m}
<1>1. \A q \in L : \A e \in routes[q] : e.metric \in Nat
  BY MetricAssumption DEF DVInv, TypeOK, RouteEntry, Metric
<1>2. \A q \in L : \E e \in routes[q] : Uses(q, e)
  BY DEF Forwards
<1>3. M # {}
  BY <1>1, <1>2
<1>4. PICK m \in M : \A k \in M : m <= k
  BY <1>3, LeastNatural
<1>5. PICK q \in L : \E e \in routes[q] : Uses(q, e) /\ e.metric = m
  OBVIOUS
<1>6. PICK e \in routes[q] : Uses(q, e) /\ e.metric = m
  BY <1>5
<1>7. PICK r \in L : Forwards(q, r, d)
  OBVIOUS
<1>8. e.next_hop.host = r
  <2>1. PICK f \in routes[q] : /\ f.destination.net = d
                               /\ f.source = "Protocol"
                               /\ f.next_hop.host = r
    BY <1>7 DEF Forwards
  <2> QED
    BY <1>6, <2>1, OneLearnedEntry
<1>9. Closer(r, d, m)
  BY <1>6, <1>8 DEF TablesInv, Descends, LeadsDown
<1>10. PICK g \in routes[r] : g.destination.net = d /\ g.metric < m
  BY <1>9 DEF Closer
<1>11. Uses(r, g)
  BY <1>2, <1>10, OneLearnedEntry
<1>12. g.metric \in M
  BY <1>1, <1>11
<1>13. m <= g.metric /\ m \in Nat /\ g.metric \in Nat
  BY <1>4, <1>12
<1> HIDE DEF M, Uses
<1> QED
  BY <1>10, <1>13

(* Wherever gateways are closer to their destinations, no packet comes     *)
(* back to a router it has left.                                           *)
THEOREM CloserGatewaysMakeNoLoop == Spec => [](Descends => NoForwardingLoop)
BY TablesInvariant, DescentHasNoLoop, PTL

LEMMA InitDescends == Init => Descends
<1> SUFFICES ASSUME Init, NEW q \in Router
             PROVE  LeadsDown(routes[q]) /\ sent[q] = {}
  BY DEF Descends, LeadsDown
<1> QED
  BY DEF Init, LeadsDown, direct_routes, direct_route

(* "evitant ainsi les boucles", where it is true: until the first route    *)
(* expires, neighbour is given up or process dies there is no loop.        *)
THEOREM NoLoopWhileQuiet == QuietSpec => []NoForwardingLoop
<1>1. [Exchange]_vars => [Next]_vars
  BY DEF Next
<1>2. DVInv /\ TablesInv /\ Descends /\ [Exchange]_vars => Descends'
  <2>1. UNCHANGED vars /\ Descends => Descends'
    BY DEF vars, Descends, LeadsDown, Closer
  <2> QED
    BY <2>1, ExchangeDescends
<1>3. QuietSpec => Spec
  BY <1>1, PTL DEF QuietSpec, Spec
<1>4. QuietSpec => []Descends
  BY <1>2, <1>3, InitDescends, TablesInvariant, PTL DEF QuietSpec
<1> QED
  BY <1>3, <1>4, DescentHasNoLoop, TablesInvariant, PTL

(***************************************************************************)
(* Convergence, but for the time it takes.                                 *)
(***************************************************************************)
(* A valid route to a subnet there is no entry for, or shorter than that   *)
(* entry, enters the table.                                                *)
LEMMA ShorterIsTaken ==
    ASSUME NEW t, NEW route, NEW nets, NEW own,
           is_valid_route(route, nets),
           route.metric \in Int,
           \A e \in find_route(t.routes, route.destination) :
              e.metric \in Int /\ route.metric < e.metric
    PROVE  route \in update_routing_table(t, route, nets, own).routes
<1> DEFINE E == find_route(t.routes, route.destination)
<1>1. find_route_index(t.routes, route.destination) = E
  BY DEF find_route_index, find_route
<1>2. CASE E = {}
  <2>1. update_routing_table(t, route, nets, own) = add_route(t, route, nets, own)
    BY <1>2 DEF update_routing_table, has_better_route
  <2>2. add_route(t, route, nets, own).routes = t.routes \cup {route}
    BY <1>1, <1>2 DEF add_route, Table
  <2> QED
    BY <2>1, <2>2
<1>3. CASE E # {}
  <2>1. found(E) \in E
    BY <1>3, FoundIsAnEntry
  <2>2. /\ route.metric < found(E).metric
        /\ ~(found(E).metric < route.metric)
        /\ found(E).metric # route.metric
    BY <2>1
  <2>3. update_routing_table(t, route, nets, own) = add_route(t, route, nets, own)
    BY <1>3, <2>2 DEF update_routing_table, has_better_route
  <2>4. add_route(t, route, nets, own) = supersede(t, found(E), route, own)
    BY <1>1, <1>3, <2>2 DEF add_route
  <2>5. route \in supersede(t, found(E), route, own).routes
    BY DEF supersede, Table
  <2> QED
    BY <2>3, <2>4, <2>5
<1> QED
  BY <1>2, <1>3

(* A settled router has as short a way as any of its neighbours offers.    *)
LEMMA SettledFollows ==
    ASSUME DVInv, TablesInv, Settled,
           NEW r \in Router, NEW q \in Router, NEW n \in Subnet, Linked(q, r, n),
           NEW e \in routes[q], e.destination.net \in Destination,
           <<r, e.destination.net>> \notin Attached,
           e.metric + 1 < MetricModulus
    PROVE  \E old \in routes[r] :
              old.destination.net = e.destination.net /\ old.metric <= e.metric + 1
<1> DEFINE d == e.destination.net
           info == [destination |-> e.destination, next_hop |-> e.next_hop, metric |-> e.metric]
           ifs == interfaces(r)
           t == Table(routes[r], {})
<1>1. info \in sent[q] /\ info \in RouteInfo
  BY DEF Settled, advertisement, DVInv, TypeOK
<1>2. /\ info.destination = e.destination
      /\ info.metric = e.metric
  OBVIOUS
<1> HIDE DEF info
<1>3. PICK route : route \in process_single_route(info, address(q, n), ifs)
  <2>1. host_to_network_route(info.destination) \notin ifs
    BY OwnAddresses DEF host_to_network_route, network
  <2>2. address(r, n) \in find_best_interface_for_sender(address(q, n), ifs)
    <3>1. address(r, n) \in ifs
      BY DEF Linked, interfaces
    <3>2. address(q, n) # Unspecified
      BY RouterAssumption, AddressAssumption DEF address, Address
    <3> QED
      BY <3>1, <3>2 DEF find_best_interface_for_sender, contains, address
  <2> QED
    BY <2>1, <2>2 DEF process_single_route, is_our_network
<1>4. /\ Learned(route)
      /\ route.destination.net = d
      /\ route.metric = e.metric + 1
      /\ \E i \in ifs : contains(i, route.next_hop)
  BY <1>1, <1>2, <1>3, Processed
<1>5. route \in Offered(r)
  <2>1. route \in offers(r, q, n)
    BY <1>1, <1>2, <1>3 DEF offers, BelowWrap
  <2>2. <<q, n>> \in {l \in Attached : Linked(l[1], r, l[2])}
    BY DEF Linked
  <2> QED
    BY <2>1, <2>2 DEF Offered
<1>6. \A x \in routes[r] : x \in RouteEntry /\ x.metric \in Int
  BY MetricAssumption DEF DVInv, TypeOK, RouteEntry, Metric
<1>7. route.metric \in Int
  BY <1>4, MetricAssumption DEF Learned, RouteEntry, Metric
<1>8. ASSUME NEW old \in find_route(routes[r], route.destination), old.metric <= route.metric
      PROVE  \E x \in routes[r] : x.destination.net = d /\ x.metric <= e.metric + 1
  BY <1>4, <1>8 DEF find_route
<1>9. ASSUME \A old \in find_route(routes[r], route.destination) : route.metric < old.metric
      PROVE  \E x \in routes[r] : x.destination.net = d /\ x.metric <= e.metric + 1
  <2>1. should_accept_route(routes[r], route)
    BY <1>9 DEF should_accept_route
  <2>2. is_valid_route(route, ifs)
    <3>1. \A i \in ifs : i.net # d
      <4> SUFFICES ASSUME NEW x \in Subnet, <<r, x>> \in Attached
                   PROVE  address(r, x).net # d
        BY DEF interfaces
      <4> QED
        BY DEF address
    <3> QED
      BY <1>4, <3>1 DEF is_valid_route, network, contains
  <2>3. t.routes = routes[r]
    BY DEF Table
  <2>4. route \in update_routing_table(t, route, ifs, ifs).routes
    <3>1. \A x \in find_route(t.routes, route.destination) :
             x.metric \in Int /\ route.metric < x.metric
      BY <1>6, <1>9, <2>3 DEF find_route
    <3> HIDE DEF t
    <3> QED
      BY <1>7, <2>2, <3>1, ShorterIsTaken
  <2>5. PICK old \in routes[r] : old.destination = route.destination /\ old.metric <= route.metric
    BY <1>5, <2>1, <2>4 DEF Settled
  <2> QED
    BY <1>4, <2>5
<1>10. \A old \in find_route(routes[r], route.destination) :
          old.metric <= route.metric \/ route.metric < old.metric
  BY <1>6, <1>7 DEF find_route
<1> QED
  BY <1>8, <1>9, <1>10

LEMMA SettledConverges ==
    ASSUME DistanceIsReached, DVInv, TablesInv, Settled
    PROVE  Converged
<1> DEFINE Right(r, d) == HasShortest(r, d)
           M == {m \in Nat : \E r \in Router, d \in Destination :
                                ~Right(r, d) /\ m = Distance[r][d]}
<1>1. \A r \in Router, d \in Destination : Distance[r][d] \in Nat
  BY DistanceIsNat DEF DistanceIsReached
<1>2. SUFFICES ASSUME M # {}
               PROVE  FALSE
  BY <1>1 DEF Converged, HasShortest
<1>3. PICK m \in M : \A k \in M : m <= k
  BY <1>2, LeastNatural
<1>4. PICK r \in Router, d \in Destination : ~Right(r, d) /\ m = Distance[r][d]
  OBVIOUS
<1>5. d \in Subnet
  BY DEF DistanceIsReached
<1>6. <<r, d>> \notin Attached
  <2> SUFFICES ASSUME <<r, d>> \in Attached
               PROVE  FALSE
    OBVIOUS
  <2>1. direct_route(address(r, d)) \in routes[r]
    <3>1. address(r, d) \in interfaces(r)
      BY <1>5 DEF interfaces
    <3> QED
      BY <3>1 DEF Settled, TablesInv, TableShape, direct_routes
  <2>2. Distance[r][d] = 0
    BY <1>5, DistanceAssumption
  <2>3. Right(r, d)
    BY <2>1, <2>2 DEF direct_route, address, HasShortest
  <2> QED
    BY <1>4, <2>3
<1>7. PICK q \in Router, n \in Subnet : Linked(q, r, n) /\ Distance[r][d] = Distance[q][d] + 1
  BY <1>6 DEF DistanceIsReached
<1>8. Distance[q][d] \in Nat /\ ~(m <= Distance[q][d])
  BY <1>1, <1>4, <1>7
<1>9. Right(q, d)
  BY <1>3, <1>8
<1>10. PICK e \in routes[q] : e.destination.net = d /\ e.metric = Distance[q][d]
  BY <1>9 DEF HasShortest
<1>11. e.metric + 1 < MetricModulus /\ e.metric + 1 = Distance[r][d]
  <2>1. Distance[r][d] < MetricModulus
    BY DEF DistanceIsReached
  <2>2. Distance[r][d] = e.metric + 1
    BY <1>7, <1>10
  <2> QED
    BY <2>1, <2>2
<1>12. PICK x \in routes[r] : x.destination.net = d /\ x.metric <= Distance[r][d]
  BY <1>6, <1>7, <1>10, <1>11, SettledFollows
<1>13. x.metric >= Distance[r][d] /\ x.metric \in Int /\ Distance[r][d] \in Int
  BY <1>1, <1>12, MetricAssumption DEF DVInv, Honest, TypeOK, RouteEntry, Metric
<1> QED
  BY <1>4, <1>12, <1>13 DEF HasShortest

(* Where convergence leads: in a network where all are up and can be       *)
(* reached, the routers have nothing to improve only when all have         *)
(* shortest routes.                                                        *)
THEOREM NothingToImproveIsShortest ==
    ASSUME DistanceIsReached
    PROVE  Spec => []SettledIsShortest
<1>1. DVInv /\ TablesInv => SettledIsShortest
  BY SettledConverges DEF SettledIsShortest
<1> QED
  BY <1>1, TablesInvariant, PTL

(* A router that has a shortest route has one when a message was received. *)
LEMMA ExchangeKeepsConverged ==
    ASSUME DistanceIsReached, DVInv, TablesInv, Exchange, Converged
    PROVE  Converged'
<1>1. ASSUME NEW r \in Router, send_routing_updates(r)
      PROVE  Converged'
  BY <1>1 DEF send_routing_updates, Converged, HasShortest
<1>2. ASSUME NEW r \in Router, NEW q \in Router, NEW n \in Subnet,
             NEW info \in BelowWrap(sent[q]), process_routing_update(r, q, n, info)
      PROVE  Converged'
  <2>1. PICK route, S :
           /\ routes' = [routes EXCEPT ![r] = S]
           /\ Received(routes[r], S, route)
           /\ Learned(route)
    BY <1>2, ReceiveOutcome
  <2> SUFFICES ASSUME NEW x \in Router, NEW d \in Destination
               PROVE  \E e \in routes'[x] : e.destination.net = d /\ e.metric = Distance[x][d]
    BY DEF Converged, HasShortest
  <2>2. Distance[x][d] \in Nat
    BY DistanceIsNat DEF DistanceIsReached
  <2>3. Closer(x, d, Distance[x][d] + 1)
    BY <2>2 DEF Converged, HasShortest, Closer
  <2>4. Closer(x, d, Distance[x][d] + 1)'
    <3>1. route \in RouteEntry
      BY <2>1 DEF Learned
    <3>2. Distance[x][d] + 1 \in Nat
      BY <2>2
    <3> QED
      BY <2>1, <2>3, <3>1, <3>2, ReceivedIsCloser
  <2>5. PICK e \in routes'[x] : e.destination.net = d /\ e.metric < Distance[x][d] + 1
    BY <2>4 DEF Closer
  <2>6. e.metric >= Distance[x][d] /\ e.metric \in Int
    <3>1. DVInv'
      BY NextKeepsDVInv DEF Next
    <3> QED
      BY <2>5, <3>1, MetricAssumption DEF DVInv, Honest, TypeOK, RouteEntry, Metric
  <2>7. e.metric = Distance[x][d]
    BY <2>2, <2>5, <2>6
  <2> QED
    BY <2>5, <2>7
<1> QED
  BY <1>1, <1>2 DEF Exchange, Receive

(* The other half of the safety of Convergence: only disturbances end it.  *)
THEOREM ExchangeKeepsConvergence ==
    ASSUME DistanceIsReached
    PROVE  Spec => ExchangeKeepsShortest
<1>1. DVInv /\ TablesInv /\ [Next]_vars => [Exchange /\ Converged => Converged']_vars
  BY ExchangeKeepsConverged
<1> QED
  BY <1>1, TablesInvariant, PTL DEF Spec, ExchangeKeepsShortest
=============================================================================
