------------------------- MODULE RoutingTableProofs -------------------------
(***************************************************************************)
(* What the operations of the routing table preserve, for any interfaces   *)
(* and any kernel contents: the lemmas RouterNodeProofs rests on.          *)
(***************************************************************************)
EXTENDS RoutingTable, WellFoundedInduction, TLAPS

(* A route learned from a neighbour, as process_single_route makes it.     *)
Learned(r) == r \in RouteEntry /\ r.source = "Protocol" /\ r.destination.host = Zero

(* A learned route that is_valid_route lets into the table: it does not    *)
(* lead to a local subnet.                                                 *)
LearnedEntry(r, nets) == Learned(r) /\ \A n \in nets : r.destination.net # n.net

(* A table whose entries are the Direct ones and learned ones, at most one *)
(* per destination.                                                        *)
TableShape(R, ifs, nets) ==
    /\ R \subseteq RouteEntry
    /\ direct_routes(ifs) \subseteq R
    /\ \A r \in R : r \in direct_routes(ifs) \/ LearnedEntry(r, nets)
    /\ \A r, s \in R : r.destination = s.destination => r = s

(* Every system route is that of a learned entry. *)
KernelShape(R, K) ==
    /\ K \subseteq KernelRoute
    /\ \A p \in K : \E r \in R : r.source = "Protocol" /\ system_pair(r) = p

Improves(R, S) ==
    \A r \in R : \A s \in S : r.destination = s.destination => s.metric <= r.metric

(* A step from t to u keeps both, and only improves entries. *)
Keeps(t, u, ifs, nets) ==
    /\ TableShape(u.routes, ifs, nets)
    /\ KernelShape(u.routes, u.kernel)
    /\ Improves(t.routes, u.routes)

LEMMA FoundIsAnEntry ==
    ASSUME NEW E, E # {}
    PROVE  found(E) \in E
BY DEF found

LEMMA PairInKernelRoute ==
    ASSUME NEW r \in RouteEntry
    PROVE  system_pair(r) \in KernelRoute
BY AddressAssumption DEF system_pair, KernelRoute, RouteEntry, network, Ipv4Network, Address

(* Deleting takes away exactly the given pair; adding adds at most it.     *)
LEMMA KernelSteps ==
    ASSUME NEW K, NEW r, NEW own
    PROVE  /\ r.source = "Protocol" => withdraw(K, r) = K \ {system_pair(r)}
           /\ install(K, r, own) \subseteq K \cup {system_pair(r)}
BY DEF withdraw, install, delete_system_route, add_system_route, kernel_delete, kernel_add

(* The outcomes of update_routing_table for a learned route: nothing, a    *)
(* new entry, the old entry gone because the new one is not valid, or the  *)
(* new one in the place of an old one whose metric is not lower.           *)
Pushed(t, route, own) == Table(t.routes \cup {route}, install(t.kernel, route, own))

LEMMA AddRouteOutcome ==
    ASSUME NEW t, NEW route, NEW nets, NEW own
    PROVE  LET u == add_route(t, route, nets, own) IN
           \/ /\ is_valid_route(route, nets) => find_route(t.routes, route.destination) # {}
              /\ u = t
           \/ /\ is_valid_route(route, nets)
              /\ find_route(t.routes, route.destination) = {}
              /\ u = Pushed(t, route, own)
           \/ /\ is_valid_route(route, nets)
              /\ \E old \in find_route(t.routes, route.destination) :
                    u = supersede(t, old, route, own)
<1> DEFINE E == find_route(t.routes, route.destination)
<1>1. find_route_index(t.routes, route.destination) = E
  BY DEF find_route_index, find_route
<1>2. CASE ~is_valid_route(route, nets)
  BY <1>2 DEF add_route
<1>3. CASE is_valid_route(route, nets) /\ E = {}
  BY <1>1, <1>3 DEF add_route, Pushed
<1>4. CASE is_valid_route(route, nets) /\ E # {}
  <2>1. found(E) \in E
    BY <1>4, FoundIsAnEntry
  <2>2. \/ add_route(t, route, nets, own) = t
        \/ add_route(t, route, nets, own) = supersede(t, found(E), route, own)
    BY <1>1, <1>4 DEF add_route
  <2> QED
    BY <1>4, <2>1, <2>2
<1> QED
  BY <1>2, <1>3, <1>4

(* What one route of an UPDATE can do to a table: an entry it takes the    *)
(* place of has the same destination and no lower metric.                  *)
Outcome(t, u, route, nets, own) ==
    \/ u = t
    \/ /\ is_valid_route(route, nets)
       /\ find_route(t.routes, route.destination) = {}
       /\ u = Pushed(t, route, own)
    \/ \E old \in find_route(t.routes, route.destination) :
          /\ route.metric <= old.metric
          /\ \/ ~is_valid_route(route, nets) /\ u = drop(t, old)
             \/ is_valid_route(route, nets) /\ u = supersede(t, old, route, own)

LEMMA UpdateOutcome ==
    ASSUME NEW t, NEW ifs, NEW nets, NEW own, NEW route \in RouteEntry,
           TableShape(t.routes, ifs, nets)
    PROVE  Outcome(t, update_routing_table(t, route, nets, own), route, nets, own)
<1> DEFINE E == find_route(t.routes, route.destination)
           u == update_routing_table(t, route, nets, own)
<1>1. CASE has_better_route(t.routes, route)
  BY <1>1 DEF update_routing_table, Outcome
<1>2. CASE ~has_better_route(t.routes, route) /\ E = {}
  <2>1. u = add_route(t, route, nets, own)
    BY <1>2 DEF update_routing_table
  <2> QED
    BY <1>2, <2>1, AddRouteOutcome DEF Outcome
<1>3. CASE ~has_better_route(t.routes, route) /\ E # {}
  <2>1. /\ found(E) \in E
        /\ \A old \in E : old = found(E)
    BY <1>3, FoundIsAnEntry DEF find_route, TableShape
  <2>2. route.metric <= found(E).metric
    <3>1. found(E) \in RouteEntry
      BY <2>1 DEF find_route, TableShape
    <3>2. route.metric \in Int /\ found(E).metric \in Int
      BY <3>1, MetricAssumption DEF RouteEntry, Metric
    <3>3. ~(found(E).metric < route.metric)
      BY <1>3 DEF has_better_route
    <3> QED
      BY <3>2, <3>3
  <2>3. CASE u = add_route(t, route, nets, own)
    BY <1>3, <2>1, <2>2, <2>3, AddRouteOutcome DEF Outcome
  <2>4. CASE u = replace_route(t, route, nets, own)
    <3> DEFINE d == drop(t, found(E))
    <3>1. u = add_route(d, route, nets, own)
      BY <1>3, <2>4 DEF replace_route, find_route_index, find_route
    <3>2. find_route(d.routes, route.destination) = {}
      BY <2>1 DEF drop, Table, find_route
    <3>3. Pushed(d, route, own) = supersede(t, found(E), route, own)
      BY DEF Pushed, supersede, drop, Table
    <3>4. \/ ~is_valid_route(route, nets) /\ u = d
          \/ is_valid_route(route, nets) /\ u = Pushed(d, route, own)
      BY <3>1, <3>2, AddRouteOutcome
    <3> QED
      BY <2>1, <2>2, <3>3, <3>4 DEF Outcome
  <2>5. u = add_route(t, route, nets, own) \/ u = replace_route(t, route, nets, own)
    BY <1>3 DEF update_routing_table
  <2> QED
    BY <2>3, <2>4, <2>5
<1> QED
  BY <1>1, <1>2, <1>3

(* Pushing, dropping and superseding keep the table's shape, and keep the  *)
(* system's routes within the table.                                       *)
LEMMA PushedKeepsShape ==
    ASSUME NEW t, NEW ifs, NEW nets, NEW own, NEW route,
           TableShape(t.routes, ifs, nets), KernelShape(t.routes, t.kernel),
           LearnedEntry(route, nets),
           find_route(t.routes, route.destination) = {}
    PROVE  Keeps(t, Pushed(t, route, own), ifs, nets)
<1> DEFINE u == Pushed(t, route, own)
<1>1. u.routes = t.routes \cup {route} /\ u.kernel = install(t.kernel, route, own)
  BY DEF Pushed, Table
<1>2. TableShape(u.routes, ifs, nets)
  BY <1>1 DEF TableShape, find_route, LearnedEntry, Learned
<1>3. u.kernel \subseteq t.kernel \cup {system_pair(route)}
  BY <1>1, KernelSteps
<1>4. KernelShape(u.routes, u.kernel)
  BY <1>1, <1>3, PairInKernelRoute DEF KernelShape, LearnedEntry, Learned
<1>5. Improves(t.routes, u.routes)
  <2> SUFFICES ASSUME NEW r \in t.routes, NEW s \in u.routes, r.destination = s.destination
               PROVE  s.metric <= r.metric
    BY DEF Improves
  <2>1. r = s
    BY <1>1 DEF TableShape, find_route
  <2>2. r.metric \in Int
    BY MetricAssumption DEF TableShape, RouteEntry, Metric
  <2> QED
    BY <2>1, <2>2
<1> QED
  BY <1>2, <1>4, <1>5 DEF Keeps

(* Direct entries have host bits, learned destinations have none.          *)
LEMMA LearnedIsNotDirect ==
    ASSUME NEW ifs, NEW r, Learned(r), \A i \in ifs : i.host # Zero
    PROVE  r \notin direct_routes(ifs)
BY DEF Learned, direct_routes, direct_route

LEMMA DropKeepsShape ==
    ASSUME NEW t, NEW ifs, NEW nets, NEW old \in t.routes,
           TableShape(t.routes, ifs, nets), KernelShape(t.routes, t.kernel),
           \A i \in ifs : i.host # Zero,
           old.destination.host = Zero
    PROVE  Keeps(t, drop(t, old), ifs, nets)
<1> DEFINE u == drop(t, old)
<1>1. u.routes = t.routes \ {old} /\ u.kernel = withdraw(t.kernel, old)
  BY DEF drop, Table
<1>2. old \notin direct_routes(ifs) /\ Learned(old)
  BY DEF TableShape, direct_routes, direct_route, LearnedEntry
<1>3. TableShape(u.routes, ifs, nets)
  BY <1>1, <1>2 DEF TableShape
<1>4. u.kernel = t.kernel \ {system_pair(old)}
  BY <1>1, <1>2, KernelSteps DEF Learned
<1>5. KernelShape(u.routes, u.kernel)
  BY <1>1, <1>4 DEF KernelShape
<1>6. Improves(t.routes, u.routes)
  <2> SUFFICES ASSUME NEW r \in t.routes, NEW s \in u.routes, r.destination = s.destination
               PROVE  s.metric <= r.metric
    BY DEF Improves
  <2>1. r = s
    BY <1>1 DEF TableShape
  <2>2. r.metric \in Int
    BY MetricAssumption DEF TableShape, RouteEntry, Metric
  <2> QED
    BY <2>1, <2>2
<1> QED
  BY <1>3, <1>5, <1>6 DEF Keeps

LEMMA SupersedeKeepsShape ==
    ASSUME NEW t, NEW ifs, NEW nets, NEW own, NEW route,
           NEW old \in find_route(t.routes, route.destination),
           TableShape(t.routes, ifs, nets), KernelShape(t.routes, t.kernel),
           \A i \in ifs : i.host # Zero,
           LearnedEntry(route, nets),
           route.metric <= old.metric
    PROVE  Keeps(t, supersede(t, old, route, own), ifs, nets)
<1> DEFINE u == supersede(t, old, route, own)
           d == drop(t, old)
<1>1. u = Pushed(d, route, own)
  BY DEF supersede, drop, Pushed, Table
<1>2. /\ old \in t.routes
      /\ old.destination = route.destination
      /\ old.destination.host = Zero
  BY DEF find_route, LearnedEntry, Learned
<1>3. /\ TableShape(d.routes, ifs, nets)
      /\ KernelShape(d.routes, d.kernel)
  BY <1>2, DropKeepsShape DEF Keeps
<1>4. /\ d.routes = t.routes \ {old}
      /\ u.routes = d.routes \cup {route}
  BY DEF drop, supersede, Table
<1>5. find_route(d.routes, route.destination) = {}
  BY <1>2, <1>4 DEF find_route, TableShape
<1>6. /\ TableShape(u.routes, ifs, nets)
      /\ KernelShape(u.routes, u.kernel)
  BY <1>1, <1>3, <1>5, PushedKeepsShape DEF Keeps
<1>7. Improves(t.routes, u.routes)
  <2> SUFFICES ASSUME NEW r \in t.routes, NEW s \in u.routes, r.destination = s.destination
               PROVE  s.metric <= r.metric
    BY DEF Improves
  <2>1. CASE s = route
    BY <1>2, <2>1 DEF TableShape
  <2>2. CASE s \in t.routes
    <3>1. r = s
      BY <2>2 DEF TableShape
    <3>2. r.metric \in Int
      BY MetricAssumption DEF TableShape, RouteEntry, Metric
    <3> QED
      BY <3>1, <3>2
  <2> QED
    BY <1>4, <2>1, <2>2
<1> QED
  BY <1>6, <1>7 DEF Keeps

(* The whole of it: whatever route a listener applies, at whatever moment, *)
(* Direct entries stay, destinations stay unique, the system's routes stay *)
(* within the table, and no entry gets a higher metric.                    *)
LEMMA UpdateKeepsShape ==
    ASSUME NEW t, NEW ifs, NEW nets, NEW own, NEW route,
           TableShape(t.routes, ifs, nets), KernelShape(t.routes, t.kernel),
           \A i \in ifs : i.host # Zero,
           Learned(route)
    PROVE  Keeps(t, update_routing_table(t, route, nets, own), ifs, nets)
<1> SUFFICES ASSUME NEW u, Outcome(t, u, route, nets, own)
             PROVE  Keeps(t, u, ifs, nets)
  BY UpdateOutcome DEF Learned
<1>0. is_valid_route(route, nets) => LearnedEntry(route, nets)
  BY DEF is_valid_route, LearnedEntry, Learned, network
<1>1. CASE u = t
  BY <1>1, MetricAssumption DEF Keeps, Improves, TableShape, RouteEntry, Metric
<1>2. CASE /\ is_valid_route(route, nets)
           /\ find_route(t.routes, route.destination) = {}
           /\ u = Pushed(t, route, own)
  BY <1>0, <1>2, PushedKeepsShape
<1>3. CASE \E old \in find_route(t.routes, route.destination) :
              /\ route.metric <= old.metric
              /\ \/ u = drop(t, old)
                 \/ is_valid_route(route, nets) /\ u = supersede(t, old, route, own)
  <2>1. PICK old \in find_route(t.routes, route.destination) :
              /\ route.metric <= old.metric
              /\ \/ u = drop(t, old)
                 \/ is_valid_route(route, nets) /\ u = supersede(t, old, route, own)
    BY <1>3
  <2>2. CASE u = drop(t, old)
    <3>1. old \in t.routes /\ old.destination.host = Zero
      BY DEF find_route, Learned
    <3> QED
      BY <2>2, <3>1, DropKeepsShape
  <2>3. CASE is_valid_route(route, nets) /\ u = supersede(t, old, route, own)
    BY <1>0, <2>1, <2>3, SupersedeKeepsShape
  <2> QED
    BY <2>1, <2>2, <2>3
<1> QED
  BY <1>1, <1>2, <1>3 DEF Outcome

(***************************************************************************)
(* Table and system in step: whatever learned entry u has that the system  *)
(* should have and has not was already so in t.                            *)
(***************************************************************************)
Unapplied(t, r, own) ==
    /\ r \in t.routes
    /\ r.source = "Protocol"
    /\ r.next_hop \notin own
    /\ system_pair(r) \notin t.kernel

InStep(t, u, own) == \A r : Unapplied(u, r, own) => Unapplied(t, r, own)

(* Two learned entries of a table are for different subnets. *)
LEMMA LearnedPairs ==
    ASSUME NEW r, NEW s, Learned(r), Learned(s), r.destination # s.destination
    PROVE  network(r.destination) # network(s.destination)
BY DEF Learned, network, RouteEntry, Ipv4Network, Address

(* The request for a new entry succeeds, unless its gateway is our own:    *)
(* the system has no route to that subnet.                                 *)
LEMMA PushedInStep ==
    ASSUME NEW t, NEW ifs, NEW nets, NEW own, NEW route,
           TableShape(t.routes, ifs, nets), KernelShape(t.routes, t.kernel),
           Learned(route),
           find_route(t.routes, route.destination) = {}
    PROVE  InStep(t, Pushed(t, route, own), own)
<1> DEFINE u == Pushed(t, route, own)
           K == t.kernel \ {system_pair(route)}
<1>1. u.routes = t.routes \cup {route} /\ u.kernel = install(t.kernel, route, own)
  BY DEF Pushed, Table
<1>2. ASSUME NEW p \in t.kernel
      PROVE  p[1] # network(route.destination)
  <2>1. PICK r \in t.routes : r.source = "Protocol" /\ system_pair(r) = p
    BY DEF KernelShape
  <2>2. Learned(r)
    BY <2>1 DEF TableShape, LearnedEntry, direct_routes, direct_route
  <2>3. r.destination # route.destination
    BY DEF find_route
  <2>4. p[1] = network(r.destination)
    BY <2>1 DEF system_pair
  <2> QED
    BY <2>2, <2>3, <2>4, LearnedPairs
<1>3. K = t.kernel
  BY <1>2 DEF system_pair
<1>4. u.kernel = kernel_add(t.kernel, system_pair(route), own)
  BY <1>1, <1>3 DEF install, add_system_route, kernel_delete, Learned
<1>5. t.kernel \subseteq u.kernel
  BY <1>4 DEF kernel_add
<1>6. route.next_hop \notin own => system_pair(route) \in u.kernel
  <2>1. system_pair(route)[1] = network(route.destination) /\ system_pair(route)[2] = route.next_hop
    BY DEF system_pair
  <2> QED
    BY <1>2, <1>4, <2>1 DEF kernel_add
<1> QED
  BY <1>1, <1>5, <1>6 DEF InStep, Unapplied

LEMMA DropInStep ==
    ASSUME NEW t, NEW ifs, NEW nets, NEW own, NEW old \in t.routes,
           TableShape(t.routes, ifs, nets),
           Learned(old)
    PROVE  InStep(t, drop(t, old), own)
<1>1. /\ drop(t, old).routes = t.routes \ {old}
      /\ drop(t, old).kernel = t.kernel \ {system_pair(old)}
  BY KernelSteps DEF drop, Table, Learned
<1>2. ASSUME NEW r \in t.routes \ {old}, r.source = "Protocol"
      PROVE  system_pair(r) # system_pair(old)
  <2>1. Learned(r) /\ r.destination # old.destination
    BY <1>2 DEF TableShape, LearnedEntry, direct_routes, direct_route
  <2>2. network(r.destination) # network(old.destination)
    BY <2>1, LearnedPairs
  <2> QED
    BY <2>2 DEF system_pair
<1> QED
  BY <1>1, <1>2 DEF InStep, Unapplied

LEMMA SupersedeInStep ==
    ASSUME NEW t, NEW ifs, NEW nets, NEW own, NEW route,
           NEW old \in find_route(t.routes, route.destination),
           TableShape(t.routes, ifs, nets), KernelShape(t.routes, t.kernel),
           \A i \in ifs : i.host # Zero,
           Learned(route)
    PROVE  InStep(t, supersede(t, old, route, own), own)
<1> DEFINE d == drop(t, old)
<1>1. supersede(t, old, route, own) = Pushed(d, route, own)
  BY DEF supersede, drop, Pushed, Table
<1>2. /\ old \in t.routes
      /\ old.destination = route.destination
      /\ old.destination.host = Zero
  BY DEF find_route, Learned
<1>3. /\ TableShape(d.routes, ifs, nets)
      /\ KernelShape(d.routes, d.kernel)
  BY <1>2, DropKeepsShape DEF Keeps
<1>4. find_route(d.routes, route.destination) = {}
  BY <1>2 DEF drop, Table, find_route, TableShape
<1>5. Learned(old)
  BY <1>2 DEF TableShape, LearnedEntry, direct_routes, direct_route
<1>6. InStep(t, d, own)
  BY <1>2, <1>5, DropInStep
<1>7. InStep(d, Pushed(d, route, own), own)
  BY <1>3, <1>4, PushedInStep
<1> QED
  BY <1>1, <1>6, <1>7 DEF InStep

(* Applying a route of an UPDATE never leaves an entry without its system  *)
(* route that had one.                                                     *)
LEMMA UpdateInStep ==
    ASSUME NEW t, NEW ifs, NEW nets, NEW own, NEW route,
           TableShape(t.routes, ifs, nets), KernelShape(t.routes, t.kernel),
           \A i \in ifs : i.host # Zero,
           Learned(route)
    PROVE  InStep(t, update_routing_table(t, route, nets, own), own)
<1> SUFFICES ASSUME NEW u, Outcome(t, u, route, nets, own)
             PROVE  InStep(t, u, own)
  BY UpdateOutcome DEF Learned
<1>1. CASE u = t
  BY <1>1 DEF InStep
<1>2. CASE find_route(t.routes, route.destination) = {} /\ u = Pushed(t, route, own)
  BY <1>2, PushedInStep
<1>3. ASSUME NEW old \in find_route(t.routes, route.destination), u = drop(t, old)
      PROVE  InStep(t, u, own)
  <2>1. old \in t.routes /\ Learned(old)
    BY DEF find_route, Learned, TableShape, LearnedEntry, direct_routes, direct_route
  <2> QED
    BY <1>3, <2>1, DropInStep
<1>4. ASSUME NEW old \in find_route(t.routes, route.destination),
             u = supersede(t, old, route, own)
      PROVE  InStep(t, u, own)
  BY <1>4, SupersedeInStep
<1> QED
  BY <1>1, <1>2, <1>3, <1>4 DEF Outcome

(***************************************************************************)
(* The moment a route is weighed.                                          *)
(***************************************************************************)

(* should_accept_route's answer may be old when the route is applied.  It  *)
(* does not matter: what it would refuse now changes nothing.              *)
LEMMA RefusedChangesNothing ==
    ASSUME NEW t, NEW ifs, NEW nets, NEW own, NEW route, Learned(route),
           TableShape(t.routes, ifs, nets),
           \A i \in ifs : i.host # Zero,
           ~should_accept_route(t.routes, route)
    PROVE  update_routing_table(t, route, nets, own) = t
<1> DEFINE E == find_route(t.routes, route.destination)
<1>1. PICK old \in E : /\ ~(route.metric < old.metric)
                       /\ ~(route.metric = old.metric /\ route.next_hop # old.next_hop)
  BY DEF should_accept_route
<1>2. old \in t.routes /\ old.destination = route.destination
  BY DEF find_route
<1>3. old.source = "Protocol" /\ old.metric \in Int /\ route.metric \in Int
  BY <1>2, LearnedIsNotDirect, MetricAssumption
  DEF TableShape, LearnedEntry, Learned, direct_routes, direct_route, RouteEntry, Metric
<1>4. E # {} /\ found(E) = old /\ find_route_index(t.routes, route.destination) = E
  <2>1. \A e \in E : e = old
    BY <1>2 DEF TableShape, find_route
  <2> QED
    BY <2>1, FoundIsAnEntry DEF find_route, find_route_index
<1>5. CASE old.metric < route.metric
  BY <1>4, <1>5 DEF update_routing_table, has_better_route
<1>6. CASE old.metric = route.metric
  <2>1. route.next_hop = old.next_hop /\ route.source = old.source
    BY <1>1, <1>3, <1>6 DEF Learned
  <2>2. add_route(t, route, nets, own) = t
    BY <1>1, <1>4, <2>1 DEF add_route
  <2>3. \/ update_routing_table(t, route, nets, own) = t
        \/ update_routing_table(t, route, nets, own) = add_route(t, route, nets, own)
    BY <1>4, <2>1 DEF update_routing_table
  <2> QED
    BY <2>2, <2>3
<1> QED
  BY <1>1, <1>3, <1>5, <1>6

(* From R to S the route has taken the place of all R has for its subnet,  *)
(* by right.                                                               *)
Taken(R, S, route, nets) ==
    LET replaced == {e \in R : e.destination.net = route.destination.net} IN
    /\ LearnedEntry(route, nets)
    /\ \A e \in replaced :
          \/ route.metric < e.metric
          \/ route.metric = e.metric /\ route.next_hop # e.next_hop
    /\ S = (R \ replaced) \cup {route}

(* Whatever a listener applies, whenever it accepted it: nothing happens,  *)
(* or it is taken.                                                         *)
LEMMA UpdateTakes ==
    ASSUME NEW t, NEW ifs, NEW nets, NEW own, NEW route, Learned(route),
           TableShape(t.routes, ifs, nets),
           \A i \in ifs : i.host # Zero,
           ifs \subseteq nets,
           \E n \in nets : contains(n, route.next_hop)
    PROVE  LET u == update_routing_table(t, route, nets, own) IN
           u.routes = t.routes \/ Taken(t.routes, u.routes, route, nets)
<1> DEFINE u == update_routing_table(t, route, nets, own)
           E == find_route(t.routes, route.destination)
           replaced == {e \in t.routes : e.destination.net = route.destination.net}
<1> SUFFICES u.routes = t.routes \/ Taken(t.routes, u.routes, route, nets)
  OBVIOUS
<1>1. CASE ~should_accept_route(t.routes, route)
  BY <1>1, RefusedChangesNothing
<1>2. CASE should_accept_route(t.routes, route)
  <2>1. Outcome(t, u, route, nets, own)
    BY UpdateOutcome DEF Learned
  <2>2. ASSUME is_valid_route(route, nets)
        PROVE  LearnedEntry(route, nets) /\ replaced = E
    <3>1. LearnedEntry(route, nets)
      BY <2>2 DEF is_valid_route, Learned, LearnedEntry, network
    <3>2. ASSUME NEW e \in replaced
          PROVE  e.destination = route.destination
      <4>1. e \notin direct_routes(ifs)
        BY <3>1 DEF LearnedEntry, direct_routes, direct_route
      <4>2. e.destination.host = Zero /\ e.destination \in Address
        BY <4>1 DEF TableShape, LearnedEntry, Learned, RouteEntry, Ipv4Network
      <4>3. route.destination.host = Zero /\ route.destination \in Address
        BY DEF Learned, RouteEntry, Ipv4Network
      <4> QED
        BY <4>2, <4>3 DEF Address
    <3> QED
      BY <3>1, <3>2 DEF find_route
  <2>3. \A e \in E : \/ route.metric < e.metric
                     \/ route.metric = e.metric /\ route.next_hop # e.next_hop
    BY <1>2 DEF should_accept_route
  <2>4. ASSUME NEW old \in E
        PROVE  E = {old} /\ is_valid_route(route, nets)
    <3>1. old \in t.routes /\ old.destination = route.destination
      BY DEF find_route
    <3>2. E = {old}
      BY <3>1 DEF TableShape, find_route
    <3>3. LearnedEntry(old, nets)
      BY <3>1, LearnedIsNotDirect DEF TableShape, Learned, direct_routes, direct_route
    <3> QED
      BY <3>1, <3>2, <3>3 DEF LearnedEntry, is_valid_route, network, contains
  <2>5. CASE u = t
    BY <2>5
  <2>6. CASE is_valid_route(route, nets) /\ E = {} /\ u = Pushed(t, route, own)
    <3>1. u.routes = t.routes \cup {route}
      BY <2>6 DEF Pushed, Table
    <3>2. u.routes = (t.routes \ replaced) \cup {route}
      BY <2>2, <2>6, <3>1
    <3> HIDE DEF u
    <3> QED
      BY <2>2, <2>6, <3>2 DEF Taken
  <2>7. ASSUME NEW old \in E, u = supersede(t, old, route, own)
        PROVE  Taken(t.routes, u.routes, route, nets)
    <3>1. u.routes = (t.routes \ {old}) \cup {route}
      BY <2>7 DEF supersede, Table
    <3>2. LearnedEntry(route, nets) /\ replaced = E /\ E = {old}
      BY <2>2, <2>4
    <3>3. u.routes = (t.routes \ replaced) \cup {route}
      BY <3>1, <3>2
    <3>4. \A e \in replaced : \/ route.metric < e.metric
                              \/ route.metric = e.metric /\ route.next_hop # e.next_hop
      BY <2>3, <3>2
    <3> HIDE DEF u, E
    <3> QED
      BY <3>2, <3>3, <3>4 DEF Taken
  <2> HIDE DEF u
  <2> QED
    BY <2>1, <2>4, <2>5, <2>6, <2>7 DEF Outcome
<1> QED
  BY <1>1, <1>2

(* A set of naturals has a least element.                                  *)
LEMMA LeastNatural ==
    ASSUME NEW M, M \subseteq Nat, M # {}
    PROVE  \E m \in M : \A k \in M : m <= k
<1> DEFINE LessThan == OpToRel(<, Nat)
<1>1. IsWellFoundedOn(LessThan, Nat)
  BY NatLessThanWellFounded
<1>2. \A x, y \in Nat : x < y => <<x, y>> \in LessThan
  BY DEF OpToRel
<1> HIDE DEF LessThan
<1>3. PICK m \in M : \A k \in M : <<k, m>> \notin LessThan
  BY <1>1, WFMin
<1>4. ASSUME NEW k \in M
      PROVE  m <= k
  <2>1. m \in Nat /\ k \in Nat
    OBVIOUS
  <2>2. ~(k < m)
    BY <1>2, <1>3, <2>1
  <2> QED
    BY <2>1, <2>2
<1> QED
  BY <1>4
=============================================================================
