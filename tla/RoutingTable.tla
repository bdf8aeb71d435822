---------------------------- MODULE RoutingTable ----------------------------
(***************************************************************************)
(* The routing table (src/routing_table.rs) and the operation that feeds   *)
(* it (Router::update_routing_table, src/router.rs), as operators on       *)
(*                                                                         *)
(*    [routes |-> the table's entries,  kernel |-> the system's routes].   *)
(*                                                                         *)
(* A system route is <<destination, gateway>>.  The table is a Vec in the  *)
(* code (RoutingTableVec); no operation depends on its order as long as a  *)
(* destination occurs once, which OneRoutePerSubnet of RouterNode says.    *)
(* Every caller holds the router's lock.                                   *)
(***************************************************************************)
EXTENDS RouteTypes

Table(routes, kernel) == [routes |-> routes, kernel |-> kernel]

KernelRoute == Ipv4Network \X NextHop

(* get_routes().find(...): the entries for a destination, and the one the  *)
(* code finds.                                                             *)
find_route(routes, destination) == {r \in routes : r.destination = destination}

MutFindRouteByNetwork(routes, destination) ==
    {r \in routes : network(r.destination) = network(destination)}

(* The lookup of the operations that change the table. *)
find_route_index(routes, destination) == {r \in routes : r.destination = destination}

found(entries) == CHOOSE r \in entries : TRUE

(***************************************************************************)
(* The system's routing table, reached through the net-route crate.  The   *)
(* kernel refuses a second route to a destination (EEXIST) and a gateway   *)
(* that is one of its own addresses (EINVAL); it deletes only a route with *)
(* the given gateway.  The program logs these errors and goes on.          *)
(***************************************************************************)
system_pair(route) == <<network(route.destination), route.next_hop>>

kernel_delete(kernel, pair) == kernel \ {pair}

kernel_add(kernel, pair, own) ==
    IF pair[2] \in own \/ \E k \in kernel : k[1] = pair[1]
    THEN kernel
    ELSE kernel \cup {pair}

delete_system_route(kernel, route) == kernel_delete(kernel, system_pair(route))

(* Add; if that fails, delete the same route and add again.  When the     *)
(* first add succeeds the route was absent and the delete is no step.      *)
add_system_route(kernel, route, own) ==
    kernel_add(kernel_delete(kernel, system_pair(route)), system_pair(route), own)

(* Direct routes belong to the kernel: the table leaves those alone. *)
withdraw(kernel, route) ==
    IF route.source = "Direct" THEN kernel ELSE delete_system_route(kernel, route)

install(kernel, route, own) ==
    IF route.source = "Direct" THEN kernel ELSE add_system_route(kernel, route, own)

(***************************************************************************)
(* The table's operations                                                  *)
(***************************************************************************)

MutSupersedeWithoutInstall(t, existing, route, own) ==
    Table((t.routes \ {existing}) \cup {route}, withdraw(t.kernel, existing))

MutSupersedeInstallsFirst(t, existing, route, own) ==
    Table((t.routes \ {existing}) \cup {route},
          withdraw(install(t.kernel, route, own), existing))

(* add_route, the branch that takes the place of an existing entry. *)
supersede(t, existing, route, own) ==
    Table((t.routes \ {existing}) \cup {route},
          install(withdraw(t.kernel, existing), route, own))

MutAddRouteAlwaysPushes(t, route, local_networks, own) ==
    IF ~is_valid_route(route, local_networks)
    THEN t
    ELSE Table(t.routes \cup {route}, install(t.kernel, route, own))

add_route(t, route, local_networks, own) ==
    LET existing == find_route_index(t.routes, route.destination)
        old == found(existing)
    IN  IF ~is_valid_route(route, local_networks) THEN t
        ELSE IF existing = {}
        THEN Table(t.routes \cup {route}, install(t.kernel, route, own))
        ELSE IF \/ route.metric < old.metric
                \/ route.source = old.source /\ route.next_hop # old.next_hop
        THEN supersede(t, old, route, own)
        ELSE t

MutDropKeepsSystemRoute(t, existing) == Table(t.routes \ {existing}, t.kernel)

(* Takes an entry out of the table and out of the system. *)
drop(t, existing) == Table(t.routes \ {existing}, withdraw(t.kernel, existing))

replace_route(t, route, local_networks, own) ==
    LET existing == find_route_index(t.routes, route.destination) IN
    add_route(IF existing = {} THEN t ELSE drop(t, found(existing)),
              route, local_networks, own)

MutNothingIsBetter(routes, route) == FALSE

has_better_route(routes, route) ==
    LET existing == find_route(routes, route.destination) IN
    existing # {} /\ found(existing).metric < route.metric

(* One route of update_routing_table's loop. *)
update_routing_table(t, route, local_networks, own) ==
    LET existing == find_route(t.routes, route.destination) IN
    IF has_better_route(t.routes, route) THEN t
    ELSE IF /\ existing # {}
            /\ found(existing).metric = route.metric
            /\ found(existing).next_hop # route.next_hop
    THEN replace_route(t, route, local_networks, own)
    ELSE add_route(t, route, local_networks, own)

(***************************************************************************)
(* Router::new fills the table with one Direct route per interface.        *)
(***************************************************************************)
direct_route(i) == [destination |-> i, next_hop |-> Unspecified,
                    metric |-> 0, source |-> "Direct"]

direct_routes(interfaces) == {direct_route(i) : i \in interfaces}

MutAcceptOnlyNew(routes, route) == find_route(routes, route.destination) = {}

(* should_accept_route, on the table as it is at that moment. *)
should_accept_route(routes, route) ==
    \A existing \in find_route(routes, route.destination) :
        \/ route.metric < existing.metric
        \/ route.metric = existing.metric /\ route.next_hop # existing.next_hop
=============================================================================
