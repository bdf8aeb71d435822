--------------------------- MODULE RoutingTableVec ---------------------------
(***************************************************************************)
(* The routing table as the code keeps it: a Vec, whose operations work on *)
(* positions.  RoutingTable has the same operations on a set of entries;   *)
(* the system's routes depend on the entries alone and are left to it.     *)
(***************************************************************************)
EXTENDS RoutingTable, Sequences

Entries(vec) == {vec[i] : i \in DOMAIN vec}

(* Vec::remove: what is behind moves up. *)
remove(vec, index) ==
    [i \in 1 .. Len(vec) - 1 |-> IF i < index THEN vec[i] ELSE vec[i + 1]]

(* The index of the first entry for a destination, if there is one. *)
position(vec, destination) ==
    {i \in DOMAIN vec : /\ vec[i].destination = destination
                        /\ \A j \in 1 .. i - 1 : vec[j].destination # destination}

vec_add_route(vec, route, local_networks) ==
    LET at == position(vec, route.destination)
        old == vec[found(at)]
    IN  IF ~is_valid_route(route, local_networks) THEN vec
        ELSE IF at = {} THEN Append(vec, route)
        ELSE IF \/ route.metric < old.metric
                \/ route.source = old.source /\ route.next_hop # old.next_hop
        THEN [vec EXCEPT ![found(at)] = route]
        ELSE vec

(* What remove_route and replace_route do to the Vec. *)
vec_remove_route(vec, destination) ==
    LET at == position(vec, destination) IN
    IF at = {} THEN vec ELSE remove(vec, found(at))

vec_replace_route(vec, route, local_networks) ==
    vec_add_route(vec_remove_route(vec, route.destination), route, local_networks)

vec_update_routing_table(vec, route, local_networks) ==
    LET at == position(vec, route.destination)
        old == vec[found(at)]
    IN  IF at # {} /\ old.metric < route.metric THEN vec
        ELSE IF at # {} /\ old.metric = route.metric /\ old.next_hop # route.next_hop
        THEN vec_replace_route(vec, route, local_networks)
        ELSE vec_add_route(vec, route, local_networks)

via(route, next_hop) == route.next_hop = next_hop /\ route.source = "Protocol"

(* The indices are collected first, and removed from the last to the       *)
(* first: left[i] is the Vec once those from i on are done.                *)
purging(vec, next_hop) ==
    LET indices_to_remove == {i \in DOMAIN vec : via(vec[i], next_hop)}
        left[i \in 1 .. Len(vec) + 1] ==
            IF i = Len(vec) + 1 THEN vec
            ELSE IF i \in indices_to_remove THEN remove(left[i + 1], i)
            ELSE left[i + 1]
    IN  left

vec_remove_routes_via_nexthop(vec, next_hop) == purging(vec, next_hop)[1]
=============================================================================
