-------------------------- MODULE MCDistanceVector --------------------------
(***************************************************************************)
(* Networks for DistanceVector.  The stub subnet is behind r1.             *)
(*                                                                         *)
(*    Line:  stub - r1 - r2 - r3                                           *)
(*    Tail:  stub - r1 - r2, and r2, r3, r4 in a ring                      *)
(***************************************************************************)
EXTENDS DistanceVector, RoutingTableVec, FiniteSets

CONSTANTS r1, r2, r3, r4, stub, s12, s23, s24, s34

mc_Line == {<<r1, stub>>, <<r1, s12>>, <<r2, s12>>, <<r2, s23>>, <<r3, s23>>}

mc_Tail == {<<r1, stub>>, <<r1, s12>>, <<r2, s12>>, <<r2, s23>>, <<r3, s23>>,
            <<r3, s34>>, <<r4, s34>>, <<r4, s24>>, <<r2, s24>>}

(* Routers within k hops of d. *)
Within[k \in 0 .. Cardinality(Router), d \in Subnet] ==
    IF k = 0 THEN {r \in Router : <<r, d>> \in Attached}
    ELSE Within[k - 1, d] \cup
         {r \in Router : \E q \in Within[k - 1, d], n \in Subnet : Linked(q, r, n)}

mc_Distance ==
    [r \in Router |-> [d \in Subnet |->
        CHOOSE k \in 0 .. Cardinality(Router) :
            /\ r \in Within[k, d]
            /\ \A j \in 0 .. (k - 1) : r \notin Within[j, d]]]

ASSUME DistanceReached == DistanceIsReached

(* Tables of up to three learned entries, in every order: two gateways on  *)
(* r2's subnet s12, which is one of the destinations.                      *)
mc_Entries(metrics) ==
    [destination : {[net |-> n, host |-> Zero] : n \in {stub, s12, s23}},
     next_hop : {address(r1, s12), address(r3, s12)},
     metric : metrics, source : {"Protocol"}]

mc_Vecs ==
    {vec \in UNION {[1 .. n -> mc_Entries(1 .. 2)] : n \in 0 .. 3} :
        \A i, j \in DOMAIN vec : vec[i].destination = vec[j].destination => i = j}

(* RoutingTableVecProofs has this for every Vec.                           *)
ASSUME VecImplementsTheSet ==
    LET nets == {address(r2, s12)}
        t(vec) == Table(Entries(vec), {})
    IN  \A vec \in mc_Vecs :
          /\ \A route \in mc_Entries(0 .. 3) :
                /\ Entries(vec_update_routing_table(vec, route, nets))
                      = update_routing_table(t(vec), route, nets, {}).routes
                /\ Entries(vec_remove_route(vec, route.destination))
                      = Entries(vec) \ find_route_index(Entries(vec), route.destination)
          /\ \A gateway \in {address(r1, s12), address(r3, s12)} :
                Entries(vec_remove_routes_via_nexthop(vec, gateway))
                   = {e \in Entries(vec) : ~via(e, gateway)}
=============================================================================
