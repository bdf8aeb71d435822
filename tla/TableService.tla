---------------------------- MODULE TableService ----------------------------
(***************************************************************************)
(* What a router promises about its routing table, whichever tasks work on *)
(* it and however long an UPDATE takes from its arrival to its last route: *)
(* a route is weighed against the table and put into it at one moment, and *)
(* nothing but learned routes is ever forgotten.                           *)
(***************************************************************************)
EXTENDS Integers

CONSTANTS
    Interfaces,     \* prefixes of the interfaces the protocol runs on
    LocalNetworks,  \* prefixes of all that are up
    Unspecified     \* the next hop of a Direct route

VARIABLES
    routes,  \* the entries of the table
    offered  \* the routes that neighbours offer; they do so as they like

Direct ==
    {[destination |-> i, next_hop |-> Unspecified, metric |-> 0, source |-> "Direct"] :
        i \in Interfaces}

Init == routes = Direct

OnLocalNetwork(address) == \E n \in LocalNetworks : n.net = address.net

(* Shorter, or another way of the same length. *)
Preferred(route, existing) ==
    \/ route.metric < existing.metric
    \/ route.metric = existing.metric /\ route.next_hop # existing.next_hop

(* The route takes the place of all that the table has for its subnet. *)
Learn(route) ==
    LET replaced == {e \in routes : e.destination.net = route.destination.net} IN
    /\ ~OnLocalNetwork(route.destination)
    /\ route.next_hop # Unspecified
    /\ OnLocalNetwork(route.next_hop)
    /\ \A existing \in replaced : Preferred(route, existing)
    /\ routes' = (routes \ replaced) \cup {route}

Forget ==
    /\ routes' \subseteq routes
    /\ \A e \in routes \ routes' : e.source = "Protocol"

Step ==
    \/ \E route \in offered : Learn(route)
    \/ Forget

(* The process dies; a new one has its Direct routes again. *)
Die == routes' = {}

Restart ==
    /\ routes = {}
    /\ routes' = Direct

(* Of a process as long as it lives, and of a router for ever. *)
LifeSpec == Init /\ [][Step]_routes

Next ==
    \/ Step
    \/ Die
    \/ Restart

Spec == Init /\ [][Next]_routes
=============================================================================
