----------------------------- MODULE RouteTypes -----------------------------
(***************************************************************************)
(* The values the router computes with, and the decisions that need no     *)
(* state: how an advertised route becomes a table entry                    *)
(* (src/protocol/route_manager.rs) and which entries are refused           *)
(* (src/routing_table.rs).                                                 *)
(*                                                                         *)
(* An IPv4 address is a host on a subnet.  A prefix (Ipv4Network) keeps    *)
(* its host bits, as ipnetwork does: 10.2.0.2/24 and 10.2.0.0/24 are       *)
(* different values on the same subnet, the second with the host part      *)
(* Zero.  Subnets do not overlap.                                          *)
(***************************************************************************)
EXTENDS Integers

CONSTANTS
    Subnet,        \* the subnets routes lead to
    Host,          \* host parts, one per machine, and Zero
    Zero,          \* the all-zero host part, that of a network address
    Unspecified,   \* 0.0.0.0
    MetricModulus  \* metrics are u32: 2^32 in the code

Address == [net : Subnet, host : Host]

Ipv4Network == Address

ASSUME AddressAssumption ==
    /\ Zero \in Host
    /\ Unspecified \notin Address

ASSUME MetricAssumption == MetricModulus \in Nat /\ MetricModulus > 1

Metric == 0 .. (MetricModulus - 1)

NextHop == Address \cup {Unspecified}

RouteSource == {"Direct", "Protocol", "Static"}

RouteEntry == [destination : Ipv4Network, next_hop : NextHop,
               metric : Metric, source : RouteSource]

RouteInfo == [destination : Ipv4Network, next_hop : NextHop, metric : Metric]

(* ipnetwork's network() and contains(). *)
network(p) == [net |-> p.net, host |-> Zero]

contains(p, a) == a # Unspecified /\ a.net = p.net

(***************************************************************************)
(* Route processing                                                        *)
(***************************************************************************)

host_to_network_route(p) == network(p)

(* Compares the whole prefix, host bits included: the destination is in    *)
(* network form and an interface usually is not.                           *)
is_our_network(destination, interfaces) == destination \in interfaces

(* Every interface has metric 1, so each one on the sender's subnet is a   *)
(* best one; the empty set is the code's None.                             *)
find_best_interface_for_sender(sender_ip, interfaces) ==
    {i \in interfaces : contains(i, sender_ip)}

determine_next_hop(advertised, sender_ip, interfaces) ==
    IF advertised # Unspecified /\ \E i \in interfaces : contains(i, advertised)
    THEN advertised
    ELSE sender_ip

MutMetricNotIncremented(info) == info.metric

(* A metric of fewer bits. *)
MutMetricTruncated(info) == (info.metric + 1) % (MetricModulus \div 2)

(* One hop further; u32 addition wraps in a release build. *)
next_metric(info) == (info.metric + 1) % MetricModulus

(* Option<RouteEntry> as a set of at most one entry.  The messages come    *)
(* from routers that run this program, so parsing does not fail.           *)
process_single_route(info, sender_ip, interfaces) ==
    LET destination == host_to_network_route(info.destination) IN
    IF \/ is_our_network(destination, interfaces)
       \/ find_best_interface_for_sender(sender_ip, interfaces) = {}
    THEN {}
    ELSE {[destination |-> destination,
           next_hop    |-> determine_next_hop(info.next_hop, sender_ip, interfaces),
           metric      |-> next_metric(info),
           source      |-> "Protocol"]}

MutAnyRouteIsValid(route, local_networks) == TRUE

(* A learned route needs a gateway on a local subnet, and must not lead to *)
(* a local subnet.  No address of the model is a loopback address.         *)
is_valid_route(route, local_networks) ==
    \/ route.source = "Direct"
    \/ /\ route.next_hop # Unspecified
       /\ \A n \in local_networks : network(route.destination) # network(n)
       /\ \E n \in local_networks : contains(n, route.next_hop)
=============================================================================
