--------------------------- MODULE DistanceVector ---------------------------
(***************************************************************************)
(* The protocol between routers: each one broadcasts its table             *)
(* (send_routing_updates) and takes better routes out of what it hears     *)
(* (process_routing_update); routes expire, neighbours are declared dead,  *)
(* processes die and come back.                                            *)
(*                                                                         *)
(* Handlers are atomic here; RouterNode has their stages and the locks     *)
(* between them, and a table takes routes there, too, as TableService has  *)
(* it.  A route of an UPDATE is taken on its own: destinations do not      *)
(* influence each other.  UDP loses, delays and duplicates: the last       *)
(* UPDATE a router sent is on its way to each neighbour any number of      *)
(* times, or never, until it sends the next (UPDATE_INTERVAL is 8 s, so    *)
(* no older one is still under way).  The sequence number in an UPDATE is  *)
(* not modelled because no handler looks at it.                            *)
(***************************************************************************)
EXTENDS RoutingTable

CONSTANTS
    Router,       \* each has its name for host part on all its subnets
    Attached,     \* <<router, subnet>>: an interface
    Destination,  \* the subnets whose routes are followed
    Distance      \* router -> subnet -> hops to it when all is up

Linked(q, r, n) == q # r /\ <<q, n>> \in Attached /\ <<r, n>> \in Attached

ASSUME RouterAssumption == Router \subseteq Host /\ Zero \notin Router

ASSUME AttachedAssumption == Attached \subseteq Router \X Subnet

(* All the properties need of Distance: at most one hop more than a        *)
(* neighbour has, and none to an attached subnet.                          *)
ASSUME DistanceAssumption ==
    /\ Distance \in [Router -> [Subnet -> Nat]]
    /\ \A r \in Router, n \in Subnet : <<r, n>> \in Attached => Distance[r][n] = 0
    /\ \A q, r \in Router, n, d \in Subnet :
          Linked(q, r, n) => Distance[r][d] <= Distance[q][d] + 1

VARIABLES
    up,            \* router -> its process is running
    routes,        \* router -> the entries of its routing table
    route_states,  \* router -> the keys and advertisers of its route states
    sent           \* router -> the last UPDATE it sent

vars == <<up, routes, route_states, sent>>

address(r, n) == [net |-> n, host |-> r]

interfaces(r) == {address(r, n) : n \in {n \in Subnet : <<r, n>> \in Attached}}

State == [key : Ipv4Network, advertising_neighbor : Router]

Init ==
    /\ up = [r \in Router |-> TRUE]
    /\ routes = [r \in Router |-> direct_routes(interfaces(r))]
    /\ route_states = [r \in Router |-> {}]
    /\ sent = [r \in Router |-> {}]

MutAdvertiseEntries(entries) ==
    {e \in entries : e.destination.net \in Destination}

(* The whole table, on every interface, learned routes and all. *)
advertisement(entries) ==
    {[destination |-> e.destination, next_hop |-> e.next_hop, metric |-> e.metric] :
        e \in {e \in entries : e.destination.net \in Destination}}

send_routing_updates(r) ==
    /\ up[r]
    /\ sent' = [sent EXCEPT ![r] = advertisement(routes[r])]
    /\ UNCHANGED <<up, routes, route_states>>

(* r takes one route of q's UPDATE, heard on n. *)
process_routing_update(r, q, n, info) ==
    \E route \in process_single_route(info, address(q, n), interfaces(r)) :
        /\ up[r]
        /\ Linked(q, r, n)
        /\ info \in sent[q]
        /\ should_accept_route(routes[r], route)
        /\ routes' = [routes EXCEPT ![r] =
               update_routing_table(Table(@, {}), route, interfaces(r), interfaces(r)).routes]
        /\ route_states' = [route_states EXCEPT ![r] =
               {s \in @ : s.key # info.destination}
                   \cup {[key |-> info.destination, advertising_neighbor |-> q]}]
        /\ UNCHANGED <<up, sent>>

(* The entries remove_route finds for the states in S. *)
removed(entries, S) ==
    UNION {find_route_index(entries, network(s.key)) : s \in S}

(* ROUTE_TIMEOUT. *)
RouteExpires(r, s) ==
    /\ up[r]
    /\ routes' = [routes EXCEPT ![r] = @ \ removed(@, {s})]
    /\ route_states' = [route_states EXCEPT ![r] = @ \ {s}]
    /\ UNCHANGED <<up, sent>>

(* NEIGHBOR_TIMEOUT for q, last heard on n: q has died or its messages     *)
(* were lost.  First its states, then all learned routes via its address.  *)
NeighborDies(r, q, n) ==
    LET S == {s \in route_states[r] : s.advertising_neighbor = q} IN
    /\ up[r]
    /\ Linked(q, r, n)
    /\ routes' = [routes EXCEPT ![r] =
           {e \in @ \ removed(@, S) : ~(e.source = "Protocol" /\ e.next_hop = address(q, n))}]
    /\ route_states' = [route_states EXCEPT ![r] = @ \ S]
    /\ UNCHANGED <<up, sent>>

(* The process dies with all it knows; a new one starts with nothing. *)
Crash(r) ==
    /\ up[r]
    /\ up' = [up EXCEPT ![r] = FALSE]
    /\ routes' = [routes EXCEPT ![r] = {}]
    /\ route_states' = [route_states EXCEPT ![r] = {}]
    /\ UNCHANGED sent

Restart(r) ==
    /\ ~up[r]
    /\ up' = [up EXCEPT ![r] = TRUE]
    /\ routes' = [routes EXCEPT ![r] = direct_routes(interfaces(r))]
    /\ UNCHANGED <<route_states, sent>>

(* A bound: routes arrive until their metric would wrap, which for u32     *)
(* takes four thousand million rounds of counting up.                      *)
BelowWrap(update) == {info \in update : info.metric + 1 < MetricModulus}

Receive(r, q, n) == \E info \in BelowWrap(sent[q]) : process_routing_update(r, q, n, info)

Exchange ==
    \/ \E r \in Router : send_routing_updates(r)
    \/ \E r, q \in Router, n \in Subnet : Receive(r, q, n)

Expiry == \E r \in Router : \E s \in route_states[r] : RouteExpires(r, s)

Failure ==
    \/ \E r, q \in Router, n \in Subnet : NeighborDies(r, q, n)
    \/ \E r \in Router : Crash(r)

Next ==
    \/ Exchange
    \/ Expiry
    \/ Failure
    \/ \E r \in Router : Restart(r)

Spec == Init /\ [][Next]_vars

(* As long as nothing expires or fails. *)
QuietSpec == Init /\ [][Exchange]_vars

HasShortest(r, d) ==
    \E e \in routes[r] : e.destination.net = d /\ e.metric = Distance[r][d]

(* The best that r can be sent for d arrives. *)
ReceiveShortest(r, d) ==
    \E q \in Router, n \in Subnet : \E info \in BelowWrap(sent[q]) :
        /\ info.destination.net = d
        /\ info.metric + 1 = Distance[r][d]
        /\ process_routing_update(r, q, n, info)

(* ROUTE_TIMEOUT is two UPDATE_INTERVALs, so a router that has a shortest  *)
(* route again and again sends it now and then before it expires; what is  *)
(* sent again and again arrives now and then, in time to be taken; and     *)
(* dead processes are started again.  Nothing has to expire.               *)
Fairness ==
    /\ \A r \in Router, d \in Destination :
          /\ SF_vars(HasShortest(r, d) /\ send_routing_updates(r))
          /\ SF_vars(ReceiveShortest(r, d))
    /\ WF_vars(\E r \in Router : Restart(r))

FairSpec == Spec /\ Fairness

(***************************************************************************)
(* Properties                                                              *)
(***************************************************************************)

(* Every variable holds values of its kind. *)
TypeOK ==
    /\ up \in [Router -> BOOLEAN]
    /\ routes \in [Router -> SUBSET RouteEntry]
    /\ route_states \in [Router -> SUBSET State]
    /\ sent \in [Router -> SUBSET RouteInfo]

(* No entry claims fewer hops than its subnet is away, whatever is lost,   *)
(* repeated or late, and whatever expires or fails: a metric may be stale  *)
(* and too high, never too low.                                            *)
MetricNeverBelowDistance ==
    \A r \in Router : \A e \in routes[r] : e.metric >= Distance[r][e.destination.net]

Converged == \A r \in Router, d \in Destination : HasShortest(r, d)

(* Once nothing fails any more, every router has a shortest route to every *)
(* destination again and again, whatever wrong routes the failures before  *)
(* have left behind, and although its own routes and those of the routers  *)
(* between expire for ever, at different times.  (To keep one is more than *)
(* the code can promise: see AdvertisedRouteStays of LinkTimers.)          *)
Convergence ==
    \/ []<><<Failure>>_vars
    \/ \A r \in Router, d \in Destination : []<>HasShortest(r, d)

(* The routers that packets for d pass on their way from r.  Packets stop  *)
(* at an attached router, at one that is down or has no route, and at one  *)
(* whose gateway is itself, which its kernel refuses.                      *)
Forwards(q, r, d) ==
    \E e \in routes[q] : /\ e.destination.net = d
                         /\ e.source = "Protocol"
                         /\ e.next_hop.host = r
                         /\ q # r

(* "evitant ainsi les boucles": packets never come back to a router they   *)
(* have left.                                                              *)
NoForwardingLoop ==
    \A d \in Destination :
        ~\E L \in SUBSET Router :
            L # {} /\ \A q \in L : up[q] /\ \E r \in L : Forwards(q, r, d)

(* r is less than m hops away from d, by an entry of its table. *)
Closer(r, d, m) ==
    r \in Router /\ \E e \in routes[r] : e.destination.net = d /\ e.metric < m

(* Gateways are closer to the destination. *)
LeadsDown(S) ==
    \A e \in S : e.next_hop # Unspecified =>
        Closer(e.next_hop.host, e.destination.net, e.metric)

(* In every table, and, although the tables may have changed since, in the *)
(* UPDATEs under way; and whoever has sent a metric still has as good a    *)
(* one.                                                                    *)
Descends ==
    \A q \in Router :
        /\ LeadsDown(routes[q])
        /\ LeadsDown(sent[q])
        /\ \A info \in sent[q] : Closer(q, info.destination.net, info.metric + 1)

(* The exchange alone never makes a loop: where all gateways are closer to *)
(* the destination they stay so, however UPDATEs are delayed, repeated and *)
(* interleaved, third-party next hops included.                            *)
ExchangeKeepsDescent == [][Exchange /\ Descends => Descends']_vars

(* What r hears from q on n, and from all its neighbours. *)
offers(r, q, n) ==
    UNION {process_single_route(info, address(q, n), interfaces(r)) :
              info \in BelowWrap(sent[q])}

Offered(r) ==
    UNION {offers(r, link[1], link[2]) : link \in {l \in Attached : Linked(l[1], r, l[2])}}

Service(r) ==
    INSTANCE TableService WITH
        Interfaces    <- interfaces(r),
        LocalNetworks <- interfaces(r),
        routes        <- routes[r],
        offered       <- Offered(r)

(* The table of each router keeps the promise that a RouterNode keeps with *)
(* handlers in stages: a route is taken by right, as the table is at that  *)
(* moment, and only learned routes go.  (Service(r)!Spec for every r, in   *)
(* one formula.)                                                           *)
TablesServed ==
    /\ \A r \in Router : Service(r)!Init
    /\ [][\A r \in Router : [Service(r)!Next]_(routes[r])]_vars

(* Distance is that of the network, not just a lower bound: every          *)
(* destination can be reached, over a neighbour that is one hop closer.    *)
DistanceIsReached ==
    /\ Destination \subseteq Subnet
    /\ \A r \in Router, d \in Destination :
          /\ Distance[r][d] < MetricModulus
          /\ \/ <<r, d>> \in Attached
             \/ \E q \in Router, n \in Subnet :
                   Linked(q, r, n) /\ Distance[r][d] = Distance[q][d] + 1

(* The exchange never gives up a shortest route: late UPDATEs of a time    *)
(* when ways were longer, and ties between gateways, change no metric of a *)
(* network that has converged.  Only removal ends convergence.             *)
ExchangeKeepsShortest == [][Exchange /\ Converged => Converged']_vars

(* Everyone has sent what it has, and no route on offer that its receiver  *)
(* would accept gives it a subnet it has no route to, or a shorter way.    *)
Settled ==
    \A r \in Router :
        /\ up[r]
        /\ sent[r] = advertisement(routes[r])
        /\ \A route \in {route \in Offered(r) : should_accept_route(routes[r], route)} :
              \A e \in update_routing_table(Table(routes[r], {}), route,
                                            interfaces(r), interfaces(r)).routes :
                 \E old \in routes[r] :
                    old.destination = e.destination /\ old.metric <= e.metric

(* Routers stop improving their tables only when all of them are right: no *)
(* filter between a table and that of a neighbour (is_our_network,         *)
(* should_accept_route, is_valid_route) keeps out a route that is needed,  *)
(* whatever wrong routes are left of the failures before.                  *)
SettledIsShortest == Settled => Converged
=============================================================================
