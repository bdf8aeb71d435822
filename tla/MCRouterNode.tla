---------------------------- MODULE MCRouterNode ----------------------------
(***************************************************************************)
(* Router a on a LAN with b and c.  Behind them is a remote subnet that    *)
(* both reach, b from an interface on it, c too (cDirect) or through b     *)
(* (cThrough).                                                             *)
(***************************************************************************)
EXTENDS RouterNode, TLC

CONSTANTS a, b, c, lan, remote

At(net, host) == [net |-> net, host |-> host]

Info(destination, next_hop, metric) ==
    [destination |-> destination, next_hop |-> next_hop, metric |-> metric]

Update(id, infos) == [router_id |-> id, addr |-> At(lan, id), routes |-> infos]

mc_Interfaces == {At(lan, a)}

HelloFrom(ids) == {[router_id |-> id, addr |-> At(lan, id)] : id \in ids}

mc_NoHello == {}

mc_HelloB == HelloFrom({b})

ListenerSymmetry == Permutations(Listener)

(* A router with an interface on the remote subnet. *)
OnRemote(id) ==
    Update(id, {Info(At(remote, id), Unspecified, 0)})

(* The same, with its interface on our LAN: the whole of its table. *)
OnBoth(id) ==
    Update(id, {Info(At(remote, id), Unspecified, 0), Info(At(lan, id), Unspecified, 0)})

(* c's table when it learned the remote subnet from b: the next hop is on  *)
(* our LAN as well.                                                        *)
cThrough == Update(c, {Info(At(remote, Zero), At(lan, b), 1)})

(* b's table when it learned the remote subnet from us: the next hop is an *)
(* address of our own.                                                     *)
bThroughUs == Update(b, {Info(At(remote, Zero), At(lan, a), 1)})

(* Another router that was given our name. *)
Namesake == [router_id |-> a, addr |-> At(lan, c),
             routes |-> {Info(At(remote, c), Unspecified, 0)}]

mc_UpdatesAll == {OnBoth(b), OnRemote(c), cThrough, bThroughUs, Namesake}

mc_UpdatesDirect == {OnRemote(b), OnRemote(c)}

mc_UpdatesBC == {OnRemote(b), OnRemote(c), cThrough}
=============================================================================
