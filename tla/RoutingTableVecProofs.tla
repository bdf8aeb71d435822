----------------------- MODULE RoutingTableVecProofs -----------------------
(***************************************************************************)
(* The Vec and its indices implement the set of entries: why RouterNode    *)
(* and DistanceVector may have a set.                                      *)
(***************************************************************************)
EXTENDS RoutingTableVec, RoutingTableProofs, SequenceTheorems

(* A Vec with one entry per destination. *)
Distinct(vec) ==
    /\ vec \in Seq(RouteEntry)
    /\ \A i, j \in 1 .. Len(vec) : vec[i].destination = vec[j].destination => i = j

LEMMA VecShape ==
    ASSUME NEW vec, Distinct(vec)
    PROVE  /\ Len(vec) \in Nat
           /\ DOMAIN vec = 1 .. Len(vec)
           /\ vec \in [1 .. Len(vec) -> RouteEntry]
BY DEF Distinct

LEMMA VecOf ==
    ASSUME NEW n \in Nat, NEW vec \in [1 .. n -> RouteEntry],
           \A i, j \in 1 .. n : vec[i].destination = vec[j].destination => i = j
    PROVE  Distinct(vec) /\ Len(vec) = n
<1>1. vec \in Seq(RouteEntry) /\ Len(vec) = n
  BY SeqDef, LenProperties
<1> QED
  BY <1>1 DEF Distinct

(* Vec::remove takes away that one entry, and keeps the order of the rest. *)
LEMMA RemoveOne ==
    ASSUME NEW vec, Distinct(vec), NEW index \in 1 .. Len(vec)
    PROVE  /\ Distinct(remove(vec, index))
           /\ Len(remove(vec, index)) = Len(vec) - 1
           /\ Entries(remove(vec, index)) = Entries(vec) \ {vec[index]}
<1> DEFINE n == Len(vec)
           v == remove(vec, index)
           from(i) == IF i < index THEN i ELSE i + 1
<1>1. n \in Nat /\ n - 1 \in Nat /\ index \in Int
  BY VecShape
<1>2. \A i \in 1 .. n - 1 : from(i) \in 1 .. n /\ from(i) # index
  BY <1>1
<1>3. v = [i \in 1 .. n - 1 |-> vec[from(i)]]
  BY DEF remove
<1>4. v \in [1 .. n - 1 -> RouteEntry]
  BY <1>2, <1>3, VecShape
<1>5. \A i, j \in 1 .. n - 1 : from(i) = from(j) => i = j
  BY <1>1
<1>6. \A i, j \in 1 .. n - 1 : v[i].destination = v[j].destination => i = j
  BY <1>2, <1>3, <1>5 DEF Distinct
<1>7. Distinct(v) /\ Len(v) = n - 1
  BY <1>1, <1>4, <1>6, VecOf
<1>8. ASSUME NEW k \in 1 .. n, k # index
      PROVE  \E i \in 1 .. n - 1 : from(i) = k
  <2>1. CASE k < index
    BY <1>1, <2>1
  <2>2. CASE k > index
    <3>1. k - 1 \in 1 .. n - 1 /\ from(k - 1) = k
      BY <1>1, <2>2
    <3> QED
      BY <3>1
  <2> QED
    BY <1>1, <1>8, <2>1, <2>2
<1>9. Entries(v) = Entries(vec) \ {vec[index]}
  <2>1. Entries(v) = {vec[from(i)] : i \in 1 .. n - 1}
    BY <1>3 DEF Entries
  <2>2. Entries(vec) = {vec[k] : k \in 1 .. n}
    BY VecShape DEF Entries
  <2>3. ASSUME NEW i \in 1 .. n - 1
        PROVE  vec[from(i)] \in Entries(vec) \ {vec[index]}
    BY <1>2, <2>2 DEF Distinct
  <2>4. ASSUME NEW k \in 1 .. n, vec[k] # vec[index]
        PROVE  vec[k] \in Entries(v)
    BY <1>8, <2>1, <2>4
  <2> HIDE DEF from, v
  <2> QED
    BY <2>1, <2>2, <2>3, <2>4
<1> QED
  BY <1>7, <1>9

(* The first index for a destination is that of its only entry. *)
LEMMA PositionFinds ==
    ASSUME NEW vec, Distinct(vec), NEW destination
    PROVE  \/ position(vec, destination) = {} /\ find_route(Entries(vec), destination) = {}
           \/ \E i \in 1 .. Len(vec) :
                 /\ position(vec, destination) = {i}
                 /\ find_route(Entries(vec), destination) = {vec[i]}
                 /\ vec[i].destination = destination
<1>1. DOMAIN vec = 1 .. Len(vec) /\ Len(vec) \in Nat
  BY VecShape
<1>2. CASE \A i \in 1 .. Len(vec) : vec[i].destination # destination
  BY <1>1, <1>2 DEF position, find_route, Entries
<1>3. ASSUME NEW i \in 1 .. Len(vec), vec[i].destination = destination
      PROVE  /\ position(vec, destination) = {i}
             /\ find_route(Entries(vec), destination) = {vec[i]}
  <2>1. \A j \in 1 .. Len(vec) : vec[j].destination = destination => j = i
    BY <1>3 DEF Distinct
  <2>2. \A j \in 1 .. i - 1 : j \in 1 .. Len(vec) /\ j # i
    BY <1>1
  <2>3. position(vec, destination) = {i}
    BY <1>1, <1>3, <2>1, <2>2 DEF position
  <2>4. find_route(Entries(vec), destination) = {vec[i]}
    BY <1>1, <1>3, <2>1 DEF find_route, Entries
  <2> QED
    BY <2>3, <2>4
<1> QED
  BY <1>2, <1>3

(* push and an assignment in place, on the entries. *)
LEMMA PushOne ==
    ASSUME NEW vec, Distinct(vec), NEW route \in RouteEntry,
           find_route(Entries(vec), route.destination) = {}
    PROVE  /\ Distinct(Append(vec, route))
           /\ Entries(Append(vec, route)) = Entries(vec) \cup {route}
<1> DEFINE n == Len(vec)
           v == Append(vec, route)
<1>1. n \in Nat /\ DOMAIN vec = 1 .. n /\ vec \in Seq(RouteEntry)
  BY VecShape DEF Distinct
<1>2. /\ v \in Seq(RouteEntry)
      /\ Len(v) = n + 1
      /\ \A i \in 1 .. n : v[i] = vec[i]
      /\ v[n + 1] = route
  BY <1>1, AppendProperties
<1>3. \A i \in 1 .. n : vec[i].destination # route.destination
  BY <1>1 DEF find_route, Entries
<1>4. 1 .. n + 1 = (1 .. n) \cup {n + 1} /\ DOMAIN v = 1 .. n + 1
  BY <1>1, <1>2
<1> HIDE DEF v
<1>5. Distinct(v)
  BY <1>2, <1>3, <1>4 DEF Distinct
<1>6. Entries(v) = Entries(vec) \cup {route}
  BY <1>1, <1>2, <1>4 DEF Entries
<1> QED
  BY <1>5, <1>6 DEF v

LEMMA AssignOne ==
    ASSUME NEW vec, Distinct(vec), NEW route \in RouteEntry,
           NEW i \in 1 .. Len(vec), vec[i].destination = route.destination
    PROVE  /\ Distinct([vec EXCEPT ![i] = route])
           /\ Entries([vec EXCEPT ![i] = route]) = (Entries(vec) \ {vec[i]}) \cup {route}
<1> DEFINE n == Len(vec)
           v == [vec EXCEPT ![i] = route]
<1>1. n \in Nat /\ DOMAIN vec = 1 .. n /\ vec \in [1 .. n -> RouteEntry]
  BY VecShape
<1>2. /\ v \in [1 .. n -> RouteEntry]
      /\ v[i] = route
      /\ \A j \in 1 .. n : j # i => v[j] = vec[j]
  BY <1>1
<1>3. \A j \in 1 .. n : v[j].destination = vec[j].destination
  BY <1>2
<1>4. DOMAIN v = 1 .. n
  BY <1>2
<1> HIDE DEF v
<1>5. Distinct(v)
  BY <1>1, <1>2, <1>3, VecOf DEF Distinct
<1>6. \A j \in 1 .. n : j # i => vec[j] # vec[i]
  BY DEF Distinct
<1>7. Entries(v) = (Entries(vec) \ {vec[i]}) \cup {route}
  BY <1>1, <1>2, <1>4, <1>6 DEF Entries
<1> QED
  BY <1>5, <1>7 DEF v

LEMMA VecAddRoute ==
    ASSUME NEW vec, Distinct(vec), NEW route \in RouteEntry,
           NEW kernel, NEW nets, NEW own
    PROVE  LET v == vec_add_route(vec, route, nets) IN
           /\ Distinct(v)
           /\ Entries(v) = add_route(Table(Entries(vec), kernel), route, nets, own).routes
<1> DEFINE v == vec_add_route(vec, route, nets)
           t == Table(Entries(vec), kernel)
           u == add_route(t, route, nets, own)
           E == find_route(Entries(vec), route.destination)
           better(old) == \/ route.metric < old.metric
                          \/ route.source = old.source /\ route.next_hop # old.next_hop
<1> SUFFICES Distinct(v) /\ Entries(v) = u.routes
  OBVIOUS
<1>1. t.routes = Entries(vec) /\ find_route_index(t.routes, route.destination) = E
  BY DEF Table, find_route, find_route_index
<1>0. \/ position(vec, route.destination) = {} /\ E = {}
      \/ \E i \in 1 .. Len(vec) : /\ position(vec, route.destination) = {i}
                                  /\ E = {vec[i]}
                                  /\ vec[i].destination = route.destination
  BY PositionFinds
<1>2. CASE ~is_valid_route(route, nets)
  <2>1. u = t /\ v = vec
    BY <1>2 DEF add_route, vec_add_route
  <2> QED
    BY <1>1, <2>1
<1>3. CASE is_valid_route(route, nets) /\ E = {}
  <2>1. position(vec, route.destination) = {}
    BY <1>0, <1>3
  <2>2. v = Append(vec, route)
    BY <1>3, <2>1 DEF vec_add_route
  <2>3. u.routes = t.routes \cup {route}
    BY <1>1, <1>3 DEF add_route, Table
  <2> HIDE DEF v, u, t
  <2> QED
    BY <1>1, <1>3, <2>2, <2>3, PushOne
<1>4. CASE is_valid_route(route, nets) /\ E # {}
  <2>1. PICK i \in 1 .. Len(vec) : /\ position(vec, route.destination) = {i}
                                   /\ E = {vec[i]}
                                   /\ vec[i].destination = route.destination
    BY <1>0, <1>4
  <2>2. found(position(vec, route.destination)) = i /\ found(E) = vec[i]
    BY <2>1 DEF found
  <2>3. CASE better(vec[i])
    <3>1. v = [vec EXCEPT ![i] = route]
      BY <1>4, <2>1, <2>2, <2>3 DEF vec_add_route
    <3>2. u = supersede(t, vec[i], route, own)
      BY <1>1, <1>4, <2>1, <2>2, <2>3 DEF add_route
    <3>3. u.routes = (t.routes \ {vec[i]}) \cup {route}
      BY <3>2 DEF supersede, Table
    <3>4. /\ Distinct([vec EXCEPT ![i] = route])
          /\ Entries([vec EXCEPT ![i] = route]) = (Entries(vec) \ {vec[i]}) \cup {route}
      BY <2>1, AssignOne
    <3> HIDE DEF v, u, t
    <3> QED
      BY <1>1, <3>1, <3>3, <3>4
  <2>4. CASE ~better(vec[i])
    <3>1. v = vec
      BY <1>4, <2>1, <2>2, <2>4 DEF vec_add_route
    <3>2. u = t
      BY <1>1, <1>4, <2>1, <2>2, <2>4 DEF add_route
    <3> QED
      BY <1>1, <3>1, <3>2
  <2> QED
    BY <2>3, <2>4
<1> QED
  BY <1>2, <1>3, <1>4

LEMMA VecRemoveRoute ==
    ASSUME NEW vec, Distinct(vec), NEW destination
    PROVE  LET v == vec_remove_route(vec, destination) IN
           /\ Distinct(v)
           /\ Entries(v) = Entries(vec) \ find_route(Entries(vec), destination)
<1>1. CASE position(vec, destination) = {}
  BY <1>1, PositionFinds DEF vec_remove_route
<1>2. CASE position(vec, destination) # {}
  <2>1. PICK i \in 1 .. Len(vec) : /\ position(vec, destination) = {i}
                                   /\ find_route(Entries(vec), destination) = {vec[i]}
    BY <1>2, PositionFinds
  <2>2. vec_remove_route(vec, destination) = remove(vec, i)
    BY <2>1 DEF vec_remove_route, found
  <2> QED
    BY <2>1, <2>2, RemoveOne
<1> QED
  BY <1>1, <1>2

LEMMA VecReplaceRoute ==
    ASSUME NEW vec, Distinct(vec), NEW route \in RouteEntry,
           NEW kernel, NEW nets, NEW own
    PROVE  LET v == vec_replace_route(vec, route, nets) IN
           /\ Distinct(v)
           /\ Entries(v) = replace_route(Table(Entries(vec), kernel), route, nets, own).routes
<1> DEFINE w == vec_remove_route(vec, route.destination)
           t == Table(Entries(vec), kernel)
           E == find_route(Entries(vec), route.destination)
           d == IF E = {} THEN t ELSE drop(t, found(E))
<1>1. t.routes = Entries(vec) /\ find_route_index(t.routes, route.destination) = E
  BY DEF Table, find_route, find_route_index
<1>2. Distinct(w) /\ Entries(w) = Entries(vec) \ E
  BY <1>1, VecRemoveRoute
<1>3. d = Table(Entries(w), d.kernel)
  <2>1. CASE E = {}
    BY <1>2, <2>1 DEF Table
  <2>2. CASE E # {}
    <3>1. E = {found(E)}
      <4>1. E = {} \/ \E e : E = {e}
        BY PositionFinds
      <4> HIDE DEF E
      <4> QED
        BY <2>2, <4>1 DEF found
    <3>2. d = Table(t.routes \ {found(E)}, withdraw(t.kernel, found(E)))
      BY <2>2 DEF drop
    <3>3. Entries(w) = t.routes \ {found(E)}
      BY <1>1, <1>2, <3>1
    <3> HIDE DEF E, w, t
    <3> QED
      BY <3>2, <3>3 DEF Table
  <2> QED
    BY <2>1, <2>2
<1>4. replace_route(t, route, nets, own) = add_route(d, route, nets, own)
  BY <1>1 DEF replace_route
<1>5. vec_replace_route(vec, route, nets) = vec_add_route(w, route, nets)
  BY DEF vec_replace_route
<1> HIDE DEF w, d
<1> QED
  BY <1>2, <1>3, <1>4, <1>5, VecAddRoute

(* One route of an UPDATE does to the Vec what it does to the set.         *)
THEOREM VecAppliesAnUpdate ==
    ASSUME NEW vec, Distinct(vec), NEW route \in RouteEntry,
           NEW kernel, NEW nets, NEW own
    PROVE  LET v == vec_update_routing_table(vec, route, nets) IN
           /\ Distinct(v)
           /\ Entries(v) = update_routing_table(Table(Entries(vec), kernel), route, nets, own).routes
<1> DEFINE v == vec_update_routing_table(vec, route, nets)
           t == Table(Entries(vec), kernel)
           u == update_routing_table(t, route, nets, own)
           at == position(vec, route.destination)
           E == find_route(t.routes, route.destination)
           worse == at # {} /\ vec[found(at)].metric < route.metric
           another == /\ at # {}
                      /\ vec[found(at)].metric = route.metric
                      /\ vec[found(at)].next_hop # route.next_hop
<1>1. t.routes = Entries(vec)
  BY DEF Table
<1>2. \/ at = {} /\ E = {}
      \/ \E i \in 1 .. Len(vec) : at = {i} /\ E = {vec[i]}
  BY <1>1, PositionFinds
<1>3. (at # {} <=> E # {}) /\ (at # {} => vec[found(at)] = found(E))
  <2> HIDE DEF at, E
  <2> QED
    BY <1>2 DEF found
<1>4. CASE worse
  <2>1. v = vec
    BY <1>4 DEF vec_update_routing_table
  <2>2. u = t
    BY <1>3, <1>4 DEF update_routing_table, has_better_route
  <2> QED
    BY <1>1, <2>1, <2>2
<1>5. CASE ~worse /\ another
  <2>1. v = vec_replace_route(vec, route, nets)
    BY <1>5 DEF vec_update_routing_table
  <2>2. u = replace_route(t, route, nets, own)
    BY <1>3, <1>5 DEF update_routing_table, has_better_route
  <2> QED
    BY <2>1, <2>2, VecReplaceRoute
<1>6. CASE ~worse /\ ~another
  <2>1. v = vec_add_route(vec, route, nets)
    BY <1>6 DEF vec_update_routing_table
  <2>2. u = add_route(t, route, nets, own)
    BY <1>3, <1>6 DEF update_routing_table, has_better_route
  <2> QED
    BY <2>1, <2>2, VecAddRoute
<1> QED
  BY <1>4, <1>5, <1>6

(***************************************************************************)
(* remove_routes_via_nexthop, whose indices are collected before the first *)
(* removal moves anything.                                                 *)
(***************************************************************************)

(* One turn of the loop, in any function that obeys its definition.        *)
Turn(left, vec, next_hop, i) ==
    IF i = Len(vec) + 1 THEN vec
    ELSE IF i \in {j \in DOMAIN vec : via(vec[j], next_hop)} THEN remove(left[i + 1], i)
    ELSE left[i + 1]

(* There is one from every i on: a shortest for which there is none could  *)
(* be had from the one before.                                             *)
LEMMA LoopExists ==
    ASSUME NEW vec, Distinct(vec), NEW next_hop
    PROVE  \E left : left = [i \in 1 .. Len(vec) + 1 |-> Turn(left, vec, next_hop, i)]
<1> DEFINE n == Len(vec)
           from(k) == n + 1 - k .. n + 1
           Obeys(left, k) == left = [i \in from(k) |-> Turn(left, vec, next_hop, i)]
           lacking == {k \in 0 .. n : \A left : ~Obeys(left, k)}
<1>1. n \in Nat
  BY VecShape
<1>2. lacking = {}
  <2> SUFFICES ASSUME lacking # {}
               PROVE  FALSE
    OBVIOUS
  <2>1. lacking \subseteq Nat
    BY <1>1
  <2>2. PICK k \in lacking : \A j \in lacking : k <= j
    <3> HIDE DEF lacking
    <3> QED
      BY <2>1, LeastNatural
  <2>3. CASE k = 0
    <3> DEFINE left == [i \in {n + 1} |-> vec]
    <3>1. from(k) = {n + 1}
      BY <1>1, <2>3
    <3>2. \A i \in {n + 1} : Turn(left, vec, next_hop, i) = vec
      BY DEF Turn
    <3>3. Obeys(left, k)
      BY <3>1, <3>2
    <3> QED
      BY <3>3
  <2>4. CASE k # 0
    <3>1. k \in 1 .. n /\ k - 1 \in 0 .. n /\ k - 1 \notin lacking
      <4>1. k \in 0 .. n
        OBVIOUS
      <4>2. k - 1 \in 0 .. n /\ ~(k <= k - 1)
        BY <1>1, <2>4, <4>1
      <4>3. k \in 1 .. n
        BY <1>1, <2>4, <4>1
      <4> HIDE DEF lacking
      <4> QED
        BY <2>2, <4>2, <4>3
    <3>2. PICK g : Obeys(g, k - 1)
      BY <3>1
    <3> DEFINE first == n + 1 - k
               left == [i \in from(k) |-> IF i = first THEN Turn(g, vec, next_hop, first) ELSE g[i]]
    <3>3. /\ first \in 1 .. n
          /\ first # n + 1
          /\ from(k) = {first} \cup from(k - 1)
          /\ first \notin from(k - 1)
          /\ first + 1 \in from(k - 1)
      BY <1>1, <3>1
    <3>4. \A i \in from(k - 1) : i # n + 1 => i + 1 \in from(k - 1)
      BY <1>1, <3>1
    <3>5. \A i \in from(k - 1) : left[i] = g[i] /\ g[i] = Turn(g, vec, next_hop, i)
      <4> HIDE DEF first, from
      <4> QED
        BY <3>2, <3>3
    <3>6. \A i \in from(k) : Turn(left, vec, next_hop, i) = Turn(g, vec, next_hop, i)
      <4> HIDE DEF first, from, left
      <4> QED
        BY <3>3, <3>4, <3>5 DEF Turn
    <3>7. left[first] = Turn(g, vec, next_hop, first)
      BY <3>3
    <3>8. Obeys(left, k)
      <4>1. \A i \in from(k) : left[i] = Turn(left, vec, next_hop, i)
        BY <3>3, <3>5, <3>6, <3>7
      <4> QED
        BY <4>1
    <3> QED
      BY <3>8
  <2> QED
    BY <2>3, <2>4
<1>3. n \in 0 .. n /\ from(n) = 1 .. n + 1
  BY <1>1
<1>4. PICK left : Obeys(left, n)
  BY <1>2, <1>3
<1> QED
  BY <1>3, <1>4

LEMMA LoopDef ==
    ASSUME NEW vec, Distinct(vec), NEW next_hop
    PROVE  LET left == purging(vec, next_hop) IN
           left = [i \in 1 .. Len(vec) + 1 |-> Turn(left, vec, next_hop, i)]
<1>1. purging(vec, next_hop) =
        CHOOSE left : left = [i \in 1 .. Len(vec) + 1 |-> Turn(left, vec, next_hop, i)]
  BY DEF purging, Turn
<1> QED
  BY <1>1, LoopExists

(* The loop has dealt with the entries from i on: those before i are where *)
(* they were, and of the others the ones via the next hop are gone.        *)
Purged(v, vec, next_hop, i) ==
    /\ Distinct(v)
    /\ i - 1 <= Len(v)
    /\ \A j \in 1 .. i - 1 : v[j] = vec[j]
    /\ Entries(v) = Entries(vec) \ {vec[j] : j \in {k \in i .. Len(vec) : via(vec[k], next_hop)}}

LEMMA TurnPurges ==
    ASSUME NEW vec, Distinct(vec), NEW next_hop, NEW i \in 1 .. Len(vec),
           NEW v, Purged(v, vec, next_hop, i + 1)
    PROVE  Purged(IF via(vec[i], next_hop) THEN remove(v, i) ELSE v, vec, next_hop, i)
<1> DEFINE n == Len(vec)
           m == Len(v)
           gone(k) == {vec[j] : j \in {l \in k .. n : via(vec[l], next_hop)}}
<1>1. n \in Nat /\ m \in Nat /\ i \in Nat /\ i <= m /\ i \in 1 .. m
  BY VecShape DEF Purged
<1>2. i .. n = {i} \cup (i + 1 .. n)
  BY <1>1
<1>3. v[i] = vec[i] /\ \A j \in 1 .. i - 1 : v[j] = vec[j]
  <2>1. i \in 1 .. (i + 1) - 1 /\ \A j \in 1 .. i - 1 : j \in 1 .. (i + 1) - 1
    BY <1>1
  <2> QED
    BY <2>1 DEF Purged
<1>4. CASE via(vec[i], next_hop)
  <2> DEFINE w == remove(v, i)
  <2>1. Distinct(w) /\ Len(w) = m - 1 /\ Entries(w) = Entries(v) \ {vec[i]}
    BY <1>1, <1>3, RemoveOne DEF Purged
  <2>2. gone(i) = gone(i + 1) \cup {vec[i]}
    BY <1>2, <1>4
  <2>3. \A j \in 1 .. i - 1 : w[j] = vec[j]
    <3>1. \A j \in 1 .. i - 1 : j \in 1 .. m - 1 /\ j < i
      BY <1>1
    <3> QED
      BY <1>3, <3>1 DEF remove
  <2>4. i - 1 <= Len(w)
    BY <1>1, <2>1
  <2>5. Entries(w) = Entries(vec) \ gone(i)
    <3>1. Entries(v) = Entries(vec) \ gone(i + 1)
      BY DEF Purged
    <3> HIDE DEF gone, w
    <3> QED
      BY <2>1, <2>2, <3>1
  <2>6. Purged(w, vec, next_hop, i)
    <3> HIDE DEF w
    <3> QED
      BY <2>1, <2>3, <2>4, <2>5 DEF Purged
  <2> QED
    BY <1>4, <2>6
<1>5. CASE ~via(vec[i], next_hop)
  <2>1. gone(i) = gone(i + 1)
    BY <1>2, <1>5
  <2>2. i - 1 <= m
    BY <1>1
  <2>3. Purged(v, vec, next_hop, i)
    BY <1>3, <2>1, <2>2 DEF Purged
  <2> QED
    BY <1>5, <2>3
<1> QED
  BY <1>4, <1>5

LEMMA LoopPurges ==
    ASSUME NEW vec, Distinct(vec), NEW next_hop, NEW i \in 1 .. Len(vec) + 1
    PROVE  Purged(purging(vec, next_hop)[i], vec, next_hop, i)
<1> DEFINE n == Len(vec)
           left == purging(vec, next_hop)
           Done(k) == Purged(left[n + 1 - k], vec, next_hop, n + 1 - k)
           undone == {k \in 0 .. n : ~Done(k)}
<1>1. n \in Nat /\ DOMAIN vec = 1 .. n
  BY VecShape
<1>2. \A k \in 1 .. n + 1 : left[k] = Turn(left, vec, next_hop, k)
  <2> HIDE DEF left
  <2> QED
    BY LoopDef DEF left
<1> HIDE DEF left
<1>3. undone = {}
  <2> SUFFICES ASSUME undone # {}
               PROVE  FALSE
    OBVIOUS
  <2>1. undone \subseteq Nat
    BY <1>1
  <2>2. PICK k \in undone : \A j \in undone : k <= j
    <3> HIDE DEF undone
    <3> QED
      BY <2>1, LeastNatural
  <2>3. CASE k = 0
    <3>1. left[n + 1] = vec
      BY <1>1, <1>2 DEF Turn
    <3>2. n + 1 .. n = {} /\ (n + 1) - 1 = n /\ n + 1 - k = n + 1
      BY <1>1, <2>3
    <3>3. Purged(vec, vec, next_hop, n + 1)
      BY <1>1, <3>2 DEF Purged
    <3> QED
      BY <3>1, <3>2, <3>3
  <2>4. CASE k # 0
    <3> DEFINE first == n + 1 - k
    <3>1. /\ first \in 1 .. n
          /\ first # n + 1
          /\ n + 1 - (k - 1) = first + 1
          /\ k - 1 \in 0 .. n
          /\ ~(k <= k - 1)
      BY <1>1, <2>4
    <3>2. Done(k - 1)
      BY <2>2, <3>1
    <3>3. Purged(left[first + 1], vec, next_hop, first + 1)
      BY <3>1, <3>2
    <3>4. left[first] = IF via(vec[first], next_hop) THEN remove(left[first + 1], first)
                        ELSE left[first + 1]
      <4>1. first \in 1 .. n + 1
        BY <1>1, <3>1
      <4> HIDE DEF first
      <4> QED
        BY <1>1, <1>2, <3>1, <4>1 DEF Turn
    <3>5. Purged(left[first], vec, next_hop, first)
      <4> HIDE DEF first
      <4> QED
        BY <3>1, <3>3, <3>4, TurnPurges
    <3> QED
      BY <3>5
  <2> QED
    BY <2>3, <2>4
<1>4. n + 1 - i \in 0 .. n /\ n + 1 - (n + 1 - i) = i
  BY <1>1
<1>5. Done(n + 1 - i)
  BY <1>3, <1>4
<1> QED
  BY <1>4, <1>5 DEF left

(* remove_routes_via_nexthop takes out exactly the learned entries via the *)
(* next hop, although every removal moves what is behind it.               *)
THEOREM VecForgetsAGateway ==
    ASSUME NEW vec, Distinct(vec), NEW next_hop
    PROVE  LET v == vec_remove_routes_via_nexthop(vec, next_hop) IN
           /\ Distinct(v)
           /\ Entries(v) = {e \in Entries(vec) : ~via(e, next_hop)}
<1> DEFINE v == vec_remove_routes_via_nexthop(vec, next_hop)
           n == Len(vec)
<1>1. n \in Nat /\ DOMAIN vec = 1 .. n
  BY VecShape
<1>2. Purged(v, vec, next_hop, 1)
  <2>1. 1 \in 1 .. n + 1
    BY <1>1
  <2> QED
    BY <2>1, LoopPurges DEF vec_remove_routes_via_nexthop
<1> HIDE DEF v
<1>3. Distinct(v)
  BY <1>2 DEF Purged
<1>4. Entries(v) = {e \in Entries(vec) : ~via(e, next_hop)}
  BY <1>1, <1>2 DEF Purged, Entries
<1> QED
  BY <1>3, <1>4 DEF v

=============================================================================
