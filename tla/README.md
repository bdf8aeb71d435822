# Custom-OSPF in TLA+

Custom-OSPF is a small routing daemon in Rust. Despite its name it is a
distance-vector protocol: every router broadcasts its whole routing table to its
neighbours every 8 s, takes better routes out of what it hears, installs them in
the system's routing table, and removes them when they expire or when the
neighbour they came from falls silent. This directory models it, checks the
models with TLC and proves their main safety properties with TLAPS.

Paths below are relative to the crate (`src/` of the repository); `Rapport.md` is
the project's report.

## 1. The system

### Components

| Component | State | Operations | What makes it correct |
|---|---|---|---|
| Routing table (`routing_table.rs`) | `routes` (a Vec), `local_networks`, the system's routes through net-route | `add_route`, `replace_route`, `remove_route`, `remove_routes_via_nexthop`, `has_better_route`, `Drop` | one entry per subnet; Direct entries stay; the system holds nothing the table does not list |
| Route processing (`protocol/route_manager.rs`, `router.rs`) | none of its own; reads the table, writes `route_states` and the table | `process_routing_update`, `update_routing_table`, `remove_routes_via_nexthop`, `get_neighbor_ip` | entries only improve; every learned route can expire; removal hits the right route |
| Listener tasks (`protocol/task_manager.rs`) | the message in hand, the subscription to the shutdown signal | HELLO, UPDATE, NEIGHBOR_REQUEST, NEIGHBOR_RESPONSE | a neighbour that is heard is alive; own messages are ignored; a loop that is told to leaves |
| Cleanup task (`protocol/task_manager.rs`) | lists of dead neighbours, stale and doomed keys | `perform_cleanup` every 5 s | what expired goes; what is dead is marked; nothing is half-removed |
| Senders (`protocol/task_manager.rs`) | `sequence` | HELLO every 4 s, UPDATE every 8 s | what is advertised is never too good; a living neighbour is not taken for dead, a dead one not for long |
| Life cycle (`protocol/mod.rs`) | `is_running`, `shutdown_tx`, `task_handles` | `start_protocol`, `start_tasks`, `stop_protocol` | a stop reaches every task or is heard by it; no task is aborted and forgotten; tables take no damage |
| Exchange between routers | all routers' tables, messages under way | the handlers above | metrics are true, routers converge, packets do not circle |
| Neighbour queries (`protocol/neighbor_manager.rs`, `task_manager.rs`) | `pending_neighbor_requests` | `request_neighbors_from_router`, request and response handlers, sweep every 10 s | the asker gets the answer to its question, or an error within 5 s; no request stays behind |
| Control server (`control_server.rs`) | the protocol, under a mutex | one JSON command per line | commands do not overlap and each is replied to |
| Interfaces (`network.rs`, `router.rs`) | `interfaces` | discovery at start | one Direct route per interface |

### How they interact

One tokio process holds `router` (with the table), `neighbors`, `route_states`
and `pending_neighbor_requests`, each behind its own async mutex. `start_protocol`
spawns the tasks; `listen_task` spawns, for the one socket, a further task
(`socket_listen_loop`) and waits for it. `stop_protocol` clears `is_running`,
broadcasts a shutdown signal and aborts the tasks it has handles for, without
awaiting them. An abort takes effect at an await, so the cleanup task can end in the
middle of a removal; and a task that a thread of the runtime is polling at that moment
goes on, past awaits that are ready, until one makes it wait, which can be after the stop
has been answered. It does not reach `socket_listen_loop`, whose handle is dropped with
`listen_task`. That loop finishes its message and leaves when `select!` picks the
shutdown branch, or at its next message when `is_running` is false; after a quick
restart the old and the new loop run side by side.

### What is hard

- An UPDATE is handled in stages: each route is checked against the table (the
  router's lock taken and released per route), the states are recorded (lock of
  `route_states`), the routes are applied (router's lock). The cleanup task scans
  `neighbors`, then `route_states` twice, then takes both locks and removes, then
  looks up and purges gateways. Everything between two stages may be stale.
- `route_states` is keyed by the prefix as it was advertised, host bits included;
  the table by the network. One entry can have several states.
- Messages are lost, late and repeated; routers stop, start and are killed; the
  kernel's table outlives the process.
- Commands of several connections queue for one mutex, which a query keeps for up to
  5 s. Its answer, its timeout and the sweep race for one entry of a map and one
  oneshot channel, and the answer is recognized by its id alone.
- Five intervals and timeouts run against each other, and messages get lost between
  them.
- There is no split horizon, no metric that means infinity, and no handler looks at
  the sequence number.

The full list, by line, is under `hazards` in `PROJECT.json`.

## 2. Modules

| Module | Models | Extends |
|---|---|---|
| `RouteTypes` | addresses, prefixes, entries, and the stateless decisions: `process_single_route` and its parts, `is_valid_route` | |
| `RoutingTable` | the table's operations as operators on a table and the system's routes; the kernel's answers | `RouteTypes` |
| `RouterNode` | one router: listeners, cleanup task, timeouts, stop, start, death of the process | `RoutingTable` |
| `RoutingTableVec` | the same operations on the Vec and its indices | `RoutingTable` |
| `TableService` | what a router promises about its table; `RouterNode` and `DistanceVector` implement it | |
| `DistanceVector` | several routers exchanging tables | `RoutingTable` |
| `Lifecycle` | start and stop, statement by statement; commands under the protocol's mutex; the tasks of each generation | |
| `NeighborQuery` | neighbour queries: the asking client, peers, messages, responses, sweep | `Lifecycle` |
| `CommandService` | what commands promise; `NeighborQuery` (with `Lifecycle`) implements it | |
| `QueryService` | what a query promises; `NeighborQuery` implements it | |
| `LinkTimers` | one neighbour and one route against the intervals and timeouts | |
| `MCRouterNode`, `MCDistanceVector`, `MCNeighborQuery`, `MCLinkTimers` | constants for TLC | the above |
| `RoutingTableProofs`, `RoutingTableVecProofs`, `RouterNodeProofs`, `TableServiceProofs`, `DistanceVectorProofs`, `NeighborQueryProofs`, `CommandProofs`, `LinkTimersProofs` | theorems | the above |

### RouteTypes and RoutingTable

An address is a record of a subnet and a host part; a prefix is the same record,
because `Ipv4Network` keeps host bits and compares them (`is_our_network` depends
on it); `network(p)` clears the host part. Subnets are disjoint and prefixes are
`/n` of their subnet. A metric is a natural below `MetricModulus` (2^32 in the
code), and the `+ 1` of `process_single_route` wraps as it does in a release build.

The table is a set of entries. Its order in the Vec matters to no operation as
long as each destination occurs once, which `OneRoutePerSubnet` says; that the code's
Vec with its indices does the same is what `RoutingTableVec` is for (first match in
`find_route_index`, assignment in place, and `remove_routes_via_nexthop`, which collects
indices and removes from the last to the first, so that no removal moves an entry that
is still to go). It leaves the system's routes out, which depend on the entries
alone. The kernel is modelled from how it is used (external): it refuses a second route to a
destination and a gateway that is its own address, and it deletes only an exact
match; the code logs such refusals and goes on.

### RouterNode

Its variables are the shared state (`routes`, `kernel`, `route_states`,
`neighbors`, `is_running`), a program counter and locals per listener, and the
cleanup task's program counter and locals. One action is one stretch of code
between two points where another task can act:

| Code | Actions |
|---|---|
| HELLO handler | `handle_hello_message` |
| UPDATE handler | `handle_update_message`, `CheckRoute` per route, `update_route_states`, `apply_new_routes` (takes the lock), `ApplyRoute` per route |
| `perform_cleanup` | `CleanupNeighbors`, `CleanupStale`, `CleanupCollect`, `CleanupLock` and `CleanupLockStates` (one lock inside the other), `CleanupForget`/`CleanupUnlist` per state, `CleanupForgetDone`, `CleanupGateway`, `CleanupPurgeLock`, `CleanupPurge` per entry, `CleanupPurgeDone`, `CleanupDone` |
| clocks | `RouteTimeout`, `NeighborTimeout` |
| life cycle | `stop_protocol` (which drops the cleanup task or leaves it polled), `CleanupAborted`, `start_protocol`, `ListenerExit`, `Crash` |

Locks are not variables: who holds one follows from the program counters
(`RouterLockFree`, `StatesLockFree`). `remove_route` is split at its await because
it asks the system first and forgets the entry after; where the code changes the
table before the await (purging, superseding) the request to the system follows
in the same step, since an aborted task has sent it already.
Taking a message and comparing its id under the router's lock is one step.

A cleanup task that is being polled when it is aborted goes on after `stop_protocol`, and
can be dropped at any later await (`CleanupAborted`). `start_protocol` waits until it is
gone, so two cleanup tasks at once are cut; what an aborted one can do beside a new
listener is done by the new one too, which a stop can abort as well. `NeighborTimeout`
may strike while an UPDATE of the same neighbour is at work, which is more than the code
allows.

Clocks are abstracted to an `overdue` flag on states and neighbours, which may be
set at any time except while the handler that recorded the state is at work and
between two scans of one cleanup round that use the same reading of the clock.
Every timing the constants allow is thereby included, and many more.

The messages are a constant set: anything of it may arrive, in any order, any
number of times, or never. `RunSpec` has no commands, `Spec` adds stop and start,
`CrashSpec` the death of the process.

`TableService` is the table as others see it: a route that is offered is taken in one
step, if it is then preferred to whatever the table has for its subnet and leads to no
local one, and learned routes may be forgotten. `TableServed` says that `RouterNode`,
with its three locks and the cleanup task in between, is an implementation: what
`should_accept_route` saw may be old when the route is applied, but what it would
refuse then changes nothing (`RefusedChangesNothing`).

### DistanceVector

Each router has its table, the keys and advertisers of its route states, and the
last UPDATE it sent, which each neighbour may receive any number of times, in
part, or never. Handlers are atomic, and a route of an UPDATE is taken on its own.
Routes expire and neighbours are declared dead at any time, which stands for loss,
for delay and for the real thing; whether a HELLO had ever been heard is not
recorded, so a neighbour may be declared dead before it was known, which removes
routes the code would keep for longer and adds none.
`Distance` is a constant: the number of hops when everything is up. `TablesServed` says
that each table here is a `TableService` too, so both modules keep the same promise, one
with handlers in stages and one with atomic handlers. (They are not shown to have the
same behaviours: `TableService` lets a table forget and refuse as it likes.)

### Lifecycle

Clients are `main`, which starts the protocol, and the control server's connections.
A client's command goes through `step`: it is given, waits for the mutex, is carried
out and replied to. Other tasks act between any two steps.

| Code | Actions |
|---|---|
| `handle_client`, the reply | `handle_client`, `write_reply` |
| status, neighbors, routing_table | `inspect` |
| `start_protocol` | `begin_start` (lock, test of `is_running`), `start_flag`, `start_channel`, `start_tasks` |
| `stop_protocol` | `begin_stop`, `stop_flag`, `stop_signal`, `stop_abort` |
| hello, update, cleanup, pending, debug task | `Tick`, `TickDone`, `TaskShutdown` |
| `listen_task`, `socket_listen_loop` | `listen_task` (subscribes and spawns the loop), `ListenDone`; `TakeDatagram`, `DatagramDone`, `LoopShutdown` |

A start makes a generation: its channel and the tasks subscribed to it. A new channel
drops the sender of the old one, which its receivers notice as they notice a signal.
`deaf` holds the generations whose loop subscribed after the signal. `start_tasks`
requires a channel; without one the code would wait for a lock it holds, for ever.
`stop_abort` (and `start_tasks`, which drains the handles too) awaits nobody: any of the
tasks that are being polled (`Pollable`: not a `listen_task` that waits for its loop) may
be left in `ending`, works on, even beside the next generation, and leaves at an await
that makes it wait (`Yield`); the others are off at once.
`CommandService` has commands, the flag and the work of tasks only: a start or a stop is
one step, a stop ends the work of timed tasks or sends them away, and but for those it has
sent away a timed task begins to work only while the protocol runs, one of a kind at a
time. The mapping takes a start to have happened when `is_running`
is set and a stop when the tasks are aborted (until then the protocol counts as running).
It is what justifies `RouterNode`'s one-step stop and start.

### NeighborQuery and QueryService

| Code | Actions |
|---|---|
| `ControlServer::get_neighbors_of`, `neighbor_manager::get_neighbors_of` | `ask_neighbors_of`, `get_neighbors_of`, `get_neighbors_list` (our own), `write_answer` |
| `request_neighbors_from_router` | `record_request`, `send_neighbor_request`, `answered`, `channel_closed`, `timed_out`, `cleanup_pending_request` |
| `handle_neighbor_request_static` | `handle_neighbor_request`, by a peer |
| `handle_neighbor_response_static` | `handle_neighbor_response`, by a socket loop of ours |
| `cleanup_expired_requests` | `SweepScan`, `SweepRemove` |
| UDP, the system's clock | `Lose`, `ClockSet` |

A list of neighbours is abstracted to whose list it is. A message stays under way
until it is lost, so it may arrive late and repeatedly. The timeout of 5 s may strike
whenever the channel is empty; what a sweep finds old is decided by `SystemTime`, so
any request may be. A request id is the time in milliseconds. `UniqueIds` says that an
id is not given out while a message carries it; without it only the map decides.

In `QueryService` a client asks, is served while no other is, is told the neighbours
of the router it asked about or a failure, and always one of them in the end.

### LinkTimers

One router, one neighbour, one route, time in seconds. Intervals tick as tokio's do,
at once and then periodically; the cleanup has any phase, and the neighbour starts,
stops, and changes, loses and regains its route at any moment (`Change`). No message
withdraws a route: the UPDATEs that follow just leave it out. A message takes less than a second or is
lost, `MaxLost` of a kind in a row at most. In one second things happen in any order,
and an age equal to a timeout may be over it or not, which stands for the fractions
of a second. `handle_update_message` has the two facts that matter here: a neighbour
that no HELLO has come from is not refreshed, and an update that is refused does not
renew `last_advertised`. `since` and `differs` are for the properties. `SteadySpec` is
without `Change`: what is advertised stays advertised.

## 3. What is checked

| Run | Specification | Result | Distinct states |
|---|---|---|---|
| `node_restart` | `Spec`, two listeners | `OneRoutePerSubnet`, `KernelWithinTable`, `RouteOnlyImproves`, `TableApplied`, `TableServed`, `TrackedUntilRemoved` hold | 519 000 (symmetric) |
| `node_cleanup` | `Spec`, one listener, richer messages | `TypeOK`, `OneRoutePerSubnet`, `DirectRoutesStay`, `KernelWithinTable`, `DeadMeansSilent`, `TableApplied` hold | 2 708 000 |
| `node_liveness` | `FairSpec` | `ExpiredStatesGo`, `SilentNeighborsDie` hold | 28 700 |
| `dv_line` | `FairSpec`, stub - r1 - r2 - r3 | `TypeOK`, `MetricNeverBelowDistance`, `SettledIsShortest`, `Convergence`, `ExchangeKeepsDescent`, `ExchangeKeepsShortest`, `TablesServed` hold | 1 400 |
| `life` | `FairSpec`, two clients, two generations | `NeverSelfLocked`, `OneGeneration`, `StopReachesAll`, `CommandsServed`, `ListenersLeave`, `CommandsAreAtomic` hold | 70 500 |
| `query` | `ClientSpec`, two clients, two peers | `TypeOK`, `NoRequestLeftBehind`, `ImplementsService` hold | 226 000 |
| `link_timers` | `Spec`, one message lost in a row | `TypeOK`, `DeathDetected`, `DeadRouteGoes`, `NewsArrives`, `NoFalseDeath` hold | 727 800 |
| `node_orphan` | `RunSpec` | `TrackedRoutes` violated | |
| `node_viadead` | `RunSpec` | `NoRouteViaDead` violated | |
| `node_crash` | `CrashSpec` | `KernelWithinTable` violated | |
| `dv_loop` | `Spec`, a ring of three with a tail | `NoForwardingLoop` violated | |
| `link_stable` | `SteadySpec`, no message lost | `AdvertisedRouteStays` violated | |

Every property of a passing run has a mutant: a plausible bug in one mapped
definition (the `Mut...` operators) with which TLC finds that property violated.

`dv_line` also evaluates `VecImplementsTheSet` (in `MCDistanceVector`): on every Vec of up
to three learned entries, in every order, the operations of `RoutingTableVec` have the
result of those on sets. `DistanceReached` there says that its network meets the hypothesis
of two of the theorems below (`DistanceIsReached`).

What the less obvious properties say: `TableApplied`, that a table entry loses its
system route only where the cleanup task is about to take it out of the table, whatever
else is going on (it exempts entries via an address of our own, which the kernel refuses); `TableServed` and `TablesServed`, that a table changes as
`TableService` has it, however stale what a handler saw; `TrackedUntilRemoved`, that an
entry which has a state that can expire it keeps one until `remove_route` is at it,
although states go under raw prefixes and several listeners record them;
`ExchangeKeepsDescent`, that if along every gateway metrics descend, in the tables and in
the UPDATEs under way, then sending and receiving keep it so; `SettledIsShortest`, that
once every UPDATE is sent and none has a route that its receiver would take and gain by,
all have shortest routes, so that no filter on the way into a table keeps out what is
needed, whatever failures have left behind; `ExchangeKeepsShortest`, that no late UPDATE
ends that; `Convergence`, that once failures stop every router comes to a shortest route
again and again, whatever they have left behind and however the expiries of its own and
of the others' routes fall (it cannot keep one, see `AdvertisedRouteStays`);
`CommandsAreAtomic`, that
starts and stops, in steps among the tasks' own, are in effect single moments, but for
tasks that a stop has sent away and that finish what they are at;
`OneGeneration`, that however fast a start follows a stop, a timed task belongs to the
present channel and has its handle, or has been aborted and is about to go;
`StopReachesAll`, that after a stop only such tasks are left, none that would have to find
out by itself, or could wait for its next tick and be running again by then; `ListenersLeave`, that a socket loop, which no handle
reaches, leaves after the signal or the end of its channel; `NoRequestLeftBehind`, that
the map holds at most the request of the client that has the mutex (so the sweep and
late answers find nothing else); `ImplementsService`, that the whole query protocol is
an implementation of `QueryService`. The bounds of `LinkTimers` are those of the code:
death is found after 17 s at most (12 + 5), a dead neighbour's route is gone after
17 s, or 21 if only UPDATEs of it came, no living neighbour is declared dead when one
HELLO in a row is lost (with two it is), and the route is what the neighbour offers
within 32 s.

### Instances and bounds

`RouterNode` runs on router a, on a LAN with b and c, and a remote subnet both
reach. The UPDATEs are tables such routers have: b's interface on the remote
subnet, c's interface there, and c's route through b, whose next hop is on our LAN
too. `node_cleanup` adds b's entry for the LAN itself (a route to our own subnet), an
UPDATE of a router with our own name, and one whose next hop is an address of ours.
Two advertisers of one destination with different raw prefixes are what the
stale-state hazards need; a third would repeat them. `Listener` bounds overlapping listeners: two in `node_restart`, one
elsewhere (then `start_protocol` waits for the old loop to leave). Overlap
needs a stop, a start and an UPDATE in each of two listeners, all of which
happen. HELLOs come from b only, so c is a neighbour without an entry, which is
the `None` case of the handlers. `node_restart` has no HELLO: with one it has
2.1 million states and the same result, and the purge of a gateway is in
`node_cleanup`. `MetricModulus` is above every metric that
occurs, in these instances the messages being constant.

`DistanceVector` runs follow one destination, since destinations do not influence
each other. Routes arrive while `info.metric + 1 < MetricModulus`
(`BelowWrap`, a bound of its own in `Receive`; the modulus is 6 in the line): counting up is
cut there, where the code would go on to 2^32. The line has routes that travel two
hops and neighbours that count up against each other, and wrong routes that a better
one has to displace. Four routers in a ring with a tail, needed for
`NoForwardingLoop`, are too many for the liveness check (222 000 states without it).

`NeighborQuery` has two instances. In `life` both clients start and one stops, so
starts and a stop meet at the mutex in every order; two generations are what a
restart needs, and `start_channel` waits for one that has left no task or loop behind
(`Vacant`), so a third overlapping generation is cut. There is one timed task, the sweep:
timed tasks do not differ in `Lifecycle`, and beside `listen_task` it gives every order of
two. In `query` `hello_task` runs beside the sweep, one client starts the protocol
and asks for our own neighbours, the other inspects and asks for those of two peers, one question
after the other, so that answers to an earlier question meet a later one; two ids are
reused for ever. It has one generation and no stop: a stop while a query waits cannot
happen, the query holding the mutex, and stops and restarts between questions are
covered by the theorems.

`link_timers` has the code's five constants, in seconds, two metrics and no route, so that
a route gets better and worse, goes and comes back, and one lost message in a row. `since`, `differs` and the ages
stop counting one above anything they are compared with.

### Fairness

`RouterNode`: strong fairness of the cleanup task, of each listener's handling of
an UPDATE it has taken, and of its exit once signalled. The runtime polls every
ready task and the interval keeps ticking, which gives weak fairness; a task waits
for a tokio mutex in a queue, so it gets a lock that is free again and again; and
`select!` picks a ready branch at random. No message, timeout or command has to
come.

`DistanceVector`: a router that has a shortest route again and again sends it now and then
while it has it (strong fairness): `ROUTE_TIMEOUT` is two update intervals, so each route
is advertised at least once before it goes. The best a router can be sent, if it is sent
again and again, arrives now and then while it is of use (strong fairness: an assumption
about the network, without which no protocol converges). Dead processes are started again
(an assumption about the operator). Expiry needs no fairness and is not restricted: it is
part of every behaviour in which the code runs for more than 21 s, so the premise of
`Convergence` speaks of failures only (`NeighborDies`, `Crash`).

`NeighborQuery`: strong fairness of each client, since tokio's mutex is a queue, every
ready task is polled and the 5 s of a query pass. A socket loop finishes its datagram
(weak fairness), and its `select!` picks a ready branch at random, so a signal or closed
channel is not passed over for ever (strong fairness). No task is polled for ever: one
that has been aborted leaves in the end (weak fairness). No message has to arrive and no
command has to be given. A handler that waits for a lock is part of what finishes.
`query` needs the clients' fairness only.

`LinkTimers` states bounds in time as invariants and needs none.

## 4. What the code does not do

The five violation runs are disagreements between the documents and the code.

- `TrackedRoutes`. The report (line 93) has the cleanup task remove obsolete
  routes. States are recorded before the routes are applied, and the cleanup task
  can come in between: it has just declared the sender dead, drops the state its
  UPDATE has recorded, the route is then applied, and nothing expires it.
- `NoRouteViaDead`. Line 175 has all routes through a failed neighbour removed.
  `determine_next_hop` keeps a third party as next hop, so another router's UPDATE,
  in hand or later, brings such a route back after the purge, and the neighbour, already marked dead,
  is not purged again.
- `KernelWithinTable` under `CrashSpec`. Line 364 has clean restarts and
  `routing_table.rs:330` a clean-up on shutdown. No signal is handled, so `Drop` does
  not run when the process is killed.
- `NoForwardingLoop`. Line 181 claims that loops are avoided. r2's route expires,
  r4 still has one it learned over r3 from r2, r2 takes it: r2, r4, r3, r2.
- `AdvertisedRouteStays`. Line 87 has `ROUTE_TIMEOUT` for obsolete routes.
  `should_accept_route` refuses a route that is the same as before, only accepted
  routes renew their state, and so a route that is advertised every 8 s is removed 16 to
  21 s after it was learned, and comes back with the next UPDATE.

Seen while modelling, without a run of their own:

- Convergence within 30 s (line 242) is not a state that lasts: learned routes of a stable
  network expire 16 to 21 s after they were learned and come back with an UPDATE
  (`AdvertisedRouteStays`), at other times at each hop, so a router two hops away can be
  without a route at any later time. `Convergence` says what is left of it.
- Line 110 has a clean stop of all tasks ("arrêt propre de toutes les tâches"). Nothing
  awaits the aborted tasks, so a burst of HELLOs or UPDATEs, a cleanup or a debug print
  that is being polled goes on after the stop was answered, and after a quick start beside
  the tasks of the next generation (`ending`, `leaving`).
- Death is detected after up to 17 s, not 12 (lines 168 and 240): the cleanup interval
  comes on top (`DeathDetected`).
- A neighbour's next hop can be our own address, which the kernel refuses, and the abort
  of a removal leaves a table entry without its system route. `TableApplied` says that
  such differences come from a refused add or from a removal under way only.
- The state of a route that was replaced by a failover expires later, and its removal,
  by destination alone (`route_manager.rs:227`), takes out the replacement; line 527 has
  no route lost in a failover.
- When a stop comes before `listen_task` has run for the first time, and the abort finds
  it just after it spawned the loop, that loop has subscribed too late: it is neither
  signalled nor aborted, and leaves at the next datagram or start (line 110: "arrêt propre
  de toutes les tâches"). `ListenersLeave` therefore excepts it (`deaf`) until the channel
  is replaced.
- Request ids are called unique (`neighbor_manager.rs:57`, line 155) and are the time in
  milliseconds with a constant address. Where two requests do share one, a late answer to
  the first is given to the second: with `UniqueIds = FALSE`, TLC finds
  `ImplementsService` violated (`NoRequestLeftBehind` is proved for both values).
- `neighbors` is never shrunk; UPDATEs above 4096 bytes are cut and dropped.

## 5. What is proved

All theorems hold for every value of the constants that meets the assumptions.

| Theorem | Statement |
|---|---|
| `RouterNodeProofs!Invariance` | `Spec => []IInv` |
| `RouterNodeProofs!TypeCorrect` | `Spec => []TypeOK` |
| `RouterNodeProofs!OneRouteEach` | `Spec => []OneRoutePerSubnet` |
| `RouterNodeProofs!DirectRoutesKept` | `Spec => []DirectRoutesStay` |
| `RouterNodeProofs!KernelCovered` | `Spec => []KernelWithinTable` |
| `RouterNodeProofs!OnlyImprovements` | `Spec => RouteOnlyImproves` |
| `RouterNodeProofs!DeadAreSilent` | `Spec => []DeadMeansSilent` |
| `RouterNodeProofs!TableAndSystemAgree` | `Spec => TableApplied` |
| `RoutingTableVecProofs!VecAppliesAnUpdate` | `update_routing_table` on the Vec gives the entries it gives on the set |
| `RoutingTableVecProofs!VecForgetsAGateway` | `remove_routes_via_nexthop` on the Vec removes exactly the learned entries via the gateway |
| `TableServiceProofs!HandlersServeTheTable` | `Spec => TableServed` |
| `TableServiceProofs!TracksAreKept` | `Spec => TrackedUntilRemoved` |
| `DistanceVectorProofs!ExchangeTypeCorrect` | `Spec => []TypeOK` |
| `DistanceVectorProofs!NeverTooClose` | `Spec => []MetricNeverBelowDistance` |
| `DistanceVectorProofs!ExchangeServesTheTables` | `Spec => TablesServed` |
| `DistanceVectorProofs!ExchangeMakesNoLoop` | `Spec => ExchangeKeepsDescent` |
| `DistanceVectorProofs!CloserGatewaysMakeNoLoop` | `Spec => [](Descends => NoForwardingLoop)` |
| `DistanceVectorProofs!NoLoopWhileQuiet` | `QuietSpec => []NoForwardingLoop` |
| `DistanceVectorProofs!NothingToImproveIsShortest` | `DistanceIsReached` implies `Spec => []SettledIsShortest` |
| `DistanceVectorProofs!ExchangeKeepsConvergence` | `DistanceIsReached` implies `Spec => ExchangeKeepsShortest` |
| `NeighborQueryProofs!TypeCorrect` | `Spec => []TypeOK` |
| `NeighborQueryProofs!StartNeverLocksItself` | `Spec => []NeverSelfLocked` |
| `NeighborQueryProofs!GenerationsAreReached` | `Spec => []OneGeneration` |
| `NeighborQueryProofs!StopReachesTimedTasks` | `Spec => []StopReachesAll` |
| `NeighborQueryProofs!NoRequestIsLeftBehind` | `Spec => []NoRequestLeftBehind` |
| `NeighborQueryProofs!QueriesImplementService` | `UniqueIds` implies `Spec => Service!Spec` |
| `CommandProofs!CommandsTakeEffectAtOnce` | `Spec => CommandsAreAtomic` |
| `LinkTimersProofs!TimersTypeCorrect` | `Spec => []TypeOK` |
| `LinkTimersProofs!DeathIsDetected` | `Spec => []DeathDetected` |
| `LinkTimersProofs!DeadRoutesGo` | `Spec => []DeadRouteGoes` |
| `LinkTimersProofs!NoNeighborDiesFalsely` | `(MaxLost + 1) * HELLO_INTERVAL < NEIGHBOR_TIMEOUT` implies `Spec => NoFalseDeath` |
| `LinkTimersProofs!NewsAlwaysArrives` | `CLEANUP_INTERVAL < UPDATE_INTERVAL` and `ROUTE_TIMEOUT` a multiple of `UPDATE_INTERVAL` imply `Spec => []NewsArrives` |

**Assumptions.** `RouteTypes`: the zero host part exists, 0.0.0.0 is no address,
the modulus is above 1. `RouterNode`: our id is not a neighbour's key (guaranteed
by `Receivable`), interfaces are among the networks of the machine, no
interface has the address of its network, no two interfaces share a subnet.
`DistanceVector`: router names are host parts, and `Distance` is 0 where a router
is attached and at most one more than a neighbour's; for the two theorems on shortest
routes also that it is the real one (`DistanceIsReached`: below the modulus, and one more
than some neighbour's unless attached).
`Lifecycle` and `NeighborQuery`: names of kinds do not clash, "pending" is among the
timed tasks. `LinkTimers`: intervals are positive and `NEIGHBOR_TIMEOUT` is not above
`ROUTE_TIMEOUT`, as in the code.

**RouterNode.** None of the four invariants is inductive. A table with unique
destinations stays so only if what listeners hold is learned and in network form
(`HandlerShape`), and if no step of the cleanup task removes an entry while a
listener applies (`LockExclusion`). The Direct entries survive removal by
destination because states record learned routes only (`StatesShape`), whose
destinations have no host bits, while an interface's prefix has
(`InterfaceAssumption`). The system's routes stay within the table because
`remove_route`, between its two halves, is at an entry the system has lost already
(`RemovingShape`), which is also why an abort there is harmless for this property.
`IInv` is the conjunction of these with `TypeOK`, `TableShape` and `KernelShape`.
`RoutingTableProofs` classifies what `update_routing_table` can do to any table
(`UpdateOutcome`): nothing, a new entry, an entry gone, or one in the place of an
old one with no lower metric. `UpdateKeepsShape` follows, and with it the step for
`ApplyRoute`; each other action disturbs one or two conjuncts. `DeadMeansSilent`
needs only types: it is inductive, since both handlers reset the timestamp and the
mark in one step.

`TableApplied` follows from `IInv` step by step: a supersession installs what it
withdrew the predecessor of, and `remove_route` names the entry it is at.

**The Vec.** `RemoveOne`, `PositionFinds`, `PushOne` and `AssignOne` say what the four
accesses by index do to the entries of a Vec with one entry per destination; the
operations follow case by case. The loop of `remove_routes_via_nexthop` is a recursive
function on indices, `purging`: that there is one (`LoopExists`) and that, once the
indices from i on are done, those before i are where they were and the others are rid of
what goes via the gateway (`LoopPurges`) are shown by a least counterexample
(`LeastNatural`). Hence no assumption but `Distinct`, which every operation keeps.

**TableService.** What listeners hold was offered to them (`OffersInv`). For `ApplyRoute`,
`UpdateTakes` says that a route that `should_accept_route` would refuse now changes
nothing, and any other either is not valid and changes nothing or takes the place of all
the table has for its subnet; so it does not matter that it was accepted earlier. The
cleanup task removes learned entries only, by `IInv`. For `TracksAreKept`, `KeysInv`
says that what is recorded under a raw prefix is a route to its network: the removal of a
state therefore goes on to remove the very entry that the state tracked.

**DistanceVector.** The invariant adds that UPDATEs under way are honest too. It is
kept because `Distance` is that of the whole network, so a failure never makes a
message under way too good, and because each hop adds one.

`Closer(x, d, m)`: router x has an entry for d with a metric below m. `Descends` has it
for every gateway of an entry and of an UPDATE under way, third-party next hops included,
and for every sender of what is under way. A message received puts a metric one above
the advertised into the table, and takes the place of no lower one (`ReceivedIsCloser`),
so nobody's own way gets longer and `Descends` is kept (`ExchangeMakesNoLoop`). Where it
holds, metrics strictly decrease along gateways, and a loop would have an entry of least
metric with a gateway that has less (`DescentHasNoLoop`). It holds at the start, so
without expiry and failure there is no loop (`NoLoopWhileQuiet`). What breaks `Descends`
is removal alone: the loop of `dv_loop` takes an expiry.

What `Convergence` has of safety is proved in two halves. `NothingToImproveIsShortest`: a
settled router has as short a way as each neighbour offers it, since an offer to a subnet
it is not attached to passes every filter unless the table has as good (`SettledFollows`).
Take the least distance at which a router is without a shortest route: it is not attached,
the neighbour one hop closer is right and has sent so, hence the router has a metric no
higher than its distance, and by `MetricNeverBelowDistance` no lower (`SettledConverges`).
`ExchangeKeepsConvergence` joins `ReceivedIsCloser`, by which nobody's way gets longer, with
`MetricNeverBelowDistance`. Missing is that the exchange comes to have shortest routes, which
is liveness.

**NeighborQuery.** `OneGeneration` is not inductive: a new channel must find no task
with its name (`FreshChannel`). So the invariant says that a client is in the middle of a
command exactly while it holds the mutex, whose command it then is (`Control`), and that
from the moment a stop is over until the next start has spawned its tasks the timed tasks
that are left have been aborted (`QuietUntilSpawned`); that a stop reaches every timed task
follows from `OneGeneration` again, by which each that is not aborted has its handle. A request in the map
is its client's, who is at it, and none is left once something was put into the
channel (`RequestInv`). For the refinement, `AnswerInv`
says that every message that carries the id of the request under way was sent for it, so
the response to be accepted is of the router asked about; this is where `UniqueIds` is
needed. Each step of `NeighborQuery` is then `Ask`, `Serve`, `Conclude`, `Tell` or a
stutter. For `CommandsTakeEffectAtOnce`, the steps between a command's beginning and
its effect are stutters because its client alone holds the mutex (`Control`); a timed
task begins to work only while `is_running`, and, by `OneGeneration`, beside no other
of its kind that has not been aborted; and a stop ends all that work or sends them away.

**LinkTimers.** `TimerInv`: an age and the seconds left to the next cleanup are together
no more than timeout and cleanup interval, as long as the neighbour is alive (or unknown,
for the route's age), and after a stop the time since is no more than that age; a
neighbour marked dead has no route and stays marked unless it is heard. `HelloInv`, for
`NoNeighborDiesFalsely`: since the last HELLO that arrived, or since the neighbour was
started, no more time has passed than the HELLOs lost in a row account for. `NewsInv`,
for `NewsAlwaysArrives`: while the neighbour sends, a route other than the one offered is
as old as the difference at least; its age, or the time since the last start, is
in phase with the UPDATEs (`Phased`), so a route that reaches `ROUTE_TIMEOUT`, a multiple
of the update interval, does so at an UPDATE, and the cleanup that removes it comes before
the next. That a route which is neither there nor offered is no difference (`NoNews`) is
what a withdrawal adds. The theorem assumes that multiple (16 = 2 * 8) and a cleanup more frequent than
UPDATEs (5 < 8).

**Only model-checked:** liveness (`ExpiredStatesGo`, `SilentNeighborsDie`, `Convergence`,
`CommandsServed`, `ListenersLeave`, and the fairness part of `ImplementsService`), which
is beyond the prover. Every invariant and every safety property of a passing run is a
theorem.

## 6. Not modelled

Parsing and serialization, sizes of datagrams, logging and what the debug task prints,
interface discovery, the fields of the control server's replies and its TCP errors, the
command line. The kernel, UDP, tokio's mutexes, channels and intervals are modelled from
how the code uses them.

## 7. Plan

Done, in this order: `RouteTypes`, `RoutingTable`, `RouterNode`, their proofs,
`DistanceVector` and its proofs; `TableApplied`; `Lifecycle`, `NeighborQuery`,
`QueryService` and their proofs; `LinkTimers` and its proofs; `CommandService`, loop
freedom of the exchange, the safety of convergence, `TableService`, `TrackedUntilRemoved`, `RoutingTableVec`, and
their proofs. Left:

1. A ranking for convergence: in a `DistanceVector` without expiry and failures metrics never
   rise and each accepted route that gains something lowers one.
2. `LinkTimers` over two hops: how the timeouts add up along a path.
3. Sizes of UPDATEs: the table of which a neighbour hears nothing.
