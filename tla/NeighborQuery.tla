---------------------------- MODULE NeighborQuery ----------------------------
(***************************************************************************)
(* The neighbors_of command (src/protocol/neighbor_manager.rs and the      *)
(* handlers of src/protocol/task_manager.rs), beside the commands and      *)
(* tasks of Lifecycle.                                                     *)
(*                                                                         *)
(* The client's task records the request, broadcasts it, and waits for its *)
(* oneshot channel or for 5 seconds.  A socket loop hands a response to    *)
(* whatever request is recorded under its id.  The sweep, a timed task,    *)
(* takes out requests that are more than 30 seconds old.  The map of       *)
(* requests has a mutex that nobody keeps over an await.                   *)
(*                                                                         *)
(* Messages are lost, late, repeated and out of order.                     *)
(***************************************************************************)
EXTENDS Lifecycle

CONSTANTS
    Self,       \* our router_id
    Peer,       \* those of the routers that hear our requests
    Asks,       \* the routers each client may ask about
    RequestId,  \* bounds the ids that messages under way can have
    UniqueIds,  \* no two requests get one id while messages carry it
    Failed      \* the reply without neighbours

Router == Peer \cup {Self}

ASSUME QueryAssumption ==
    /\ Self \notin Peer
    /\ None \notin RequestId
    /\ {None, Failed, "closed"} \cap Router = {}
    /\ None # Failed
    /\ UniqueIds \in BOOLEAN
    /\ "pending" \in TimedTask
    /\ Asks \in [Client -> SUBSET Router]

VARIABLES
    question,    \* the router each client asks about, or None
    request_id,  \* the id its request has, or None
    pending,     \* request id -> the client whose channel is the responder
    overdue,     \* the recorded requests older than 30 seconds
    oneshot,     \* what is in each client's channel: the responding router,
                 \* "closed", or None
    outcome,     \* what the client is going to be told
    expired,     \* expired_requests of each generation's sweep
    net          \* messages under way

query == <<question, request_id, pending, overdue, oneshot, outcome, expired, net>>
vars == <<life, query>>

NeighborRequest(id, target) == [type |-> "request", id |-> id, router |-> target]

NeighborResponse(id, responder) == [type |-> "response", id |-> id, router |-> responder]

Init ==
    /\ LifeInit
    /\ question = [c \in Client |-> None]
    /\ request_id = [c \in Client |-> None]
    /\ pending = [id \in RequestId |-> None]
    /\ overdue = {}
    /\ oneshot = [c \in Client |-> None]
    /\ outcome = [c \in Client |-> None]
    /\ expired = [g \in Generation |-> {}]
    /\ net = {}

(* A step of a client that is in the middle of its query. *)
InQuery(c, here) ==
    /\ step[c] = here
    /\ command[c] = "neighbors_of"
    /\ UNCHANGED <<is_running, channel, tasks, command>>

(***************************************************************************)
(* The asking client                                                       *)
(***************************************************************************)
ask_neighbors_of(c, target) ==
    /\ handle_client(c, "neighbors_of")
    /\ target \in Asks[c]
    /\ question' = [question EXCEPT ![c] = target]
    /\ UNCHANGED <<request_id, pending, overdue, oneshot, outcome, expired, net>>

MutAsksItself(c) ==
    /\ begin(c, "neighbors_of")
    /\ holder' = c
    /\ Goto(c, "request")
    /\ UNCHANGED <<command, is_running, channel, tasks, query>>

(* Our own neighbours are at hand; others have to be asked for. *)
get_neighbors_of(c) ==
    /\ begin(c, "neighbors_of")
    /\ holder' = c
    /\ Goto(c, IF question[c] = Self THEN "list" ELSE "request")
    /\ UNCHANGED <<command, is_running, channel, tasks, query>>

get_neighbors_list(c) ==
    /\ InQuery(c, "list")
    /\ outcome' = [outcome EXCEPT ![c] = Self]
    /\ finish(c)
    /\ UNCHANGED <<question, request_id, pending, overdue, oneshot, expired, net>>

(* The messages that are still under way when an id is given out again. *)
remaining(id) == IF UniqueIds THEN {m \in net : m.id # id} ELSE net

(* The id is the time in milliseconds. *)
record_request(c, id) ==
    /\ InQuery(c, "request")
    /\ request_id' = [request_id EXCEPT ![c] = id]
    /\ pending' = [pending EXCEPT ![id] = c]
    /\ overdue' = overdue \ {id}
    /\ oneshot' = [oneshot EXCEPT ![c] = None]
    /\ net' = remaining(id)
    /\ Goto(c, "send")
    /\ UNCHANGED <<holder, question, outcome, expired>>

send_neighbor_request(c) ==
    /\ InQuery(c, "send")
    /\ net' = net \cup {NeighborRequest(request_id[c], question[c])}
    /\ Goto(c, "wait")
    /\ UNCHANGED <<holder, question, request_id, pending, overdue, oneshot, outcome, expired>>

answered(c) ==
    /\ InQuery(c, "wait")
    /\ oneshot[c] \in Router
    /\ outcome' = [outcome EXCEPT ![c] = oneshot[c]]
    /\ finish(c)
    /\ UNCHANGED <<question, request_id, pending, overdue, oneshot, expired, net>>

channel_closed(c) ==
    /\ InQuery(c, "wait")
    /\ oneshot[c] = "closed"
    /\ Goto(c, "cleanup")
    /\ UNCHANGED <<holder, query>>

(* The timeout looks at the channel before it looks at the clock. *)
timed_out(c) ==
    /\ InQuery(c, "wait")
    /\ oneshot[c] = None
    /\ Goto(c, "cleanup")
    /\ UNCHANGED <<holder, query>>

MutNoCleanup(c) ==
    /\ InQuery(c, "cleanup")
    /\ outcome' = [outcome EXCEPT ![c] = Failed]
    /\ finish(c)
    /\ UNCHANGED <<question, request_id, pending, overdue, oneshot, expired, net>>

cleanup_pending_request(c) ==
    /\ InQuery(c, "cleanup")
    /\ pending' = [pending EXCEPT ![request_id[c]] = None]
    /\ overdue' = overdue \ {request_id[c]}
    /\ outcome' = [outcome EXCEPT ![c] = Failed]
    /\ finish(c)
    /\ UNCHANGED <<question, request_id, oneshot, expired, net>>

(* The reply is on its way; nothing of the command is left. *)
write_answer(c) ==
    /\ write_reply(c)
    /\ question' = [question EXCEPT ![c] = None]
    /\ request_id' = [request_id EXCEPT ![c] = None]
    /\ oneshot' = [oneshot EXCEPT ![c] = None]
    /\ outcome' = [outcome EXCEPT ![c] = None]
    /\ UNCHANGED <<pending, overdue, expired, net>>

(***************************************************************************)
(* Requests and responses.  A peer runs the same program: it answers the   *)
(* requests that name it, as often as it receives them.                    *)
(***************************************************************************)
MutEveryPeerAnswers(m, peer) ==
    /\ m.type = "request"
    /\ net' = net \cup {NeighborResponse(m.id, peer)}
    /\ UNCHANGED <<life, question, request_id, pending, overdue, oneshot, outcome, expired>>

handle_neighbor_request(m, peer) ==
    /\ m.type = "request"
    /\ m.router = peer
    /\ net' = net \cup {NeighborResponse(m.id, peer)}
    /\ UNCHANGED <<life, question, request_id, pending, overdue, oneshot, outcome, expired>>

(* The channel takes the neighbours if somebody still waits at it. *)
Receiving(c) == step[c] \in {"send", "wait"} /\ oneshot[c] = None

respond(id, what) ==
    LET c == pending[id] IN
    oneshot' = IF c # None /\ Receiving(c) THEN [oneshot EXCEPT ![c] = what] ELSE oneshot

(* A socket loop takes the response; only the id is compared. *)
handle_neighbor_response(m, g) ==
    /\ m.type = "response"
    /\ loop[g] = "waiting"
    /\ is_running
    /\ respond(m.id, m.router)
    /\ pending' = [pending EXCEPT ![m.id] = None]
    /\ overdue' = overdue \ {m.id}
    /\ UNCHANGED <<life, question, request_id, outcome, expired, net>>

Lose(m) ==
    /\ net' = net \ {m}
    /\ UNCHANGED <<life, question, request_id, pending, overdue, oneshot, outcome, expired>>

(***************************************************************************)
(* The sweep.  The age of a request is a difference of two readings of the *)
(* system's clock, which can be set: a request that has waited for less    *)
(* than 5 seconds can be more than 30 seconds old.                         *)
(***************************************************************************)
ClockSet(id) ==
    /\ pending[id] # None
    /\ id \notin overdue
    /\ overdue' = overdue \cup {id}
    /\ UNCHANGED <<life, question, request_id, pending, oneshot, outcome, expired, net>>

SweepScan(g) ==
    /\ task["pending"][g] = "working"
    /\ expired[g] = {}
    /\ expired' = [expired EXCEPT ![g] = overdue]
    /\ IF overdue = {} THEN TickDone("pending", g) ELSE UNCHANGED life
    /\ UNCHANGED <<question, request_id, pending, overdue, oneshot, outcome, net>>

(* The mutex was given back after the scan: a request may be gone by now.  *)
(* Taking one out drops its responder, which closes the channel.           *)
SweepRemove(g) ==
    /\ expired[g] # {}
    /\ pending' = [id \in RequestId |-> IF id \in expired[g] THEN None ELSE pending[id]]
    /\ overdue' = overdue \ expired[g]
    /\ oneshot' = [c \in Client |->
           IF Receiving(c) /\ \E id \in expired[g] : pending[id] = c
           THEN "closed" ELSE oneshot[c]]
    /\ expired' = [expired EXCEPT ![g] = {}]
    /\ TickDone("pending", g)
    /\ UNCHANGED <<question, request_id, outcome, net>>

(* An aborted sweep loses its list. *)
KeepSweeps ==
    expired' = [g \in Generation |-> IF task'["pending"][g] = "working" THEN expired[g] ELSE {}]

(***************************************************************************)
(* Specification                                                           *)
(***************************************************************************)
Serving(c) ==
    \/ get_neighbors_of(c)
    \/ get_neighbors_list(c)
    \/ \E id \in RequestId : record_request(c, id)
    \/ send_neighbor_request(c)
    \/ answered(c)
    \/ channel_closed(c)
    \/ timed_out(c)
    \/ cleanup_pending_request(c)
    \/ write_answer(c)

ControlStep(c) ==
    /\ StartOrStop(c)
    /\ KeepSweeps
    /\ UNCHANGED <<question, request_id, pending, overdue, oneshot, outcome, net>>

Sweep(g) == SweepScan(g) \/ SweepRemove(g)

Yielding(k, g) ==
    /\ Yield(k, g)
    /\ KeepSweeps
    /\ UNCHANGED <<question, request_id, pending, overdue, oneshot, outcome, net>>

TimedStep(k, g) ==
    \/ (Tick(k, g) \/ TaskShutdown(k, g)) /\ UNCHANGED query
    \/ k # "pending" /\ TickDone(k, g) /\ UNCHANGED query
    \/ Yielding(k, g)

Next ==
    \/ \E c \in Client :
          \/ \E what \in Command \ {"neighbors_of"} : handle_client(c, what) /\ UNCHANGED query
          \/ \E target \in Router : ask_neighbors_of(c, target)
          \/ ControlStep(c)
          \/ Serving(c)
    \/ \E g \in Generation :
          \/ Listening(g) /\ UNCHANGED query
          \/ Yielding("listen", g)
          \/ \E k \in TimedTask : TimedStep(k, g)
          \/ Sweep(g)
          \/ \E m \in net : handle_neighbor_response(m, g)
    \/ \E m \in net :
          \/ \E peer \in Peer : handle_neighbor_request(m, peer)
          \/ Lose(m)
    \/ \E id \in RequestId : ClockSet(id)

Spec == Init /\ [][Next]_vars

(* The runtime polls every task that is ready, and the 5 seconds pass.     *)
(* tokio's mutex is a queue, so a client that waits for it gets it, though *)
(* others take it again and again; and select! picks at random, so a       *)
(* signal is not passed over for ever.  No message has to arrive and no    *)
(* clock has to be set.                                                    *)
ClientFairness == \A c \in Client : SF_vars(ControlStep(c) \/ Serving(c))

LoopFairness ==
    \A g \in Generation :
        /\ WF_vars(DatagramDone(g) /\ UNCHANGED query)
        /\ SF_vars(LoopShutdown(g) /\ UNCHANGED query)

(* No task is polled for ever. *)
YieldFairness == \A g \in Generation : WF_vars(\E k \in Task : Yielding(k, g))

ClientSpec == Spec /\ ClientFairness

FairSpec == ClientSpec /\ LoopFairness /\ YieldFairness

(***************************************************************************)
(* Properties                                                              *)
(***************************************************************************)
TypeOK ==
    /\ LifeTypeOK
    /\ step \in [Client -> {"idle", "lock", "reply",
                            "start_flag", "start_channel", "start_tasks",
                            "stop_flag", "stop_signal", "stop_abort",
                            "list", "request", "send", "wait", "cleanup"}]
    /\ question \in [Client -> Router \cup {None}]
    /\ request_id \in [Client -> RequestId \cup {None}]
    /\ pending \in [RequestId -> Client \cup {None}]
    /\ overdue \in SUBSET RequestId
    /\ oneshot \in [Client -> Router \cup {None, "closed"}]
    /\ outcome \in [Client -> Router \cup {None, Failed}]
    /\ expired \in [Generation -> SUBSET RequestId]
    /\ net \subseteq [type : {"request", "response"}, id : RequestId, router : Peer]

(* A request is in the map only while the client that made it is at it,    *)
(* whatever becomes of its answer: none is left behind for the sweep, and  *)
(* no late answer finds one.                                               *)
NoRequestLeftBehind ==
    \A id \in RequestId : pending[id] # None =>
        /\ holder = pending[id]
        /\ request_id[holder] = id
        /\ step[holder] \in {"send", "wait", "cleanup"}

(* Every command that a client has given is carried out and replied to,    *)
(* whatever the other clients do.                                          *)
CommandsServed == \A c \in Client : step[c] # "idle" ~> step[c] = "idle"

(* How the service's variables are read off. *)
Service == INSTANCE QueryService WITH
    serving <- IF holder # None /\ command[holder] = "neighbors_of" THEN holder ELSE None,
    answer <- [c \in Client |-> IF step[c] = "reply" THEN outcome[c] ELSE None]

(* The whole of it implements the service: each question is answered with  *)
(* the neighbours of the router that was asked about or with a failure,    *)
(* one question at a time, and always in the end.                          *)
ImplementsService == Service!FairSpec

(* A start has taken effect when is_running is set, a stop when the tasks  *)
(* are aborted; until then the protocol counts as running.  Leaving is who *)
(* has been aborted and is polled still.                                   *)
Commands == INSTANCE CommandService WITH
    Worker <- Generation,
    request <- [c \in Client |-> IF step[c] = "idle" THEN "none" ELSE command[c]],
    done <- {c \in Client : step[c] \in {"start_channel", "start_tasks", "reply"}},
    running <- is_running \/ \E c \in Client : step[c] \in {"stop_signal", "stop_abort"},
    working <- {w \in TimedTask \X Generation : task[w[1]][w[2]] = "working"},
    leaving <- {w \in TimedTask \X Generation : w \in ending},
    handling <- {g \in Generation : loop[g] = "working"}

(* Starting and stopping takes many steps, with tasks between them, and    *)
(* clients at the same time; yet it is as if each command was done at      *)
(* once, some time before its reply: no task begins to work for a start or *)
(* goes on after a stop but those the stop has sent away, which finish.    *)
CommandsAreAtomic == Commands!Spec
=============================================================================
