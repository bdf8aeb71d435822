------------------------ MODULE NeighborQueryProofs ------------------------
(***************************************************************************)
(* For any clients, peers, tasks and messages: the protocol is started and *)
(* stopped without forgetting a task, and neighbors_of gives its client no *)
(* other router's neighbours.                                              *)
(***************************************************************************)
EXTENDS NeighborQuery, TLAPS

Starting == {"start_flag", "start_channel", "start_tasks"}

Stopping == {"stop_flag", "stop_signal", "stop_abort"}

Querying == {"list", "request", "send", "wait", "cleanup"}

(* A client is in the middle of a command exactly while it holds the       *)
(* mutex, and is_running is what the command has made it.                  *)
Control ==
    \A c \in Client :
        /\ step[c] \in Starting \cup Stopping \cup Querying <=> holder = c
        /\ step[c] \in Starting => command[c] = "start"
        /\ step[c] \in Stopping => command[c] = "stop"
        /\ step[c] \in Querying => command[c] = "neighbors_of"
        /\ step[c] = "start_flag" => ~is_running
        /\ step[c] = "start_tasks" => shutdown_tx # None
        /\ step[c] \in {"start_channel", "start_tasks", "stop_flag"} => is_running
        /\ step[c] \in {"stop_signal", "stop_abort"} => ~is_running

(* The timed tasks that are left have been aborted. *)
Quiet == \A k \in TimedTask : \A g \in Generation : task[k][g] # "off" => <<k, g>> \in ending

(* The tasks are spawned for a channel that no older task has. *)
FreshChannel ==
    \A c \in Client : step[c] = "start_tasks" => \A k \in Task : task[k][shutdown_tx] = "off"

(* Quiet is what start_protocol finds, and keeps until it spawns the tasks. *)
QuietUntilSpawned ==
    \/ is_running /\ \A c \in Client : step[c] \notin Starting
    \/ \E c \in Client : step[c] \in {"stop_signal", "stop_abort"}
    \/ Quiet

(* What a client asks and is told goes with the step it is at. *)
Asked ==
    \A c \in Client :
        /\ question[c] # None <=> command[c] = "neighbors_of" /\ step[c] # "idle"
        /\ outcome[c] # None <=> command[c] = "neighbors_of" /\ step[c] = "reply"
        /\ step[c] = "list" => question[c] = Self
        /\ step[c] \in Querying \ {"list"} => question[c] \in Peer
        /\ step[c] \in {"send", "wait", "cleanup"} => request_id[c] \in RequestId

LifeInv ==
    /\ TypeOK
    /\ Control
    /\ Asked
    /\ OneGeneration
    /\ QuietUntilSpawned
    /\ FreshChannel

(***************************************************************************)
(* Types                                                                   *)
(***************************************************************************)
LEMMA InitLifeInv == Init => LifeInv
<1> SUFFICES ASSUME Init
             PROVE  LifeInv
  OBVIOUS
<1>1. TypeOK
  BY NoneAssumption, QueryAssumption
  DEF Init, LifeInit, TypeOK, LifeTypeOK, Command, Router
<1>2. Control
  BY NoneAssumption DEF Init, LifeInit, Control, Starting, Stopping, Querying
<1>3. Asked
  BY DEF Init, LifeInit, Asked, Querying
<1>4. OneGeneration /\ QuietUntilSpawned /\ FreshChannel
  BY DEF Init, LifeInit, OneGeneration, QuietUntilSpawned, Quiet, FreshChannel, Task
<1> QED
  BY <1>1, <1>2, <1>3, <1>4 DEF LifeInv

LEMMA ControlStepType ==
    ASSUME TypeOK, NEW c \in Client, ControlStep(c)
    PROVE  TypeOK'
<1>1. expired' \in [Generation -> SUBSET RequestId]
  BY DEF ControlStep, KeepSweeps, TypeOK
<1>2. LifeTypeOK' /\ step' \in [Client -> {"idle", "lock", "reply",
                            "start_flag", "start_channel", "start_tasks",
                            "stop_flag", "stop_signal", "stop_abort",
                            "list", "request", "send", "wait", "cleanup"}]
  <2>1. CASE inspect(c)
    BY <2>1 DEF inspect, begin, finish, Goto, TypeOK, LifeTypeOK, channel, tasks
  <2>2. CASE begin_start(c)
    BY <2>2 DEF begin_start, begin, finish, Goto, TypeOK, LifeTypeOK, channel, tasks
  <2>3. CASE start_flag(c)
    BY <2>3 DEF start_flag, Goto, TypeOK, LifeTypeOK, channel, tasks
  <2>4. CASE \E g \in Generation : start_channel(c, g)
    BY <2>4 DEF start_channel, Goto, TypeOK, LifeTypeOK
  <2>5. CASE start_tasks(c)
    BY <2>5 DEF start_tasks, aborted, off_or_polled, finish, Goto, TypeOK, LifeTypeOK, channel
  <2>6. CASE begin_stop(c)
    BY <2>6 DEF begin_stop, begin, finish, Goto, TypeOK, LifeTypeOK, channel, tasks
  <2>7. CASE stop_flag(c)
    BY <2>7 DEF stop_flag, Goto, TypeOK, LifeTypeOK, channel, tasks
  <2>8. CASE stop_signal(c)
    BY <2>8 DEF stop_signal, Goto, TypeOK, LifeTypeOK, tasks
  <2>9. CASE stop_abort(c)
    BY <2>9 DEF stop_abort, aborted, off_or_polled, finish, Goto, TypeOK, LifeTypeOK, channel
  <2> QED
    BY <2>1, <2>2, <2>3, <2>4, <2>5, <2>6, <2>7, <2>8, <2>9 DEF ControlStep, StartOrStop
<1> QED
  BY <1>1, <1>2 DEF TypeOK, ControlStep

LEMMA ServingType ==
    ASSUME TypeOK, Asked, NEW c \in Client, Serving(c)
    PROVE  TypeOK'
<1> USE DEF TypeOK, LifeTypeOK
<1>1. CASE get_neighbors_of(c)
  BY <1>1 DEF get_neighbors_of, begin, Goto, channel, tasks, query
<1>2. CASE get_neighbors_list(c)
  BY <1>2 DEF get_neighbors_list, InQuery, finish, Goto, channel, tasks, Router
<1>3. CASE \E id \in RequestId : record_request(c, id)
  BY <1>3 DEF record_request, InQuery, remaining, Goto, channel, tasks
<1>4. CASE send_neighbor_request(c)
  <2>1. request_id[c] \in RequestId /\ question[c] \in Peer
    BY <1>4 DEF send_neighbor_request, InQuery, Asked, Querying
  <2> QED
    BY <1>4, <2>1 DEF send_neighbor_request, NeighborRequest, InQuery, Goto, channel, tasks
<1>5. CASE answered(c)
  BY <1>5 DEF answered, InQuery, finish, Goto, channel, tasks
<1>6. CASE channel_closed(c)
  BY <1>6 DEF channel_closed, InQuery, Goto, channel, tasks, query
<1>7. CASE timed_out(c)
  BY <1>7 DEF timed_out, InQuery, Goto, channel, tasks, query
<1>8. CASE cleanup_pending_request(c)
  BY <1>8 DEF cleanup_pending_request, InQuery, finish, Goto, channel, tasks
<1>9. CASE write_answer(c)
  BY <1>9 DEF write_answer, write_reply, Goto, channel, tasks
<1> QED
  BY <1>1, <1>2, <1>3, <1>4, <1>5, <1>6, <1>7, <1>8, <1>9 DEF Serving

LEMMA BecomeType ==
    ASSUME LifeTypeOK, NEW k \in Task, NEW g \in Generation,
           NEW state \in {"off", "spawned", "working"},
           Become(k, g, state)
    PROVE  /\ task' \in [Task -> [Generation -> {"off", "spawned", "working"}]]
           /\ ending' \in SUBSET (Task \X Generation)
BY DEF Become, LifeTypeOK

LEMMA YieldingType ==
    ASSUME TypeOK, NEW k \in Task, NEW g \in Generation, Yielding(k, g)
    PROVE  TypeOK'
BY BecomeType DEF Yielding, Yield, KeepSweeps, TypeOK, LifeTypeOK, clients, channel

LEMMA TaskStepType ==
    ASSUME TypeOK, NEW g \in Generation,
           \/ Listening(g) /\ UNCHANGED query
           \/ \E k \in TimedTask : TimedStep(k, g)
           \/ Sweep(g)
    PROVE  TypeOK'
<1> USE DEF TypeOK, LifeTypeOK, clients, channel, query
<1>1. CASE Listening(g) /\ UNCHANGED query
  <2>1. "listen" \in Task
    BY DEF Task
  <2>2. CASE listen_task(g)
    BY <1>1, <2>1, <2>2, BecomeType DEF listen_task
  <2>3. CASE ListenDone(g)
    BY <1>1, <2>1, <2>3, BecomeType DEF ListenDone
  <2>4. CASE TakeDatagram(g) \/ DatagramDone(g) \/ LoopShutdown(g)
    BY <1>1, <2>4 DEF TakeDatagram, DatagramDone, LoopShutdown
  <2> QED
    BY <1>1, <2>2, <2>3, <2>4 DEF Listening
<1>2. ASSUME NEW k \in TimedTask, TimedStep(k, g)
      PROVE  TypeOK'
  <2>1. k \in Task
    BY DEF Task
  <2>2. CASE Tick(k, g) /\ UNCHANGED query
    BY <2>1, <2>2, BecomeType DEF Tick
  <2>3. CASE TaskShutdown(k, g) /\ UNCHANGED query
    BY <2>1, <2>3, BecomeType DEF TaskShutdown
  <2>4. CASE TickDone(k, g) /\ UNCHANGED query
    BY <2>1, <2>4, BecomeType DEF TickDone
  <2>5. CASE Yielding(k, g)
    BY <2>1, <2>5, YieldingType
  <2> QED
    BY <1>2, <2>2, <2>3, <2>4, <2>5 DEF TimedStep
<1>3. CASE SweepScan(g)
  <2>1. CASE TickDone("pending", g)
    BY <1>3, <2>1, QueryAssumption, BecomeType DEF SweepScan, TickDone, Task
  <2>2. CASE UNCHANGED life
    BY <1>3, <2>2 DEF SweepScan, life, tasks
  <2> QED
    BY <1>3, <2>1, <2>2 DEF SweepScan
<1>4. CASE SweepRemove(g)
  <2>1. /\ task' \in [Task -> [Generation -> {"off", "spawned", "working"}]]
        /\ ending' \in SUBSET (Task \X Generation)
    BY <1>4, QueryAssumption, BecomeType DEF SweepRemove, TickDone, Task
  <2> QED
    BY <1>4, <2>1 DEF SweepRemove, TickDone
<1> QED
  BY <1>1, <1>2, <1>3, <1>4 DEF Sweep

LEMMA MessageStepType ==
    ASSUME TypeOK,
           NEW m \in net,
           \/ \E g \in Generation : handle_neighbor_response(m, g)
           \/ \E peer \in Peer : handle_neighbor_request(m, peer)
           \/ Lose(m)
    PROVE  TypeOK'
<1> USE DEF TypeOK, LifeTypeOK, life, clients, channel, tasks
<1>1. m.id \in RequestId /\ m.router \in Router
  BY DEF Router
<1>2. CASE \E g \in Generation : handle_neighbor_response(m, g)
  BY <1>1, <1>2 DEF handle_neighbor_response, respond
<1>3. CASE \E peer \in Peer : handle_neighbor_request(m, peer)
  BY <1>1, <1>3 DEF handle_neighbor_request, NeighborResponse
<1>4. CASE Lose(m)
  BY <1>4 DEF Lose
<1> QED
  BY <1>2, <1>3, <1>4

LEMMA NextType ==
    ASSUME TypeOK, Asked, [Next]_vars
    PROVE  TypeOK'
<1> USE DEF TypeOK, LifeTypeOK, clients, channel, tasks, query
<1>1. ASSUME NEW c \in Client, NEW what \in Command, handle_client(c, what), UNCHANGED query
      PROVE  TypeOK'
  BY <1>1 DEF handle_client, Goto
<1>2. ASSUME NEW c \in Client, NEW target \in Router, ask_neighbors_of(c, target)
      PROVE  TypeOK'
  BY <1>2 DEF ask_neighbors_of, handle_client, Goto, Command
<1>3. ASSUME NEW id \in RequestId, ClockSet(id)
      PROVE  TypeOK'
  BY <1>3 DEF ClockSet, life
<1>4. CASE UNCHANGED vars
  BY <1>4 DEF vars, life
<1>5. ASSUME NEW g \in Generation, Yielding("listen", g)
      PROVE  TypeOK'
  BY <1>5, YieldingType DEF Task
<1> QED
  BY <1>1, <1>2, <1>3, <1>4, <1>5, ControlStepType, ServingType, TaskStepType, MessageStepType
  DEF Next

(***************************************************************************)
(* The mutex                                                               *)
(***************************************************************************)
LEMMA ControlStepControl ==
    ASSUME TypeOK, Control, NEW c \in Client, ControlStep(c)
    PROVE  Control'
<1> USE NoneAssumption DEF TypeOK, LifeTypeOK, Control, Starting, Stopping, Querying
<1>1. CASE inspect(c)
  BY <1>1 DEF inspect, begin, finish, Goto, channel, tasks
<1>2. CASE begin_start(c)
  BY <1>2 DEF begin_start, begin, finish, Goto, channel, tasks
<1>3. CASE start_flag(c)
  BY <1>3 DEF start_flag, Goto, channel, tasks
<1>4. CASE \E g \in Generation : start_channel(c, g)
  BY <1>4 DEF start_channel, Goto
<1>5. CASE start_tasks(c)
  BY <1>5 DEF start_tasks, finish, Goto, channel
<1>6. CASE begin_stop(c)
  BY <1>6 DEF begin_stop, begin, finish, Goto, channel, tasks
<1>7. CASE stop_flag(c)
  BY <1>7 DEF stop_flag, Goto, channel, tasks
<1>8. CASE stop_signal(c)
  BY <1>8 DEF stop_signal, Goto, tasks
<1>9. CASE stop_abort(c)
  BY <1>9 DEF stop_abort, finish, Goto, channel
<1> QED
  BY <1>1, <1>2, <1>3, <1>4, <1>5, <1>6, <1>7, <1>8, <1>9 DEF ControlStep, StartOrStop

LEMMA ServingControl ==
    ASSUME TypeOK, Control, NEW c \in Client, Serving(c)
    PROVE  Control'
<1> USE NoneAssumption DEF TypeOK, LifeTypeOK, Control, Starting, Stopping, Querying
<1>1. CASE get_neighbors_of(c)
  BY <1>1 DEF get_neighbors_of, begin, Goto, channel, tasks, query
<1>2. CASE get_neighbors_list(c)
  BY <1>2 DEF get_neighbors_list, InQuery, finish, Goto, channel, tasks
<1>3. CASE \E id \in RequestId : record_request(c, id)
  BY <1>3 DEF record_request, InQuery, Goto, channel, tasks
<1>4. CASE send_neighbor_request(c)
  BY <1>4 DEF send_neighbor_request, InQuery, Goto, channel, tasks
<1>5. CASE answered(c)
  BY <1>5 DEF answered, InQuery, finish, Goto, channel, tasks
<1>6. CASE channel_closed(c)
  BY <1>6 DEF channel_closed, InQuery, Goto, channel, tasks, query
<1>7. CASE timed_out(c)
  BY <1>7 DEF timed_out, InQuery, Goto, channel, tasks, query
<1>8. CASE cleanup_pending_request(c)
  BY <1>8 DEF cleanup_pending_request, InQuery, finish, Goto, channel, tasks
<1>9. CASE write_answer(c)
  BY <1>9 DEF write_answer, write_reply, Goto, channel, tasks
<1> QED
  BY <1>1, <1>2, <1>3, <1>4, <1>5, <1>6, <1>7, <1>8, <1>9 DEF Serving

LEMMA TakeCommandControl ==
    ASSUME TypeOK, Control, NEW c \in Client, NEW what \in Command, handle_client(c, what)
    PROVE  Control'
BY DEF handle_client, Goto, channel, tasks,
       TypeOK, LifeTypeOK, Control, Starting, Stopping, Querying

(* What tasks and messages do leaves the clients where they are. *)
LEMMA OthersLeaveClients ==
    ASSUME \/ \E g \in Generation :
                 \/ Listening(g) /\ UNCHANGED query
                 \/ Yielding("listen", g)
                 \/ \E k \in TimedTask : TimedStep(k, g)
                 \/ Sweep(g)
                 \/ \E m \in net : handle_neighbor_response(m, g)
           \/ \E m \in net :
                 \/ \E peer \in Peer : handle_neighbor_request(m, peer)
                 \/ Lose(m)
           \/ \E id \in RequestId : ClockSet(id)
           \/ UNCHANGED vars
    PROVE  UNCHANGED <<clients, is_running, channel, question, request_id, outcome>>
BY DEF Listening, listen_task, ListenDone, TakeDatagram, DatagramDone, LoopShutdown,
       TimedStep, Tick, TaskShutdown, TickDone, Yielding, Yield, Sweep, SweepScan, SweepRemove,
       handle_neighbor_response, handle_neighbor_request, Lose, ClockSet,
       vars, life, query

LEMMA NextControl ==
    ASSUME TypeOK, Control, [Next]_vars
    PROVE  Control'
<1>1. ASSUME UNCHANGED <<clients, is_running, channel>>
      PROVE  Control'
  BY <1>1 DEF clients, channel, Control
<1>2. ASSUME NEW c \in Client, NEW target \in Router, ask_neighbors_of(c, target)
      PROVE  Control'
  BY <1>2, TakeCommandControl DEF ask_neighbors_of, Command
<1> QED
  BY <1>1, <1>2, ControlStepControl, ServingControl, TakeCommandControl, OthersLeaveClients
  DEF Next

(***************************************************************************)
(* What is asked and told                                                  *)
(***************************************************************************)
LEMMA ControlStepAsked ==
    ASSUME TypeOK, Control, Asked, NEW c \in Client, ControlStep(c)
    PROVE  Asked'
<1> USE DEF TypeOK, LifeTypeOK, Control, Asked, Starting, Stopping, Querying
<1>1. CASE inspect(c)
  BY <1>1, ControlStep(c) DEF ControlStep, inspect, begin, finish, Goto, channel, tasks
<1>2. CASE begin_start(c)
  BY <1>2, ControlStep(c) DEF ControlStep, begin_start, begin, finish, Goto, channel, tasks
<1>3. CASE start_flag(c)
  BY <1>3, ControlStep(c) DEF ControlStep, start_flag, Goto, channel, tasks
<1>4. CASE \E g \in Generation : start_channel(c, g)
  BY <1>4, ControlStep(c) DEF ControlStep, start_channel, Goto
<1>5. CASE start_tasks(c)
  BY <1>5, ControlStep(c) DEF ControlStep, start_tasks, finish, Goto, channel
<1>6. CASE begin_stop(c)
  BY <1>6, ControlStep(c) DEF ControlStep, begin_stop, begin, finish, Goto, channel, tasks
<1>7. CASE stop_flag(c)
  BY <1>7, ControlStep(c) DEF ControlStep, stop_flag, Goto, channel, tasks
<1>8. CASE stop_signal(c)
  BY <1>8, ControlStep(c) DEF ControlStep, stop_signal, Goto, tasks
<1>9. CASE stop_abort(c)
  BY <1>9, ControlStep(c) DEF ControlStep, stop_abort, finish, Goto, channel
<1> QED
  BY <1>1, <1>2, <1>3, <1>4, <1>5, <1>6, <1>7, <1>8, <1>9 DEF ControlStep, StartOrStop

LEMMA ServingAsked ==
    ASSUME TypeOK, Control, Asked, NEW c \in Client, Serving(c)
    PROVE  Asked'
<1> USE QueryAssumption DEF TypeOK, LifeTypeOK, Control, Asked, Starting, Stopping, Querying, Router
<1>1. CASE get_neighbors_of(c)
  BY <1>1 DEF get_neighbors_of, begin, Goto, channel, tasks, query
<1>2. CASE get_neighbors_list(c)
  BY <1>2 DEF get_neighbors_list, InQuery, finish, Goto, channel, tasks
<1>3. CASE \E id \in RequestId : record_request(c, id)
  BY <1>3 DEF record_request, InQuery, Goto, channel, tasks
<1>4. CASE send_neighbor_request(c)
  BY <1>4 DEF send_neighbor_request, InQuery, Goto, channel, tasks
<1>5. CASE answered(c)
  BY <1>5 DEF answered, InQuery, finish, Goto, channel, tasks
<1>6. CASE channel_closed(c)
  BY <1>6 DEF channel_closed, InQuery, Goto, channel, tasks, query
<1>7. CASE timed_out(c)
  BY <1>7 DEF timed_out, InQuery, Goto, channel, tasks, query
<1>8. CASE cleanup_pending_request(c)
  BY <1>8 DEF cleanup_pending_request, InQuery, finish, Goto, channel, tasks
<1>9. CASE write_answer(c)
  BY <1>9 DEF write_answer, write_reply, Goto, channel, tasks
<1> QED
  BY <1>1, <1>2, <1>3, <1>4, <1>5, <1>6, <1>7, <1>8, <1>9 DEF Serving

LEMMA NextAsked ==
    ASSUME TypeOK, Control, Asked, [Next]_vars
    PROVE  Asked'
<1>1. ASSUME UNCHANGED <<clients, question, request_id, outcome>>
      PROVE  Asked'
  BY <1>1 DEF clients, Asked
<1>2. ASSUME NEW c \in Client, NEW target \in Router, ask_neighbors_of(c, target)
      PROVE  Asked'
  BY <1>2, QueryAssumption
  DEF ask_neighbors_of, handle_client, Goto, TypeOK, LifeTypeOK, Asked, Querying
<1>3. ASSUME NEW c \in Client, NEW what \in Command \ {"neighbors_of"},
             handle_client(c, what), UNCHANGED query
      PROVE  Asked'
  BY <1>3 DEF handle_client, Goto, TypeOK, LifeTypeOK, Asked, Querying, query
<1> QED
  BY <1>1, <1>2, <1>3, ControlStepAsked, ServingAsked, OthersLeaveClients
  DEF Next

(***************************************************************************)
(* The generations of tasks                                                *)
(***************************************************************************)
Tasks == OneGeneration /\ QuietUntilSpawned /\ FreshChannel

LEMMA ControlStepTasks ==
    ASSUME LifeInv, NEW c \in Client, ControlStep(c)
    PROVE  Tasks'
<1> USE NoneAssumption DEF LifeInv, TypeOK, LifeTypeOK, Control, Tasks, OneGeneration,
        QuietUntilSpawned, Quiet, FreshChannel, Starting, Stopping, Querying
<1>1. CASE inspect(c)
  BY <1>1 DEF inspect, begin, finish, Goto, channel, tasks
<1>2. CASE begin_start(c)
  BY <1>2 DEF begin_start, begin, finish, Goto, channel, tasks
<1>3. CASE start_flag(c)
  BY <1>3 DEF start_flag, Goto, channel, tasks
<1>4. CASE \E g \in Generation : start_channel(c, g)
  BY <1>4 DEF start_channel, Vacant, Goto
<1>5. CASE start_tasks(c)
  <2>1. Quiet /\ \A k \in Task : task[k][shutdown_tx] = "off"
    BY <1>5 DEF start_tasks
  <2>2. PICK polled \in SUBSET task_handles :
            /\ aborted(polled)
            /\ task' = [k \in Task |-> [g \in Generation |->
                          IF g = shutdown_tx THEN "spawned" ELSE off_or_polled(k, g, polled)]]
    BY <1>5 DEF start_tasks
  <2>3. \A w \in ending' : w[2] # shutdown_tx
    BY <2>1, <2>2 DEF aborted, Pollable
  <2>4. \A w \in ending' : task'[w[1]][w[2]] # "off"
    BY <2>2, <2>3 DEF aborted, Pollable, off_or_polled
  <2>5. ASSUME NEW k \in TimedTask, NEW g \in Generation, task'[k][g] # "off"
        PROVE  <<k, g>> \in ending' \/ g = shutdown_tx
    BY <2>1, <2>2, <2>5 DEF aborted, off_or_polled, Task
  <2>6. OneGeneration'
    BY <1>5, <2>3, <2>4, <2>5 DEF start_tasks, channel, Task
  <2>7. is_running' /\ \A d \in Client : step'[d] \notin Starting
    BY <1>5 DEF start_tasks, finish, Goto
  <2> QED
    BY <2>6, <2>7
<1>6. CASE begin_stop(c)
  BY <1>6 DEF begin_stop, begin, finish, Goto, channel, tasks
<1>7. CASE stop_flag(c)
  BY <1>7 DEF stop_flag, Goto, channel, tasks
<1>8. CASE stop_signal(c)
  BY <1>8 DEF stop_signal, Goto, tasks
<1>9. CASE stop_abort(c)
  <2>1. PICK polled \in SUBSET task_handles :
            /\ aborted(polled)
            /\ task' = [k \in Task |-> [g \in Generation |-> off_or_polled(k, g, polled)]]
    BY <1>9 DEF stop_abort
  <2>2. \A w \in ending' : task'[w[1]][w[2]] # "off"
    BY <2>1 DEF aborted, Pollable, off_or_polled
  <2>3. Quiet'
    BY <2>1 DEF aborted, off_or_polled, Task
  <2>4. OneGeneration'
    BY <1>9, <2>2, <2>3 DEF stop_abort
  <2>5. \A d \in Client : step'[d] # "start_tasks"
    BY <1>9 DEF stop_abort, finish, Goto
  <2> QED
    BY <2>3, <2>4, <2>5
<1> QED
  BY <1>1, <1>2, <1>3, <1>4, <1>5, <1>6, <1>7, <1>8, <1>9 DEF ControlStep, StartOrStop

(* A client that does not start or stop leaves the tasks alone. *)
LEMMA OtherStepsTasks ==
    ASSUME LifeInv, NEW c \in Client,
           UNCHANGED <<is_running, channel, tasks>>,
           \A d \in Client \ {c} : step'[d] = step[d],
           {step[c], step'[c]} \cap (Starting \cup Stopping) = {}
    PROVE  Tasks'
BY DEF LifeInv, Tasks, OneGeneration, QuietUntilSpawned, Quiet, FreshChannel,
       Starting, Stopping, channel, tasks

LEMMA ServingTasks ==
    ASSUME LifeInv, NEW c \in Client, Serving(c)
    PROVE  Tasks'
<1>1. UNCHANGED <<is_running, channel, tasks>>
  BY DEF Serving, get_neighbors_of, get_neighbors_list, record_request, send_neighbor_request,
         answered, channel_closed, timed_out, cleanup_pending_request, write_answer,
         write_reply, InQuery
<1>2. /\ step[c] \in Querying \cup {"lock", "reply"}
      /\ \E next \in Querying \cup {"idle", "reply"} : step' = [step EXCEPT ![c] = next]
  BY DEF Serving, get_neighbors_of, get_neighbors_list, record_request, send_neighbor_request,
         answered, channel_closed, timed_out, cleanup_pending_request, write_answer,
         write_reply, InQuery, begin, finish, Goto, Querying
<1>3. step \in [Client -> {step[d] : d \in Client}]
  BY DEF LifeInv, TypeOK
<1> QED
  BY <1>1, <1>2, <1>3, OtherStepsTasks DEF Starting, Stopping, Querying

(* A task goes on from where it is; one that is off stays off. *)
LEMMA BecomeTasks ==
    ASSUME LifeInv, NEW k \in Task, NEW g \in Generation, NEW state,
           task[k][g] # "off",
           Become(k, g, state),
           UNCHANGED <<clients, is_running, channel, task_handles>>
    PROVE  Tasks'
<1> USE DEF LifeInv, TypeOK, LifeTypeOK, Become, Task, clients, channel
<1>1. OneGeneration'
  BY DEF OneGeneration
<1>2. QuietUntilSpawned'
  BY DEF QuietUntilSpawned, Quiet
<1>3. FreshChannel'
  BY DEF FreshChannel
<1> QED
  BY <1>1, <1>2, <1>3 DEF Tasks

LEMMA TaskStepTasks ==
    ASSUME LifeInv, NEW g \in Generation,
           \/ Listening(g)
           \/ Yielding("listen", g)
           \/ \E k \in TimedTask : TimedStep(k, g)
           \/ Sweep(g)
    PROVE  Tasks'
<1>1. ASSUME NEW k \in Task, Yielding(k, g)
      PROVE  Tasks'
  BY <1>1, BecomeTasks DEF Yielding, Yield, LifeInv, OneGeneration
<1>2. ASSUME UNCHANGED <<clients, is_running, channel, task_handles, task, ending>>
      PROVE  Tasks'
  BY <1>2 DEF LifeInv, Tasks, OneGeneration, QuietUntilSpawned, Quiet, FreshChannel,
              clients, channel
<1>3. CASE Listening(g)
  <2>1. CASE listen_task(g) \/ ListenDone(g)
    BY <2>1, BecomeTasks DEF listen_task, ListenDone, Task
  <2>2. CASE TakeDatagram(g) \/ DatagramDone(g) \/ LoopShutdown(g)
    BY <2>2, <1>2 DEF TakeDatagram, DatagramDone, LoopShutdown
  <2> QED
    BY <1>3, <2>1, <2>2 DEF Listening
<1>4. CASE Sweep(g)
  BY <1>2, <1>4, BecomeTasks, QueryAssumption
  DEF Sweep, SweepScan, SweepRemove, TickDone, Task, life, tasks
<1>5. ASSUME NEW k \in TimedTask, TimedStep(k, g)
      PROVE  Tasks'
  BY <1>1, <1>5, BecomeTasks DEF TimedStep, Tick, TaskShutdown, TickDone, Task
<1> QED
  BY <1>1, <1>3, <1>4, <1>5 DEF Task

LEMMA NextTasks ==
    ASSUME LifeInv, [Next]_vars
    PROVE  Tasks'
<1>1. ASSUME NEW c \in Client, NEW what \in Command, handle_client(c, what)
      PROVE  Tasks'
  BY <1>1, OtherStepsTasks DEF handle_client, Goto, LifeInv, TypeOK, Starting, Stopping
<1>2. ASSUME UNCHANGED life
      PROVE  Tasks'
  BY <1>2 DEF LifeInv, Tasks, OneGeneration, QuietUntilSpawned, Quiet, FreshChannel,
              life, clients, channel, tasks
<1> QED
  BY <1>1, <1>2, ControlStepTasks, ServingTasks, TaskStepTasks
  DEF Next, ask_neighbors_of, handle_neighbor_response, handle_neighbor_request, Lose,
      ClockSet, vars, Command

LEMMA LifeInvariant == Spec => []LifeInv
<1>1. LifeInv /\ [Next]_vars => LifeInv'
  BY NextType, NextControl, NextAsked, NextTasks DEF LifeInv, Tasks
<1> QED
  BY InitLifeInv, <1>1, PTL DEF Spec

(* All states have the types they should have. *)
THEOREM TypeCorrect == Spec => []TypeOK
BY LifeInvariant, PTL DEF LifeInv

(* start_tasks always finds a channel: it never waits for its own lock.    *)
THEOREM StartNeverLocksItself == Spec => []NeverSelfLocked
<1>1. LifeInv => NeverSelfLocked
  BY DEF LifeInv, Control, NeverSelfLocked
<1> QED
  BY LifeInvariant, <1>1, PTL

(* Starts and stops in any order and from any client: a timed task that    *)
(* lives is reached by its handle and has the present channel, or it has    *)
(* been aborted already and is about to go.                                 *)
THEOREM GenerationsAreReached == Spec => []OneGeneration
BY LifeInvariant, PTL DEF LifeInv

(* stop_protocol has aborted every timed task that is not gone.            *)
THEOREM StopReachesTimedTasks == Spec => []StopReachesAll
<1>1. LifeInv => StopReachesAll
  <2> SUFFICES ASSUME LifeInv, ~is_running, holder # None => command[holder] # "stop"
               PROVE  Quiet
    BY DEF StopReachesAll, Quiet
  <2>1. \A c \in Client : step[c] \notin {"stop_signal", "stop_abort"}
    BY NoneAssumption DEF LifeInv, Control, Stopping
  <2> QED
    BY <2>1 DEF LifeInv, QuietUntilSpawned
<1> QED
  BY LifeInvariant, <1>1, PTL

(***************************************************************************)
(* The requests that are recorded                                          *)
(***************************************************************************)
(* A channel is given something when the request is taken out. *)
RequestInv ==
    /\ NoRequestLeftBehind
    /\ \A c \in Client :
          step[c] \in {"send", "wait"} /\ oneshot[c] # None =>
              \A id \in RequestId : pending[id] = None

LEMMA InitRequestInv == Init => RequestInv
BY DEF Init, LifeInit, RequestInv, NoRequestLeftBehind

LEMMA ServingRequests ==
    ASSUME LifeInv, RequestInv, NEW c \in Client, Serving(c)
    PROVE  RequestInv'
<1> USE NoneAssumption, QueryAssumption
    DEF LifeInv, TypeOK, LifeTypeOK, Control, Querying, RequestInv, NoRequestLeftBehind
<1>1. CASE get_neighbors_of(c)
  BY <1>1 DEF get_neighbors_of, begin, Goto, query
<1>2. CASE get_neighbors_list(c)
  BY <1>2 DEF get_neighbors_list, InQuery, finish, Goto
<1>3. CASE \E id \in RequestId : record_request(c, id)
  BY <1>3 DEF record_request, InQuery, remaining, Goto
<1>4. CASE send_neighbor_request(c)
  BY <1>4 DEF send_neighbor_request, NeighborRequest, InQuery, Goto
<1>5. CASE answered(c)
  BY <1>5 DEF answered, InQuery, finish, Goto
<1>6. CASE channel_closed(c)
  BY <1>6 DEF channel_closed, InQuery, Goto, query
<1>7. CASE timed_out(c)
  BY <1>7 DEF timed_out, InQuery, Goto, query
<1>8. CASE cleanup_pending_request(c)
  BY <1>8 DEF cleanup_pending_request, InQuery, finish, Goto
<1>9. CASE write_answer(c)
  BY <1>9 DEF write_answer, write_reply, Goto
<1> QED
  BY <1>1, <1>2, <1>3, <1>4, <1>5, <1>6, <1>7, <1>8, <1>9 DEF Serving

(* A step of a client that has no request at work. *)
LEMMA IdleStepRequests ==
    ASSUME LifeInv, RequestInv, NEW c \in Client,
           UNCHANGED <<request_id, pending, oneshot>>,
           \A d \in Client \ {c} : step'[d] = step[d],
           {step[c], step'[c]} \cap {"send", "wait", "cleanup"} = {},
           holder' = holder \/ holder \in {None, c}
    PROVE  RequestInv'
BY NoneAssumption
DEF LifeInv, TypeOK, LifeTypeOK, RequestInv, NoRequestLeftBehind

LEMMA ControlStepRequests ==
    ASSUME LifeInv, RequestInv, NEW c \in Client, ControlStep(c)
    PROVE  RequestInv'
<1>1. step[c] \in Starting \cup Stopping \cup {"lock"}
  BY DEF ControlStep, StartOrStop, inspect, begin_start, start_flag, start_channel, start_tasks,
         begin_stop, stop_flag, stop_signal, stop_abort, begin, Starting, Stopping
<1>2. \E next \in Starting \cup Stopping \cup {"reply"} : step' = [step EXCEPT ![c] = next]
  BY DEF ControlStep, StartOrStop, inspect, begin_start, start_flag, start_channel, start_tasks,
         begin_stop, stop_flag, stop_signal, stop_abort, finish, Goto, Starting, Stopping
<1>3. holder \in {None, c}
  BY <1>1 DEF ControlStep, StartOrStop, inspect, begin_start, start_flag, start_channel,
         start_tasks, begin_stop, stop_flag, stop_signal, stop_abort, begin, LifeInv, Control,
         Starting, Stopping
<1> QED
  BY <1>1, <1>2, <1>3, IdleStepRequests
  DEF ControlStep, LifeInv, TypeOK, Starting, Stopping

LEMMA OtherRequests ==
    ASSUME LifeInv, RequestInv,
           UNCHANGED <<clients, request_id, pending, oneshot>>
    PROVE  RequestInv'
BY DEF RequestInv, NoRequestLeftBehind, clients

LEMMA NextRequests ==
    ASSUME LifeInv, RequestInv, [Next]_vars
    PROVE  RequestInv'
<1>1. ASSUME NEW c \in Client, NEW what \in Command, handle_client(c, what),
             UNCHANGED <<request_id, pending, oneshot>>
      PROVE  RequestInv'
  BY <1>1, IdleStepRequests DEF handle_client, Goto, LifeInv, TypeOK
<1>2. ASSUME NEW g \in Generation, SweepRemove(g)
      PROVE  RequestInv'
  BY <1>2, NoneAssumption, QueryAssumption
  DEF SweepRemove, TickDone, Receiving, clients, LifeInv, TypeOK, LifeTypeOK,
      RequestInv, NoRequestLeftBehind
<1>3. ASSUME NEW g \in Generation, NEW m \in net, handle_neighbor_response(m, g)
      PROVE  RequestInv'
  BY <1>3, NoneAssumption, QueryAssumption
  DEF handle_neighbor_response, respond, Receiving, life, clients, LifeInv, TypeOK, LifeTypeOK,
      RequestInv, NoRequestLeftBehind
<1>4. ASSUME NEW g \in Generation,
             \/ Listening(g) /\ UNCHANGED query
             \/ Yielding("listen", g)
             \/ \E k \in TimedTask : TimedStep(k, g)
             \/ SweepScan(g)
      PROVE  RequestInv'
  <2>1. UNCHANGED <<clients, request_id, pending, oneshot>>
    BY <1>4 DEF Listening, listen_task, ListenDone, TakeDatagram, DatagramDone, LoopShutdown,
                TimedStep, Tick, TaskShutdown, TickDone, Yielding, Yield, SweepScan, life, query
  <2> QED
    BY <2>1, OtherRequests
<1>5. ASSUME \/ \E m \in net : \/ \E peer \in Peer : handle_neighbor_request(m, peer)
                               \/ Lose(m)
             \/ \E id \in RequestId : ClockSet(id)
             \/ UNCHANGED vars
      PROVE  RequestInv'
  BY <1>5, OtherRequests DEF handle_neighbor_request, Lose, ClockSet, life, vars, query
<1> QED
  BY <1>1, <1>2, <1>3, <1>4, <1>5, ServingRequests, ControlStepRequests
  DEF Next, ask_neighbors_of, Sweep, query, Command

(* Whether a query is answered, times out or is swept, and however late an *)
(* answer is: no request stays in the map when its command is over.        *)
THEOREM NoRequestIsLeftBehind == Spec => []NoRequestLeftBehind
<1>1. LifeInv /\ RequestInv /\ [Next]_vars => RequestInv'
  BY NextRequests
<1>2. RequestInv => NoRequestLeftBehind
  BY DEF RequestInv
<1> QED
  BY LifeInvariant, InitRequestInv, <1>1, <1>2, PTL DEF Spec

(***************************************************************************)
(* The answers                                                             *)
(***************************************************************************)
(* What is under way with the id of a question is about that question. *)
AnswerInv ==
    \A c \in Client : step[c] \in {"send", "wait"} =>
        /\ \A m \in net : m.id = request_id[c] => m.router = question[c]
        /\ oneshot[c] \in Router => oneshot[c] = question[c]

LEMMA InitAnswerInv == Init => AnswerInv
BY DEF Init, LifeInit, AnswerInv

LEMMA ServingAnswers ==
    ASSUME UniqueIds, LifeInv, AnswerInv, NEW c \in Client, Serving(c)
    PROVE  AnswerInv'
<1> USE NoneAssumption, QueryAssumption
    DEF LifeInv, TypeOK, LifeTypeOK, Control, Querying, AnswerInv
<1>1. CASE get_neighbors_of(c)
  BY <1>1 DEF get_neighbors_of, begin, Goto, query
<1>2. CASE get_neighbors_list(c)
  BY <1>2 DEF get_neighbors_list, InQuery, finish, Goto
<1>3. CASE \E id \in RequestId : record_request(c, id)
  BY <1>3 DEF record_request, InQuery, remaining, Goto
<1>4. CASE send_neighbor_request(c)
  BY <1>4 DEF send_neighbor_request, NeighborRequest, InQuery, Goto
<1>5. CASE answered(c)
  BY <1>5 DEF answered, InQuery, finish, Goto
<1>6. CASE channel_closed(c)
  BY <1>6 DEF channel_closed, InQuery, Goto, query
<1>7. CASE timed_out(c)
  BY <1>7 DEF timed_out, InQuery, Goto, query
<1>8. CASE cleanup_pending_request(c)
  BY <1>8 DEF cleanup_pending_request, InQuery, finish, Goto
<1>9. CASE write_answer(c)
  BY <1>9 DEF write_answer, write_reply, Goto
<1> QED
  BY <1>1, <1>2, <1>3, <1>4, <1>5, <1>6, <1>7, <1>8, <1>9 DEF Serving

LEMMA ControlStepAnswers ==
    ASSUME AnswerInv, LifeInv, NEW c \in Client, ControlStep(c)
    PROVE  AnswerInv'
<1>1. \E next \in Starting \cup Stopping \cup {"reply"} : step' = [step EXCEPT ![c] = next]
  BY DEF ControlStep, StartOrStop, inspect, begin_start, start_flag, start_channel, start_tasks,
         begin_stop, stop_flag, stop_signal, stop_abort, finish, Goto, Starting, Stopping
<1> QED
  BY <1>1 DEF ControlStep, AnswerInv, LifeInv, TypeOK, Starting, Stopping

LEMMA NextAnswers ==
    ASSUME UniqueIds, LifeInv, RequestInv, AnswerInv, [Next]_vars
    PROVE  AnswerInv'
<1>1. ASSUME NEW c \in Client,
             \/ \E what \in Command : handle_client(c, what) /\ UNCHANGED query
             \/ \E target \in Router : ask_neighbors_of(c, target)
      PROVE  AnswerInv'
  BY <1>1 DEF ask_neighbors_of, handle_client, Goto, query, AnswerInv, LifeInv, TypeOK
<1>2. ASSUME NEW g \in Generation, SweepRemove(g)
      PROVE  AnswerInv'
  BY <1>2, QueryAssumption
  DEF SweepRemove, TickDone, Receiving, clients, LifeInv, TypeOK, Router, AnswerInv
<1>3. ASSUME NEW g \in Generation, NEW m \in net, handle_neighbor_response(m, g)
      PROVE  AnswerInv'
  BY <1>3, NoneAssumption
  DEF handle_neighbor_response, respond, Receiving, life, clients, LifeInv, TypeOK,
      RequestInv, NoRequestLeftBehind, AnswerInv
<1>4. ASSUME UNCHANGED <<clients, question, request_id, oneshot>>, net' \subseteq net
      PROVE  AnswerInv'
  BY <1>4 DEF AnswerInv, clients
<1>5. ASSUME NEW g \in Generation,
             \/ Listening(g) /\ UNCHANGED query
             \/ Yielding("listen", g)
             \/ \E k \in TimedTask : TimedStep(k, g)
             \/ SweepScan(g)
      PROVE  AnswerInv'
  BY <1>4, <1>5 DEF Listening, listen_task, ListenDone, TakeDatagram, DatagramDone, LoopShutdown,
       TimedStep, Tick, TaskShutdown, TickDone, Yielding, Yield, SweepScan, life, query
<1>6. ASSUME NEW m \in net, NEW peer \in Peer, handle_neighbor_request(m, peer)
      PROVE  AnswerInv'
  BY <1>6 DEF handle_neighbor_request, NeighborResponse, life, clients, AnswerInv
<1>7. ASSUME \/ \E m \in net : Lose(m)
             \/ \E id \in RequestId : ClockSet(id)
             \/ UNCHANGED vars
      PROVE  AnswerInv'
  BY <1>4, <1>7 DEF Lose, ClockSet, life, vars, query
<1> QED
  BY <1>1, <1>2, <1>3, <1>5, <1>6, <1>7, ServingAnswers, ControlStepAnswers DEF Next, Sweep

(***************************************************************************)
(* The service                                                             *)
(***************************************************************************)
served == IF holder # None /\ command[holder] = "neighbors_of" THEN holder ELSE None

told == [c \in Client |-> IF step[c] = "reply" THEN outcome[c] ELSE None]

LEMMA InitService == Init => Service!Init
BY DEF Init, LifeInit, Service!Init

LEMMA Stutter ==
    ASSUME UNCHANGED question, served' = served, told' = told
    PROVE  UNCHANGED Service!vars
BY DEF served, told, Service!vars

LEMMA ServingService ==
    ASSUME LifeInv, AnswerInv, NEW c \in Client, Serving(c)
    PROVE  Service!Next \/ UNCHANGED Service!vars
<1> USE NoneAssumption, QueryAssumption
    DEF LifeInv, TypeOK, LifeTypeOK, Control, Asked, Querying
<1>1. CASE get_neighbors_of(c)
  <2>1. Service!Serve(c)
    BY <1>1 DEF get_neighbors_of, begin, Goto, query, Service!Serve
  <2> QED
    BY <2>1 DEF Service!Next
<1>2. CASE get_neighbors_list(c)
  <2>1. Service!Conclude(c)
    BY <1>2 DEF get_neighbors_list, InQuery, finish, Goto, Service!Conclude
  <2> QED
    BY <2>1 DEF Service!Next
<1>3. CASE answered(c)
  <2>1. oneshot[c] = question[c]
    BY <1>3 DEF answered, InQuery, AnswerInv
  <2>2. Service!Conclude(c)
    BY <1>3, <2>1 DEF answered, InQuery, finish, Goto, Service!Conclude
  <2> QED
    BY <2>2 DEF Service!Next
<1>4. CASE cleanup_pending_request(c)
  <2>1. Service!Conclude(c)
    BY <1>4 DEF cleanup_pending_request, InQuery, finish, Goto, Service!Conclude
  <2> QED
    BY <2>1 DEF Service!Next
<1>5. CASE write_answer(c) /\ outcome[c] # None
  <2>1. Service!Tell(c)
    BY <1>5 DEF write_answer, write_reply, Goto, Service!Tell
  <2> QED
    BY <2>1 DEF Service!Next
<1>6. CASE write_answer(c) /\ outcome[c] = None
  BY <1>6, Stutter DEF write_answer, write_reply, Goto, served, told
<1>7. CASE \E id \in RequestId : record_request(c, id)
  BY <1>7, Stutter DEF record_request, InQuery, Goto, served, told
<1>8. CASE send_neighbor_request(c)
  BY <1>8, Stutter DEF send_neighbor_request, InQuery, Goto, served, told
<1>9. CASE channel_closed(c) \/ timed_out(c)
  BY <1>9, Stutter DEF channel_closed, timed_out, InQuery, Goto, query, served, told
<1> QED
  BY <1>1, <1>2, <1>3, <1>4, <1>5, <1>6, <1>7, <1>8, <1>9 DEF Serving

LEMMA ControlStepService ==
    ASSUME LifeInv, NEW c \in Client, ControlStep(c)
    PROVE  UNCHANGED Service!vars
<1>1. /\ step[c] \in Starting \cup Stopping \cup {"lock"}
      /\ command[c] # "neighbors_of"
      /\ UNCHANGED <<command, question, outcome>>
  BY DEF ControlStep, StartOrStop, inspect, begin_start, start_flag, start_channel, start_tasks,
         begin_stop, stop_flag, stop_signal, stop_abort, begin, Starting, Stopping,
         LifeInv, Control
<1>2. \E next \in Starting \cup Stopping \cup {"reply"} : step' = [step EXCEPT ![c] = next]
  BY DEF ControlStep, StartOrStop, inspect, begin_start, start_flag, start_channel, start_tasks,
         begin_stop, stop_flag, stop_signal, stop_abort, finish, Goto, Starting, Stopping
<1>3. {holder, holder'} \subseteq {None, c}
  BY DEF ControlStep, StartOrStop, inspect, begin_start, start_flag, start_channel,
         start_tasks, begin_stop, stop_flag, stop_signal, stop_abort, begin, finish, LifeInv,
         Control, Starting, Stopping
<1>4. outcome[c] = None
  BY <1>1 DEF LifeInv, Asked
<1>5. served' = served
  BY <1>1, <1>3 DEF served
<1>6. told' = told
  BY <1>1, <1>2, <1>4 DEF told, LifeInv, TypeOK, Starting, Stopping
<1> QED
  BY <1>1, <1>5, <1>6, Stutter

LEMMA NextService ==
    ASSUME LifeInv, AnswerInv, [Next]_vars
    PROVE  Service!Next \/ UNCHANGED Service!vars
<1>1. ASSUME NEW c \in Client, NEW target \in Router, ask_neighbors_of(c, target)
      PROVE  Service!Next
  <2>1. question[c] = None /\ holder # c
    BY <1>1 DEF ask_neighbors_of, handle_client, LifeInv, Control, Asked,
                Starting, Stopping, Querying
  <2>2. served' = served /\ told' = told
    BY <1>1, <2>1 DEF ask_neighbors_of, handle_client, Goto, served, told, LifeInv, TypeOK,
                      LifeTypeOK
  <2>3. Service!Ask(c, target)
    BY <1>1, <2>1, <2>2 DEF ask_neighbors_of, Service!Ask, served, told
  <2> QED
    BY <2>3 DEF Service!Next
<1>2. ASSUME NEW c \in Client, NEW what \in Command \ {"neighbors_of"},
             handle_client(c, what), UNCHANGED query
      PROVE  UNCHANGED Service!vars
  <2>1. holder # c
    BY <1>2 DEF handle_client, LifeInv, Control, Starting, Stopping, Querying
  <2>2. served' = served /\ told' = told
    BY <1>2, <2>1 DEF handle_client, Goto, query, served, told, LifeInv, TypeOK, LifeTypeOK
  <2> QED
    BY <1>2, <2>2, Stutter DEF query
<1>3. ASSUME UNCHANGED <<clients, question, outcome>>
      PROVE  UNCHANGED Service!vars
  BY <1>3, Stutter DEF clients, served, told
<1> QED
  BY <1>1, <1>2, <1>3, ServingService, ControlStepService, OthersLeaveClients DEF Next

(* However many clients ask and whatever is lost, late or repeated: one    *)
(* question is served at a time, and its answer is that of the router that *)
(* was asked about or a failure.                                           *)
THEOREM QueriesImplementService ==
    ASSUME UniqueIds
    PROVE  Spec => Service!Spec
<1>1. AnswerInv /\ RequestInv /\ LifeInv /\ [Next]_vars => AnswerInv' /\ RequestInv'
  BY NextAnswers, NextRequests
<1>2. LifeInv /\ AnswerInv /\ [Next]_vars => [Service!Next]_(Service!vars)
  BY NextService
<1> QED
  BY LifeInvariant, InitRequestInv, InitAnswerInv, InitService, <1>1, <1>2, PTL
  DEF Spec, Service!Spec
=============================================================================
