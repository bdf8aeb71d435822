------------------------------ MODULE Lifecycle ------------------------------
(***************************************************************************)
(* Starting and stopping the protocol, step by step (src/protocol/mod.rs,  *)
(* src/protocol/task_manager.rs), by commands that clients give at the     *)
(* same time (src/control_server.rs) and that the protocol's mutex puts    *)
(* one after the other.                                                    *)
(*                                                                         *)
(* Each start makes a generation: a broadcast channel for the shutdown     *)
(* signal and the tasks that subscribe to it.  Replacing the channel drops *)
(* its sender, which its receivers notice like a signal.                   *)
(*                                                                         *)
(* abort() is awaited by nobody.  A task that waits at an await when it is *)
(* aborted is gone; one that a thread of the runtime is polling just then  *)
(* goes on until an await makes it wait, past awaits that are ready, and   *)
(* past the end of the command that has aborted it.                        *)
(***************************************************************************)
CONSTANTS
    Client,      \* who gives commands: main, the control server's connections
    Generation,  \* bounds the generations that have tasks at one time
    TimedTask,   \* the tasks that wait on an interval: hello, update, ...
    Gives,       \* the commands each client may give
    None

ASSUME NoneAssumption == None \notin Client /\ None \notin Generation

ASSUME TaskAssumption == "listen" \notin TimedTask

Task == TimedTask \cup {"listen"}

Command == {"start", "stop", "inspect", "neighbors_of"}

ASSUME GivesAssumption == Gives \in [Client -> SUBSET Command]

VARIABLES
    holder,        \* the client that holds the protocol's mutex, or None
    command,       \* the command each client has given last
    step,          \* how far it is
    is_running,
    shutdown_tx,   \* the generation whose channel is in shutdown_tx, or None
    sent,          \* the generations that have been sent the signal
    task_handles,  \* a set of <<task, generation>>
    task,          \* what the spawned tasks do
    ending,        \* a set of <<task, generation>>: aborted while polled
    loop,          \* what the socket loops do, which listen_task spawns
    deaf           \* generations whose loop subscribed after the signal

clients == <<holder, command, step>>
channel == <<shutdown_tx, sent>>
tasks == <<task_handles, task, ending, loop, deaf>>
life == <<clients, is_running, channel, tasks>>

LifeInit ==
    /\ holder = None
    /\ command = [c \in Client |-> "inspect"]
    /\ step = [c \in Client |-> "idle"]
    /\ is_running = FALSE
    /\ shutdown_tx = None
    /\ sent = {}
    /\ task_handles = {}
    /\ task = [k \in Task |-> [g \in Generation |-> "off"]]
    /\ ending = {}
    /\ loop = [g \in Generation |-> "off"]
    /\ deaf = {}

(***************************************************************************)
(* Commands.  A client that holds the mutex keeps it through every await   *)
(* of its command, and gives it back before it writes the reply.           *)
(***************************************************************************)
Goto(c, next) == step' = [step EXCEPT ![c] = next]

handle_client(c, what) ==
    /\ step[c] = "idle"
    /\ what \in Gives[c]
    /\ command' = [command EXCEPT ![c] = what]
    /\ Goto(c, "lock")
    /\ UNCHANGED <<holder, is_running, channel, tasks>>

MutBeginWithoutMutex(c, what) == step[c] = "lock" /\ command[c] = what

begin(c, what) ==
    /\ step[c] = "lock"
    /\ command[c] = what
    /\ holder = None

finish(c) == holder' = None /\ Goto(c, "reply")

write_reply(c) ==
    /\ step[c] = "reply"
    /\ Goto(c, "idle")
    /\ UNCHANGED <<holder, command, is_running, channel, tasks>>

(* status, neighbors and routing_table read, and change nothing. *)
inspect(c) ==
    /\ begin(c, "inspect")
    /\ finish(c)
    /\ UNCHANGED <<command, is_running, channel, tasks>>

(***************************************************************************)
(* start_protocol                                                          *)
(***************************************************************************)
MutStartAwaitsStop(c) ==
    /\ begin(c, "start")
    /\ ~is_running
    /\ holder' = c
    /\ Goto(c, "start_flag")
    /\ UNCHANGED <<command, is_running, channel, tasks>>

begin_start(c) ==
    /\ begin(c, "start")
    /\ IF is_running THEN finish(c) ELSE holder' = c /\ Goto(c, "start_flag")
    /\ UNCHANGED <<command, is_running, channel, tasks>>

MutStartKeepsChannel(c) ==
    /\ step[c] = "start_flag"
    /\ is_running' = TRUE
    /\ Goto(c, "start_tasks")
    /\ UNCHANGED <<holder, command, channel, tasks>>

start_flag(c) ==
    /\ step[c] = "start_flag"
    /\ is_running' = TRUE
    /\ Goto(c, "start_channel")
    /\ UNCHANGED <<holder, command, channel, tasks>>

Vacant(g) == loop[g] = "off" /\ \A k \in Task : task[k][g] = "off"

start_channel(c, g) ==
    /\ step[c] = "start_channel"
    /\ Vacant(g)
    /\ shutdown_tx' = g
    /\ sent' = sent \ {g}
    /\ deaf' = deaf \ {g}
    /\ Goto(c, "start_tasks")
    /\ UNCHANGED <<holder, command, is_running, task_handles, task, ending, loop>>

(* A listen task that waits for its loop does not run. *)
Pollable(k, g) == task[k][g] = "spawned" \/ (k # "listen" /\ task[k][g] = "working")

(* abort() on every handle; polled are the tasks that go on for a while. *)
aborted(polled) ==
    /\ polled \subseteq {h \in task_handles : Pollable(h[1], h[2])}
    /\ ending' = ending \cup polled

off_or_polled(k, g, polled) ==
    IF <<k, g>> \in task_handles \ polled THEN "off" ELSE task[k][g]

(* task_manager::start_tasks.  Without a channel it would lock shutdown_tx *)
(* while it holds it, and wait for ever.                                   *)
start_tasks(c) ==
    /\ step[c] = "start_tasks"
    /\ shutdown_tx # None
    /\ is_running' = TRUE
    /\ \E polled \in SUBSET task_handles :
          /\ aborted(polled)
          /\ task' = [k \in Task |-> [g \in Generation |->
                         IF g = shutdown_tx THEN "spawned" ELSE off_or_polled(k, g, polled)]]
    /\ task_handles' = Task \X {shutdown_tx}
    /\ finish(c)
    /\ UNCHANGED <<command, channel, loop, deaf>>

(***************************************************************************)
(* stop_protocol                                                           *)
(***************************************************************************)
begin_stop(c) ==
    /\ begin(c, "stop")
    /\ IF is_running THEN holder' = c /\ Goto(c, "stop_flag") ELSE finish(c)
    /\ UNCHANGED <<command, is_running, channel, tasks>>

stop_flag(c) ==
    /\ step[c] = "stop_flag"
    /\ is_running' = FALSE
    /\ Goto(c, "stop_signal")
    /\ UNCHANGED <<holder, command, channel, tasks>>

stop_signal(c) ==
    /\ step[c] = "stop_signal"
    /\ sent' = IF shutdown_tx = None THEN sent ELSE sent \cup {shutdown_tx}
    /\ Goto(c, "stop_abort")
    /\ UNCHANGED <<holder, command, is_running, shutdown_tx, tasks>>

MutStopWithoutAbort(c) ==
    /\ step[c] = "stop_abort"
    /\ task_handles' = {}
    /\ finish(c)
    /\ UNCHANGED <<command, is_running, channel, task, ending, loop, deaf>>

stop_abort(c) ==
    /\ step[c] = "stop_abort"
    /\ \E polled \in SUBSET task_handles :
          /\ aborted(polled)
          /\ task' = [k \in Task |-> [g \in Generation |-> off_or_polled(k, g, polled)]]
    /\ task_handles' = {}
    /\ finish(c)
    /\ UNCHANGED <<command, is_running, channel, loop, deaf>>

(***************************************************************************)
(* The tasks.  select! takes any branch that is ready.                     *)
(***************************************************************************)
Signalled(g) == g \in sent \/ g # shutdown_tx

Become(k, g, state) ==
    /\ task' = [task EXCEPT ![k][g] = state]
    /\ ending' = IF state = "off" THEN ending \ {<<k, g>>} ELSE ending

(* The interval of a timed task has ticked (at once, the first time). *)
Tick(k, g) ==
    /\ task[k][g] = "spawned"
    /\ Become(k, g, IF is_running THEN "working" ELSE "off")
    /\ UNCHANGED <<clients, is_running, channel, task_handles, loop, deaf>>

TickDone(k, g) ==
    /\ task[k][g] = "working"
    /\ Become(k, g, "spawned")
    /\ UNCHANGED <<clients, is_running, channel, task_handles, loop, deaf>>

TaskShutdown(k, g) ==
    /\ task[k][g] = "spawned"
    /\ Signalled(g)
    /\ Become(k, g, "off")
    /\ UNCHANGED <<clients, is_running, channel, task_handles, loop, deaf>>

(* The runtime gets a task back that has been aborted, and drops it. *)
Yield(k, g) ==
    /\ <<k, g>> \in ending
    /\ Become(k, g, "off")
    /\ UNCHANGED <<clients, is_running, channel, task_handles, loop, deaf>>

(* listen_task subscribes the loop to the channel when it first runs, not  *)
(* when it is spawned.  It then waits for the loop, and for nothing else.  *)
listen_task(g) ==
    /\ task["listen"][g] = "spawned"
    /\ Become("listen", g, "working")
    /\ loop' = [loop EXCEPT ![g] = "waiting"]
    /\ deaf' = IF g \in sent THEN deaf \cup {g} ELSE deaf
    /\ UNCHANGED <<clients, is_running, channel, task_handles>>

ListenDone(g) ==
    /\ task["listen"][g] = "working"
    /\ loop[g] = "off"
    /\ Become("listen", g, "off")
    /\ UNCHANGED <<clients, is_running, channel, task_handles, loop, deaf>>

(* socket_listen_loop takes a datagram, and handles it while the protocol  *)
(* runs.                                                                   *)
TakeDatagram(g) ==
    /\ loop[g] = "waiting"
    /\ loop' = [loop EXCEPT ![g] = IF is_running THEN "working" ELSE "off"]
    /\ UNCHANGED <<clients, is_running, channel, task_handles, task, ending, deaf>>

DatagramDone(g) ==
    /\ loop[g] = "working"
    /\ loop' = [loop EXCEPT ![g] = "waiting"]
    /\ UNCHANGED <<clients, is_running, channel, task_handles, task, ending, deaf>>

MutLoopHearsOnlySignal(g) ==
    /\ loop[g] = "waiting"
    /\ g \in sent /\ g \notin deaf
    /\ loop' = [loop EXCEPT ![g] = "off"]
    /\ UNCHANGED <<clients, is_running, channel, task_handles, task, ending, deaf>>

(* A channel that is closed wakes the loop up as a signal does. *)
LoopShutdown(g) ==
    /\ loop[g] = "waiting"
    /\ g # shutdown_tx \/ (g \in sent /\ g \notin deaf)
    /\ loop' = [loop EXCEPT ![g] = "off"]
    /\ UNCHANGED <<clients, is_running, channel, task_handles, task, ending, deaf>>

(***************************************************************************)
(* What a client, and what the tasks of a generation may do next.          *)
(***************************************************************************)
StartOrStop(c) ==
    \/ inspect(c)
    \/ begin_start(c)
    \/ start_flag(c)
    \/ \E g \in Generation : start_channel(c, g)
    \/ start_tasks(c)
    \/ begin_stop(c)
    \/ stop_flag(c)
    \/ stop_signal(c)
    \/ stop_abort(c)

Listening(g) ==
    \/ listen_task(g)
    \/ ListenDone(g)
    \/ TakeDatagram(g)
    \/ DatagramDone(g)
    \/ LoopShutdown(g)

(***************************************************************************)
(* Properties                                                              *)
(***************************************************************************)
LifeTypeOK ==
    /\ holder \in Client \cup {None}
    /\ command \in [Client -> Command]
    /\ is_running \in BOOLEAN
    /\ shutdown_tx \in Generation \cup {None}
    /\ sent \in SUBSET Generation
    /\ task_handles \in SUBSET (Task \X Generation)
    /\ task \in [Task -> [Generation -> {"off", "spawned", "working"}]]
    /\ ending \in SUBSET (Task \X Generation)
    /\ loop \in [Generation -> {"off", "waiting", "working"}]
    /\ deaf \in SUBSET Generation

(* The branch of start_tasks that would lock itself is never reached.      *)
NeverSelfLocked == \A c \in Client : step[c] = "start_tasks" => shutdown_tx # None

(* However fast stop and start follow each other, of two cleanup tasks, or *)
(* two of any timed task, one has been aborted already and is about to go: *)
(* each other task that lives can be reached through its handle, belongs   *)
(* to the present channel, and none is aborted and forgotten.              *)
OneGeneration ==
    /\ \A k \in TimedTask : \A g \in Generation :
          task[k][g] # "off" =>
              <<k, g>> \in ending \/ (g = shutdown_tx /\ <<k, g>> \in task_handles)
    /\ \A w \in ending : task[w[1]][w[2]] # "off" /\ w \notin task_handles

(* When a stop has answered, every timed task is gone or has been aborted  *)
(* and is about to go: none has to find out by itself, or could wait for   *)
(* its next tick and go on when the protocol is started again.             *)
StopReachesAll ==
    ~is_running /\ (holder # None => command[holder] # "stop") =>
        \A k \in TimedTask : \A g \in Generation :
            task[k][g] # "off" => <<k, g>> \in ending

(* A socket loop, which no handle reaches, leaves once it has been told,   *)
(* and at the latest when the protocol is started again.                   *)
ListenersLeave ==
    \A g \in Generation :
        loop[g] # "off" /\ (g # shutdown_tx \/ (g \in sent /\ g \notin deaf))
            ~> loop[g] = "off"
=============================================================================
