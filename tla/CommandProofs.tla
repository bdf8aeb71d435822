---------------------------- MODULE CommandProofs ----------------------------
(***************************************************************************)
(* For any clients, tasks and generations: the commands of                 *)
(* src/control_server.rs are atomic, each step of the program is a step of *)
(* CommandService or none of it.                                           *)
(***************************************************************************)
EXTENDS NeighborQueryProofs

(* How the service's variables are read off. *)
asked == [c \in Client |-> IF step[c] = "idle" THEN "none" ELSE command[c]]

carried_out == {c \in Client : step[c] \in {"start_channel", "start_tasks", "reply"}}

runs == is_running \/ \E c \in Client : step[c] \in {"stop_signal", "stop_abort"}

works == {w \in TimedTask \X Generation : task[w[1]][w[2]] = "working"}

leaves == {w \in TimedTask \X Generation : w \in ending}

handles == {g \in Generation : loop[g] = "working"}

mapped == <<asked, carried_out, runs, works, leaves, handles>>

(* Who works is sent away, one at most of each task that has not been yet. *)
SendsAway ==
    /\ leaves \subseteq leaves'
    /\ \A w, v \in leaves' \ leaves : w[1] = v[1] => w = v
    /\ works' = works \cap leaves'

LEMMA InitCommands == Init => Commands!Init
BY DEF Init, LifeInit, Commands!Init, Task

LEMMA SameCommands ==
    ASSUME UNCHANGED mapped
    PROVE  UNCHANGED Commands!vars
BY DEF mapped, asked, carried_out, runs, works, leaves, handles, Commands!vars

LEMMA EffectOf ==
    ASSUME NEW c \in Client,
           asked[c] # "none", c \notin carried_out,
           carried_out' = carried_out \cup {c},
           UNCHANGED <<asked, handles>>,
           \/ asked[c] = "start" /\ runs' = TRUE /\ UNCHANGED <<works, leaves>>
           \/ asked[c] = "stop" /\ runs' = FALSE /\ SendsAway
           \/ asked[c] \notin {"start", "stop"} /\ UNCHANGED <<runs, works, leaves>>
    PROVE  Commands!Next
<1>1. leaves' \in SUBSET (TimedTask \X Generation)
  BY DEF leaves
<1>2. SendsAway /\ runs' = FALSE => Commands!Stop
  BY <1>1 DEF SendsAway, runs, works, leaves, Commands!Stop
<1>3. runs' = TRUE /\ UNCHANGED <<works, leaves>> => Commands!Start
  BY DEF runs, works, leaves, Commands!Start
<1>4. Commands!Effect(c)
  BY <1>2, <1>3 DEF asked, carried_out, runs, works, leaves, handles, Commands!Effect
<1> QED
  BY <1>4 DEF Commands!Next

(***************************************************************************)
(* The clients                                                             *)
(***************************************************************************)
(* What going from one step of a command to the next does to what is read  *)
(* off: nobody but the holder of the mutex is stopping the protocol.       *)
LEMMA GoingOn ==
    ASSUME LifeInv, NEW c \in Client, holder \in {None, c},
           NEW next, step' = [step EXCEPT ![c] = next],
           UNCHANGED command, step[c] # "idle", next # "idle"
    PROVE  /\ asked' = asked /\ asked[c] = command[c]
           /\ c \in carried_out <=> step[c] \in {"start_channel", "start_tasks", "reply"}
           /\ carried_out' = IF next \in {"start_channel", "start_tasks", "reply"}
                             THEN carried_out \cup {c} ELSE carried_out \ {c}
           /\ runs <=> is_running \/ step[c] \in {"stop_signal", "stop_abort"}
           /\ runs' <=> is_running' \/ next \in {"stop_signal", "stop_abort"}
<1>1. step'[c] = next /\ \A d \in Client \ {c} : step'[d] = step[d]
  BY DEF LifeInv, TypeOK
<1>2. \A d \in Client \ {c} : step[d] \notin {"stop_signal", "stop_abort"}
  BY NoneAssumption DEF LifeInv, TypeOK, LifeTypeOK, Control, Stopping
<1>3. asked' = asked /\ asked[c] = command[c]
  BY <1>1 DEF asked
<1>4. /\ c \in carried_out <=> step[c] \in {"start_channel", "start_tasks", "reply"}
      /\ carried_out' = IF next \in {"start_channel", "start_tasks", "reply"}
                        THEN carried_out \cup {c} ELSE carried_out \ {c}
  BY <1>1 DEF carried_out
<1>5. /\ runs <=> is_running \/ step[c] \in {"stop_signal", "stop_abort"}
      /\ runs' <=> is_running' \/ next \in {"stop_signal", "stop_abort"}
  BY <1>1, <1>2 DEF runs
<1> QED
  BY <1>3, <1>4, <1>5

(* A step of a command that is not the one at which it takes effect. *)
LEMMA UnseenStep ==
    ASSUME LifeInv, NEW c \in Client, holder \in {None, c},
           NEW next, step' = [step EXCEPT ![c] = next],
           UNCHANGED <<command, works, leaves, handles>>,
           step[c] # "idle", next # "idle",
           step[c] \in {"start_channel", "start_tasks", "reply"}
               <=> next \in {"start_channel", "start_tasks", "reply"},
           is_running' \/ next \in {"stop_signal", "stop_abort"}
               <=> is_running \/ step[c] \in {"stop_signal", "stop_abort"}
    PROVE  UNCHANGED Commands!vars
<1>1. asked' = asked
  BY GoingOn
<1>2. carried_out' = carried_out
  <2>1. CASE next \in {"start_channel", "start_tasks", "reply"}
    <3>1. c \in carried_out /\ carried_out' = carried_out \cup {c}
      BY <2>1, GoingOn
    <3> QED
      BY <3>1
  <2>2. CASE next \notin {"start_channel", "start_tasks", "reply"}
    <3>1. c \notin carried_out /\ carried_out' = carried_out \ {c}
      BY <2>2, GoingOn
    <3> QED
      BY <3>1
  <2> QED
    BY <2>1, <2>2
<1>3. runs' = runs
  BY GoingOn DEF runs
<1> QED
  BY <1>1, <1>2, <1>3, SameCommands DEF mapped

(* The step at which a command takes effect. *)
LEMMA EffectStep ==
    ASSUME LifeInv, NEW c \in Client, holder \in {None, c},
           NEW next, step' = [step EXCEPT ![c] = next],
           UNCHANGED <<command, handles>>,
           step[c] \notin {"idle", "start_channel", "start_tasks", "reply"},
           next \in {"start_channel", "reply"},
           \/ command[c] = "start" /\ is_running' /\ UNCHANGED <<works, leaves>>
           \/ command[c] = "stop" /\ ~is_running' /\ SendsAway
           \/ /\ command[c] \notin {"start", "stop"}
              /\ step[c] \notin {"stop_signal", "stop_abort"}
              /\ UNCHANGED <<is_running, works, leaves>>
    PROVE  Commands!Next
<1>1. asked' = asked /\ asked[c] = command[c]
  BY GoingOn
<1>2. c \notin carried_out /\ carried_out' = carried_out \cup {c}
  BY GoingOn
<1>3. /\ runs <=> is_running \/ step[c] \in {"stop_signal", "stop_abort"}
      /\ runs' <=> is_running'
  BY GoingOn
<1>4. asked[c] # "none"
  BY <1>1 DEF LifeInv, TypeOK, LifeTypeOK, Command
<1>5. CASE command[c] = "start" /\ is_running' /\ UNCHANGED <<works, leaves>>
  <2>1. runs' = TRUE
    BY <1>3, <1>5 DEF runs
  <2> QED
    BY <1>1, <1>2, <1>4, <1>5, <2>1, EffectOf
<1>6. CASE command[c] = "stop" /\ ~is_running' /\ SendsAway
  <2>1. runs' = FALSE
    BY <1>3, <1>6 DEF runs
  <2> QED
    BY <1>1, <1>2, <1>4, <1>6, <2>1, EffectOf
<1>7. CASE /\ command[c] \notin {"start", "stop"}
           /\ step[c] \notin {"stop_signal", "stop_abort"}
           /\ UNCHANGED <<is_running, works, leaves>>
  <2>1. runs' = runs
    BY <1>3, <1>7 DEF runs
  <2> QED
    BY <1>1, <1>2, <1>4, <1>7, <2>1, EffectOf
<1> QED
  BY <1>5, <1>6, <1>7

(* Who works until start_tasks, or when no stop is under way, has been     *)
(* aborted.                                                                *)
LEMMA NoneWorks ==
    ASSUME LifeInv, NEW c \in Client,
           \/ step[c] \in Starting
           \/ holder \in {None, c} /\ ~is_running /\ step[c] \notin {"stop_signal", "stop_abort"}
    PROVE  Quiet /\ works \subseteq leaves
<1>1. holder \in {None, c}
  BY DEF LifeInv, Control
<1>2. \A d \in Client : step[d] \notin {"stop_signal", "stop_abort"}
  BY <1>1, NoneAssumption
  DEF LifeInv, TypeOK, LifeTypeOK, Control, Starting, Stopping
<1>3. Quiet
  BY <1>2 DEF LifeInv, QuietUntilSpawned
<1> QED
  BY <1>3 DEF Quiet, works, leaves

LEMMA StartCommands ==
    ASSUME LifeInv, NEW c \in Client,
           \/ begin_start(c)
           \/ start_flag(c)
           \/ \E g \in Generation : start_channel(c, g)
           \/ start_tasks(c)
    PROVE  Commands!Next \/ UNCHANGED Commands!vars
<1>1. CASE begin_start(c)
  <2>1. /\ step[c] = "lock" /\ command[c] = "start" /\ holder = None
        /\ UNCHANGED <<command, is_running, task, ending, loop>>
    BY <1>1 DEF begin_start, begin, tasks
  <2>2. UNCHANGED <<works, leaves, handles>>
    BY <2>1 DEF works, leaves, handles
  <2>3. CASE is_running
    <3>1. step' = [step EXCEPT ![c] = "reply"]
      BY <1>1, <2>3 DEF begin_start, finish, Goto
    <3> QED
      BY <2>1, <2>2, <2>3, <3>1, EffectStep
  <2>4. CASE ~is_running
    <3>1. step' = [step EXCEPT ![c] = "start_flag"]
      BY <1>1, <2>4 DEF begin_start, Goto
    <3> QED
      BY <2>1, <2>2, <3>1, UnseenStep
  <2> QED
    BY <2>3, <2>4
<1>2. CASE start_flag(c)
  <2>1. /\ step[c] = "start_flag" /\ step' = [step EXCEPT ![c] = "start_channel"]
        /\ is_running' = TRUE /\ UNCHANGED <<command, task, ending, loop>>
    BY <1>2 DEF start_flag, Goto, tasks
  <2>2. holder = c /\ command[c] = "start"
    BY <2>1 DEF LifeInv, Control, Starting
  <2>3. UNCHANGED <<works, leaves, handles>>
    BY <2>1 DEF works, leaves, handles
  <2> QED
    BY <2>1, <2>2, <2>3, EffectStep
<1>3. CASE \E g \in Generation : start_channel(c, g)
  <2>1. /\ step[c] = "start_channel" /\ step' = [step EXCEPT ![c] = "start_tasks"]
        /\ UNCHANGED <<command, is_running, task, ending, loop>>
    BY <1>3 DEF start_channel, Goto
  <2>2. holder = c
    BY <2>1 DEF LifeInv, Control, Starting
  <2>3. UNCHANGED <<works, leaves, handles>>
    BY <2>1 DEF works, leaves, handles
  <2> QED
    BY <2>1, <2>2, <2>3, UnseenStep
<1>4. CASE start_tasks(c)
  <2>1. /\ step[c] = "start_tasks" /\ step' = [step EXCEPT ![c] = "reply"]
        /\ is_running' = TRUE /\ UNCHANGED <<command, loop>>
    BY <1>4 DEF start_tasks, finish, Goto
  <2>2. holder = c
    BY <2>1 DEF LifeInv, Control, Starting
  <2>3. \A w \in ending : w \notin task_handles
    BY DEF LifeInv, OneGeneration
  <2>4. Quiet /\ \A k \in Task : task[k][shutdown_tx] = "off"
    BY <2>1, NoneWorks DEF LifeInv, FreshChannel, Starting
  <2>5. PICK polled \in SUBSET task_handles :
            /\ aborted(polled)
            /\ task' = [k \in Task |-> [g \in Generation |->
                          IF g = shutdown_tx THEN "spawned" ELSE off_or_polled(k, g, polled)]]
    BY <1>4 DEF start_tasks
  <2>6. ASSUME NEW k \in TimedTask, NEW g \in Generation
        PROVE  /\ <<k, g>> \in ending' <=> <<k, g>> \in ending
               /\ task'[k][g] = "working" <=> task[k][g] = "working"
    <3>1. task'[k][g] = IF g = shutdown_tx THEN "spawned" ELSE off_or_polled(k, g, polled)
      BY <2>5 DEF Task
    <3>2. <<k, g>> \notin polled
      BY <2>3, <2>4, <2>5 DEF aborted, Pollable, Quiet
    <3> QED
      BY <2>3, <2>4, <2>5, <3>1, <3>2 DEF aborted, off_or_polled, Quiet, Task
  <2>7. works' = works
    BY <2>6 DEF works
  <2>8. leaves' = leaves
    BY <2>6 DEF leaves
  <2>9. handles' = handles
    BY <2>1 DEF handles
  <2>10. is_running
    BY <2>1 DEF LifeInv, Control
  <2> QED
    BY <2>1, <2>2, <2>7, <2>8, <2>9, <2>10, UnseenStep
<1> QED
  BY <1>1, <1>2, <1>3, <1>4

LEMMA StopCommands ==
    ASSUME LifeInv, NEW c \in Client,
           begin_stop(c) \/ stop_flag(c) \/ stop_signal(c) \/ stop_abort(c)
    PROVE  Commands!Next \/ UNCHANGED Commands!vars
<1>1. CASE begin_stop(c)
  <2>1. /\ step[c] = "lock" /\ command[c] = "stop" /\ holder = None
        /\ UNCHANGED <<command, is_running, task, ending, loop>>
    BY <1>1 DEF begin_stop, begin, tasks
  <2>2. UNCHANGED <<works, leaves, handles>>
    BY <2>1 DEF works, leaves, handles
  <2>3. CASE is_running
    <3>1. step' = [step EXCEPT ![c] = "stop_flag"]
      BY <1>1, <2>3 DEF begin_stop, Goto
    <3> QED
      BY <2>1, <2>2, <3>1, UnseenStep
  <2>4. CASE ~is_running
    <3>1. step' = [step EXCEPT ![c] = "reply"]
      BY <1>1, <2>4 DEF begin_stop, finish, Goto
    <3>2. SendsAway
      BY <2>1, <2>2, <2>4, NoneWorks DEF SendsAway
    <3> QED
      BY <2>1, <2>2, <2>4, <3>1, <3>2, EffectStep
  <2> QED
    BY <2>3, <2>4
<1>2. CASE stop_flag(c)
  <2>1. /\ step[c] = "stop_flag" /\ step' = [step EXCEPT ![c] = "stop_signal"]
        /\ UNCHANGED <<command, task, ending, loop>>
    BY <1>2 DEF stop_flag, Goto, tasks
  <2>2. holder = c /\ is_running
    BY <2>1 DEF LifeInv, Control, Stopping
  <2>3. UNCHANGED <<works, leaves, handles>>
    BY <2>1 DEF works, leaves, handles
  <2> QED
    BY <2>1, <2>2, <2>3, UnseenStep
<1>3. CASE stop_signal(c)
  <2>1. /\ step[c] = "stop_signal" /\ step' = [step EXCEPT ![c] = "stop_abort"]
        /\ UNCHANGED <<command, is_running, task, ending, loop>>
    BY <1>3 DEF stop_signal, Goto, tasks
  <2>2. holder = c
    BY <2>1 DEF LifeInv, Control, Stopping
  <2>3. UNCHANGED <<works, leaves, handles>>
    BY <2>1 DEF works, leaves, handles
  <2> QED
    BY <2>1, <2>2, <2>3, UnseenStep
<1>4. CASE stop_abort(c)
  <2>1. /\ step[c] = "stop_abort" /\ step' = [step EXCEPT ![c] = "reply"]
        /\ UNCHANGED <<command, is_running, loop>>
    BY <1>4 DEF stop_abort, finish, Goto
  <2>2. holder = c /\ command[c] = "stop" /\ ~is_running
    BY <2>1 DEF LifeInv, Control, Stopping
  <2>3. PICK polled \in SUBSET task_handles :
            /\ aborted(polled)
            /\ task' = [k \in Task |-> [g \in Generation |-> off_or_polled(k, g, polled)]]
    BY <1>4 DEF stop_abort
  <2>4. ASSUME NEW k \in TimedTask, NEW g \in Generation
        PROVE  /\ <<k, g>> \in ending' <=> <<k, g>> \in ending \/ <<k, g>> \in polled
               /\ <<k, g>> \in polled /\ <<k, g>> \notin ending => g = shutdown_tx
               /\ task'[k][g] = "working" <=> task[k][g] = "working" /\ <<k, g>> \in ending'
    <3>1. task'[k][g] = off_or_polled(k, g, polled) /\ <<k, g>> \in Task \X Generation
      BY <2>3 DEF Task
    <3>2. /\ task[k][g] # "off" =>
                \/ <<k, g>> \in ending
                \/ g = shutdown_tx /\ <<k, g>> \in task_handles
          /\ <<k, g>> \in ending => <<k, g>> \notin task_handles
      BY DEF LifeInv, OneGeneration
    <3>3. <<k, g>> \in polled => task[k][g] # "off"
      BY <2>3 DEF aborted, Pollable
    <3> QED
      BY <2>3, <3>1, <3>2, <3>3 DEF aborted, off_or_polled
  <2>5. leaves \subseteq leaves' /\ works' = works \cap leaves'
    BY <2>4 DEF leaves, works
  <2>6. \A w, v \in leaves' \ leaves : w[1] = v[1] => w = v
    BY <2>4 DEF leaves
  <2>7. handles' = handles
    BY <2>1 DEF handles
  <2> QED
    BY <2>1, <2>2, <2>5, <2>6, <2>7, EffectStep DEF SendsAway
<1> QED
  BY <1>1, <1>2, <1>3, <1>4

LEMMA ServingCommands ==
    ASSUME LifeInv, NEW c \in Client, inspect(c) \/ Serving(c)
    PROVE  Commands!Next \/ UNCHANGED Commands!vars
<1>1. UNCHANGED <<command, is_running, task, ending, loop>>
  BY DEF inspect, Serving, get_neighbors_of, get_neighbors_list, record_request,
         send_neighbor_request, answered, channel_closed, timed_out,
         cleanup_pending_request, write_answer, write_reply, InQuery, tasks
<1>2. UNCHANGED <<works, leaves, handles>>
  BY <1>1 DEF works, leaves, handles
<1>3. CASE \/ inspect(c) \/ get_neighbors_list(c) \/ answered(c)
           \/ cleanup_pending_request(c)
  <2>1. /\ step[c] \in {"lock"} \cup Querying
        /\ step' = [step EXCEPT ![c] = "reply"]
        /\ command[c] \in {"inspect", "neighbors_of"}
    BY <1>3 DEF inspect, begin, get_neighbors_list, answered, cleanup_pending_request,
                InQuery, finish, Goto, Querying
  <2>2. holder \in {None, c}
    BY <1>3 DEF inspect, begin, get_neighbors_list, answered, cleanup_pending_request,
                InQuery, Querying, LifeInv, Control
  <2> QED
    BY <1>1, <1>2, <2>1, <2>2, EffectStep DEF Querying
<1>4. CASE \/ get_neighbors_of(c) \/ \E id \in RequestId : record_request(c, id)
           \/ send_neighbor_request(c) \/ channel_closed(c) \/ timed_out(c)
  <2>1. /\ step[c] \in {"lock"} \cup Querying
        /\ \E next \in Querying : step' = [step EXCEPT ![c] = next]
    BY <1>4 DEF get_neighbors_of, begin, record_request, send_neighbor_request,
                channel_closed, timed_out, InQuery, Goto, Querying
  <2>2. holder \in {None, c}
    BY <1>4 DEF get_neighbors_of, begin, record_request, send_neighbor_request,
                channel_closed, timed_out, InQuery, Querying, LifeInv, Control
  <2>3. PICK next \in Querying : step' = [step EXCEPT ![c] = next]
    BY <2>1
  <2> QED
    BY <1>1, <1>2, <2>1, <2>2, <2>3, UnseenStep DEF Querying
<1>5. CASE write_answer(c)
  <2>1. step[c] = "reply" /\ step' = [step EXCEPT ![c] = "idle"]
    BY <1>5 DEF write_answer, write_reply, Goto
  <2>2. step'[c] = "idle" /\ \A d \in Client \ {c} : step'[d] = step[d]
    BY <2>1 DEF LifeInv, TypeOK
  <2>3. c \in carried_out /\ carried_out' = carried_out \ {c}
    BY <2>1, <2>2 DEF carried_out
  <2>4. asked' = [asked EXCEPT ![c] = "none"]
    BY <1>1, <2>2 DEF asked
  <2>5. runs' = runs
    BY <1>1, <2>1, <2>2 DEF runs
  <2>6. Commands!Reply(c)
    BY <1>2, <2>3, <2>4, <2>5
    DEF asked, carried_out, runs, works, leaves, handles, Commands!Reply
  <2> QED
    BY <2>6 DEF Commands!Next
<1> QED
  BY <1>3, <1>4, <1>5 DEF Serving

LEMMA GiveCommands ==
    ASSUME LifeInv, NEW c \in Client, NEW what \in Command, handle_client(c, what)
    PROVE  Commands!Next
<1>1. /\ step[c] = "idle" /\ step' = [step EXCEPT ![c] = "lock"]
      /\ command' = [command EXCEPT ![c] = what]
      /\ UNCHANGED <<is_running, task, ending, loop>>
  BY DEF handle_client, Goto, tasks
<1>2. /\ step'[c] = "lock" /\ command'[c] = what
      /\ \A d \in Client \ {c} : step'[d] = step[d] /\ command'[d] = command[d]
  BY <1>1 DEF LifeInv, TypeOK, LifeTypeOK
<1>3. asked[c] = "none" /\ asked' = [asked EXCEPT ![c] = what]
  BY <1>1, <1>2 DEF asked
<1>4. carried_out' = carried_out /\ runs' = runs
  BY <1>1, <1>2 DEF carried_out, runs
<1>5. UNCHANGED <<works, leaves, handles>>
  BY <1>1 DEF works, leaves, handles
<1>6. Commands!Give(c, what)
  BY <1>3, <1>4, <1>5
  DEF asked, carried_out, runs, works, leaves, handles, Commands!Give
<1> QED
  BY <1>6 DEF Commands!Next

(***************************************************************************)
(* The tasks                                                               *)
(***************************************************************************)
LEMMA ClientsStay ==
    ASSUME UNCHANGED <<clients, is_running>>
    PROVE  UNCHANGED <<asked, carried_out, runs>>
BY DEF clients, asked, carried_out, runs

LEMMA BecomesWorks ==
    ASSUME LifeTypeOK, NEW k \in TimedTask, NEW g \in Generation,
           NEW state, Become(k, g, state)
    PROVE  /\ works' = IF state = "working" THEN works \cup {<<k, g>>}
                       ELSE works \ {<<k, g>>}
           /\ leaves' = IF state = "off" THEN leaves \ {<<k, g>>} ELSE leaves
<1>1. k \in Task /\ TimedTask \subseteq Task
  BY DEF Task
<1>2. \A l \in TimedTask : \A h \in Generation :
        task'[l][h] = IF l = k /\ h = g THEN state ELSE task[l][h]
  BY <1>1 DEF Become, LifeTypeOK
<1>3. ASSUME NEW w \in TimedTask \X Generation
      PROVE  w = <<k, g>> <=> w[1] = k /\ w[2] = g
  OBVIOUS
<1>4. works' = IF state = "working" THEN works \cup {<<k, g>>} ELSE works \ {<<k, g>>}
  BY <1>2, <1>3 DEF works
<1>5. leaves' = IF state = "off" THEN leaves \ {<<k, g>>} ELSE leaves
  BY DEF Become, leaves
<1> QED
  BY <1>4, <1>5

(* A task that ends leaves, if it has been sent away. *)
LEMMA EndingCommands ==
    ASSUME LifeInv, NEW k \in TimedTask, NEW g \in Generation,
           Become(k, g, "off"),
           <<k, g>> \in works => <<k, g>> \in ending,
           UNCHANGED <<clients, is_running, loop>>
    PROVE  Commands!Next \/ UNCHANGED Commands!vars
<1>1. UNCHANGED <<asked, carried_out, runs, handles>>
  BY ClientsStay DEF handles
<1>2. works' = works \ {<<k, g>>} /\ leaves' = leaves \ {<<k, g>>}
  BY BecomesWorks DEF LifeInv, TypeOK
<1>3. CASE <<k, g>> \in ending
  <2>1. <<k, g>> \in leaves
    BY <1>3 DEF leaves
  <2>2. Commands!Leave(k, g)
    BY <1>1, <1>2, <2>1
    DEF asked, carried_out, runs, works, leaves, handles, Commands!Leave
  <2> QED
    BY <2>2 DEF Commands!Next
<1>4. CASE <<k, g>> \notin ending
  <2>1. works' = works /\ leaves' = leaves
    BY <1>2, <1>4 DEF works, leaves
  <2> QED
    BY <1>1, <2>1, SameCommands DEF mapped
<1> QED
  BY <1>3, <1>4

LEMMA TimedCommands ==
    ASSUME LifeInv, NEW k \in TimedTask, NEW g \in Generation,
           Tick(k, g) \/ TickDone(k, g) \/ TaskShutdown(k, g) \/ Yield(k, g)
    PROVE  Commands!Next \/ UNCHANGED Commands!vars
<1>1. UNCHANGED <<clients, is_running, loop>>
  BY DEF Tick, TickDone, TaskShutdown, Yield
<1>2. UNCHANGED <<asked, carried_out, runs, handles>>
  BY <1>1, ClientsStay DEF handles
<1>3. LifeTypeOK
  BY DEF LifeInv, TypeOK
<1>4. CASE Tick(k, g) /\ is_running
  <2>1. task[k][g] = "spawned" /\ Become(k, g, "working")
    BY <1>4 DEF Tick
  <2>2. works' = works \cup {<<k, g>>} /\ leaves' = leaves
    BY <1>3, <2>1, BecomesWorks
  <2>3. <<k, g>> \notin leaves => \A h \in Generation : <<k, h>> \in works => <<k, h>> \in leaves
    BY <2>1 DEF LifeInv, OneGeneration, works, leaves
  <2>4. runs
    BY <1>4 DEF runs
  <2>5. Commands!Work(k, g)
    BY <1>2, <2>2, <2>3, <2>4
    DEF asked, carried_out, runs, works, leaves, handles, Commands!Work
  <2> QED
    BY <2>5 DEF Commands!Next
<1>5. CASE TickDone(k, g)
  <2>1. works' = works \ {<<k, g>>} /\ leaves' = leaves
    BY <1>3, <1>5, BecomesWorks DEF TickDone
  <2>2. Commands!Rest(k, g)
    BY <1>2, <2>1
    DEF asked, carried_out, runs, works, leaves, handles, Commands!Rest
  <2> QED
    BY <2>2 DEF Commands!Next
<1>6. CASE (Tick(k, g) /\ ~is_running) \/ TaskShutdown(k, g)
  <2>1. task[k][g] = "spawned" /\ Become(k, g, "off")
    BY <1>6 DEF Tick, TaskShutdown
  <2> QED
    BY <1>1, <2>1, EndingCommands DEF works
<1>7. CASE Yield(k, g)
  BY <1>1, <1>7, EndingCommands DEF Yield
<1> QED
  BY <1>4, <1>5, <1>6, <1>7

(* A listen task does nothing that is read off but at its loop. *)
LEMMA ListenBecomes ==
    ASSUME LifeInv, NEW g \in Generation, NEW state, Become("listen", g, state)
    PROVE  UNCHANGED <<works, leaves>>
<1>1. \A k \in TimedTask : task'[k] = task[k]
  BY TaskAssumption DEF Become, LifeInv, TypeOK, LifeTypeOK, Task
<1>2. leaves' = leaves
  BY TaskAssumption DEF Become, leaves
<1> QED
  BY <1>1, <1>2 DEF works

LEMMA ListeningCommands ==
    ASSUME LifeInv, NEW g \in Generation, Listening(g)
    PROVE  Commands!Next \/ UNCHANGED Commands!vars
<1>1. UNCHANGED <<clients, is_running>>
  BY DEF Listening, listen_task, ListenDone, TakeDatagram, DatagramDone, LoopShutdown
<1>2. UNCHANGED <<asked, carried_out, runs>>
  BY <1>1, ClientsStay
<1>3. UNCHANGED <<works, leaves>>
  <2>1. CASE UNCHANGED <<task, ending>>
    BY <2>1 DEF works, leaves
  <2>2. CASE \E state : Become("listen", g, state)
    BY <2>2, ListenBecomes
  <2> QED
    BY <2>1, <2>2
    DEF Listening, listen_task, ListenDone, TakeDatagram, DatagramDone, LoopShutdown
<1>4. CASE loop' = loop
  <2>1. handles' = handles
    BY <1>4 DEF handles
  <2> QED
    BY <1>2, <1>3, <2>1, SameCommands DEF mapped
<1>5. ASSUME NEW state, loop' = [loop EXCEPT ![g] = state], state # "working"
      PROVE  Commands!Next
  <2>1. handles' = handles \ {g}
    BY <1>5 DEF handles, LifeInv, TypeOK, LifeTypeOK
  <2>2. Commands!Handled(g)
    BY <1>2, <1>3, <2>1
    DEF asked, carried_out, runs, works, leaves, handles, Commands!Handled
  <2> QED
    BY <2>2 DEF Commands!Next
<1>6. ASSUME loop' = [loop EXCEPT ![g] = "working"], is_running
      PROVE  Commands!Next
  <2>1. handles' = handles \cup {g}
    BY <1>6 DEF handles, LifeInv, TypeOK, LifeTypeOK
  <2>2. runs
    BY <1>6 DEF runs
  <2>3. Commands!Handle(g)
    BY <1>2, <1>3, <2>1, <2>2
    DEF asked, carried_out, runs, works, leaves, handles, Commands!Handle
  <2> QED
    BY <2>3 DEF Commands!Next
<1>7. \/ loop' = loop
      \/ loop' = [loop EXCEPT ![g] = "waiting"]
      \/ loop' = [loop EXCEPT ![g] = "off"]
      \/ loop' = [loop EXCEPT ![g] = "working"] /\ is_running
  BY DEF Listening, listen_task, ListenDone, TakeDatagram, DatagramDone, LoopShutdown
<1> QED
  BY <1>4, <1>5, <1>6, <1>7

LEMMA NextCommands ==
    ASSUME LifeInv, [Next]_vars
    PROVE  Commands!Next \/ UNCHANGED Commands!vars
<1>1. ASSUME UNCHANGED <<clients, is_running, task, ending, loop>>
      PROVE  UNCHANGED Commands!vars
  <2>1. UNCHANGED <<works, leaves, handles>>
    BY <1>1 DEF works, leaves, handles
  <2> QED
    BY <1>1, <2>1, ClientsStay, SameCommands DEF mapped
<1>2. ASSUME NEW c \in Client, ControlStep(c)
      PROVE  Commands!Next \/ UNCHANGED Commands!vars
  BY <1>2, StartCommands, StopCommands, ServingCommands DEF ControlStep, StartOrStop
<1>3. ASSUME NEW c \in Client, NEW target \in Router, ask_neighbors_of(c, target)
      PROVE  Commands!Next
  BY <1>3, GiveCommands DEF ask_neighbors_of, Command
<1>4. ASSUME NEW g \in Generation, NEW k \in TimedTask, TimedStep(k, g)
      PROVE  Commands!Next \/ UNCHANGED Commands!vars
  BY <1>4, TimedCommands DEF TimedStep, Yielding
<1>5. ASSUME NEW g \in Generation, Sweep(g)
      PROVE  Commands!Next \/ UNCHANGED Commands!vars
  <2>1. TickDone("pending", g) \/ UNCHANGED life
    BY <1>5 DEF Sweep, SweepScan, SweepRemove
  <2> QED
    BY <1>1, <2>1, TimedCommands, QueryAssumption DEF life, tasks
<1>6. ASSUME \/ \E g \in Generation : \E m \in net : handle_neighbor_response(m, g)
             \/ \E m \in net : \/ \E peer \in Peer : handle_neighbor_request(m, peer)
                               \/ Lose(m)
             \/ \E id \in RequestId : ClockSet(id)
             \/ UNCHANGED vars
      PROVE  UNCHANGED Commands!vars
  BY <1>1, <1>6
  DEF handle_neighbor_response, handle_neighbor_request, Lose, ClockSet, vars, life, tasks
<1>7. ASSUME NEW g \in Generation, Yielding("listen", g)
      PROVE  UNCHANGED Commands!vars
  <2>1. UNCHANGED <<works, leaves>>
    BY <1>7, ListenBecomes DEF Yielding, Yield
  <2>2. UNCHANGED <<asked, carried_out, runs, handles>>
    BY <1>7, ClientsStay DEF Yielding, Yield, handles
  <2> QED
    BY <2>1, <2>2, SameCommands DEF mapped
<1> QED
  BY <1>2, <1>3, <1>4, <1>5, <1>6, <1>7, GiveCommands, ServingCommands, ListeningCommands DEF Next

(* However many clients give commands at once, and whatever the tasks do   *)
(* between their steps: each start and stop is as if it happened at one    *)
(* moment; before the one and after the other no timed task works, and in  *)
(* between no two of a kind, but for those that a stop has aborted and     *)
(* that are about to go.                                                   *)
THEOREM CommandsTakeEffectAtOnce == Spec => CommandsAreAtomic
<1>1. LifeInv /\ [Next]_vars => [Commands!Next]_(Commands!vars)
  BY NextCommands
<1> QED
  BY LifeInvariant, InitCommands, <1>1, PTL DEF Spec, CommandsAreAtomic, Commands!Spec
=============================================================================
