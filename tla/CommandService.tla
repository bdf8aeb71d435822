--------------------------- MODULE CommandService ---------------------------
(***************************************************************************)
(* What the commands promise their clients, whatever the steps they take:  *)
(* each takes effect at one moment, after it is given and before it is     *)
(* replied to.  A start lets the tasks work and a stop sends them away, at *)
(* most one of each kind.  Who is sent away may take a while to leave; but *)
(* for those, a timed task works only while the protocol runs, and only    *)
(* one of its kind does.                                                   *)
(***************************************************************************)
CONSTANTS
    Client,
    Command,
    TimedTask,   \* the tasks that wait on an interval
    Worker       \* who may be at such a task, or at datagrams

VARIABLES
    request,  \* the command each client has given, or "none"
    done,     \* the clients whose command has taken effect
    running,  \* whether the protocol runs
    working,  \* who is at which timed task: a set of <<task, worker>>
    leaving,  \* who a stop has sent away from it
    handling  \* the workers that handle a datagram

vars == <<request, done, running, working, leaving, handling>>

Init ==
    /\ request = [c \in Client |-> "none"]
    /\ done = {}
    /\ running = FALSE
    /\ working = {}
    /\ leaving = {}
    /\ handling = {}

Give(c, what) ==
    /\ request[c] = "none"
    /\ request' = [request EXCEPT ![c] = what]
    /\ UNCHANGED <<done, running, working, leaving, handling>>

Start ==
    /\ running' = TRUE
    /\ UNCHANGED <<working, leaving>>

(* No datagram is cut off: its worker ends when it has handled it. *)
Stop ==
    /\ running' = FALSE
    /\ leaving' \in SUBSET (TimedTask \X Worker)
    /\ leaving \subseteq leaving'
    /\ \A w, v \in leaving' \ leaving : w[1] = v[1] => w = v
    /\ working' = working \cap leaving'

Effect(c) ==
    /\ request[c] # "none"
    /\ c \notin done
    /\ done' = done \cup {c}
    /\ CASE request[c] = "start" -> Start
         [] request[c] = "stop" -> Stop
         [] OTHER -> UNCHANGED <<running, working, leaving>>
    /\ UNCHANGED <<request, handling>>

Reply(c) ==
    /\ c \in done
    /\ request' = [request EXCEPT ![c] = "none"]
    /\ done' = done \ {c}
    /\ UNCHANGED <<running, working, leaving, handling>>

Work(k, w) ==
    /\ running
    /\ <<k, w>> \notin leaving =>
          \A v \in Worker : <<k, v>> \in working => <<k, v>> \in leaving
    /\ working' = working \cup {<<k, w>>}
    /\ UNCHANGED <<request, done, running, leaving, handling>>

Rest(k, w) ==
    /\ working' = working \ {<<k, w>>}
    /\ UNCHANGED <<request, done, running, leaving, handling>>

Leave(k, w) ==
    /\ <<k, w>> \in leaving
    /\ leaving' = leaving \ {<<k, w>>}
    /\ working' = working \ {<<k, w>>}
    /\ UNCHANGED <<request, done, running, handling>>

Handle(w) ==
    /\ running
    /\ handling' = handling \cup {w}
    /\ UNCHANGED <<request, done, running, working, leaving>>

Handled(w) ==
    /\ handling' = handling \ {w}
    /\ UNCHANGED <<request, done, running, working, leaving>>

Next ==
    \/ \E c \in Client :
          \/ \E what \in Command : Give(c, what)
          \/ Effect(c)
          \/ Reply(c)
    \/ \E w \in Worker :
          \/ \E k \in TimedTask : Work(k, w) \/ Rest(k, w) \/ Leave(k, w)
          \/ Handle(w)
          \/ Handled(w)

Spec == Init /\ [][Next]_vars
=============================================================================
