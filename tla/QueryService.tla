---------------------------- MODULE QueryService ----------------------------
(***************************************************************************)
(* What neighbors_of promises its clients, whatever happens to messages    *)
(* and tasks: questions are served one at a time, and each gets one        *)
(* answer, the neighbours of the router it asked about or a failure.       *)
(***************************************************************************)
CONSTANTS
    Client,
    Router,   \* the routers whose neighbours can be asked for
    Failed,   \* the answer when there is none
    None

VARIABLES
    question,  \* the router each client asks about, or None
    serving,   \* the client whose question is being served, or None
    answer     \* what each client is told: the router whose neighbours
               \* it is given, or Failed; None before

vars == <<question, serving, answer>>

Init ==
    /\ question = [c \in Client |-> None]
    /\ serving = None
    /\ answer = [c \in Client |-> None]

Ask(c, r) ==
    /\ question[c] = None
    /\ question' = [question EXCEPT ![c] = r]
    /\ UNCHANGED <<serving, answer>>

Serve(c) ==
    /\ serving = None
    /\ question[c] # None
    /\ answer[c] = None
    /\ serving' = c
    /\ UNCHANGED <<question, answer>>

Conclude(c) ==
    /\ serving = c
    /\ \E a \in {question[c], Failed} : answer' = [answer EXCEPT ![c] = a]
    /\ serving' = None
    /\ UNCHANGED question

Tell(c) ==
    /\ answer[c] # None
    /\ question' = [question EXCEPT ![c] = None]
    /\ answer' = [answer EXCEPT ![c] = None]
    /\ UNCHANGED serving

Next ==
    \E c \in Client :
        \/ \E r \in Router : Ask(c, r)
        \/ Serve(c)
        \/ Conclude(c)
        \/ Tell(c)

Spec == Init /\ [][Next]_vars

Fairness ==
    \A c \in Client : SF_vars(Serve(c)) /\ WF_vars(Conclude(c)) /\ WF_vars(Tell(c))

FairSpec == Spec /\ Fairness
=============================================================================
