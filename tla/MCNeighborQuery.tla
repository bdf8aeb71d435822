--------------------------- MODULE MCNeighborQuery ---------------------------
(* A router a, with peers p and q or p alone, and two clients.  In the life *)
(* instance both start the protocol and one stops it; in the query instance *)
(* both ask, one of them starts it, as main does, and the other inspects it.*)
EXTENDS NeighborQuery, TLC

CONSTANTS a, p, q, op, asker

mc_LifeTasks == {"pending"}
mc_LifeGives == op :> {"start"} @@ asker :> {"start", "stop"}
mc_LifeAsks == [c \in Client |-> {}]

mc_QueryTasks == {"hello", "pending"}
mc_QueryGives == op :> {"start", "neighbors_of"} @@ asker :> {"neighbors_of", "inspect"}
mc_QueryAsks == op :> {a} @@ asker :> {p, q}
=============================================================================
