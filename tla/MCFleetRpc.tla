------------------------------ MODULE MCFleetRpc ------------------------------
(* A session and a fleet of two daemons, small instances for TLC. *)
EXTENDS FleetRpc, TLC

CONSTANTS c1, c2

MCNodes == {"n1", "n2"}
Of(op, node) == [op |-> op, node |-> node]

\* One broadcast that is counted, or, as NodeSnapshot does, a dump of facts and one of classes.
MCAsks ==
    {c1 :> Of(op, "n1") @@ c2 :> Of(Unused, "n1") : op \in {"FilterMatch", "Query", "Status"}}
    \cup {c1 :> Of("NodeFacts", "n1") @@ c2 :> Of("NodeClasses", "n2")}
===============================================================================
