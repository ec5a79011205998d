------------------------------- MODULE MCFence -------------------------------
(* Agents that fence one node, small instances for TLC. *)
EXTENDS Fence

\* What rv sends: the group of its own configuration and the node that was asked for.
FromTheCli == {r \in Requests : r.cmd # "other" /\ r.decodes /\ r.names = "me"}

\* Fence requests by group or by node_map entry that name anybody or do not decode, a
\* status request and one with an unknown command.
SomeRequests ==
    {r \in Requests : r.cmd = "fence" /\ r.decodes /\ ~(r.group /\ r.mapped) /\ r.names # "nobody"}
    \cup {r \in Requests : ~r.decodes /\ r.cmd = "fence" /\ r.names = "me" /\ r.group /\ r.mapped}
    \cup {[cmd |-> c, decodes |-> TRUE, names |-> "nobody", group |-> TRUE, mapped |-> FALSE]
             : c \in {"status", "other"}}
==============================================================================
