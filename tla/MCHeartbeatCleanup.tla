-------------------------- MODULE MCHeartbeatCleanup --------------------------
(* The cleanup of one daemon among two, small instance for TLC. *)
EXTENDS HeartbeatCleanup

\* Model values, so that the initial states can tell the cleaning daemon from the other one.
CONSTANTS a, b
MCBoots == [h \in {a, b} |-> 2]

\* A pass looks at one topic after the other, so no more of them are in use than it takes for
\* a removal of each kind beside a heartbeat of each kind: the other daemon restarts; or the one
\* that cleans up finds what an earlier start of its own left behind, and either the other one
\* in its last start or the message of an older daemon.
MCInit ==
    /\ Init
    /\ \/ boots[a] = 1 /\ boots[b] = 1 /\ retained[Legacy] = Gone
       \/ boots[a] = 2 /\ boots[b] = 2 /\ retained[Topic(b, 1)] = Gone /\ retained[Legacy] = Gone
       \/ boots[a] = 2 /\ boots[b] = 2 /\ ~up[b] /\ retained[Topic(b, 1)] = Gone
                                       /\ retained[Topic(b, 2)] = Gone

MCFairSpec == MCInit /\ [][Next]_vars /\ Fairness
===============================================================================
