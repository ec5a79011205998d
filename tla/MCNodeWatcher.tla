---------------------------- MODULE MCNodeWatcher ----------------------------
(* The watcher of two daemons, small instance for TLC. *)
EXTENDS NodeWatcher

CONSTANTS a, b

\* Two starts of each, of which the first may be over when the watcher subscribes.
MCBoots == [h \in {a, b} |-> 2]
==============================================================================
