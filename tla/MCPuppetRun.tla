----------------------------- MODULE MCPuppetRun -----------------------------
(* Puppet runs on one node, small instances for TLC. *)
EXTENDS PuppetRun

\* Negative, absent, within the cap, over the cap.
MCDelays == {-1, 0, 1, 3}
==============================================================================
