----------------------------- MODULE NodeWatcher -----------------------------
(***************************************************************************)
(* The client's live view of the fleet: client/watch.go, with              *)
(* parseHeartbeat and staleAge of client/discovery.go.                     *)
(*                                                                         *)
(* The view is kept per topic, that is per start of a daemon; Discovery    *)
(* reports it per fqdn.                                                    *)
(***************************************************************************)
EXTENDS Presence

CONSTANT StaleAge      \* how long a heartbeat may be silent, from the node's own interval

ASSUME WatcherAssumption == StaleAge \in Nat

VARIABLE view          \* NodeWatcher.nodes: the last usable node info of every topic, or Gone

watcherVars == <<presenceVars, view>>

WatcherTypeOK == PresenceTypeOK /\ view \in [Topics -> Info \cup {Gone}]

\* WatchNodes: one subscription, never dropped.
WatcherInit == PresenceInit /\ view = [t \in Topics |-> Gone]

\* parseHeartbeat: not cleared, parsable, and with a rodrev service entry.  The legacy tree
\* is outside of the subscription.
IsNode(payload) == payload \in Info /\ payload.rodrev
Watched == Topics \ {Legacy}

-----------------------------------------------------------------------------
(* Plausible bugs of the actions below, put in their place to see that the *)
(* properties notice them                                                  *)

\* A cleared heartbeat goes through parseHeartbeat, which says it is no node, and is ignored.
ClearedIgnored(t) ==
    /\ Receive(t)
    /\ NextMessage(t) = Gone
    /\ UNCHANGED <<now, up, boots, retained, view>>

\* A node that is known is not looked at again.
SeenOnce(t) ==
    /\ Receive(t)
    /\ IsNode(NextMessage(t))
    /\ view' = IF view[t] = Gone THEN [view EXCEPT ![t] = NextMessage(t)] ELSE view
    /\ UNCHANGED <<now, up, boots, retained>>

-----------------------------------------------------------------------------
(* NodeWatcher.run                                                         *)

Cleared(t) ==
    /\ Receive(t)
    /\ NextMessage(t) = Gone
    /\ view' = [view EXCEPT ![t] = Gone]
    /\ UNCHANGED <<now, up, boots, retained>>

Ignored(t) ==
    /\ Receive(t)
    /\ NextMessage(t) # Gone
    /\ ~IsNode(NextMessage(t))
    /\ UNCHANGED <<now, up, boots, retained, view>>

Seen(t) ==
    /\ Receive(t)
    /\ IsNode(NextMessage(t))
    /\ view' = [view EXCEPT ![t] = NextMessage(t)]
    /\ UNCHANGED <<now, up, boots, retained>>

Run(t) == Cleared(t) \/ Ignored(t) \/ Seen(t)

\* NodeWatcher.Discovery: entries by fqdn, each in one of the two maps by its age.
Quiet(t) == now - view[t].ts > StaleAge
Entries(h) == {t \in Watched : t[1] = h /\ view[t] # Gone}
Active == {h \in Hosts : \E t \in Entries(h) : ~Quiet(t)}
StaleNodes == {h \in Hosts : \E t \in Entries(h) : Quiet(t)}

-----------------------------------------------------------------------------
Daemons == /\ \/ Tick
              \/ \E h \in Hosts : Boot(h) \/ Heartbeat(h) \/ Leave(h) \/ Vanish(h)
           /\ UNCHANGED view

WatcherNext == Daemons \/ \E t \in Watched : Run(t)

WatcherSpec == WatcherInit /\ [][WatcherNext]_watcherVars

\* The watcher reads on, time passes and a daemon that is up keeps checking in.
WatcherFairness ==
    /\ WF_watcherVars(Tick /\ UNCHANGED view)
    /\ \A t \in Watched : WF_watcherVars(Run(t))
    /\ \A h \in Hosts : SF_watcherVars(Heartbeat(h) /\ UNCHANGED view)

WatcherFairSpec == WatcherSpec /\ WatcherFairness

-----------------------------------------------------------------------------
(* Properties                                                              *)

\* The last message of a topic that has not been read yet decides, else the view.
LastWord(t) ==
    LET usable == {i \in DOMAIN feed[t] : feed[t][i] = Gone \/ IsNode(feed[t][i])}
    IN  IF usable = {} THEN view[t]
        ELSE feed[t][CHOOSE i \in usable : \A j \in usable : j <= i]

\* watch.go:16-19, one subscription "sees every heartbeat, including the empty one a node
\* sends on its way out": once it has caught up the view is what is retained, so a clean
\* goodbye is never missed and a topic without node info never shows.
ViewIsThePresence == \A t \in Watched :
    LastWord(t) = IF IsNode(retained[t]) THEN retained[t] ELSE Gone

\* The inductive form.  A first heartbeat without services says nothing and is sound only
\* because there was nothing before it on its topic.
WatcherInv == WatcherTypeOK /\ FutureIsGone /\ ViewIsThePresence

\* A daemon that stays up ends up, and stays, among the active nodes, whatever its earlier
\* starts left on the broker and although its first heartbeat may have lacked its services.
LiveIsActive == \A h \in Hosts : <>[]up[h] => <>[](h \in Active)
==============================================================================
