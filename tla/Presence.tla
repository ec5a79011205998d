------------------------------- MODULE Presence -------------------------------
(***************************************************************************)
(* Retained presence on the broker: how daemons announce themselves        *)
(* (daemon.New, common.NewNode) and what a subscriber to discovery/# gets  *)
(* to see.  HeartbeatCleanup and NodeWatcher are two such subscribers.     *)
(*                                                                         *)
(* Every start of a daemon draws a new uuid, so it announces itself on a   *)
(* topic of its own and never touches the one it used before.  The broker  *)
(* and the announcing goroutine of zerosvc are external.                   *)
(***************************************************************************)
EXTENDS Integers, Sequences

CONSTANTS
    Hosts,        \* fqdns of the daemons
    SlowClock,    \* hosts whose clock is stuck at the beginning of time
    Announced,    \* whether the services may be in the first heartbeat: BOOLEAN, or {TRUE}
                  \* for a subscriber that does not look at them
    MaxBoots,     \* per host, bound on the starts of its daemon
    MaxTime,      \* bound on the clock
    MaxFeed,      \* bound on the messages of a topic a subscriber has not read
    Gone,         \* no retained message, and the empty message that removes one
    Junk,         \* a payload that is not node info
    Legacy        \* a topic of the heartbeat tree older daemons used

ASSUME PresenceAssumption ==
    /\ SlowClock \subseteq Hosts /\ Announced \subseteq BOOLEAN
    /\ MaxBoots \in [Hosts -> Nat \ {0}] /\ MaxTime \in Nat /\ MaxFeed \in Nat \ {0}

\* discovery/<name>/<uuid>: the uuid stands for the start that drew it.
Topic(h, b) == <<h, b>>
NodeTopics == UNION {{Topic(h, b) : b \in 1..MaxBoots[h]} : h \in Hosts}
Topics == NodeTopics \cup {Legacy}

\* Node info: a timestamp by the node's own clock, and whether the services are in yet.
Info == [ts : 0..MaxTime, rodrev : BOOLEAN]
Payloads == Info \cup {Junk, Gone}

ASSUME TokensAssumption ==
    /\ Gone \notin Info \cup {Junk} /\ Junk \notin Info
    /\ Legacy \notin NodeTopics

VARIABLES
    now,          \* true time
    up,           \* which daemons run
    boots,        \* how often each was started, the last uuid it drew
    retained,     \* the retained message of every topic
    feed          \* messages on the subscriber's channel, by topic: a subscriber keeps
                  \* something per topic, so only their order within one matters

presenceVars == <<now, up, boots, retained, feed>>

\* presenceTopic: where the last start of a daemon announces itself.
Own(h) == Topic(h, boots[h])

PresenceTypeOK ==
    /\ now \in 0..MaxTime
    /\ up \in [Hosts -> BOOLEAN]
    /\ boots \in [Hosts -> Nat] /\ \A h \in Hosts : boots[h] \in 1..MaxBoots[h]
    /\ retained \in [Topics -> Payloads]
    /\ feed \in [Topics -> Seq(Payloads)]

\* What is on the broker when the subscription is made is anybody's guess, earlier starts of
\* every daemon included, as long as the running ones announced themselves; a new
\* subscription brings all of it.
PresenceInit ==
    /\ now = 0
    /\ up \in [Hosts -> BOOLEAN]
    /\ boots \in [Hosts -> UNION {1..MaxBoots[h] : h \in Hosts}]
    /\ \A h \in Hosts : boots[h] \in 1..MaxBoots[h]
    /\ retained \in [Topics -> {[ts |-> 0, rodrev |-> TRUE], Junk, Gone}]
    /\ retained[Legacy] \in {Junk, Gone}
    /\ \A h \in Hosts : up[h] => retained[Own(h)] \in Info
    /\ \A h \in Hosts : \A b \in boots[h] + 1..MaxBoots[h] : retained[Topic(h, b)] = Gone
    /\ feed = [t \in Topics |-> IF retained[t] = Gone THEN <<>> ELSE <<retained[t]>>]

-----------------------------------------------------------------------------
(* The broker                                                              *)

\* A retained publish replaces (or, when empty, removes) what is there, and goes to the
\* subscriber.
Publish(t, payload) ==
    /\ Len(feed[t]) < MaxFeed
    /\ retained' = [retained EXCEPT ![t] = payload]
    /\ feed' = [feed EXCEPT ![t] = Append(@, payload)]

\* The subscriber reads the next message of a topic.
NextMessage(t) == Head(feed[t])
Receive(t) ==
    /\ feed[t] # <<>>
    /\ feed' = [feed EXCEPT ![t] = Tail(@)]

-----------------------------------------------------------------------------
(* The daemons                                                             *)

Clock(h) == IF h \in SlowClock THEN 0 ELSE now

\* daemon.New: a new uuid, and a first heartbeat that goes out as soon as the node is
\* built, before or after NewNode has filled in its services.
Boot(h) ==
    /\ ~up[h]
    /\ boots[h] < MaxBoots[h]
    /\ up' = [up EXCEPT ![h] = TRUE]
    /\ boots' = [boots EXCEPT ![h] = @ + 1]
    /\ \E rodrev \in Announced :
           Publish(Topic(h, boots[h] + 1), [ts |-> Clock(h), rodrev |-> rodrev])
    /\ UNCHANGED now

\* The announcing goroutine, every heartbeatInterval.
Heartbeat(h) ==
    /\ up[h]
    /\ Publish(Own(h), [ts |-> Clock(h), rodrev |-> TRUE])
    /\ UNCHANGED <<now, up, boots>>

\* The daemon disconnects and its MQTT will clears its presence.
Leave(h) ==
    /\ up[h]
    /\ up' = [up EXCEPT ![h] = FALSE]
    /\ Publish(Own(h), Gone)
    /\ UNCHANGED <<now, boots>>

\* The daemon is gone and the will was never carried out: the broker went down with it.
Vanish(h) ==
    /\ up[h]
    /\ up' = [up EXCEPT ![h] = FALSE]
    /\ UNCHANGED <<now, boots, retained, feed>>

Tick ==
    /\ now < MaxTime
    /\ now' = now + 1
    /\ UNCHANGED <<up, boots, retained, feed>>

\* Nobody will ever publish on the topic again.
Abandoned(t) == t = Legacy \/ \E h \in Hosts : \E b \in 1..boots[h] :
    t = Topic(h, b) /\ (b < boots[h] \/ ~up[h])
-----------------------------------------------------------------------------
(* Parts of the subscribers' invariants                                    *)

\* What is still unread of a topic ends in what is retained.
FeedIsCurrent == \A t \in Topics : feed[t] # <<>> => feed[t][Len(feed[t])] = retained[t]

\* A start that is yet to come has left nothing.
FutureIsGone == \A h \in Hosts : \A b \in boots[h] + 1..MaxBoots[h] :
    retained[Topic(h, b)] = Gone

===============================================================================
