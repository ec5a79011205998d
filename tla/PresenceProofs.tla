--------------------------- MODULE PresenceProofs ---------------------------
(***************************************************************************)
(* Proofs about Presence and the two that follow it, HeartbeatCleanup and  *)
(* NodeWatcher, for any fleet, any number of restarts, any clock and any   *)
(* backlog of unread messages: what a follower will believe once it has    *)
(* read everything is what the broker retains, a cleaning daemon leaves    *)
(* its own presence alone, and neither of them takes a step back.          *)
(***************************************************************************)
EXTENDS HeartbeatCleanup, NodeWatcher, SequenceTheorems, NaturalsInduction,
        WellFoundedInduction, TLAPS

-----------------------------------------------------------------------------
(* Topics and payloads                                                     *)

\* Every start has a topic of the heartbeat tree of its own.
LEMMA TopicOfStart ==
    ASSUME NEW h \in Hosts, NEW b \in 1..MaxBoots[h]
    PROVE  /\ Topic(h, b) \in NodeTopics /\ Topic(h, b) \in Topics /\ Topic(h, b) # Legacy
           /\ Topic(h, b) \in Watched
  <1>1. Topic(h, b) \in {Topic(h, x) : x \in 1..MaxBoots[h]}
    OBVIOUS
  <1>2. Topic(h, b) \in NodeTopics
    BY <1>1 DEF NodeTopics
  <1>3. QED BY <1>2, TokensAssumption DEF Topics, Watched

LEMMA TopicsDiffer ==
    ASSUME NEW h, NEW b, NEW k, NEW c, Topic(h, b) = Topic(k, c)
    PROVE  h = k /\ b = c
  BY DEF Topic

\* A heartbeat is node info by the clock of its daemon.
LEMMA HeartbeatIsInfo ==
    ASSUME PresenceTypeOK, NEW h \in Hosts, NEW r \in BOOLEAN
    PROVE  /\ [ts |-> Clock(h), rodrev |-> r] \in Info
           /\ [ts |-> Clock(h), rodrev |-> r] \in Payloads
           /\ [ts |-> Clock(h), rodrev |-> r] # Gone
  <1>1. Clock(h) \in 0..MaxTime
    BY PresenceAssumption DEF PresenceTypeOK, Clock
  <1>2. [ts |-> Clock(h), rodrev |-> r] \in Info
    BY <1>1 DEF Info
  <1>3. QED BY <1>2, TokensAssumption DEF Payloads

LEMMA OwnIsATopic ==
    ASSUME PresenceTypeOK, NEW h \in Hosts
    PROVE  /\ boots[h] \in 1..MaxBoots[h]
           /\ Own(h) \in Topics /\ Own(h) \in Watched /\ Own(h) # Legacy
           /\ boots[h] < MaxBoots[h] =>
                  /\ boots[h] + 1 \in 1..MaxBoots[h]
                  /\ Topic(h, boots[h] + 1) \in Topics /\ Topic(h, boots[h] + 1) \in Watched
  <1>1. boots[h] \in 1..MaxBoots[h] /\ MaxBoots[h] \in Nat
    BY PresenceAssumption DEF PresenceTypeOK
  <1>2. boots[h] < MaxBoots[h] => boots[h] + 1 \in 1..MaxBoots[h]
    BY <1>1
  <1>3. QED BY <1>1, <1>2, TopicOfStart DEF Own

-----------------------------------------------------------------------------
(* What a publish and a receive do                                         *)

\* The broker's two sides of a publish: the topic retains it and the unread end in it.
LEMMA PublishEffect ==
    ASSUME PresenceTypeOK, NEW t \in Topics, NEW p \in Payloads, Publish(t, p)
    PROVE  /\ retained' \in [Topics -> Payloads] /\ feed' \in [Topics -> Seq(Payloads)]
           /\ retained'[t] = p
           /\ Len(feed'[t]) = Len(feed[t]) + 1 /\ feed'[t][Len(feed[t]) + 1] = p
           /\ \A i \in 1..Len(feed[t]) : feed'[t][i] = feed[t][i]
           /\ feed'[t] # <<>>
           /\ \A u \in Topics \ {t} : retained'[u] = retained[u] /\ feed'[u] = feed[u]
  <1> USE DEF PresenceTypeOK
  <1>1. feed[t] \in Seq(Payloads)
    OBVIOUS
  <1>2. feed' = [feed EXCEPT ![t] = Append(feed[t], p)] /\ retained' = [retained EXCEPT ![t] = p]
    BY DEF Publish
  <1>3. /\ Append(feed[t], p) \in Seq(Payloads)
        /\ Len(Append(feed[t], p)) = Len(feed[t]) + 1
        /\ Append(feed[t], p) # <<>>
        /\ Append(feed[t], p)[Len(feed[t]) + 1] = p
        /\ \A i \in 1..Len(feed[t]) : Append(feed[t], p)[i] = feed[t][i]
    BY <1>1, AppendProperties
  <1>4. feed'[t] = Append(feed[t], p)
    BY <1>2
  <1>5. QED BY <1>2, <1>3, <1>4

\* What a subscriber has not read yet ends in what is retained, whatever is published.
LEMMA PublishKeepsFeed ==
    ASSUME PresenceTypeOK, FeedIsCurrent, NEW t \in Topics, NEW p \in Payloads, Publish(t, p)
    PROVE  FeedIsCurrent'
  <1> SUFFICES ASSUME NEW u \in Topics, feed'[u] # <<>>
               PROVE  feed'[u][Len(feed'[u])] = retained'[u]
    BY DEF FeedIsCurrent
  <1>1. CASE u = t
    BY <1>1, PublishEffect
  <1>2. CASE u # t
    BY <1>2, PublishEffect DEF FeedIsCurrent
  <1>3. QED BY <1>1, <1>2

LEMMA ReceiveEffect ==
    ASSUME PresenceTypeOK, NEW t \in Topics, Receive(t)
    PROVE  /\ NextMessage(t) \in Payloads /\ NextMessage(t) = feed[t][1]
           /\ feed' \in [Topics -> Seq(Payloads)]
           /\ Len(feed[t]) \in Nat \ {0} /\ Len(feed'[t]) = Len(feed[t]) - 1
           /\ \A i \in 1..Len(feed[t]) - 1 : feed'[t][i] = feed[t][i + 1]
           /\ feed'[t] = <<>> <=> Len(feed[t]) = 1
           /\ \A u \in Topics \ {t} : feed'[u] = feed[u]
  <1>1. feed[t] \in Seq(Payloads) /\ feed[t] # <<>>
    BY DEF PresenceTypeOK, Receive
  <1>2. /\ Head(feed[t]) \in Payloads /\ Tail(feed[t]) \in Seq(Payloads)
        /\ Len(Tail(feed[t])) = Len(feed[t]) - 1
        /\ \A i \in 1..Len(Tail(feed[t])) : Tail(feed[t])[i] = feed[t][i + 1]
    BY <1>1, HeadTailProperties
  <1>3. Len(feed[t]) \in Nat \ {0}
    BY <1>1, EmptySeq
  <1>4. feed' = [feed EXCEPT ![t] = Tail(feed[t])] /\ feed'[t] = Tail(feed[t])
    BY DEF Receive, PresenceTypeOK
  <1>5. Tail(feed[t]) = <<>> <=> Len(feed[t]) = 1
    <2>1. Tail(feed[t]) = <<>> => Len(Tail(feed[t])) = 0
      BY EmptySeq
    <2>2. Tail(feed[t]) # <<>> => Len(Tail(feed[t])) \in Nat \ {0}
      BY <1>2, EmptySeq
    <2>3. QED BY <1>2, <1>3, <2>1, <2>2
  <1>6. Head(feed[t]) = feed[t][1]
    BY <1>1
  <1>7. QED BY <1>2, <1>3, <1>4, <1>5, <1>6 DEF NextMessage, PresenceTypeOK

LEMMA ReceiveKeepsFeed ==
    ASSUME PresenceTypeOK, FeedIsCurrent, NEW t \in Topics, Receive(t), UNCHANGED retained
    PROVE  FeedIsCurrent'
  <1> SUFFICES ASSUME NEW u \in Topics, feed'[u] # <<>>
               PROVE  feed'[u][Len(feed'[u])] = retained[u]
    BY DEF FeedIsCurrent
  <1>1. CASE u = t
    <2>1. feed[t] # <<>>
      BY DEF Receive
    <2>2. Len(feed[t]) \in Nat /\ Len(feed[t]) # 0 /\ Len(feed[t]) # 1
      BY <1>1, ReceiveEffect
    <2>3. Len(feed'[t]) \in 1..Len(feed[t]) - 1 /\ Len(feed'[t]) + 1 = Len(feed[t])
      BY <2>2, ReceiveEffect
    <2>4. feed'[t][Len(feed'[t])] = feed[t][Len(feed[t])]
      BY <2>3, ReceiveEffect
    <2>5. QED BY <1>1, <2>1, <2>4 DEF FeedIsCurrent
  <1>2. CASE u # t
    BY <1>2, ReceiveEffect DEF FeedIsCurrent
  <1>3. QED BY <1>1, <1>2

-----------------------------------------------------------------------------
(* The daemons                                                             *)

LEMMA InitPresence == PresenceInit => PresenceTypeOK /\ FeedIsCurrent /\ FutureIsGone
  <1> SUFFICES ASSUME PresenceInit PROVE PresenceTypeOK /\ FeedIsCurrent /\ FutureIsGone
    OBVIOUS
  <1> USE DEF PresenceInit
  <1>1. boots \in [Hosts -> Nat] /\ \A h \in Hosts : boots[h] \in 1..MaxBoots[h]
    BY PresenceAssumption
  <1>2. now \in 0..MaxTime
    BY PresenceAssumption
  <1>3. [ts |-> 0, rodrev |-> TRUE] \in Info
    BY PresenceAssumption DEF Info
  <1>4. retained \in [Topics -> Payloads]
    BY <1>3 DEF Payloads
  <1>5. \A t \in Topics : <<>> \in Seq(Payloads) /\ <<retained[t]>> \in Seq(Payloads)
    BY <1>4, EmptySeq
  <1>6. feed \in [Topics -> Seq(Payloads)]
    BY <1>5
  <1>7. FeedIsCurrent
    BY DEF FeedIsCurrent
  <1>8. FutureIsGone
    BY DEF FutureIsGone
  <1>9. QED BY <1>1, <1>2, <1>4, <1>6, <1>7, <1>8 DEF PresenceTypeOK

\* A daemon starts, checks in, says goodbye or vanishes.
DaemonStep(h) == Boot(h) \/ Heartbeat(h) \/ Leave(h) \/ Vanish(h)

\* What a daemon may do to the broker: nothing, publish on its own topic, or start on the next.
LEMMA DaemonPublishes ==
    ASSUME PresenceTypeOK, NEW h \in Hosts, DaemonStep(h)
    PROVE  \/ UNCHANGED <<retained, feed, boots>>
           \/ /\ boots' = boots
              /\ \E p \in Payloads : /\ Publish(Own(h), p)
                                     /\ p = Gone \/ (p \in Info /\ p.rodrev)
                                     /\ Heartbeat(h) => p # Gone
           \/ /\ boots' = [boots EXCEPT ![h] = @ + 1] /\ ~up[h]
              /\ boots[h] < MaxBoots[h]
              /\ \E p \in Info : Publish(Topic(h, boots[h] + 1), p)
  <1>1. CASE Boot(h)
    BY <1>1, HeartbeatIsInfo, PresenceAssumption DEF Boot
  <1>2. CASE Heartbeat(h)
    BY <1>2, HeartbeatIsInfo DEF Heartbeat
  <1>3. CASE Leave(h)
    <2>1. Gone \in Payloads
      BY DEF Payloads
    <2>2. ~Heartbeat(h)
      BY <1>3 DEF Leave, Heartbeat, PresenceTypeOK
    <2>3. QED BY <1>3, <2>1, <2>2 DEF Leave
  <1>4. CASE Vanish(h)
    BY <1>4 DEF Vanish
  <1>5. QED BY <1>1, <1>2, <1>3, <1>4 DEF DaemonStep

LEMMA DaemonKeepsTypes ==
    ASSUME PresenceTypeOK, FeedIsCurrent, NEW h \in Hosts, DaemonStep(h)
    PROVE  PresenceTypeOK' /\ FeedIsCurrent'
  <1>1. retained' \in [Topics -> Payloads] /\ feed' \in [Topics -> Seq(Payloads)] /\ FeedIsCurrent'
    <2>1. CASE UNCHANGED <<retained, feed>>
      BY <2>1 DEF PresenceTypeOK, FeedIsCurrent
    <2>2. ASSUME NEW p \in Payloads, Publish(Own(h), p)
          PROVE  retained' \in [Topics -> Payloads] /\ feed' \in [Topics -> Seq(Payloads)] /\ FeedIsCurrent'
      BY <2>2, OwnIsATopic, PublishEffect, PublishKeepsFeed
    <2>3. ASSUME NEW p \in Info, boots[h] < MaxBoots[h], Publish(Topic(h, boots[h] + 1), p)
          PROVE  retained' \in [Topics -> Payloads] /\ feed' \in [Topics -> Seq(Payloads)] /\ FeedIsCurrent'
      <3>1. p \in Payloads
        BY DEF Payloads
      <3>2. QED BY <2>3, <3>1, OwnIsATopic, PublishEffect, PublishKeepsFeed
    <2>4. QED BY <2>1, <2>2, <2>3, DaemonPublishes
  <1>2. now' = now /\ up' \in [Hosts -> BOOLEAN]
    BY DEF DaemonStep, Boot, Heartbeat, Leave, Vanish, PresenceTypeOK
  <1>3. boots' \in [Hosts -> Nat] /\ \A k \in Hosts : boots'[k] \in 1..MaxBoots[k]
    <2>1. CASE boots' = boots
      BY <2>1 DEF PresenceTypeOK
    <2>2. CASE boots' = [boots EXCEPT ![h] = @ + 1] /\ boots[h] < MaxBoots[h]
      <3>1. boots[h] + 1 \in 1..MaxBoots[h]
        BY <2>2, OwnIsATopic
      <3>2. QED BY <2>2, <3>1 DEF PresenceTypeOK
    <2>3. QED BY <2>1, <2>2, DaemonPublishes
  <1>4. QED BY <1>1, <1>2, <1>3 DEF PresenceTypeOK

LEMMA TickKeepsTypes ==
    ASSUME PresenceTypeOK, FeedIsCurrent, Tick
    PROVE  PresenceTypeOK' /\ FeedIsCurrent'
  <1>1. now' \in 0..MaxTime
    BY PresenceAssumption DEF Tick, PresenceTypeOK
  <1>2. QED BY <1>1 DEF Tick, PresenceTypeOK, FeedIsCurrent

-----------------------------------------------------------------------------
(* HeartbeatCleanup                                                        *)

\* The inductive invariant: the cache is in step, this daemon stays up, and its presence is
\* on the broker.
OwnInv == CleanupInv /\ up[Self] /\ OwnPresenceStays

LEMMA SelfIsAHost ==
    ASSUME PresenceTypeOK
    PROVE  Self \in Hosts /\ Keep = Own(Self) /\ Own(Self) \in Topics
  BY CleanupAssumption, OwnIsATopic DEF Keep

\* A publish brings the topic up to date for who follows it, and no other topic changes.
LEMMA PublishKeepsCache ==
    ASSUME CleanupInv, NEW t \in Topics, NEW p \in Payloads, Publish(t, p),
           UNCHANGED <<cache, raced>>
    PROVE  CacheFollowsBroker'
  <1> SUFFICES ASSUME NEW u \in Topics, u \notin raced
               PROVE  CaughtUp(u)' = retained'[u]
    BY DEF CacheFollowsBroker
  <1>1. PresenceTypeOK /\ CaughtUp(u) = retained[u]
    BY DEF CleanupInv, CleanupTypeOK, CacheFollowsBroker
  <1>2. CASE u = t
    BY <1>1, <1>2, PublishEffect DEF CaughtUp
  <1>3. CASE u # t
    BY <1>1, <1>3, PublishEffect DEF CaughtUp
  <1>4. QED BY <1>2, <1>3

LEMMA InitCleanup == Init => OwnInv
  <1> SUFFICES ASSUME Init PROVE OwnInv
    OBVIOUS
  <1>1. PresenceTypeOK /\ FeedIsCurrent
    BY InitPresence DEF Init
  <1>2. Nobody \in [Topics -> Payloads] /\ cache = Nobody
    BY DEF Nobody, Payloads, Init
  <1>3. pass \in [since : -1..MaxTime, todo : [Topics -> Payloads]]
    BY <1>2, PresenceAssumption DEF Init, Idle
  <1>4. CleanupTypeOK
    BY <1>1, <1>2, <1>3 DEF Init, CleanupTypeOK
  <1>5. CacheFollowsBroker
    <2> SUFFICES ASSUME NEW t \in Topics PROVE CaughtUp(t) = retained[t]
      BY DEF CacheFollowsBroker
    <2>1. feed[t] = IF retained[t] = Gone THEN <<>> ELSE <<retained[t]>>
      BY DEF Init, PresenceInit
    <2>2. CASE retained[t] = Gone
      BY <1>2, <2>1, <2>2 DEF CaughtUp, Nobody
    <2>3. CASE retained[t] # Gone
      BY <2>1, <2>3 DEF CaughtUp
    <2>4. QED BY <2>2, <2>3
  <1>6. up[Self] /\ OwnPresenceStays
    <2>1. Self \in Hosts /\ up[Self]
      BY CleanupAssumption DEF Init
    <2>2. retained[Own(Self)] \in Info
      BY <2>1 DEF Init, PresenceInit
    <2>3. QED BY <2>1, <2>2, TokensAssumption DEF OwnPresenceStays
  <1>7. QED BY <1>1, <1>4, <1>5, <1>6 DEF OwnInv, CleanupInv

\* heartbeatCache.follow: a message that is read mends the topic, raced or not.
LEMMA FollowStep ==
    ASSUME OwnInv, NEW t \in Topics, Follow(t)
    PROVE  OwnInv'
  <1>1. PresenceTypeOK /\ FeedIsCurrent /\ CleanupTypeOK /\ Receive(t)
    BY DEF OwnInv, CleanupInv, CleanupTypeOK, Follow
  <1>2. cache' = [cache EXCEPT ![t] = feed[t][1]] /\ raced' = raced \ {t}
        /\ feed[t][1] \in Payloads
    BY <1>1, ReceiveEffect DEF Follow
  <1>3. CleanupTypeOK' /\ FeedIsCurrent'
    <2>1. PresenceTypeOK'
      BY <1>1, ReceiveEffect DEF Follow, PresenceTypeOK
    <2>2. FeedIsCurrent'
      BY <1>1, ReceiveKeepsFeed DEF Follow
    <2>3. QED BY <1>1, <1>2, <2>1, <2>2 DEF CleanupTypeOK, Follow
  <1>4. CacheFollowsBroker'
    <2> SUFFICES ASSUME NEW u \in Topics, u \notin raced \/ u = t
                 PROVE  CaughtUp(u)' = retained[u]
      BY <1>2 DEF CacheFollowsBroker, Follow
    <2>1. CASE u # t
      <3>1. CaughtUp(u) = retained[u]
        BY <2>1 DEF OwnInv, CleanupInv, CacheFollowsBroker
      <3>2. cache'[u] = cache[u]
        BY <1>1, <1>2, <2>1 DEF CleanupTypeOK
      <3>3. QED BY <1>1, <2>1, <3>1, <3>2, ReceiveEffect DEF CaughtUp
    <2>2. CASE u = t
      <3>1. feed[t][Len(feed[t])] = retained[t]
        BY <1>1 DEF FeedIsCurrent, Receive
      <3>2. cache'[t] = feed[t][1]
        BY <1>1, <1>2 DEF CleanupTypeOK
      <3>3. CASE feed'[t] = <<>>
        <4>1. Len(feed[t]) = 1
          BY <1>1, <3>3, ReceiveEffect
        <4>2. QED BY <2>2, <3>1, <3>2, <3>3, <4>1 DEF CaughtUp
      <3>4. CASE feed'[t] # <<>>
        <4>1. feed'[t][Len(feed'[t])] = retained'[t]
          BY <1>3, <3>4 DEF FeedIsCurrent
        <4>2. QED BY <2>2, <3>4, <4>1 DEF CaughtUp, Follow
      <3>5. QED BY <3>3, <3>4
    <2>3. QED BY <2>1, <2>2
  <1>5. up'[Self] /\ OwnPresenceStays'
    BY DEF OwnInv, OwnPresenceStays, Own, Follow
  <1>6. QED BY <1>3, <1>4, <1>5 DEF OwnInv, CleanupInv

\* Most of a pass changes neither the broker nor the cache.
LEMMA QuietStep ==
    ASSUME OwnInv, UNCHANGED <<presenceVars, cache, raced>>
    PROVE  /\ PresenceTypeOK' /\ FeedIsCurrent' /\ CacheFollowsBroker'
           /\ up'[Self] /\ OwnPresenceStays'
  BY DEF OwnInv, CleanupInv, CleanupTypeOK, presenceVars, PresenceTypeOK, FeedIsCurrent,
         CacheFollowsBroker, CaughtUp, OwnPresenceStays, Own

LEMMA LookedAt ==
    ASSUME CleanupTypeOK, NEW t \in Topics
    PROVE  [pass EXCEPT !.todo[t] = Gone] \in [since : -1..MaxTime, todo : [Topics -> Payloads]]
  <1>1. Gone \in Payloads
    BY DEF Payloads
  <1>2. pass \in [since : -1..MaxTime, todo : [Topics -> Payloads]]
    BY DEF CleanupTypeOK
  <1>3. [pass.todo EXCEPT ![t] = Gone] \in [Topics -> Payloads]
    BY <1>1, <1>2
  <1>4. QED BY <1>2, <1>3

\* runHeartbeatCleanup.  It removes no topic it keeps, and forgets only what its own removal,
\* or one that raced it, has made true or will.
LEMMA PassesStep ==
    ASSUME OwnInv, Passes
    PROVE  OwnInv'
  <1>1. CleanupTypeOK /\ PresenceTypeOK /\ FeedIsCurrent /\ CleanupInv
    BY DEF OwnInv, CleanupInv, CleanupTypeOK
  <1>2. Gone \in Payloads
    BY DEF Payloads
  <1>3. CASE Begin
    <2>1. Clock(Self) \in -1..MaxTime
      BY <1>1, SelfIsAHost, PresenceAssumption DEF Clock, PresenceTypeOK
    <2>2. pass' \in [since : -1..MaxTime, todo : [Topics -> Payloads]]
      BY <1>1, <1>3, <2>1 DEF Begin, CleanupTypeOK
    <2>3. QED BY <1>1, <1>3, <2>2, QuietStep DEF Begin, CleanupTypeOK, OwnInv, CleanupInv
  <1>4. CASE Forget
    <2>1. clearing \in Topics
      BY <1>1, <1>4 DEF Forget, CleanupTypeOK
    <2>2. cache' = [cache EXCEPT ![clearing] = Gone] /\ UNCHANGED <<retained, feed>>
      BY <1>4 DEF Forget, presenceVars
    <2>3. PresenceTypeOK' /\ FeedIsCurrent' /\ up'[Self] /\ OwnPresenceStays'
      BY <1>4 DEF Forget, OwnInv, CleanupInv, CleanupTypeOK, presenceVars, PresenceTypeOK,
                  FeedIsCurrent, OwnPresenceStays, Own
    <2>4. CleanupTypeOK'
      BY <1>1, <1>2, <1>4, <2>1, <2>3 DEF Forget, CleanupTypeOK
    <2>5. CacheFollowsBroker'
      <3> SUFFICES ASSUME NEW u \in Topics, u \notin raced'
                   PROVE  CaughtUp(u)' = retained[u]
        BY <2>2 DEF CacheFollowsBroker
      <3>1. u \notin raced /\ CaughtUp(u) = retained[u]
        BY <1>4 DEF Forget, OwnInv, CleanupInv, CacheFollowsBroker
      <3>2. CASE u = clearing /\ feed[u] = <<>>
        <4>1. cache[u] = Gone
          BY <1>4, <3>2 DEF Forget
        <4>2. cache'[u] = Gone
          BY <1>1, <2>2, <4>1 DEF CleanupTypeOK
        <4>3. QED BY <2>2, <3>1, <3>2, <4>1, <4>2 DEF CaughtUp
      <3>3. CASE u = clearing /\ feed[u] # <<>>
        BY <2>2, <3>1, <3>3 DEF CaughtUp
      <3>4. CASE u # clearing
        BY <1>1, <2>1, <2>2, <3>1, <3>4 DEF CaughtUp, CleanupTypeOK
      <3>5. QED BY <3>2, <3>3, <3>4
    <2>6. QED BY <2>3, <2>4, <2>5 DEF OwnInv, CleanupInv
  <1>5. CASE End
    <2>1. Idle \in [since : -1..MaxTime, todo : [Topics -> Payloads]]
      BY <1>2, PresenceAssumption DEF Idle, Nobody
    <2>2. QED BY <1>1, <1>5, <2>1, QuietStep DEF End, CleanupTypeOK, OwnInv, CleanupInv
  <1>6. ASSUME NEW t \in Topics, LeaveAlone(t)
        PROVE  OwnInv'
    BY <1>1, <1>6, LookedAt, QuietStep DEF LeaveAlone, CleanupTypeOK, OwnInv, CleanupInv
  <1>7. ASSUME NEW t \in Topics, RemovalFails(t)
        PROVE  OwnInv'
    BY <1>1, <1>7, LookedAt, QuietStep DEF RemovalFails, Removes, CleanupTypeOK, OwnInv, CleanupInv
  <1>8. ASSUME NEW t \in Topics, Remove(t)
        PROVE  OwnInv'
    <2>1. Publish(t, Gone) /\ t # Own(Self) /\ UNCHANGED <<now, up, boots, dryRun, cache, raced>>
      BY <1>8 DEF Remove, Removes, Keep
    <2>2. PresenceTypeOK' /\ FeedIsCurrent'
      BY <1>1, <1>2, <2>1, PublishEffect, PublishKeepsFeed DEF PresenceTypeOK
    <2>3. CleanupTypeOK'
      BY <1>1, <1>8, <2>1, <2>2, LookedAt DEF Remove, Removes, CleanupTypeOK
    <2>4. CacheFollowsBroker'
      BY <1>1, <1>2, <2>1, PublishKeepsCache
    <2>5. up'[Self] /\ OwnPresenceStays'
      <3>1. retained'[Own(Self)] = retained[Own(Self)]
        BY <1>1, <1>2, <2>1, SelfIsAHost, PublishEffect
      <3>2. QED BY <2>1, <3>1 DEF OwnInv, OwnPresenceStays, Own
    <2>6. QED BY <2>2, <2>3, <2>4, <2>5 DEF OwnInv, CleanupInv
  <1>9. QED BY <1>3, <1>4, <1>5, <1>6, <1>7, <1>8 DEF Passes, Examine

\* The fleet.  Only this daemon publishes on its topic, and it does not leave.
LEMMA OthersStep ==
    ASSUME OwnInv, Others
    PROVE  OwnInv'
  <1>1. CleanupTypeOK /\ PresenceTypeOK /\ FeedIsCurrent /\ CleanupInv /\ up[Self]
    BY DEF OwnInv, CleanupInv, CleanupTypeOK
  <1>2. UNCHANGED <<dryRun, cache, pass, clearing, raced>>
    BY DEF Others, cleanupVars
  <1>3. CASE Tick
    <2>1. PresenceTypeOK' /\ FeedIsCurrent'
      BY <1>1, <1>3, TickKeepsTypes
    <2>2. QED BY <1>1, <1>2, <1>3, <2>1
              DEF Tick, OwnInv, CleanupInv, CleanupTypeOK, CacheFollowsBroker, CaughtUp,
                  OwnPresenceStays, Own
  <1>4. ASSUME NEW h \in Hosts, DaemonStep(h), h = Self => Heartbeat(h)
        PROVE  OwnInv'
    <2>1. PresenceTypeOK' /\ FeedIsCurrent'
      BY <1>1, <1>4, DaemonKeepsTypes
    <2>2. CleanupTypeOK'
      BY <1>1, <1>2, <2>1 DEF CleanupTypeOK
    <2>3. ASSUME NEW p \in Payloads, Publish(Own(h), p), boots' = boots, Heartbeat(h) => p # Gone
          PROVE  CacheFollowsBroker' /\ OwnPresenceStays'
      <3>1. CacheFollowsBroker'
        BY <1>1, <1>2, <2>3, OwnIsATopic, PublishKeepsCache
      <3>2. CASE h = Self
        <4>1. retained'[Own(Self)] = p /\ p # Gone
          BY <1>1, <1>4, <2>3, <3>2, OwnIsATopic, PublishEffect
        <4>2. Own(Self)' = Own(Self)
          BY <2>3 DEF Own
        <4>3. QED BY <3>1, <4>1, <4>2 DEF OwnPresenceStays
      <3>3. CASE h # Self
        <4>1. Own(h) # Own(Self)
          BY <3>3, TopicsDiffer DEF Own
        <4>2. retained'[Own(Self)] = retained[Own(Self)]
          BY <1>1, <2>3, <4>1, OwnIsATopic, SelfIsAHost, PublishEffect
        <4>3. Own(Self)' = Own(Self)
          BY <2>3 DEF Own
        <4>4. QED BY <3>1, <4>2, <4>3 DEF OwnInv, OwnPresenceStays
      <3>4. QED BY <3>1, <3>2, <3>3
    <2>4. ASSUME NEW p \in Info, boots' = [boots EXCEPT ![h] = @ + 1], boots[h] < MaxBoots[h],
                 ~up[h], Publish(Topic(h, boots[h] + 1), p)
          PROVE  CacheFollowsBroker' /\ OwnPresenceStays'
      <3>1. p \in Payloads /\ Topic(h, boots[h] + 1) \in Topics
        BY <1>1, <2>4, OwnIsATopic DEF Payloads
      <3>2. CacheFollowsBroker'
        BY <1>1, <1>2, <2>4, <3>1, PublishKeepsCache
      <3>3. h # Self
        BY <1>1, <2>4
      <3>4. Topic(h, boots[h] + 1) # Own(Self)
        BY <3>3, TopicsDiffer DEF Own
      <3>5. retained'[Own(Self)] = retained[Own(Self)]
        BY <1>1, <2>4, <3>1, <3>4, SelfIsAHost, PublishEffect
      <3>6. boots'[Self] = boots[Self]
        BY <1>1, <2>4, <3>3, SelfIsAHost DEF PresenceTypeOK
      <3>7. QED BY <3>2, <3>5, <3>6 DEF OwnInv, OwnPresenceStays, Own
    <2>5. CacheFollowsBroker' /\ OwnPresenceStays'
      <3>1. CASE UNCHANGED <<retained, feed, boots>>
        BY <1>2, <3>1 DEF OwnInv, CleanupInv, CacheFollowsBroker, CaughtUp, OwnPresenceStays, Own
      <3>2. QED BY <1>1, <1>4, <2>3, <2>4, <3>1, DaemonPublishes
    <2>6. up'[Self]
      BY <1>1, <1>4, SelfIsAHost
         DEF DaemonStep, Boot, Heartbeat, Leave, Vanish, PresenceTypeOK
    <2>7. QED BY <2>1, <2>2, <2>5, <2>6 DEF OwnInv, CleanupInv
  <1>5. QED BY <1>3, <1>4 DEF Others, DaemonStep

LEMMA OwnInvariant == Spec => []OwnInv
  <1>1. Init => OwnInv
    BY InitCleanup
  <1>2. OwnInv /\ [Next]_vars => OwnInv'
    <2> SUFFICES ASSUME OwnInv, [Next]_vars PROVE OwnInv'
      OBVIOUS
    <2>1. CASE Next
      BY <2>1, OthersStep, PassesStep, FollowStep DEF Next
    <2>2. CASE UNCHANGED vars
      <3>1. CleanupTypeOK'
        BY <2>2 DEF OwnInv, CleanupInv, CleanupTypeOK, PresenceTypeOK, vars, presenceVars, cleanupVars
      <3>2. QED BY <2>2, <3>1, QuietStep DEF vars, cleanupVars, OwnInv, CleanupInv
    <2>3. QED BY <2>1, <2>2
  <1>3. QED BY <1>1, <1>2, PTL DEF Spec

\* heartbeat-cleanup.go:52: whatever passes remove and forget meanwhile, what the cache will
\* hold once everything under way is followed is what the broker retains, but for a topic
\* that was forgotten when it had just come back.
THEOREM CleanupInvariant == Spec => []CleanupInv
  BY OwnInvariant, PTL DEF OwnInv

\* README:331: no pass, on however old a copy of the cache, removes this daemon's own presence.
THEOREM OwnPresenceIsSafe == Spec => []OwnPresenceStays
  BY OwnInvariant, PTL DEF OwnInv

-----------------------------------------------------------------------------
(* NodeWatcher                                                             *)

\* A payload run acts upon, and LastWord as a function of what is unread and what is known.
Says(p) == p = Gone \/ IsNode(p)
Word(s, known) ==
    LET usable == {i \in DOMAIN s : Says(s[i])}
    IN  IF usable = {} THEN known ELSE s[CHOOSE i \in usable : \A j \in usable : j <= i]

\* Among finitely many positions there is a last.
LEMMA LastPosition ==
    ASSUME NEW n \in Nat, NEW U \in SUBSET (1..n), U # {}
    PROVE  \E i \in U : \A j \in U : j <= i
  <1> DEFINE T == {n - i : i \in U}
  <1>1. T \in SUBSET Nat /\ T # {}
    <2>1. PICK i \in U : i \in 1..n
      OBVIOUS
    <2>2. n - i \in T
      BY <2>1
    <2>3. \A j \in 1..n : n - j \in Nat
      OBVIOUS
    <2>4. QED BY <2>2, <2>3
  <1>2. PICK m \in T : \A k \in T : ~(<<k, m>> \in OpToRel(<, Nat))
    BY <1>1, NatLessThanWellFounded, WFMin
  <1>3. \A k \in T : ~(k < m)
    BY <1>1, <1>2 DEF OpToRel
  <1>4. PICK i \in U : m = n - i
    BY <1>2
  <1>5. \A j \in U : j <= i
    BY <1>3, <1>4
  <1>6. QED BY <1>4, <1>5

\* The last usable message is the word; when there is none, what is known stands.
LEMMA WordIsTheLast ==
    ASSUME NEW s \in Seq(Payloads), NEW known,
           NEW i \in 1..Len(s), Says(s[i]), \A j \in i + 1..Len(s) : ~Says(s[j])
    PROVE  Word(s, known) = s[i]
  <1> DEFINE usable == {k \in DOMAIN s : Says(s[k])}
  <1>1. i \in usable /\ \A j \in usable : j <= i
    OBVIOUS
  <1>2. \A k \in usable : (\A j \in usable : j <= k) => k = i
    BY <1>1
  <1>3. (CHOOSE k \in usable : \A j \in usable : j <= k) = i
    BY <1>1, <1>2
  <1>4. QED BY <1>1, <1>3 DEF Word

LEMMA WordIsTheKnown ==
    ASSUME NEW s \in Seq(Payloads), NEW known, \A j \in 1..Len(s) : ~Says(s[j])
    PROVE  Word(s, known) = known
  BY DEF Word

LEMMA SomeLast ==
    ASSUME NEW s \in Seq(Payloads)
    PROVE  \/ \A j \in 1..Len(s) : ~Says(s[j])
           \/ \E i \in 1..Len(s) : Says(s[i]) /\ \A j \in i + 1..Len(s) : ~Says(s[j])
  <1> DEFINE usable == {k \in 1..Len(s) : Says(s[k])}
  <1>1. CASE usable = {}
    BY <1>1
  <1>2. CASE usable # {}
    <2>1. PICK i \in usable : \A j \in usable : j <= i
      <3>1. usable \in SUBSET (1..Len(s)) /\ Len(s) \in Nat
        OBVIOUS
      <3> HIDE DEF usable
      <3>2. QED BY <1>2, <3>1, LastPosition
    <2>2. \A j \in i + 1..Len(s) : ~Says(s[j])
      BY <2>1
    <2>3. QED BY <2>1, <2>2
  <1>3. QED BY <1>1, <1>2

\* A message that comes in last decides when it says anything at all.
LEMMA WordAfterPublish ==
    ASSUME NEW s \in Seq(Payloads), NEW r \in Seq(Payloads), NEW p \in Payloads, NEW known,
           Len(r) = Len(s) + 1, r[Len(s) + 1] = p, \A i \in 1..Len(s) : r[i] = s[i]
    PROVE  Word(r, known) = IF Says(p) THEN p ELSE Word(s, known)
  <1>1. CASE Says(p)
    BY <1>1, WordIsTheLast
  <1>2. CASE ~Says(p)
    <2>1. CASE \A j \in 1..Len(s) : ~Says(s[j])
      <3>1. \A j \in 1..Len(r) : ~Says(r[j])
        BY <1>2, <2>1
      <3>2. QED BY <1>2, <2>1, <3>1, WordIsTheKnown
    <2>2. ASSUME NEW i \in 1..Len(s), Says(s[i]), \A j \in i + 1..Len(s) : ~Says(s[j])
          PROVE  Word(r, known) = Word(s, known)
      <3>1. \A j \in i + 1..Len(r) : ~Says(r[j])
        BY <1>2, <2>2
      <3>2. i \in 1..Len(r) /\ Says(r[i])
        BY <2>2
      <3>3. Word(r, known) = r[i] /\ Word(s, known) = s[i]
        BY <2>2, <3>1, <3>2, WordIsTheLast
      <3>4. QED BY <3>3
    <2>3. QED BY <1>2, <2>1, <2>2, SomeLast
  <1>3. QED BY <1>1, <1>2

\* A message that is read and acted upon leaves the word as it was.
LEMMA WordAfterReceive ==
    ASSUME NEW s \in Seq(Payloads), NEW r \in Seq(Payloads), NEW known, Len(s) \in Nat \ {0},
           Len(r) = Len(s) - 1, \A i \in 1..Len(s) - 1 : r[i] = s[i + 1]
    PROVE  Word(r, IF Says(s[1]) THEN s[1] ELSE known) = Word(s, known)
  <1> DEFINE read == IF Says(s[1]) THEN s[1] ELSE known
  <1>1. CASE \A j \in 1..Len(r) : ~Says(r[j])
    <2>1. \A j \in 2..Len(s) : ~Says(s[j])
      <3> SUFFICES ASSUME NEW j \in 2..Len(s) PROVE ~Says(s[j])
        OBVIOUS
      <3>1. j - 1 \in 1..Len(r) /\ r[j - 1] = s[j]
        OBVIOUS
      <3>2. QED BY <1>1, <3>1
    <2>2. Word(r, read) = read
      BY <1>1, WordIsTheKnown
    <2>3. CASE Says(s[1])
      BY <2>1, <2>2, <2>3, WordIsTheLast
    <2>4. CASE ~Says(s[1])
      <3>1. \A j \in 1..Len(s) : ~Says(s[j])
        BY <2>1, <2>4
      <3>2. QED BY <2>2, <2>4, <3>1, WordIsTheKnown
    <2>5. QED BY <2>3, <2>4
  <1>2. ASSUME NEW i \in 1..Len(r), Says(r[i]), \A j \in i + 1..Len(r) : ~Says(r[j])
        PROVE  Word(r, read) = Word(s, known)
    <2>1. i + 1 \in 1..Len(s) /\ r[i] = s[i + 1]
      OBVIOUS
    <2>2. \A j \in i + 2..Len(s) : ~Says(s[j])
      <3> SUFFICES ASSUME NEW j \in i + 2..Len(s) PROVE ~Says(s[j])
        OBVIOUS
      <3>1. j - 1 \in i + 1..Len(r) /\ r[j - 1] = s[j]
        OBVIOUS
      <3>2. QED BY <1>2, <3>1
    <2>3. Word(s, known) = s[i + 1]
      BY <1>2, <2>1, <2>2, WordIsTheLast
    <2>4. Word(r, read) = r[i]
      BY <1>2, WordIsTheLast
    <2>5. QED BY <2>1, <2>3, <2>4
  <1>3. QED BY <1>1, <1>2, SomeLast

\* The inductive invariant.
WatchInv == WatcherInv /\ FeedIsCurrent

LEMMA LastWordIsWord ==
    \A t \in Watched : LastWord(t) = Word(feed[t], view[t])
  BY DEF LastWord, Word, Says

LEMMA InitWatcher == WatcherInit => WatchInv
  <1> SUFFICES ASSUME WatcherInit PROVE WatchInv
    OBVIOUS
  <1>1. PresenceTypeOK /\ FeedIsCurrent /\ FutureIsGone
    BY InitPresence DEF WatcherInit
  <1>2. WatcherTypeOK
    BY <1>1 DEF WatcherTypeOK, WatcherInit
  <1>3. ASSUME NEW t \in Watched
        PROVE  LastWord(t) = IF IsNode(retained[t]) THEN retained[t] ELSE Gone
    <2>1. t \in Topics /\ view[t] = Gone /\ retained[t] \in Payloads
      BY <1>1 DEF Watched, WatcherInit, PresenceTypeOK
    <2>2. feed[t] = IF retained[t] = Gone THEN <<>> ELSE <<retained[t]>>
      BY <2>1 DEF WatcherInit, PresenceInit
    <2>3. CASE retained[t] = Gone
      <3>1. feed[t] \in Seq(Payloads) /\ Len(feed[t]) = 0
        BY <2>2, <2>3, EmptySeq
      <3>2. Word(feed[t], view[t]) = Gone
        BY <2>1, <3>1, WordIsTheKnown
      <3>3. QED BY <2>3, <3>2, LastWordIsWord
    <2>4. CASE retained[t] # Gone
      <3>1. feed[t] \in Seq(Payloads) /\ Len(feed[t]) = 1 /\ feed[t][1] = retained[t]
        BY <2>1, <2>2, <2>4
      <3>2. Says(retained[t]) => Word(feed[t], view[t]) = retained[t]
        BY <3>1, WordIsTheLast
      <3>3. ~Says(retained[t]) => Word(feed[t], view[t]) = Gone
        BY <2>1, <3>1, WordIsTheKnown
      <3>4. QED BY <2>4, <3>2, <3>3, LastWordIsWord DEF Says
    <2>5. QED BY <2>3, <2>4
  <1>4. QED BY <1>1, <1>2, <1>3 DEF WatchInv, WatcherInv, ViewIsThePresence

\* NodeWatcher.run: a message that is read says afterwards, in the view, what it said unread.
LEMMA RunStep ==
    ASSUME WatchInv, NEW t \in Watched, Run(t)
    PROVE  WatchInv'
  <1>1. WatcherTypeOK /\ PresenceTypeOK /\ FeedIsCurrent /\ t \in Topics
    BY DEF WatchInv, WatcherInv, WatcherTypeOK, Watched
  <1>2. Receive(t) /\ UNCHANGED <<now, up, boots, retained>>
    BY DEF Run, Cleared, Ignored, Seen
  <1>3. view' = [view EXCEPT ![t] = IF Says(feed[t][1]) THEN feed[t][1] ELSE view[t]]
    <2>1. NextMessage(t) = feed[t][1]
      BY <1>1, <1>2, ReceiveEffect
    <2>2. CASE Cleared(t)
      BY <2>1, <2>2 DEF Cleared, Says
    <2>3. CASE Ignored(t)
      <3>1. ~Says(feed[t][1]) /\ view' = view
        BY <2>1, <2>3 DEF Ignored, Says
      <3>2. QED BY <1>1, <3>1 DEF WatcherTypeOK
    <2>4. CASE Seen(t)
      BY <2>1, <2>4 DEF Seen, Says
    <2>5. QED BY <2>2, <2>3, <2>4 DEF Run
  <1>4. view' \in [Topics -> Info \cup {Gone}]
    BY <1>1, <1>3 DEF WatcherTypeOK, Says, IsNode
  <1>5. PresenceTypeOK' /\ FeedIsCurrent'
    BY <1>1, <1>2, ReceiveEffect, ReceiveKeepsFeed DEF PresenceTypeOK
  <1>6. ASSUME NEW u \in Watched
        PROVE  Word(feed'[u], view'[u]) = Word(feed[u], view[u])
    <2>1. CASE u = t
      <3>1. view'[t] = IF Says(feed[t][1]) THEN feed[t][1] ELSE view[t]
        BY <1>1, <1>3 DEF WatcherTypeOK
      <3>2. feed[t] \in Seq(Payloads) /\ feed'[t] \in Seq(Payloads)
        BY <1>1, <1>5 DEF PresenceTypeOK
      <3>3. /\ Len(feed[t]) \in Nat \ {0} /\ Len(feed'[t]) = Len(feed[t]) - 1
            /\ \A i \in 1..Len(feed[t]) - 1 : feed'[t][i] = feed[t][i + 1]
        BY <1>1, <1>2, ReceiveEffect
      <3>4. QED BY <2>1, <3>1, <3>2, <3>3, WordAfterReceive
    <2>2. CASE u # t
      <3>1. u \in Topics
        BY DEF Watched
      <3>2. feed'[u] = feed[u] /\ view'[u] = view[u]
        BY <1>1, <1>2, <1>3, <2>2, <3>1, ReceiveEffect DEF WatcherTypeOK
      <3>3. QED BY <3>2
    <2>3. QED BY <2>1, <2>2
  <1>7. ViewIsThePresence'
    <2> SUFFICES ASSUME NEW u \in Watched
                 PROVE  LastWord(u)' = IF IsNode(retained'[u]) THEN retained'[u] ELSE Gone
      BY DEF ViewIsThePresence, IsNode
    <2>1. LastWord(u)' = Word(feed'[u], view'[u])
      BY DEF LastWord, Word, Says
    <2>2. LastWord(u) = IF IsNode(retained[u]) THEN retained[u] ELSE Gone
      BY DEF WatchInv, WatcherInv, ViewIsThePresence
    <2>3. QED BY <1>2, <1>6, <2>1, <2>2, LastWordIsWord
  <1>8. FutureIsGone'
    BY <1>2 DEF WatchInv, WatcherInv, FutureIsGone
  <1>9. QED BY <1>4, <1>5, <1>7, <1>8 DEF WatchInv, WatcherInv, WatcherTypeOK

\* A publish that says something is the last word from then on; one that does not leaves it.
LEMMA LastWordAfterPublish ==
    ASSUME PresenceTypeOK, NEW t \in Watched, NEW p \in Payloads, Publish(t, p), view' = view,
           PresenceTypeOK'
    PROVE  /\ LastWord(t)' = IF Says(p) THEN p ELSE LastWord(t)
           /\ retained'[t] = p
           /\ \A u \in Watched \ {t} : LastWord(u)' = LastWord(u) /\ retained'[u] = retained[u]
  <1>1. t \in Topics /\ feed[t] \in Seq(Payloads) /\ feed'[t] \in Seq(Payloads)
    BY DEF Watched, PresenceTypeOK
  <1>2. \A u \in Watched : LastWord(u)' = Word(feed'[u], view[u])
    BY DEF LastWord, Word, Says
  <1>3. Word(feed'[t], view[t]) = IF Says(p) THEN p ELSE Word(feed[t], view[t])
    <2>1. /\ Len(feed'[t]) = Len(feed[t]) + 1 /\ feed'[t][Len(feed[t]) + 1] = p
          /\ \A i \in 1..Len(feed[t]) : feed'[t][i] = feed[t][i]
      BY <1>1, PublishEffect
    <2>2. QED BY <1>1, <2>1, WordAfterPublish
  <1>4. \A u \in Watched \ {t} : feed'[u] = feed[u] /\ retained'[u] = retained[u]
    BY <1>1, PublishEffect DEF Watched
  <1>5. retained'[t] = p
    BY <1>1, PublishEffect
  <1>6. QED BY <1>2, <1>3, <1>4, <1>5, LastWordIsWord

\* The fleet.  What a running daemon says of itself is node info with the services or its
\* goodbye; only its first word may lack them, and before that its topic was empty.
LEMMA DaemonStepIsSeen ==
    ASSUME WatchInv, NEW h \in Hosts, DaemonStep(h), view' = view
    PROVE  WatchInv'
  <1>1. WatcherTypeOK /\ PresenceTypeOK /\ FeedIsCurrent /\ FutureIsGone /\ ViewIsThePresence
    BY DEF WatchInv, WatcherInv, WatcherTypeOK
  <1>2. PresenceTypeOK' /\ FeedIsCurrent' /\ WatcherTypeOK'
    BY <1>1, DaemonKeepsTypes DEF WatcherTypeOK
  <1>3. CASE UNCHANGED <<retained, feed, boots>>
    BY <1>1, <1>2, <1>3 DEF WatchInv, WatcherInv, FutureIsGone, ViewIsThePresence, LastWord, IsNode
  <1>4. ASSUME NEW p \in Payloads, boots' = boots, Publish(Own(h), p), p = Gone \/ IsNode(p)
        PROVE  FutureIsGone' /\ ViewIsThePresence'
    <2>1. Own(h) \in Watched /\ Own(h) \in Topics
      BY <1>1, OwnIsATopic
    <2>2. ASSUME NEW k \in Hosts, NEW b \in boots[k] + 1..MaxBoots[k]
          PROVE  retained'[Topic(k, b)] = Gone
      <3>1. b \in 1..MaxBoots[k]
        BY <1>1, OwnIsATopic
      <3>2. Topic(k, b) # Own(h)
        <4>1. b # boots[k]
          BY <1>1, OwnIsATopic
        <4>2. QED BY <4>1, TopicsDiffer DEF Own
      <3>3. QED BY <1>1, <1>4, <2>1, <3>1, <3>2, TopicOfStart, PublishEffect DEF FutureIsGone
    <2>3. ASSUME NEW u \in Watched
          PROVE  LastWord(u)' = IF IsNode(retained'[u]) THEN retained'[u] ELSE Gone
      <3>1. CASE u = Own(h)
        <4>1. LastWord(u)' = p /\ retained'[u] = p
          BY <1>1, <1>2, <1>4, <2>1, <3>1, LastWordAfterPublish DEF Says
        <4>2. QED BY <1>4, <4>1
      <3>2. CASE u # Own(h)
        BY <1>1, <1>2, <1>4, <2>1, <3>2, LastWordAfterPublish DEF ViewIsThePresence
      <3>3. QED BY <3>1, <3>2
    <2>4. QED BY <1>4, <2>2, <2>3 DEF FutureIsGone, ViewIsThePresence, IsNode
  <1>5. ASSUME NEW p \in Info, boots' = [boots EXCEPT ![h] = @ + 1], boots[h] < MaxBoots[h],
               Publish(Topic(h, boots[h] + 1), p)
        PROVE  FutureIsGone' /\ ViewIsThePresence'
    <2> DEFINE new == Topic(h, boots[h] + 1)
    <2>1. new \in Watched /\ new \in Topics /\ p \in Payloads /\ p # Gone
      BY <1>1, <1>5, OwnIsATopic, TokensAssumption DEF Payloads
    <2>2. retained[new] = Gone /\ LastWord(new) = Gone
      <3>1. boots[h] + 1 \in boots[h] + 1..MaxBoots[h]
        BY <1>1, <1>5, OwnIsATopic, PresenceAssumption
      <3>2. retained[new] = Gone
        BY <1>1, <3>1 DEF FutureIsGone
      <3>3. ~IsNode(Gone)
        BY TokensAssumption DEF IsNode
      <3>4. QED BY <1>1, <2>1, <3>2, <3>3 DEF ViewIsThePresence
    <2>3. ASSUME NEW k \in Hosts, NEW b \in boots'[k] + 1..MaxBoots[k]
          PROVE  retained'[Topic(k, b)] = Gone
      <3>1. b \in boots[k] + 1..MaxBoots[k] /\ b \in 1..MaxBoots[k] /\ (k = h => b # boots[h] + 1)
        BY <1>1, <1>5, OwnIsATopic, PresenceAssumption DEF PresenceTypeOK
      <3>2. Topic(k, b) # new
        BY <3>1, TopicsDiffer
      <3>3. QED BY <1>1, <1>5, <2>1, <3>1, <3>2, TopicOfStart, PublishEffect DEF FutureIsGone
    <2>4. ASSUME NEW u \in Watched
          PROVE  LastWord(u)' = IF IsNode(retained'[u]) THEN retained'[u] ELSE Gone
      <3>1. CASE u = new
        <4>1. LastWord(u)' = (IF Says(p) THEN p ELSE Gone) /\ retained'[u] = p
          BY <1>1, <1>2, <1>5, <2>1, <2>2, <3>1, LastWordAfterPublish
        <4>2. QED BY <2>1, <4>1 DEF Says
      <3>2. CASE u # new
        BY <1>1, <1>2, <1>5, <2>1, <3>2, LastWordAfterPublish DEF ViewIsThePresence
      <3>3. QED BY <3>1, <3>2
    <2>5. QED BY <2>3, <2>4 DEF FutureIsGone, ViewIsThePresence, IsNode
  <1>6. FutureIsGone' /\ ViewIsThePresence'
    <2>1. CASE UNCHANGED <<retained, feed, boots>>
      BY <1>3, <2>1 DEF WatchInv, WatcherInv
    <2>2. QED BY <1>1, <1>4, <1>5, <2>1, DaemonPublishes DEF IsNode
  <1>7. QED BY <1>2, <1>6 DEF WatchInv, WatcherInv

LEMMA WatchInvariant == WatcherSpec => []WatchInv
  <1>1. WatcherInit => WatchInv
    BY InitWatcher
  <1>2. WatchInv /\ [WatcherNext]_watcherVars => WatchInv'
    <2> SUFFICES ASSUME WatchInv, [WatcherNext]_watcherVars PROVE WatchInv'
      OBVIOUS
    <2>1. CASE Daemons
      <3>1. CASE Tick
        <4>1. PresenceTypeOK' /\ FeedIsCurrent'
          BY <3>1, TickKeepsTypes DEF WatchInv, WatcherInv, WatcherTypeOK
        <4>2. UNCHANGED <<up, boots, retained, feed, view>>
          BY <2>1, <3>1 DEF Tick, Daemons
        <4>3. QED BY <4>1, <4>2 DEF WatchInv, WatcherInv, WatcherTypeOK, FutureIsGone,
                                   ViewIsThePresence, LastWord, IsNode
      <3>2. ASSUME NEW h \in Hosts, DaemonStep(h)
            PROVE  WatchInv'
        BY <2>1, <3>2, DaemonStepIsSeen DEF Daemons
      <3>3. QED BY <2>1, <3>1, <3>2 DEF Daemons, DaemonStep
    <2>2. ASSUME NEW t \in Watched, Run(t)
          PROVE  WatchInv'
      BY <2>2, RunStep
    <2>3. CASE UNCHANGED watcherVars
      <3>1. UNCHANGED <<now, up, boots, retained, feed, view>>
        BY <2>3 DEF watcherVars, presenceVars
      <3>2. WatcherTypeOK' /\ FeedIsCurrent'
        BY <3>1 DEF WatchInv, WatcherInv, WatcherTypeOK, PresenceTypeOK, FeedIsCurrent
      <3>3. FutureIsGone'
        BY <3>1 DEF WatchInv, WatcherInv, FutureIsGone
      <3>4. ViewIsThePresence'
        BY <3>1 DEF WatchInv, WatcherInv, ViewIsThePresence, LastWord, IsNode
      <3>5. QED BY <3>2, <3>3, <3>4 DEF WatchInv, WatcherInv
    <2>4. QED BY <2>1, <2>2, <2>3 DEF WatcherNext
  <1>3. QED BY <1>1, <1>2, PTL DEF WatcherSpec

\* watch.go:16-19: whatever starts, stops and restarts, a watcher that has read everything
\* shows of every start of a daemon what the broker retains of it, and nothing once it said
\* goodbye.
THEOREM WatcherInvariant == WatcherSpec => []WatcherInv
  BY WatchInvariant, PTL DEF WatchInv
-----------------------------------------------------------------------------
(* What is over stays over                                                 *)

LEMMA WatchedIsAStart ==
    ASSUME NEW t \in Watched
    PROVE  /\ t \in Topics /\ t # Legacy /\ t[1] \in Hosts /\ t[2] \in 1..MaxBoots[t[1]]
           /\ MaxBoots[t[1]] \in Nat /\ t = Topic(t[1], t[2])
  <1>1. PICK h \in Hosts : t \in {Topic(h, b) : b \in 1..MaxBoots[h]}
    BY DEF Watched, Topics, NodeTopics
  <1>2. PICK b \in 1..MaxBoots[h] : t = Topic(h, b)
    BY <1>1
  <1>3. QED BY <1>2, PresenceAssumption DEF Topic, Watched

\* A start is over when there was a later one, or the daemon is down.
Ended(t, started, running) ==
    t[2] < started[t[1]] \/ (t[2] = started[t[1]] /\ ~running[t[1]])

LEMMA OverMeans ==
    ASSUME NEW started, NEW running, \A h \in Hosts : started[h] \in Nat, NEW t \in Watched
    PROVE  (\E h \in Hosts : \E b \in 1..started[h] :
                t = Topic(h, b) /\ (b < started[h] \/ ~running[h])) <=> Ended(t, started, running)
  <1> DEFINE Over == \E h \in Hosts : \E b \in 1..started[h] :
                         t = Topic(h, b) /\ (b < started[h] \/ ~running[h])
  <1>1. ASSUME Over
        PROVE  Ended(t, started, running)
    <2>1. PICK h \in Hosts : \E b \in 1..started[h] :
                                 t = Topic(h, b) /\ (b < started[h] \/ ~running[h])
      BY <1>1
    <2>2. PICK b \in 1..started[h] : t = Topic(h, b) /\ (b < started[h] \/ ~running[h])
      BY <2>1
    <2>3. h = t[1] /\ b = t[2] /\ b <= started[h]
      BY <2>2 DEF Topic
    <2>4. QED BY <2>2, <2>3 DEF Ended
  <1>2. ASSUME Ended(t, started, running)
        PROVE  Over
    <2>1. t[1] \in Hosts /\ t[2] \in Nat \ {0} /\ t = Topic(t[1], t[2]) /\ started[t[1]] \in Nat
      BY WatchedIsAStart
    <2>2. t[2] \in 1..started[t[1]] /\ (t[2] < started[t[1]] \/ ~running[t[1]])
      BY <1>2, <2>1 DEF Ended
    <2>3. QED BY <2>1, <2>2
  <1>3. QED BY <1>1, <1>2

LEMMA AbandonedIsEnded ==
    ASSUME PresenceTypeOK, NEW t \in Watched
    PROVE  Abandoned(t) <=> Ended(t, boots, up)
  <1>1. \A h \in Hosts : boots[h] \in Nat
    BY DEF PresenceTypeOK
  <1>2. t # Legacy
    BY WatchedIsAStart
  <1>3. QED BY <1>1, <1>2, OverMeans DEF Abandoned

LEMMA AbandonedWillBeEnded ==
    ASSUME PresenceTypeOK', NEW t \in Watched
    PROVE  Abandoned(t)' <=> Ended(t, boots', up')
  <1>1. \A h \in Hosts : boots'[h] \in Nat
    BY DEF PresenceTypeOK
  <1>2. t # Legacy
    BY WatchedIsAStart
  <1>3. QED BY <1>1, <1>2, OverMeans DEF Abandoned

\* Nobody comes back to the topic of a start that is over.
LEMMA OverIsSilent ==
    ASSUME PresenceTypeOK, FeedIsCurrent, NEW h \in Hosts, DaemonStep(h),
           NEW t \in Watched, Ended(t, boots, up)
    PROVE  Ended(t, boots', up') /\ retained'[t] = retained[t] /\ feed'[t] = feed[t]
  <1>1. /\ t \in Topics /\ t[1] \in Hosts /\ t = Topic(t[1], t[2]) /\ t[2] \in Nat
        /\ boots[h] \in Nat /\ boots \in [Hosts -> Nat] /\ up \in [Hosts -> BOOLEAN]
    BY WatchedIsAStart DEF PresenceTypeOK
  <1>2. CASE Boot(h)
    <2>1. /\ boots' = [boots EXCEPT ![h] = @ + 1] /\ up' = [up EXCEPT ![h] = TRUE] /\ ~up[h]
          /\ boots[h] < MaxBoots[h]
          /\ \E p \in Payloads : Publish(Topic(h, boots[h] + 1), p)
      BY <1>2, HeartbeatIsInfo, PresenceAssumption DEF Boot
    <2>2. t # Topic(h, boots[h] + 1)
      BY <1>1 DEF Topic, Ended
    <2>3. retained'[t] = retained[t] /\ feed'[t] = feed[t]
      BY <1>1, <2>1, <2>2, OwnIsATopic, PublishEffect
    <2>4. Ended(t, boots', up')
      BY <1>1, <2>1 DEF Ended
    <2>5. QED BY <2>3, <2>4
  <1>3. CASE Heartbeat(h) \/ Leave(h)
    <2>1. /\ boots' = boots /\ up[h] /\ up' \in {up, [up EXCEPT ![h] = FALSE]}
          /\ \E p \in Payloads : Publish(Own(h), p)
      BY <1>3, HeartbeatIsInfo DEF Heartbeat, Leave, Payloads
    <2>2. t # Own(h)
      BY <1>1, <2>1 DEF Own, Topic, Ended
    <2>3. retained'[t] = retained[t] /\ feed'[t] = feed[t]
      BY <1>1, <2>1, <2>2, OwnIsATopic, PublishEffect
    <2>4. Ended(t, boots', up')
      BY <1>1, <2>1 DEF Ended
    <2>5. QED BY <2>3, <2>4
  <1>4. CASE Vanish(h)
    BY <1>1, <1>4 DEF Vanish, Ended
  <1>5. QED BY <1>2, <1>3, <1>4 DEF DaemonStep

\* heartbeat-cleanup.go:164-181: what AbandonedIsRemoved needs of single steps.  The presence
\* of a daemon that went away comes back by no step of the fleet or of a pass: it stays what
\* it is, which grows older, until it is removed.
AbandonedStays == \A t \in Watched : Abandoned(t) =>
    Abandoned(t)' /\ retained'[t] \in {retained[t], Gone}

LEMMA AbandonedStep ==
    ASSUME CleanupInv, [Next]_vars
    PROVE  AbandonedStays
  <1> SUFFICES ASSUME NEW t \in Watched, Abandoned(t)
               PROVE  Abandoned(t)' /\ retained'[t] \in {retained[t], Gone}
    BY DEF AbandonedStays
  <1>1. PresenceTypeOK /\ FeedIsCurrent /\ t \in Topics
    BY WatchedIsAStart DEF CleanupInv, CleanupTypeOK
  <1>2. CASE UNCHANGED <<boots, up, retained>>
    BY <1>2 DEF Abandoned
  <1>3. ASSUME NEW h \in Hosts, DaemonStep(h)
        PROVE  Abandoned(t)' /\ retained'[t] \in {retained[t], Gone}
    <2>1. PresenceTypeOK'
      BY <1>1, <1>3, DaemonKeepsTypes
    <2>2. QED BY <1>1, <1>3, <2>1, OverIsSilent, AbandonedIsEnded, AbandonedWillBeEnded
  <1>4. ASSUME NEW u \in Topics, Remove(u)
        PROVE  Abandoned(t)' /\ retained'[t] \in {retained[t], Gone}
    <2>1. UNCHANGED <<boots, up>> /\ Publish(u, Gone) /\ Gone \in Payloads
      BY <1>4 DEF Remove, Payloads
    <2>2. retained'[t] \in {retained[t], Gone}
      BY <1>1, <2>1, PublishEffect
    <2>3. QED BY <2>1, <2>2 DEF Abandoned
  <1>5. CASE Others
    BY <1>2, <1>3, <1>5 DEF Others, Tick, DaemonStep
  <1>6. CASE Passes
    BY <1>2, <1>4, <1>6 DEF Passes, Begin, Forget, End, Examine, LeaveAlone, RemovalFails,
                            presenceVars
  <1>7. ASSUME NEW u \in Topics, Follow(u)
        PROVE  UNCHANGED <<boots, up, retained>>
    BY <1>7 DEF Follow
  <1>8. CASE UNCHANGED vars
    BY <1>2, <1>8 DEF vars, presenceVars
  <1>9. QED BY <1>2, <1>5, <1>6, <1>7, <1>8 DEF Next

\* The removal that AbandonedIsRemoved promises is never undone.
THEOREM AbandonedNeverComesBack == Spec => [][AbandonedStays]_vars
  <1>1. CleanupInv /\ [Next]_vars => [AbandonedStays]_vars
    BY AbandonedStep
  <1>2. QED BY <1>1, CleanupInvariant, PTL DEF Spec
-----------------------------------------------------------------------------
(* What a watcher never takes back                                         *)

\* What is unread of one start of a daemon, after what is known of it: a goodbye is the last
\* of it, and the heartbeats are in the order of the daemon's clock.
Ord(s, known, clock, over) ==
    /\ \A i \in 1..Len(s) : s[i] = Gone => i = Len(s) /\ over
    /\ \A i \in 1..Len(s) : s[i] \in Info =>
           /\ s[i].ts <= clock
           /\ known # Gone => known.ts <= s[i].ts
           /\ \A j \in i..Len(s) : s[j] \in Info => s[i].ts <= s[j].ts
    /\ known # Gone => known.ts <= clock

InOrder(t) ==
    /\ Ord(feed[t], view[t], Clock(t[1]), Ended(t, boots, up))
    /\ t[2] > boots[t[1]] => feed[t] = <<>> /\ view[t] = Gone

\* In the view a start of a daemon only ever gets later heartbeats; it goes when that daemon
\* is over and nothing more is to come of it; and one that is over and read stays as it is.
ViewMovesOn == \A t \in Watched :
    /\ view[t] # Gone /\ view'[t] # Gone => view[t].ts <= view'[t].ts
    /\ view[t] # Gone /\ view'[t] = Gone => Abandoned(t) /\ feed'[t] = <<>>
    /\ Abandoned(t) /\ feed[t] = <<>> => Abandoned(t)' /\ feed'[t] = <<>> /\ view'[t] = view[t]

LEMMA TsIsATime ==
    ASSUME NEW p \in Info
    PROVE  p.ts \in Nat
  BY PresenceAssumption DEF Info

\* Time passes, and a daemon that is over stays over.
LEMMA OrdLater ==
    ASSUME NEW s \in Seq(Payloads), NEW known \in Info \cup {Gone},
           NEW clock \in Nat, NEW over, NEW later \in Nat, NEW overLater,
           Ord(s, known, clock, over), clock <= later, over => overLater
    PROVE  Ord(s, known, later, overLater)
  <1>1. known # Gone => known.ts <= later
    BY TsIsATime DEF Ord
  <1>2. \A i \in 1..Len(s) : s[i] \in Info => s[i].ts <= later
    BY TsIsATime DEF Ord
  <1>3. QED BY <1>1, <1>2 DEF Ord

\* A heartbeat by the clock, or a goodbye, of a daemon that was not over.
LEMMA OrdAppend ==
    ASSUME NEW s \in Seq(Payloads), NEW r \in Seq(Payloads), NEW p \in Payloads,
           NEW known \in Info \cup {Gone}, NEW clock \in Nat, NEW over,
           Ord(s, known, clock, FALSE),
           p = Gone => over, p \in Info => p.ts = clock,
           Len(r) = Len(s) + 1, r[Len(s) + 1] = p, \A i \in 1..Len(s) : r[i] = s[i]
    PROVE  Ord(r, known, clock, over)
  <1>1. Len(s) \in Nat /\ \A i \in 1..Len(r) : i \in 1..Len(s) \/ i = Len(s) + 1
    OBVIOUS
  <1>2. ASSUME NEW i \in 1..Len(r), r[i] = Gone
        PROVE  i = Len(r) /\ over
    BY <1>1, <1>2 DEF Ord
  <1>3. ASSUME NEW i \in 1..Len(r), r[i] \in Info
        PROVE  r[i].ts <= clock /\ (known # Gone => known.ts <= r[i].ts)
    <2>1. CASE i \in 1..Len(s)
      BY <1>3, <2>1 DEF Ord
    <2>2. CASE i = Len(s) + 1
      BY <1>3, <2>2 DEF Ord
    <2>3. QED BY <1>1, <2>1, <2>2
  <1>4. ASSUME NEW i \in 1..Len(r), NEW j \in i..Len(r), r[i] \in Info, r[j] \in Info
        PROVE  r[i].ts <= r[j].ts
    <2>1. CASE j \in 1..Len(s)
      <3>1. i \in 1..Len(s) /\ j \in i..Len(s)
        BY <2>1
      <3>2. QED BY <1>4, <2>1, <3>1 DEF Ord
    <2>2. CASE j = Len(s) + 1
      BY <1>3, <1>4, <2>2
    <2>3. QED BY <1>1, <2>1, <2>2
  <1>5. QED BY <1>2, <1>3, <1>4 DEF Ord

\* The first message is read.
LEMMA OrdRead ==
    ASSUME NEW s \in Seq(Payloads), NEW r \in Seq(Payloads), NEW known \in Info \cup {Gone},
           NEW clock \in Nat, NEW over, Ord(s, known, clock, over),
           Len(s) \in Nat \ {0}, Len(r) = Len(s) - 1,
           \A i \in 1..Len(s) - 1 : r[i] = s[i + 1]
    PROVE  Ord(r, IF Says(s[1]) THEN s[1] ELSE known, clock, over)
  <1> DEFINE read == IF Says(s[1]) THEN s[1] ELSE known
  <1>1. \A i \in 1..Len(r) : i + 1 \in 1..Len(s) /\ i + 1 \in 1..Len(s) /\ r[i] = s[i + 1]
    OBVIOUS
  <1>2. ASSUME NEW i \in 1..Len(r), r[i] = Gone
        PROVE  i = Len(r) /\ over
    BY <1>1, <1>2 DEF Ord
  <1>3. ASSUME NEW i \in 1..Len(r), r[i] \in Info
        PROVE  r[i].ts <= clock /\ (read # Gone => read.ts <= r[i].ts)
    <2>1. i + 1 \in 1..Len(s) /\ s[i + 1] \in Info /\ r[i] = s[i + 1] /\ 1 \in 1..Len(s)
      BY <1>1, <1>3
    <2>2. CASE Says(s[1]) /\ s[1] # Gone
      <3>1. s[1] \in Info /\ i + 1 \in 1..Len(s)
        BY <2>1, <2>2 DEF Says, IsNode
      <3>2. QED BY <2>1, <2>2, <3>1 DEF Ord
    <2>3. CASE Says(s[1]) /\ s[1] = Gone
      BY <2>1, <2>3 DEF Ord
    <2>4. CASE ~Says(s[1])
      BY <2>1, <2>4 DEF Ord
    <2>5. QED BY <2>2, <2>3, <2>4
  <1>4. ASSUME NEW i \in 1..Len(r), NEW j \in i..Len(r), r[i] \in Info, r[j] \in Info
        PROVE  r[i].ts <= r[j].ts
    <2>1. /\ i + 1 \in 1..Len(s) /\ j + 1 \in i + 1..Len(s)
          /\ r[i] = s[i + 1] /\ r[j] = s[j + 1]
      BY <1>1
    <2>2. QED BY <1>4, <2>1 DEF Ord
  <1>5. read # Gone => read.ts <= clock
    <2>1. 1 \in 1..Len(s)
      OBVIOUS
    <2>2. QED BY <2>1 DEF Ord, Says, IsNode
  <1>6. QED BY <1>2, <1>3, <1>4, <1>5 DEF Ord

MovesOnInv == WatchInv /\ \A t \in Watched : InOrder(t)

LEMMA ClockIsATime ==
    ASSUME PresenceTypeOK, NEW h \in Hosts
    PROVE  Clock(h) \in Nat
  BY PresenceAssumption DEF PresenceTypeOK, Clock

LEMMA InitInOrder == WatcherInit => MovesOnInv
  <1> SUFFICES ASSUME WatcherInit, NEW t \in Watched
               PROVE  InOrder(t)
    BY InitWatcher DEF MovesOnInv
  <1>1. /\ t \in Topics /\ view[t] = Gone /\ t = Topic(t[1], t[2]) /\ t[1] \in Hosts
        /\ t[2] \in 1..MaxBoots[t[1]] /\ boots[t[1]] \in Nat /\ Clock(t[1]) = 0
    BY WatchedIsAStart, InitPresence DEF WatcherInit, PresenceInit, PresenceTypeOK, Clock
  <1>2. retained[t] \in {[ts |-> 0, rodrev |-> TRUE], Junk, Gone}
    BY <1>1 DEF WatcherInit, PresenceInit
  <1>3. feed[t] = IF retained[t] = Gone THEN <<>> ELSE <<retained[t]>>
    BY <1>1 DEF WatcherInit, PresenceInit
  <1>4. CASE retained[t] = Gone
    BY <1>1, <1>3, <1>4 DEF InOrder, Ord
  <1>5. CASE retained[t] # Gone
    <2>1. Len(feed[t]) = 1 /\ feed[t][1] = retained[t] /\ Junk \notin Info
      BY <1>3, <1>5, TokensAssumption
    <2>2. Ord(feed[t], view[t], Clock(t[1]), Ended(t, boots, up))
      BY <1>1, <1>2, <1>5, <2>1 DEF Ord
    <2>3. ~(t[2] > boots[t[1]])
      <3>1. t[2] \in boots[t[1]] + 1..MaxBoots[t[1]] => retained[Topic(t[1], t[2])] = Gone
        BY <1>1 DEF WatcherInit, PresenceInit
      <3>2. QED BY <1>1, <1>5, <3>1
    <2>4. QED BY <2>2, <2>3 DEF InOrder
  <1>6. QED BY <1>4, <1>5

\* A message is read.
LEMMA RunInOrder ==
    ASSUME MovesOnInv, NEW u \in Watched, Run(u)
    PROVE  ViewMovesOn /\ \A t \in Watched : InOrder(t)'
  <1> SUFFICES ASSUME NEW t \in Watched
               PROVE  /\ InOrder(t)'
                      /\ view[t] # Gone /\ view'[t] # Gone => view[t].ts <= view'[t].ts
                      /\ view[t] # Gone /\ view'[t] = Gone => Abandoned(t) /\ feed'[t] = <<>>
                      /\ Abandoned(t) /\ feed[t] = <<>> =>
                             Abandoned(t)' /\ feed'[t] = <<>> /\ view'[t] = view[t]
    BY DEF ViewMovesOn
  <1>1. /\ PresenceTypeOK /\ t \in Topics /\ u \in Topics /\ t[1] \in Hosts
        /\ feed[t] \in Seq(Payloads) /\ view \in [Topics -> Info \cup {Gone}]
        /\ Clock(t[1]) \in Nat /\ InOrder(t)
    BY WatchedIsAStart, ClockIsATime
       DEF MovesOnInv, WatchInv, WatcherInv, WatcherTypeOK, PresenceTypeOK
  <1>2. Receive(u) /\ UNCHANGED <<now, up, boots, retained>>
    BY DEF Run, Cleared, Ignored, Seen
  <1>3. view' = [view EXCEPT ![u] = IF Says(feed[u][1]) THEN feed[u][1] ELSE view[u]]
    BY <1>1, <1>2, ReceiveEffect DEF Run, Cleared, Ignored, Seen, Says
  <1>4. Clock(t[1])' = Clock(t[1]) /\ (Abandoned(t)' <=> Abandoned(t))
    BY <1>2 DEF Clock, Abandoned
  <1>5. CASE t # u
    <2>1. feed'[t] = feed[t] /\ view'[t] = view[t]
      BY <1>1, <1>2, <1>3, <1>5, ReceiveEffect
    <2>2. view[t] # Gone => view[t].ts \in Nat
      BY <1>1, TsIsATime
    <2>3. InOrder(t)'
      BY <1>1, <1>2, <1>4, <2>1 DEF InOrder
    <2>4. QED BY <1>4, <2>1, <2>2, <2>3
  <1>6. CASE t = u
    <2>1. /\ Len(feed[t]) \in Nat \ {0} /\ Len(feed'[t]) = Len(feed[t]) - 1
          /\ feed'[t] \in Seq(Payloads)
          /\ \A i \in 1..Len(feed[t]) - 1 : feed'[t][i] = feed[t][i + 1]
          /\ feed'[t] = <<>> <=> Len(feed[t]) = 1
      BY <1>1, <1>2, <1>6, ReceiveEffect
    <2>2. view'[t] = IF Says(feed[t][1]) THEN feed[t][1] ELSE view[t]
      BY <1>1, <1>3, <1>6
    <2>3. Ord(feed[t], view[t], Clock(t[1]), Ended(t, boots, up)) /\ feed[t] # <<>>
      BY <1>1, <1>2, <1>6 DEF InOrder, Receive
    <2>4. Ord(feed'[t], view'[t], Clock(t[1]), Ended(t, boots, up))
      BY <1>1, <2>1, <2>2, <2>3, OrdRead
    <2>5. InOrder(t)'
      BY <1>1, <1>2, <1>4, <2>3, <2>4 DEF InOrder
    <2>6. 1 \in 1..Len(feed[t])
      BY <2>1
    <2>7. view[t] # Gone /\ view'[t] # Gone => view[t].ts <= view'[t].ts
      <3>1. view[t] # Gone => view[t].ts \in Nat
        BY <1>1, TsIsATime
      <3>2. QED BY <2>2, <2>3, <2>6, <3>1 DEF Ord, Says, IsNode
    <2>8. view[t] # Gone /\ view'[t] = Gone => Abandoned(t) /\ feed'[t] = <<>>
      BY <1>1, <2>1, <2>2, <2>3, <2>6, AbandonedIsEnded DEF Ord
    <2>9. QED BY <2>3, <2>5, <2>7, <2>8
  <1>7. QED BY <1>5, <1>6

\* Nothing is read: the view stays, and with it what is over.
LEMMA FleetMovesOn ==
    ASSUME MovesOnInv, view' = view,
           \A t \in Watched : Abandoned(t) => Abandoned(t)' /\ feed'[t] = feed[t]
    PROVE  ViewMovesOn
  <1>1. \A t \in Watched : view[t] # Gone => view[t].ts \in Nat
    BY WatchedIsAStart, TsIsATime DEF MovesOnInv, WatchInv, WatcherInv, WatcherTypeOK
  <1>2. QED BY <1>1 DEF ViewMovesOn

\* Time passes.
LEMMA TickInOrder ==
    ASSUME MovesOnInv, Tick, view' = view
    PROVE  ViewMovesOn /\ \A t \in Watched : InOrder(t)'
  <1>1. UNCHANGED <<up, boots, feed, view>> /\ now' = now + 1
    BY DEF Tick
  <1>2. \A t \in Watched : Abandoned(t) => Abandoned(t)' /\ feed'[t] = feed[t]
    BY <1>1 DEF Abandoned
  <1>3. ASSUME NEW t \in Watched
        PROVE  InOrder(t)'
    <2>1. /\ PresenceTypeOK /\ feed[t] \in Seq(Payloads) /\ view[t] \in Info \cup {Gone}
          /\ Clock(t[1]) \in Nat /\ InOrder(t) /\ now \in Nat
      BY WatchedIsAStart, ClockIsATime
         DEF MovesOnInv, WatchInv, WatcherInv, WatcherTypeOK, PresenceTypeOK
    <2>2. Clock(t[1])' \in Nat /\ Clock(t[1]) <= Clock(t[1])'
      BY <1>1, <2>1 DEF Clock
    <2>3. Ord(feed[t], view[t], Clock(t[1])', Ended(t, boots, up))
      <3>1. PICK later : later = Clock(t[1])'
        OBVIOUS
      <3>2. Ord(feed[t], view[t], Clock(t[1]), Ended(t, boots, up))
        BY <2>1 DEF InOrder
      <3>3. Ord(feed[t], view[t], later, Ended(t, boots, up))
        BY <2>1, <2>2, <3>1, <3>2, OrdLater
      <3>4. QED BY <3>1, <3>3
    <2>4. QED BY <1>1, <2>1, <2>3 DEF InOrder
  <1>4. QED BY <1>2, <1>3, FleetMovesOn

\* A daemon starts, checks in, leaves or vanishes: only its own topic gets anything, and that
\* was not over.
LEMMA DaemonInOrder ==
    ASSUME MovesOnInv, NEW h \in Hosts, DaemonStep(h), view' = view
    PROVE  ViewMovesOn /\ \A t \in Watched : InOrder(t)'
  <1>1. PresenceTypeOK /\ FeedIsCurrent /\ PresenceTypeOK' /\ now' = now
    BY DaemonKeepsTypes DEF MovesOnInv, WatchInv, WatcherInv, WatcherTypeOK, DaemonStep, Boot,
                            Heartbeat, Leave, Vanish
  <1>2. \A t \in Watched : Ended(t, boots, up) => Ended(t, boots', up') /\ feed'[t] = feed[t]
    BY <1>1, OverIsSilent
  <1>3. \A t \in Watched : Abandoned(t) => Abandoned(t)' /\ feed'[t] = feed[t]
    BY <1>1, <1>2, AbandonedIsEnded, AbandonedWillBeEnded
  <1>4. ASSUME NEW t \in Watched
        PROVE  /\ t \in Topics /\ t[1] \in Hosts /\ t = Topic(t[1], t[2]) /\ t[2] \in Nat \ {0}
               /\ feed[t] \in Seq(Payloads) /\ feed'[t] \in Seq(Payloads)
               /\ view[t] \in Info \cup {Gone} /\ Clock(t[1]) \in Nat
               /\ Clock(t[1])' = Clock(t[1]) /\ boots[t[1]] \in Nat /\ boots'[t[1]] \in Nat
               /\ Ord(feed[t], view[t], Clock(t[1]), Ended(t, boots, up))
               /\ t[2] > boots[t[1]] => feed[t] = <<>> /\ view[t] = Gone
    BY <1>1, <1>4, WatchedIsAStart, ClockIsATime
       DEF MovesOnInv, WatchInv, WatcherInv, WatcherTypeOK, PresenceTypeOK, InOrder, Clock
  <1>5. boots' = boots \/ boots' = [boots EXCEPT ![h] = boots[h] + 1]
    BY DEF DaemonStep, Boot, Heartbeat, Leave, Vanish
  <1>6. ASSUME NEW t \in Watched, feed'[t] = feed[t]
        PROVE  InOrder(t)'
    <2>1. Ord(feed[t], view[t], Clock(t[1]), Ended(t, boots', up'))
      <3>1. Clock(t[1]) <= Clock(t[1]) /\ (Ended(t, boots, up) => Ended(t, boots', up'))
        BY <1>2, <1>4
      <3>2. QED BY <1>4, <3>1 DEF Ord
    <2>2. t[2] > boots'[t[1]] => t[2] > boots[t[1]]
      BY <1>1, <1>4, <1>5 DEF PresenceTypeOK
    <2>3. QED BY <1>4, <1>6, <2>1, <2>2 DEF InOrder
  <1>7. ASSUME NEW p \in Payloads, NEW t \in Watched, Publish(t, p),
               p = Gone => Ended(t, boots', up'), p \in Info => p.ts = Clock(t[1]),
               ~Ended(t, boots, up), t[2] <= boots'[t[1]]
        PROVE  \A u \in Watched : InOrder(u)'
    <2>1. /\ Len(feed'[t]) = Len(feed[t]) + 1 /\ feed'[t][Len(feed[t]) + 1] = p
          /\ \A i \in 1..Len(feed[t]) : feed'[t][i] = feed[t][i]
          /\ \A u \in Topics \ {t} : feed'[u] = feed[u]
      BY <1>1, <1>4, <1>7, PublishEffect
    <2>2. Ord(feed[t], view[t], Clock(t[1]), FALSE)
      BY <1>4, <1>7 DEF Ord
    <2>3. Ord(feed'[t], view[t], Clock(t[1]), Ended(t, boots', up'))
      <3>1. Ord(feed'[t], view[t], Clock(t[1]), TRUE)
        <4>1. p \in Payloads /\ (p \in Info => p.ts = Clock(t[1]))
          BY <1>7
        <4>2. QED BY <1>4, <2>1, <2>2, <4>1, OrdAppend
      <3>2. ASSUME NEW i \in 1..Len(feed'[t]), feed'[t][i] = Gone
            PROVE  Ended(t, boots', up')
        <4>1. i \notin 1..Len(feed[t])
          BY <2>1, <2>2, <3>2 DEF Ord
        <4>2. i = Len(feed[t]) + 1
          BY <1>4, <2>1, <4>1
        <4>3. QED BY <1>7, <2>1, <3>2, <4>2
      <3>3. QED BY <3>1, <3>2 DEF Ord
    <2>4. InOrder(t)'
      BY <1>4, <1>7, <2>3 DEF InOrder
    <2>5. QED BY <1>4, <1>6, <2>1, <2>4
  <1>8. boots[h] \in Nat \ {0} /\ up \in [Hosts -> BOOLEAN] /\ boots \in [Hosts -> Nat]
    BY <1>1, OwnIsATopic DEF PresenceTypeOK
  <1>9. \A t \in Watched : InOrder(t)'
    <2>1. CASE Boot(h)
      <3> DEFINE new == Topic(h, boots[h] + 1)
      <3>1. PICK p \in Info : p.ts = Clock(h) /\ Publish(new, p)
        BY <1>1, <2>1, HeartbeatIsInfo, PresenceAssumption DEF Boot
      <3>2. /\ new \in Watched /\ new[1] = h /\ new[2] = boots[h] + 1
            /\ boots'[h] = boots[h] + 1
        BY <1>1, <1>8, <2>1, OwnIsATopic DEF Boot, Topic
      <3>3. ~Ended(new, boots, up) /\ p # Gone /\ p \in Payloads
        BY <1>8, <3>2, TokensAssumption DEF Ended, Payloads
      <3> HIDE DEF new
      <3>4. QED BY <1>7, <1>8, <3>1, <3>2, <3>3
    <2>2. CASE Heartbeat(h)
      <3>1. PICK p \in Info : p.ts = Clock(h) /\ Publish(Own(h), p)
        BY <1>1, <2>2, HeartbeatIsInfo DEF Heartbeat
      <3>2. /\ Own(h) \in Watched /\ Own(h)[1] = h /\ Own(h)[2] = boots[h]
            /\ boots' = boots /\ up[h]
        BY <1>1, <2>2, OwnIsATopic DEF Heartbeat, Topic, Own
      <3>3. ~Ended(Own(h), boots, up) /\ p # Gone /\ p \in Payloads
        BY <1>8, <3>2, TokensAssumption DEF Ended, Payloads
      <3>4. QED BY <1>7, <1>8, <3>1, <3>2, <3>3
    <2>3. CASE Leave(h)
      <3>1. /\ Own(h) \in Watched /\ Own(h)[1] = h /\ Own(h)[2] = boots[h]
            /\ boots' = boots /\ up[h] /\ ~up'[h] /\ Publish(Own(h), Gone)
        BY <1>1, <1>8, <2>3, OwnIsATopic DEF Leave, Topic, Own
      <3>2. /\ ~Ended(Own(h), boots, up) /\ Ended(Own(h), boots', up')
            /\ Gone \in Payloads /\ Gone \notin Info
        BY <1>8, <3>1, TokensAssumption DEF Ended, Payloads
      <3>3. QED BY <1>7, <1>8, <3>1, <3>2
    <2>4. CASE Vanish(h)
      BY <1>6, <2>4 DEF Vanish
    <2>5. QED BY <2>1, <2>2, <2>3, <2>4 DEF DaemonStep
  <1>10. QED BY <1>3, <1>9, FleetMovesOn

LEMMA MovesOnStep ==
    ASSUME MovesOnInv, [WatcherNext]_watcherVars
    PROVE  \A t \in Watched : InOrder(t)'
  <1>1. CASE Daemons
    BY <1>1, TickInOrder, DaemonInOrder DEF Daemons, DaemonStep
  <1>2. ASSUME NEW t \in Watched, Run(t)
        PROVE  \A u \in Watched : InOrder(u)'
    BY <1>2, RunInOrder
  <1>3. CASE UNCHANGED watcherVars
    BY <1>3 DEF watcherVars, presenceVars, MovesOnInv, InOrder, Clock
  <1>4. QED BY <1>1, <1>2, <1>3 DEF WatcherNext

\* watch.go:37-54, what LiveIsActive needs of single steps: the watcher overwrites what it
\* has with whatever comes in and compares no times, yet the view of a daemon's start never
\* goes back to an older heartbeat, never loses it while the daemon is up, and never brings
\* one back that is gone.
THEOREM ViewNeverGoesBack == WatcherSpec => [][ViewMovesOn]_watcherVars
  <1>1. WatcherInit => MovesOnInv
    BY InitInOrder
  <1>2. WatchInv /\ WatchInv' /\ (\A t \in Watched : InOrder(t)) /\ [WatcherNext]_watcherVars
            => (\A t \in Watched : InOrder(t))'
    BY MovesOnStep DEF MovesOnInv
  <1>3. WatchInv /\ (\A t \in Watched : InOrder(t)) /\ [WatcherNext]_watcherVars
            => [ViewMovesOn]_watcherVars
    <2> SUFFICES ASSUME WatchInv, \A t \in Watched : InOrder(t), WatcherNext
                 PROVE  ViewMovesOn
      OBVIOUS
    <2> QED BY TickInOrder, DaemonInOrder, RunInOrder
            DEF MovesOnInv, WatcherNext, Daemons, DaemonStep
  <1>4. WatcherInit => \A t \in Watched : InOrder(t)
    BY <1>1 DEF MovesOnInv
  <1>5. QED BY <1>2, <1>3, <1>4, WatchInvariant, PTL DEF WatcherSpec
=============================================================================
