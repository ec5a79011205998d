--------------------------- MODULE HeartbeatCleanup ---------------------------
(***************************************************************************)
(* The presence cleanup of one daemon: daemon/heartbeat-cleanup.go.        *)
(*                                                                         *)
(* One goroutine follows the presence topics into a cache, another makes a *)
(* pass over a copy of that cache now and then, removes from the broker    *)
(* what looks abandoned and forgets it.  The cache is locked only for the  *)
(* single operations, so messages arrive between any two steps of a pass.  *)
(* A cleaning daemon that restarts is a behaviour that starts with Init.   *)
(***************************************************************************)
EXTENDS Presence

CONSTANTS
    Self,         \* the daemon whose cleanup this is
    MaxAge,       \* cleanupOpts.MaxAge
    None          \* no topic

ASSUME CleanupAssumption == Self \in Hosts /\ MaxAge \in Nat /\ None \notin Topics

VARIABLES
    dryRun,       \* cleanupOpts.DryRun, from the configuration
    cache,        \* heartbeatCache.entries
    pass,         \* [since, todo] while a pass runs: its time.Now() and the entries of its
                  \* copy it has not looked at, else Idle
    clearing,     \* the topic removed from the broker but not forgotten yet, or None
    raced         \* ghost: topics whose entry was forgotten although newer than the removal

cleanupVars == <<dryRun, cache, pass, clearing, raced>>
vars == <<presenceVars, cleanupVars>>

Nobody == [t \in Topics |-> Gone]
Idle == [since |-> -1, todo |-> Nobody]
\* A plausible bug of the next definition: own presence is judged like everybody else's.
KeepNothing == None

\* presenceTopic: cleanupOpts.Keep.
Keep == Own(Self)

CleanupTypeOK ==
    /\ PresenceTypeOK
    /\ dryRun \in BOOLEAN
    /\ cache \in [Topics -> Payloads]
    /\ pass \in [since : -1..MaxTime, todo : [Topics -> Payloads]]
    /\ clearing \in Topics \cup {None}
    /\ raced \in SUBSET Topics

\* startHeartbeatCleanup, of a daemon that is up and stays up.
Init ==
    /\ PresenceInit
    /\ up[Self]
    /\ dryRun \in BOOLEAN
    /\ cache = Nobody
    /\ pass = Idle
    /\ clearing = None
    /\ raced = {}

\* staleHeartbeat, by the clock of this daemon and the timestamp of that one.
Stale(t, payload, time) ==
    /\ payload # Gone
    /\ \/ t = Legacy
       \/ payload = Junk
       \/ payload # Junk /\ time - payload.ts > MaxAge

-----------------------------------------------------------------------------
(* Plausible bugs of the actions below, put in their place to see that the *)
(* properties notice them                                                  *)

\* An empty message is stored like any other payload, so a removal is not noticed.
FollowNonEmpty(t) ==
    /\ Receive(t)
    /\ cache' = [cache EXCEPT ![t] = IF NextMessage(t) = Gone THEN @ ELSE NextMessage(t)]
    /\ raced' = raced \ {t}
    /\ UNCHANGED <<now, up, boots, retained, dryRun, pass, clearing>>

\* A failed removal is forgotten like a successful one.
RemovalFailsForgotten(t) ==
    /\ pass.todo[t] # Gone
    /\ clearing = None
    /\ t # Keep /\ ~dryRun /\ Stale(t, pass.todo[t], pass.since)
    /\ pass' = [pass EXCEPT !.todo[t] = Gone]
    /\ cache' = [cache EXCEPT ![t] = Gone]
    /\ UNCHANGED <<presenceVars, dryRun, clearing, raced>>

-----------------------------------------------------------------------------
(* heartbeatCache.follow                                                   *)

Follow(t) ==
    /\ Receive(t)
    /\ cache' = [cache EXCEPT ![t] = NextMessage(t)]
    /\ raced' = raced \ {t}
    /\ UNCHANGED <<now, up, boots, retained, dryRun, pass, clearing>>

-----------------------------------------------------------------------------
(* runHeartbeatCleanup, which heartbeatCleanupLoop calls over and over     *)

Begin ==
    /\ pass = Idle
    /\ pass' = [since |-> Clock(Self), todo |-> cache]
    /\ UNCHANGED <<presenceVars, dryRun, cache, clearing, raced>>

\* Our own presence, one that is not stale, or nothing but counting in a dry run.
LeaveAlone(t) ==
    /\ pass.todo[t] # Gone
    /\ clearing = None
    /\ t = Keep \/ dryRun \/ ~Stale(t, pass.todo[t], pass.since)
    /\ pass' = [pass EXCEPT !.todo[t] = Gone]
    /\ UNCHANGED <<presenceVars, dryRun, cache, clearing, raced>>

Removes(t) ==
    /\ pass.todo[t] # Gone
    /\ clearing = None
    /\ t # Keep /\ ~dryRun /\ Stale(t, pass.todo[t], pass.since)
    /\ pass' = [pass EXCEPT !.todo[t] = Gone]

\* SendCleanup: an empty retained message, of which the cache's own subscription gets a copy.
Remove(t) ==
    /\ Removes(t)
    /\ Publish(t, Gone)
    /\ clearing' = t
    /\ UNCHANGED <<now, up, boots, dryRun, cache, raced>>

\* SendCleanup fails: the entry stays for the next pass.
RemovalFails(t) ==
    /\ Removes(t)
    /\ UNCHANGED <<presenceVars, dryRun, cache, clearing, raced>>

\* cache.forget, by the topic only: a message may have come in since the removal.
Forget ==
    /\ clearing # None
    /\ cache' = [cache EXCEPT ![clearing] = Gone]
    /\ raced' = IF cache[clearing] # Gone /\ feed[clearing] = <<>>
                THEN raced \cup {clearing} ELSE raced
    /\ clearing' = None
    /\ UNCHANGED <<presenceVars, dryRun, pass>>

End ==
    /\ pass # Idle
    /\ pass.todo = Nobody
    /\ clearing = None
    /\ pass' = Idle
    /\ UNCHANGED <<presenceVars, dryRun, cache, clearing, raced>>

-----------------------------------------------------------------------------
\* The other daemons come and go; this one checks in.
Others == /\ \/ Tick
             \/ \E h \in Hosts : Heartbeat(h)
             \/ \E h \in Hosts \ {Self} : Boot(h) \/ Leave(h) \/ Vanish(h)
          /\ UNCHANGED cleanupVars

Examine(t) == LeaveAlone(t) \/ Remove(t) \/ RemovalFails(t)

\* The goroutine that makes the passes.
Passes == Begin \/ Forget \/ End \/ \E t \in Topics : Examine(t)

Next == \/ Others
        \/ Passes
        \/ \E t \in Topics : Follow(t)

Spec == Init /\ [][Next]_vars

\* Both goroutines run and time passes.  A removal is tried again and again and does not
\* fail for ever; the broker has room for it again and again.
Fairness ==
    /\ WF_vars(Tick /\ UNCHANGED cleanupVars)
    /\ WF_vars(Passes)
    /\ \A t \in Topics : WF_vars(Follow(t)) /\ SF_vars(Remove(t))

FairSpec == Spec /\ Fairness

-----------------------------------------------------------------------------
(* Properties                                                              *)

\* What the cache will hold once everything under way has been followed.
CaughtUp(t) == IF feed[t] = <<>> THEN cache[t] ELSE feed[t][Len(feed[t])]

\* heartbeat-cleanup.go:52, "follow keeps the cache in step with what is on the broker",
\* in spite of passes that delete from both - with one exception, which lasts until the
\* next heartbeat on the topic.
CacheFollowsBroker == \A t \in Topics \ raced : CaughtUp(t) = retained[t]

\* The inductive form.  A topic that was raced is mended by what comes next, which has to be
\* what is retained.
CleanupInv == CleanupTypeOK /\ FeedIsCurrent /\ CacheFollowsBroker

\* README:331, "Its own presence ... left alone": this daemon's presence is on the broker
\* however old it looks to a pass that works on an old copy of the cache, when the
\* goroutine that announces it or the one that follows the topics is slow.
OwnPresenceStays == retained[Own(Self)] # Gone

\* The presence of a daemon that went away, early enough to grow stale within MaxTime, is removed
\* in the end, in spite of failing removals, unless its last message was raced.
AbandonedIsRemoved == \A t \in Topics :
    (/\ ~dryRun /\ Abandoned(t)
     /\ retained[t] \in Info => MaxTime - retained[t].ts > MaxAge)
    ~> (retained[t] = Gone \/ t \in raced)
===============================================================================
