----------------------------- MODULE DiscoverOnce -----------------------------
(***************************************************************************)
(* One discovery run: DiscoverOnce and parseHeartbeat, client/discovery.go.*)
(*                                                                         *)
(* Heartbeats come whenever they come, retained ones first and live ones   *)
(* after them without end.  The run reads them until its deadline, then a  *)
(* drain goroutine reads on so that the transport's reader never blocks.   *)
(***************************************************************************)
EXTENDS Integers

CONSTANTS
    Hosts,        \* fqdns
    InitialWait,  \* DiscoverOpts, in ticks of the clock
    IdleWait

WaitAssumption ==
    InitialWait \in Nat \ {0} /\ IdleWait \in Nat \ {0}

\* A heartbeat: who sent it, and what parseHeartbeat and the age check make of it.
Heartbeats == [fqdn : Hosts, kind : {"active", "stale", "ignored"}]

VARIABLES
    left,         \* time until the armed timer fires: time.After
    wire,         \* heartbeats the transport's reader is trying to hand over: one or none
    started,      \* count > 0
    active, stale,\* Discovery.Active and Discovery.Stale
    done          \* DiscoverOnce returned; drain reads the channel

vars == <<left, wire, started, active, stale, done>>

TypeOK ==
    /\ left \in 0..(InitialWait + IdleWait)
    /\ wire \in SUBSET Heartbeats
    /\ started \in BOOLEAN /\ done \in BOOLEAN
    /\ active \in SUBSET Hosts /\ stale \in SUBSET Hosts

Init ==
    /\ left = InitialWait
    /\ wire = {}
    /\ started = FALSE /\ done = FALSE
    /\ active = {} /\ stale = {}

\* Where a heartbeat goes.  Nothing is ever taken out of the other map.
Add(s, m, kind) == IF m.kind = kind THEN s \cup {m.fqdn} ELSE s

-----------------------------------------------------------------------------
(* A plausible bug of an action below, put in its place to see that the    *)
(* property notices it                                                     *)

\* Nobody drains the channel once the results are in.
DrainNever(m) ==
    /\ FALSE
    /\ m \in wire
    /\ UNCHANGED vars

-----------------------------------------------------------------------------
\* The channel case of the select.  Only the first heartbeat moves the deadline.
Read(m) ==
    /\ ~done
    /\ m \in wire
    /\ wire' = wire \ {m}
    /\ started' = TRUE
    /\ left' = IF started THEN left ELSE IdleWait
    /\ active' = Add(active, m, "active")
    /\ stale' = Add(stale, m, "stale")
    /\ UNCHANGED done

\* The deadline case, which select may pass over while there are heartbeats to read.
Return ==
    /\ ~done
    /\ left = 0
    /\ done' = TRUE
    /\ UNCHANGED <<left, wire, started, active, stale>>

\* The deferred goroutine.
Drain(m) ==
    /\ done
    /\ m \in wire
    /\ wire' = wire \ {m}
    /\ UNCHANGED <<left, started, active, stale, done>>

\* The transport (external) has another heartbeat to hand over.
Arrive(m) ==
    /\ wire = {}
    /\ wire' = {m}
    /\ UNCHANGED <<left, started, active, stale, done>>

Tick ==
    /\ ~done
    /\ left' = IF left > 0 THEN left - 1 ELSE 0
    /\ UNCHANGED <<wire, started, active, stale, done>>

Next == \/ Return \/ Tick
        \/ \E m \in Heartbeats : Read(m) \/ Drain(m) \/ Arrive(m)

Spec == Init /\ [][Next]_vars

\* select picks at random among the cases that are ready, so neither is passed over for ever.
Fairness ==
    /\ SF_vars(Return)
    /\ WF_vars(Tick)
    /\ WF_vars(\E m \in Heartbeats : Read(m))
    /\ WF_vars(\E m \in Heartbeats : Drain(m))

FairSpec == Spec /\ Fairness

-----------------------------------------------------------------------------
(* Properties                                                              *)

\* A run ends however many heartbeats keep coming; and as "a subscription nobody reads any
\* more blocks" the transport's reader (discovery.go:74-78), whatever comes is read, during
\* the run and after it.
ReaderNeverBlocks == (wire # {}) ~> (wire = {})
DiscoveryEnds == <>done /\ ReaderNeverBlocks
===============================================================================
