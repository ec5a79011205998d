------------------------------- MODULE Downtime -------------------------------
(***************************************************************************)
(* Downtimes: rv downtime (cmd/rv/commands/downtime/downtime.go) publishes *)
(* a request on downtime/<certname>, and the daemon that can reach the     *)
(* Icinga api (downtime/downtime.go) checks it and schedules it.  There is *)
(* no reply: what is refused is only in the log of that daemon.            *)
(*                                                                         *)
(* A host name is the sequence of its labels, <<"web", "example">> for     *)
(* web.example; a certname is one of these, with or without the prefix     *)
(* client_.                                                                *)
(***************************************************************************)
EXTENDS Integers, Sequences

CONSTANTS
    Machines,      \* machines with an rv, each [name, hostname, cert]: its fully qualified
                   \* name, what os.Hostname returns, and the kind of client certificate
    MaxDowntime,   \* maxDowntime, in some unit; 60 days
    MaxRequests    \* bound on the requests sent

MachinesAssumption ==
    \A m \in Machines : /\ m.hostname \in {m.name, <<m.name[1]>>}
                        /\ m.cert \in {"none", "plain", "client"}
LimitAssumption == MaxDowntime \in Nat \ {0} /\ MaxRequests \in Nat

Names == {m.name : m \in Machines} \cup {m.hostname : m \in Machines}

\* 0 stands for any duration that is not positive, MaxDowntime for any not below it.
Durations == 0..MaxDowntime

VARIABLES
    queue,         \* requests in the daemon's channel
    api,           \* TRUE: Icinga accepts what it is asked
    scheduled,     \* requests whose downtime Icinga got
    sent           \* how many were sent so far

vars == <<queue, api, scheduled, sent>>

Requests == [from : Machines, host : Names \cup {<<>>}, duration : Durations, decodes : BOOLEAN]

TypeOK ==
    /\ queue \in Seq(Requests)
    /\ api \in BOOLEAN
    /\ scheduled \subseteq Requests
    /\ sent \in 0..MaxRequests

Init ==
    /\ queue = <<>>
    /\ api = TRUE
    /\ scheduled = {}
    /\ sent = 0

-----------------------------------------------------------------------------
(* The topic                                                               *)

\* connect: the CN of the client certificate, or the fully qualified name.
Certname(m) == [client |-> m.cert = "client", labels |-> m.name]

\* HostFromRoutingKey: the first label of the last level, without client_.
HostFromRoutingKey(key) == <<key.labels[1]>>

-----------------------------------------------------------------------------
(* Plausible bugs of the definitions below                                 *)

\* The sender is taken from the request.
ValidateTrusting(req) == req.host # <<>> /\ req.duration > 0 /\ req.duration < MaxDowntime

-----------------------------------------------------------------------------
\* rv downtime: --host, or what os.Hostname says.  A topic carries its sender.
Send(m, host, duration) ==
    /\ sent < MaxRequests
    /\ sent' = sent + 1
    /\ queue' = Append(queue, [from |-> m, duration |-> duration, decodes |-> TRUE,
                               host |-> IF host = <<>> THEN m.hostname ELSE host])
    /\ UNCHANGED <<api, scheduled>>

\* Anybody else may publish there: what does not decode, or names no host.
SendOther(m, decodes) ==
    /\ sent < MaxRequests
    /\ sent' = sent + 1
    /\ queue' = Append(queue, [from |-> m, duration |-> 1, decodes |-> decodes,
                               host |-> <<>>])
    /\ UNCHANGED <<api, scheduled>>

\* ValidateRequest.
Validate(req) ==
    /\ req.host # <<>>
    /\ req.duration > 0 /\ req.duration < MaxDowntime
    /\ HostFromRoutingKey(Certname(req.from)) = req.host

Ignore ==
    /\ queue # <<>>
    /\ ~(Head(queue).decodes /\ Validate(Head(queue)))
    /\ queue' = Tail(queue)
    /\ UNCHANGED <<api, scheduled, sent>>

\* ScheduleHostDowntime; an error of the api, or no such host, is logged and that is it.
Schedule ==
    /\ queue # <<>>
    /\ Head(queue).decodes /\ Validate(Head(queue))
    /\ queue' = Tail(queue)
    /\ scheduled' = IF api THEN scheduled \cup {Head(queue)} ELSE scheduled
    /\ UNCHANGED <<api, sent>>

\* Icinga (external) comes and goes.
ApiChanges ==
    /\ api' = ~api
    /\ UNCHANGED <<queue, scheduled, sent>>

Client == \E m \in Machines :
    \/ \E host \in Names \cup {<<>>}, duration \in Durations : Send(m, host, duration)
    \/ \E decodes \in BOOLEAN : SendOther(m, decodes)

Run == Ignore \/ Schedule

Next == Client \/ Run \/ ApiChanges

Spec == Init /\ [][Next]_vars

-----------------------------------------------------------------------------
(* Properties                                                              *)

\* downtime.go:89, "A host may only downtime itself": whoever is in downtime asked for it on
\* its own topic, under its short name, for a time that is neither over nor endless, whatever
\* was in the channel before.
OnlyItself == \A d \in scheduled :
    /\ d.host = <<d.from.name[1]>>
    /\ d.duration \in 1..MaxDowntime - 1
===============================================================================
