-------------------------------- MODULE Fence --------------------------------
(***************************************************************************)
(* Fencing one node: plugin/fence (server.go, fence-self-sysrq.go,         *)
(* client.go), sysrq/sysrq.go, the rv fence commands and the pacemaker     *)
(* agent scripts/fence_rvd.pl that calls them.                             *)
(*                                                                         *)
(* The target handles one request at a time and sits in HandleEvent until  *)
(* its filesystems are read-only; a goroutine of its own reboots it later. *)
(* Clients wait for a fixed time.  Requests and replies may be lost.       *)
(***************************************************************************)
EXTENDS Naturals, Sequences

CONSTANT
    Agents,       \* runs of fence_rvd
    Nobody        \* no agent

ASSUME NobodyAssumption == Nobody \notin Agents

\* A request as the target sees it: names says whom FenceCmd.Node names, group and mapped
\* whether the sender claims the configured group and has a node_map entry for the target.
Requests == [cmd : {"fence", "status", "other"}, decodes : BOOLEAN,
             names : {"me", "other", "nobody"}, group : BOOLEAN, mapped : BOOLEAN]

\* FenceConfig: whether a group and a node_map are configured, and the test mode.
Configs == [group : BOOLEAN, nodeMap : BOOLEAN, fake : BOOLEAN]

CONSTANTS
    MayAsk,       \* requests the agents may send, a subset of Requests
    MayConfigure  \* configurations of the target, a subset of Configs

ASSUME InputAssumption == MayAsk \subseteq Requests /\ MayConfigure \subseteq Configs

VARIABLES
    cfg,          \* configuration of the target
    asks,         \* the request of each agent
    agent,        \* [stage, try, exit]: where each agent is, in which try, with which exit code
    queue,        \* requests in the target's listener channel, as <<agent, try>>
    handling,     \* the agent whose fence request HandleEvent waits for, or Nobody
    self,         \* per agent: where the fencing goroutine it caused is
    remount,      \* what the last read-only remount returned to HandleEvent
    readonly,     \* the target's filesystems are read-only
    rebooted,     \* the target has rebooted
    replies       \* replies on their way: [to, try, success]

vars == <<cfg, asks, agent, queue, handling, self, remount, readonly, rebooted, replies>>
targetVars == <<handling, self, remount, readonly, rebooted>>

TypeOK ==
    /\ cfg \in Configs
    /\ asks \in [Agents -> Requests]
    /\ agent \in [Agents -> [stage : {"idle", "waiting", "done"}, try : 1..2, exit : 0..1]]
    /\ queue \in Seq(Agents \X (1..2))
    /\ handling \in (Agents \X (1..2)) \cup {Nobody}
    /\ self \in [Agents -> {"none", "delay", "readonly", "over"}]
    /\ remount \in {"pending", "ok", "error"}
    /\ readonly \in BOOLEAN /\ rebooted \in BOOLEAN
    /\ replies \subseteq [to : Agents, try : 1..2, success : BOOLEAN]

Init ==
    /\ cfg \in MayConfigure
    /\ asks \in [Agents -> MayAsk]
    /\ agent = [a \in Agents |-> [stage |-> "idle", try |-> 1, exit |-> 1]]
    /\ queue = <<>>
    /\ handling = Nobody
    /\ self = [a \in Agents |-> "none"]
    /\ remount = "pending"
    /\ readonly = FALSE /\ rebooted = FALSE
    /\ replies = {}

-----------------------------------------------------------------------------
(* CheckPermissions                                                        *)

\* A plausible bug of the next definition: the target named in the request is not looked at.
CheckPermissionsAnyTarget(req) ==
    \/ ~cfg.group /\ ~cfg.nodeMap
    \/ cfg.group /\ req.group
    \/ cfg.nodeMap /\ req.mapped

\* Without an acl everything is allowed.  With one the request has to name this node, or
\* none, and either claim the group or come from a client with an entry.
CheckPermissions(req) ==
    \/ ~cfg.group /\ ~cfg.nodeMap
    \/ /\ req.names # "other"
       /\ (cfg.group /\ req.group) \/ (cfg.nodeMap /\ req.mapped)

-----------------------------------------------------------------------------
(* Plausible bugs of the actions below, put in their place to see that the *)
(* properties notice them                                                  *)

\* The answer does not look at what the remount returned.
AnswerFenceBlindly ==
    /\ ~rebooted /\ handling # Nobody
    /\ remount # "pending"
    /\ replies' = replies \cup {[to |-> handling[1], try |-> handling[2], success |-> TRUE]}
    /\ handling' = Nobody
    /\ UNCHANGED <<cfg, asks, agent, queue, self, remount, readonly, rebooted>>

\* Only a node whose filesystems are read-only is rebooted.
RebootIfReadonly(a) ==
    /\ ~rebooted /\ self[a] = "readonly" /\ readonly
    /\ self' = [self EXCEPT ![a] = "over"]
    /\ \/ rebooted' = TRUE /\ queue' = <<>>
       \/ UNCHANGED <<rebooted, queue>>
    /\ UNCHANGED <<cfg, asks, agent, handling, remount, readonly, replies>>

-----------------------------------------------------------------------------
(* The client: fence.Send and fence.Status, the commands, and the agent    *)

\* The request is sent; whether it gets there is another matter.
Request(a) ==
    /\ agent[a].stage = "idle"
    /\ agent' = [agent EXCEPT ![a].stage = "waiting"]
    /\ \/ ~rebooted /\ queue' = Append(queue, <<a, agent[a].try>>)
       \/ UNCHANGED queue
    /\ UNCHANGED <<cfg, asks, targetVars, replies>>

\* The command ends, and the agent tries a second time after a non-zero exit.
Ends(a, exit) ==
    agent' = [agent EXCEPT ![a] =
        IF exit # 0 /\ @.try = 1 THEN [stage |-> "idle", try |-> 2, exit |-> exit]
        ELSE [stage |-> "done", try |-> @.try, exit |-> exit]]

\* clinit.Init panics when the broker can not be reached: nothing is sent.
Unconnected(a) ==
    /\ agent[a].stage = "idle"
    /\ Ends(a, 1)
    /\ UNCHANGED <<cfg, asks, queue, targetVars, replies>>

\* Any reply will do: its Success is not looked at.
TakeReply(a, r) ==
    /\ agent[a].stage = "waiting"
    /\ r \in replies /\ r.to = a /\ r.try = agent[a].try
    /\ Ends(a, 0)
    /\ replies' = replies \ {r}
    /\ UNCHANGED <<cfg, asks, queue, targetVars>>

\* The request could not be sent, or nothing came within the time: rv fence status exits 1,
\* rv fence run logs the error and exits 0.
GiveUp(a) ==
    /\ agent[a].stage = "waiting"
    /\ Ends(a, IF asks[a].cmd = "status" THEN 1 ELSE 0)
    /\ UNCHANGED <<cfg, asks, queue, targetVars, replies>>

-----------------------------------------------------------------------------
(* The target: EventListener and HandleEvent                               *)

Free == ~rebooted /\ handling = Nobody /\ queue # <<>>
Asker == Head(queue)
Asked == asks[Asker[1]]
Accepted == Asked.decodes /\ CheckPermissions(Asked)
Taken == queue' = Tail(queue) /\ UNCHANGED <<cfg, asks, agent>>
Reply(success) == replies' = replies \cup {[to |-> Asker[1], try |-> Asker[2], success |-> success]}

\* Not decodable, not permitted or not known: an error in the log and no answer.
Reject ==
    /\ Free /\ Taken
    /\ ~Accepted \/ Asked.cmd = "other"
    /\ UNCHANGED <<targetVars, replies>>

\* A status request, or a fence request in test mode.
AnswerNow ==
    /\ Free /\ Taken
    /\ Accepted
    /\ Asked.cmd = "status" \/ (Asked.cmd = "fence" /\ cfg.fake)
    /\ Reply(TRUE)
    /\ UNCHANGED targetVars

\* fenceSelf.Self: the goroutine syncs and terminates everything else first.
StartFencing ==
    /\ Free /\ Taken
    /\ Accepted /\ Asked.cmd = "fence" /\ ~cfg.fake
    /\ handling' = Asker
    /\ self' = [self EXCEPT ![Asker[1]] = "delay"]
    /\ remount' = "pending"
    /\ UNCHANGED <<readonly, rebooted, replies>>

\* HandleEvent got the goroutine's result and answers; a lost answer is never taken.
AnswerFence ==
    /\ ~rebooted /\ handling # Nobody
    /\ remount # "pending"
    /\ replies' = replies \cup {[to |-> handling[1], try |-> handling[2],
                                 success |-> remount = "ok"]}
    /\ handling' = Nobody
    /\ UNCHANGED <<cfg, asks, agent, queue, self, remount, readonly, rebooted>>

-----------------------------------------------------------------------------
(* fenceSelf.Self: the goroutine, with sysrq.Trigger                       *)

Remount(a) ==
    /\ ~rebooted /\ self[a] = "delay"
    /\ readonly' = TRUE
    /\ remount' = "ok"
    /\ self' = [self EXCEPT ![a] = "readonly"]
    /\ UNCHANGED <<cfg, asks, agent, queue, handling, rebooted, replies>>

RemountFails(a) ==
    /\ ~rebooted /\ self[a] = "delay"
    /\ remount' = "error"
    /\ self' = [self EXCEPT ![a] = "readonly"]
    /\ UNCHANGED <<cfg, asks, agent, queue, handling, readonly, rebooted, replies>>

\* The reboot is tried whether the remount worked or not; what it returns is lost.
Reboot(a) ==
    /\ ~rebooted /\ self[a] = "readonly"
    /\ self' = [self EXCEPT ![a] = "over"]
    /\ \/ rebooted' = TRUE /\ queue' = <<>>
       \/ UNCHANGED <<rebooted, queue>>
    /\ UNCHANGED <<cfg, asks, agent, handling, remount, readonly, replies>>

-----------------------------------------------------------------------------
Listener == Reject \/ AnswerNow \/ StartFencing \/ AnswerFence
Goroutine(a) == Remount(a) \/ RemountFails(a) \/ Reboot(a)

Next == \/ \E a \in Agents : \/ Request(a) \/ Unconnected(a) \/ GiveUp(a) \/ Goroutine(a)
                             \/ \E r \in replies : TakeReply(a, r)
        \/ Listener

Spec == Init /\ [][Next]_vars

\* The target's goroutines run and clients give up in the end.
FairSpec == /\ Spec
            /\ WF_vars(Listener)
            /\ \A a \in Agents : WF_vars(Goroutine(a)) /\ WF_vars(GiveUp(a))

-----------------------------------------------------------------------------
(* Properties                                                              *)

\* server.go:78, "to keep an accident on one node from taking down another": with an acl a
\* request that names another node, or whose sender has neither group nor entry, never gets
\* the fencing started, whichever requests are queued around it.
NoAccident == \A a \in Agents : self[a] # "none" =>
    /\ asks[a].cmd = "fence" /\ asks[a].decodes
    /\ (cfg.group \/ cfg.nodeMap) =>
           asks[a].names # "other" /\ (asks[a].group \/ asks[a].mapped)

\* A success the target reports is one: its filesystems are read-only, unless it only
\* pretends (test mode) or was asked for its status.
SuccessMeansReadonly == \A r \in replies :
    (r.success /\ asks[r.to].cmd = "fence" /\ ~cfg.fake) => readonly

\* A fencing that started ends in an attempt to reboot, read-only or not.
FencingGoesThrough == \A a \in Agents :
    (self[a] = "delay") ~> (self[a] = "over" \/ rebooted)

\* fence_rvd.pl:135, "if ($exit_code != 0) { print "rvd failed, retrying\n"": the agent
\* takes the exit code of rv fence run for the outcome, so a zero means the node is fenced.
ExitZeroMeansFenced == \A a \in Agents :
    (asks[a].cmd = "fence" /\ ~cfg.fake /\ agent[a].stage = "done" /\ agent[a].exit = 0)
        => readonly \/ rebooted
==============================================================================
