------------------------------ MODULE RunCommand ------------------------------
(***************************************************************************)
(* rv puppet run, from its flags (cmd/rv/commands/puppet/run.go) over the  *)
(* request it publishes (client.PuppetRun) to the daemons that get it:     *)
(* OneRequest, with the request made by the command or by anybody else.    *)
(***************************************************************************)
EXTENDS OneRequest

CONSTANT Delays        \* values of --random-delay, in seconds

ASSUME DelaysAssumption == 0 \in Delays /\ Delays \subseteq Nat

\* No node is called like a flag that names none, or all of them.
ASSUME FlagsAssumption == Nodes \cap {"all", "", "unset", "none"} = {}

\* What the user gives: unset means the flag is left out, and its default is taken.
Flags == [node : Nodes \cup {"all", "", "unset"}, target : Nodes \cup {"all", "", "unset"},
          delay : Delays, filter : {"none", "short", "long"}]

NoFlags == [node |-> "none", target |-> "none", delay |-> 0, filter |-> "none"]

VARIABLES
    flags,        \* the command line
    phase,        \* "flags", "refused", or "sent" once the request is out
    delay         \* the delay in the parameters of the request

cmdVars == <<flags, phase, delay>>

\* The request: published once, under the prefix.
Run(prefix, dest, filter) ==
    [cmd |-> "run", filtered |-> filter # "none", answerAlways |-> FALSE,
     path |-> Topic(prefix, dest), decodes |-> TRUE, replyTo |-> TRUE, paramsOk |-> TRUE]

\* A request somebody else sends is out already; a command line is yet to be looked at.
CmdInit ==
    \/ Init /\ flags = NoFlags /\ phase = "sent" /\ delay = 0
    \/ /\ flags \in Flags /\ phase = "flags" /\ delay = 0
       /\ value \in [Nodes -> Values]
       /\ answer = [n \in Nodes |-> Pending]
       /\ to = All /\ req \in {Run(prefix, All, "none") : prefix \in Prefixes}

-----------------------------------------------------------------------------
(* The command                                                             *)

Default(v, default) == IF v = "unset" THEN default ELSE v

Node(f) == Default(f.node, "all")

\* --target is asked for only when --node is empty.
TargetOf(f) == IF Node(f) = "" THEN Default(f.target, "all") ELSE Node(f)

\* With a filter of more than three characters a second is assumed.
DelayOf(f) ==
    IF Node(f) = "all" /\ f.delay = 0 /\ f.filter = "long" THEN 1 ELSE f.delay

\* No target, or everybody at once.
Refused(f) == TargetOf(f) = "" \/ (Node(f) = "all" /\ DelayOf(f) = 0)

Refuse ==
    /\ phase = "flags" /\ Refused(flags)
    /\ phase' = "refused"
    /\ UNCHANGED <<vars, flags, delay>>

\* client.PuppetRun; a failure to send is one line in the log and nothing else.
Publish ==
    /\ phase = "flags" /\ ~Refused(flags)
    /\ LET dest == IF TargetOf(flags) = "all" THEN All ELSE TargetOf(flags) IN
       /\ to' = dest
       /\ \E prefix \in Prefixes :
              /\ req.path = Topic(prefix, All)
              /\ req' = Run(prefix, dest, flags.filter)
    /\ delay' = DelayOf(flags)
    /\ phase' = "sent"
    /\ UNCHANGED <<value, answer, flags>>

CmdNext ==
    \/ Refuse \/ Publish
    \/ phase = "sent" /\ Next /\ UNCHANGED cmdVars

CmdSpec == CmdInit /\ [][CmdNext]_<<vars, cmdVars>>

-----------------------------------------------------------------------------
\* From the command line to the nodes: puppet runs on the nodes RunsWhereMeant allows, which
\* are the one --node names, --target only where that is empty, or all of them - and then,
\* README, "-n all without a delay is refused", not at once, with or without a filter.
RunsAsAsked ==
    /\ RunsWhereMeant
    /\ flags # NoFlags => \A n \in Nodes : (Handled(n) /\ answer[n].type = "runStatus") =>
           /\ n \in {flags.node, flags.target} \/ {flags.node, flags.target} \cap {"all", "unset"} # {}
           /\ flags.node \in Nodes => flags.node = n /\ delay = flags.delay
           /\ flags.node \in {"all", "unset"} => delay > 0
===============================================================================
