---------------------------- MODULE ClusterBackend ----------------------------
(***************************************************************************)
(* The REPL's cluster backend (query/repl/eval_cluster.go): it follows the *)
(* heartbeats, decides from them whether the whole fleet knows the query   *)
(* command, asks the fleet accordingly and counts what came back.          *)
(*                                                                         *)
(* The daemons are of three ages.  "new" is the one of this repository     *)
(* (PuppetDispatch); "middle" does not know the query command and "old"    *)
(* does not know answer_always either - both as the comments and the       *)
(* client code of this repository describe them (external).                *)
(***************************************************************************)
EXTENDS PuppetDispatch, FiniteSets

CONSTANT MaxEvals      \* bound on the expressions evaluated

FleetAssumption == IsFiniteSet(Nodes)

Versions == {"old", "middle", "new"}

VARIABLES
    version,      \* of the daemon each node runs
    view,         \* nodes the watcher has as active, with what their heartbeat announced
    truth,        \* what the expression evaluates to on each node
    mode,         \* "idle", or how the fleet is being asked: "query" or "filter"
    waiting,      \* nodes that have not got to the request
    out,          \* the outcome the client collects
    sum,          \* the last summary and, for the properties, what it was made from
    evals         \* expressions evaluated so far

vars == <<version, view, truth, mode, waiting, out, sum, evals>>

NoOutcome == [matched |-> {}, noMatch |-> {}, errors |-> {}, unknown |-> {}]
NoSummary == [from |-> "none"]

Init ==
    /\ version \in [Nodes -> Versions]
    /\ view = <<>>
    /\ truth = [n \in Nodes |-> "false"]
    /\ mode = "idle"
    /\ waiting = {}
    /\ out = NoOutcome
    /\ sum = NoSummary
    /\ evals = 0

-----------------------------------------------------------------------------
(* Plausible bugs of the definitions below                                 *)

\* A node that failed to evaluate is told as one that did not match.
CountedLax(answer) ==
    CASE answer.type = "noMatch" \/ answer.says \in {"notMatched", "error"} -> "noMatch"
      [] answer.type = "silent" -> "silent"
      [] OTHER -> "matched"

-----------------------------------------------------------------------------
(* The fleet                                                               *)

\* A heartbeat reaches the watcher.
Heartbeat(n) ==
    /\ view' = [k \in DOMAIN view \cup {n} |-> IF k = n THEN version[n] ELSE view[k]]
    /\ UNCHANGED <<version, truth, mode, waiting, out, sum, evals>>

\* A node that went quiet is no longer active.
GoesStale(n) ==
    /\ n \in DOMAIN view
    /\ view' = [k \in DOMAIN view \ {n} |-> view[k]]
    /\ UNCHANGED <<version, truth, mode, waiting, out, sum, evals>>

\* The daemon is upgraded.
Upgrade(n) ==
    /\ version[n] # "new"
    /\ version' = [version EXCEPT ![n] = "new"]
    /\ UNCHANGED <<view, truth, mode, waiting, out, sum, evals>>

Request == [cmd |-> IF mode = "query" THEN "query" ELSE "status", filtered |-> TRUE,
            answerAlways |-> mode = "filter", path |-> <<"rv", "puppet">>,
            decodes |-> TRUE, replyTo |-> TRUE, paramsOk |-> TRUE]

\* An older daemon answers what it does not know with unknown command, and does not see
\* answer_always.
AnswerOf(n) ==
    CASE version[n] = "new" -> HandleEvent(n, Request, truth[n])
      [] version[n] # "new" /\ mode = "query" -> Answer("unknown")
      [] version[n] = "middle" /\ mode = "filter" -> HandleEvent(n, Request, truth[n])
      [] OTHER -> HandleEvent(n, [Request EXCEPT !.answerAlways = FALSE], truth[n])

-----------------------------------------------------------------------------
(* The backend                                                             *)

\* Some node is active, and all of those announce the query command.
QueryCapable == DOMAIN view # {} /\ \A n \in DOMAIN view : view[n] = "new"

\* Eval of any expression: the mode is decided once, before anything is sent.
Eval ==
    /\ mode = "idle" /\ evals < MaxEvals
    /\ mode' = IF QueryCapable THEN "query" ELSE "filter"
    /\ evals' = evals + 1
    /\ waiting' = Nodes
    /\ out' = NoOutcome
    /\ sum' = NoSummary
    /\ truth' \in [Nodes -> Values]
    /\ UNCHANGED <<version, view>>

\* What FilterMatch and Query make of a reply.
Counted(answer) ==
    CASE answer.type = "unknown" -> "unknown"
      [] answer.type = "error" \/ answer.says = "error" -> "errors"
      [] answer.type = "noMatch" \/ answer.says = "notMatched" -> "noMatch"
      [] answer.type = "silent" -> "silent"
      [] OTHER -> "matched"

\* A node gets to the request and its reply, if any, is in time.
Reply(n) ==
    /\ mode # "idle" /\ n \in waiting
    /\ waiting' = waiting \ {n}
    /\ out' = LET c == Counted(AnswerOf(n)) IN
              CASE c = "silent" -> out
                [] c = "unknown" -> [out EXCEPT !.errors = @ \cup {n}, !.unknown = @ \cup {n}]
                [] OTHER -> [out EXCEPT ![c] = @ \cup {n}]
    /\ UNCHANGED <<version, view, truth, mode, sum, evals>>

\* The numbers of evalQuery and evalFilter.
Summary == [from |-> mode, matched |-> Cardinality(out.matched),
            errors |-> Cardinality(out.errors),
            responded |-> Cardinality(out.matched \cup out.noMatch \cup out.errors),
            known |-> Cardinality(DOMAIN view), silent |-> mode = "filter" /\ out.noMatch = {}]

\* The deadline: whoever has not answered is not counted.
Deadline ==
    /\ mode # "idle"
    /\ sum' = Summary
    /\ mode' = "idle"
    /\ UNCHANGED <<version, view, truth, waiting, out, evals>>

Next ==
    \/ \E n \in Nodes : Heartbeat(n) \/ GoesStale(n) \/ Upgrade(n) \/ Reply(n)
    \/ Eval \/ Deadline

Spec == Init /\ [][Next]_vars

-----------------------------------------------------------------------------
(* Properties                                                              *)

TypeOK ==
    /\ version \in [Nodes -> Versions]
    /\ DOMAIN view \subseteq Nodes /\ \A n \in DOMAIN view : view[n] \in Versions
    /\ mode \in {"idle", "query", "filter"}
    /\ waiting \subseteq Nodes
    /\ evals \in 0..MaxEvals

\* eval_cluster.go:60, "every node answers and the counts are therefore exact": whatever the
\* ages of the daemons, upgraded while they are asked or not, the lists a summary counts say
\* what the nodes' own evaluation said - a match is a match, and an error is a failure to
\* evaluate or a command an older daemon does not know - no node is in two of them, and
\* every node that got to a query is in one.
SummaryIsTrue ==
    /\ \A n \in out.matched : truth[n] = "true"
    /\ \A n \in out.noMatch : truth[n] = "false"
    /\ \A n \in out.errors \ out.unknown : truth[n] \in {"value", "failure"}
    /\ (mode = "query" \/ sum.from = "query") =>
           Nodes \ waiting \subseteq out.matched \cup out.noMatch \cup out.errors
    /\ sum.from # "none" =>
           sum.responded = sum.matched + sum.errors + Cardinality(out.noMatch)
===============================================================================
