------------------------------- MODULE FleetRpc -------------------------------
(***************************************************************************)
(* A client's session and the fleet it talks to: Session composed with     *)
(* PuppetDispatch over a broker, and the calls of client/query.go that     *)
(* turn a stream of replies into an answer for the user.                   *)
(*                                                                         *)
(* The broker (external) hands a request to every daemon, may redeliver    *)
(* it, and carries the replies back in any order, doubling some; a daemon  *)
(* that is down never takes its request, a reply that is lost stays on the *)
(* way.  A daemon evaluates the expression against the data it has when it *)
(* gets to the request, which PuppetState's refresh may change any time.   *)
(***************************************************************************)
EXTENDS Session, PuppetDispatch, FiniteSets

CONSTANTS
    Asks,         \* sets of calls made at once: functions from Calls to [op, node], the client
                  \* function behind each call and, for a dump, the node
    MaxDups       \* bound on redelivered requests and doubled replies

Counting == {"FilterMatch", "Status", "Query"}      \* broadcast with an expression
Dumping  == {"NodeFacts", "NodeClasses"}            \* unicast without one

Unused   == "none"                                  \* a call that is not made

ASSUME AsksAssumption ==
    Asks \subseteq [Calls -> [op : Counting \cup Dumping \cup {Unused}, node : Nodes]]

VARIABLES
    ask,          \* the client functions called, one of Asks
    outcome,      \* what each has made of its replies so far
    inbox,        \* calls whose request waits in each daemon's listener channel
    net,          \* replies on their way to the client
    saw,          \* history: what each node evaluated each call's request to, in turn
    dups          \* duplicates made so far

fleetVars == <<inbox, net, saw, dups>>
vars == <<sessionVars, fleetVars, ask, outcome>>

\* Replies on the wire: newReply takes the id and the fqdn from the headers.
FleetReplies == [id : Calls, fqdn : Nodes, says : {"nothing", "error", "matched", "notMatched"},
                 type : {"error", "noMatch", "status", "query", "facts", "classes"}]

ASSUME RepliesAssumption == FleetReplies \subseteq Replies

\* The request each client function sends.
RequestOf(c) ==
    LET op == ask[c].op IN
    [cmd |-> CASE op \in {"FilterMatch", "Status"} -> "status"
               [] op = "Query" -> "query"
               [] op = "NodeFacts" -> "factlist"
               [] op = "NodeClasses" -> "classlist",
     filtered |-> op \in Counting,
     answerAlways |-> op \in {"FilterMatch", "Status"},
     path |-> IF op \in Dumping THEN <<"rv", "puppet", ask[c].node>> ELSE <<"rv", "puppet">>,
     decodes |-> TRUE, replyTo |-> TRUE, paramsOk |-> TRUE]

NoOutcome == [seen |-> {}, matched |-> <<>>, noMatch |-> <<>>, errors |-> {}]
NoCoverage == [matched |-> 0, noMatch |-> 0, errors |-> 0]

FleetInit ==
    /\ Init
    /\ ask \in Asks
    /\ outcome = [c \in Calls |-> IF ask[c].op = "Status" THEN NoCoverage ELSE NoOutcome]
    /\ inbox = [n \in Nodes |-> {}]
    /\ net = {}
    /\ saw = [c \in Calls |-> [n \in Nodes |-> {}]]
    /\ dups = 0

-----------------------------------------------------------------------------
(* Plausible bugs of the operators below, put in their place to see that   *)
(* the properties notice them                                              *)

\* FilterMatch counts every reply.
FilterStepUnseen(out, reply) ==
    CASE reply.type = "error" -> [out EXCEPT !.errors = @ \cup {reply.fqdn}]
      [] reply.type = "noMatch" -> [out EXCEPT !.noMatch = Append(@, reply.fqdn)]
      [] OTHER -> [out EXCEPT !.matched = Append(@, reply.fqdn)]

\* An errored query counts as one that did not match.
QueryStepLenient(out, reply) ==
    IF reply.fqdn \in out.seen THEN out
    ELSE LET met == [out EXCEPT !.seen = @ \cup {reply.fqdn}] IN
         CASE reply.says = "notMatched" -> [met EXCEPT !.noMatch = Append(@, reply.fqdn)]
           [] OTHER -> [met EXCEPT !.matched = Append(@, reply.fqdn)]

\* The request goes out before the call is registered for its replies.
PublishFirst(c) ==
    /\ stage[c] = "new"
    /\ stage' = [stage EXCEPT ![c] = "waiting"]
    /\ inbox' = [n \in Nodes |-> inbox[n] \cup {c}]
    /\ UNCHANGED <<ch, arrived, router, registered, sinks, expired, got, closed, net, saw, dups,
                   outcome>>

-----------------------------------------------------------------------------
(* The client functions: what onReply does with a reply                    *)

\* FilterMatch: the first reply of a node counts, the rest are ignored.
FilterStep(out, reply) ==
    IF reply.fqdn \in out.seen THEN out
    ELSE LET met == [out EXCEPT !.seen = @ \cup {reply.fqdn}] IN
         CASE reply.type = "error" -> [met EXCEPT !.errors = @ \cup {reply.fqdn}]
           [] reply.type = "noMatch" -> [met EXCEPT !.noMatch = Append(@, reply.fqdn)]
           [] OTHER -> [met EXCEPT !.matched = Append(@, reply.fqdn)]

\* Query: the same, with the verdict in the body.
QueryStep(out, reply) ==
    IF reply.fqdn \in out.seen THEN out
    ELSE LET met == [out EXCEPT !.seen = @ \cup {reply.fqdn}] IN
         CASE reply.type = "error" \/ reply.says = "error" ->
                  [met EXCEPT !.errors = @ \cup {reply.fqdn}]
           [] reply.type # "error" /\ reply.says = "matched" ->
                  [met EXCEPT !.matched = Append(@, reply.fqdn)]
           [] OTHER -> [met EXCEPT !.noMatch = Append(@, reply.fqdn)]

\* PuppetStatusStream (and PuppetFactStream): counters, one up per reply.
CoverageStep(cov, reply) ==
    CASE reply.type = "noMatch" -> [cov EXCEPT !.noMatch = @ + 1]
      [] reply.type = "error" -> [cov EXCEPT !.errors = @ + 1]
      [] OTHER -> [cov EXCEPT !.matched = @ + 1]

\* NodeFacts and NodeClasses stop at the first reply that is not an error.
KeepsGoing(c, reply) == ~(ask[c].op \in Dumping /\ reply.type # "error")

OnReply(c, reply) ==
    CASE ask[c].op = "FilterMatch" -> FilterStep(outcome[c], reply)
      [] ask[c].op = "Query" -> QueryStep(outcome[c], reply)
      [] ask[c].op = "Status" -> CoverageStep(outcome[c], reply)
      [] OTHER -> outcome[c]

\* The callback gets the next reply and says whether there should be more.
Receive(c) ==
    /\ sinks[c] # <<>>
    /\ LET reply == Head(sinks[c]).reply IN
           /\ Consume(c, KeepsGoing(c, reply))
           /\ outcome' = [outcome EXCEPT ![c] = OnReply(c, reply)]

\* What NodeFacts or NodeClasses returns, if anything: at most one reply.
Dump(c) == {i \in DOMAIN got[c] : got[c][i].reply.type # "error"}

-----------------------------------------------------------------------------
(* The broker and the daemons                                              *)

\* SendEvent: the request is on its way to every daemon.
Publish(c) ==
    /\ Send(c)
    /\ inbox' = [n \in Nodes |-> inbox[n] \cup {c}]
    /\ UNCHANGED <<net, saw, dups, outcome>>

\* An expression may evaluate to anything; without one there is nothing to evaluate.
Evaluates(c) == IF RequestOf(c).filtered THEN Values ELSE {"true"}

\* A daemon takes a request from its listener channel, evaluates it to v and answers it or
\* stays silent.
HandleRequest(n, c, v) ==
    /\ c \in inbox[n]
    /\ inbox' = [inbox EXCEPT ![n] = @ \ {c}]
    /\ saw' = [saw EXCEPT ![c][n] = @ \cup {v}]
    /\ LET a == HandleEvent(n, RequestOf(c), v) IN
           net' = IF a.type = "silent" THEN net
                  ELSE net \cup {[id |-> c, fqdn |-> n, type |-> a.type, says |-> a.says]}
    /\ UNCHANGED <<sessionVars, dups, outcome>>

\* The broker delivers a request a second time.
Redeliver(n, c) ==
    /\ dups < MaxDups
    /\ saw[c][n] # {}
    /\ c \notin inbox[n]
    /\ inbox' = [inbox EXCEPT ![n] = @ \cup {c}]
    /\ dups' = dups + 1
    /\ UNCHANGED <<sessionVars, net, saw, outcome>>

\* A reply reaches the session, for the last time or not.
Deliver(reply) ==
    /\ reply \in net
    /\ Arrive(reply)
    /\ \/ net' = net \ {reply} /\ UNCHANGED dups
       \/ dups < MaxDups /\ dups' = dups + 1 /\ UNCHANGED net
    /\ UNCHANGED <<inbox, saw, outcome>>

-----------------------------------------------------------------------------
CallLocally(c) ==
    /\ \/ /\ Register(c) \/ RefuseClosed(c) \/ SendFails(c) \/ ContextDone(c) \/ Return(c)
          /\ UNCHANGED outcome
       \/ Receive(c)
    /\ UNCHANGED fleetVars

Made == {c \in Calls : ask[c].op # Unused}

Client == \/ \E c \in Made : CallLocally(c) \/ Publish(c)
          \/ (Route \/ Close \/ Drain) /\ UNCHANGED <<fleetVars, outcome>>

Fleet == \E n \in Nodes, c \in Made :
             Redeliver(n, c) \/ \E v \in Evaluates(c) : HandleRequest(n, c, v)

Broker == \E reply \in net : Deliver(reply)

FleetNext == (Client \/ Fleet \/ Broker) /\ UNCHANGED ask

FleetSpec == FleetInit /\ [][FleetNext]_vars

-----------------------------------------------------------------------------
(* Properties                                                              *)

Answered(out) == Len(out.matched) + Len(out.noMatch) + Cardinality(out.errors)
InSeq(n, s) == \E i \in DOMAIN s : s[i] = n

\* The nodes an outcome lists.
Listed(out) == {n \in Nodes : InSeq(n, out.matched) \/ InSeq(n, out.noMatch) \/ n \in out.errors}

\* query.go:38, "Answered() is the real number of nodes that ran the query": every node is
\* counted once, in one of the three lists, and only if it evaluated the expression -
\* however often the request or its reply was delivered.
OutcomeCountsNodes == \A c \in Calls : ask[c].op \in {"FilterMatch", "Query"} =>
    /\ Answered(outcome[c]) = Cardinality(Listed(outcome[c]))
    /\ \A n \in Listed(outcome[c]) : saw[c][n] # {}

\* Where a node is listed is what it evaluated the expression to when it was asked: data
\* that changes, failing expressions and redeliveries do not move it to a wrong list.
OutcomeIsWhatNodesSaw == \A c \in Calls : ask[c].op \in {"FilterMatch", "Query"} =>
    \A n \in Nodes :
        /\ InSeq(n, outcome[c].matched) => "true" \in saw[c][n]
        /\ InSeq(n, outcome[c].noMatch) => "false" \in saw[c][n]
        /\ n \in outcome[c].errors => saw[c][n] \cap {"value", "failure"} # {}

\* query.go:261, "only the node we asked answers a unicast dump": NodeFacts and NodeClasses
\* take the first dump without looking at its sender, which is right only because every
\* other daemon keeps silent.
DumpIsOfTheNodeAsked == \A c \in Calls : ask[c].op \in Dumping =>
    \A i \in Dump(c) : got[c][i].reply.fqdn = ask[c].node

\* query.go:92 says of Coverage.Answered, behind rv puppet status and fact, that it "is how
\* many nodes replied at all".
CoverageCountsNodes == \A c \in Calls : ask[c].op = "Status" =>
    outcome[c].matched + outcome[c].noMatch + outcome[c].errors
        = Cardinality({got[c][i].reply.fqdn : i \in DOMAIN got[c]})

\* The client side of the composition behaves as Session allows, so what is proved of
\* Session holds here.
ImplementsSession == Spec
===============================================================================
