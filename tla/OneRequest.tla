------------------------------ MODULE OneRequest ------------------------------
(***************************************************************************)
(* One request on the broker and every daemon's answer to it.  All daemons *)
(* subscribe to puppet/#, so each of them gets the request, whoever it was *)
(* meant for, and decides alone; they handle it in any order.              *)
(***************************************************************************)
EXTENDS PuppetDispatch

CONSTANTS
    Prefixes,     \* mq_prefix values, split at "/"
    All,          \* the destination of a broadcast
    Pending       \* a node that has not handled the request

\* A prefix of several elements that ends in puppet hides a broadcast from every node.
ASSUME PrefixAssumption ==
    \A p \in Prefixes : p \in Seq(STRING) /\ p # <<>> /\ (Len(p) > 1 => LastOf(p) # "puppet")

\* What a daemon may make of a request.
Answers == [type : {"silent", "error", "noMatch", "query", "status", "runStatus", "fact", "facts",
                    "classes"},
            says : {"nothing", "matched", "notMatched", "error"}]

ASSUME SentinelAssumption == All \notin Nodes /\ Pending \notin Answers

VARIABLES
    to,           \* who the client meant: a node or All
    req,          \* the request as published
    value,        \* what its expression evaluates to on each node
    answer        \* what each node answered

vars == <<to, req, value, answer>>

\* The topic a client publishes on (Request.Topic under the prefix).
Topic(prefix, dest) ==
    prefix \o (IF dest = All THEN <<"puppet">> ELSE <<"puppet", dest>>)

Init ==
    /\ to \in Nodes \cup {All}
    /\ \E prefix \in Prefixes : req \in Requests({Topic(prefix, to)})
    /\ value \in [Nodes -> Values]
    /\ answer = [n \in Nodes |-> Pending]

\* A daemon's listener handles the request.
Handle(n) ==
    /\ answer[n] = Pending
    /\ answer' = [answer EXCEPT ![n] = HandleEvent(n, req, value[n])]
    /\ UNCHANGED <<to, req, value>>

Next == \E n \in Nodes : Handle(n)

Spec == Init /\ [][Next]_vars

-----------------------------------------------------------------------------
Handled(n) == answer[n] # Pending
MeantFor(n) == to \in {n, All}
WellFormed == req.decodes /\ req.replyTo
FilterPasses(n) == req.filtered => value[n] = "true"

\* README, "the node itself decides whether it was meant for it": puppet runs exactly on
\* the nodes the client meant and whose filter holds, whatever the prefix of the topic; any
\* other result too comes only from a node where the filter holds, one that fails or yields
\* no truth value selects nobody, and a query says matched only there.
RunsWhereMeant == \A n \in Nodes : Handled(n) =>
    /\ answer[n].type = "runStatus" <=>
           WellFormed /\ req.cmd = "run" /\ req.paramsOk /\ MeantFor(n) /\ FilterPasses(n)
    /\ answer[n].type \notin {"silent", "error", "noMatch", "query"} => FilterPasses(n)
    /\ answer[n].says = "matched" => value[n] = "true"

\* What FilterMatch, Query and Coverage count on: such a request is never met with silence,
\* so a node that is missing from the count did not get it or its answer got lost.
CountedRequestsAreAnswered == \A n \in Nodes :
    ( /\ Handled(n) /\ WellFormed /\ req.paramsOk
      /\ req.cmd = "query" \/ (req.cmd \in {"status", "fact"} /\ req.answerAlways) )
    => answer[n].type # "silent"
===============================================================================
