---------------------------- MODULE PuppetDispatch ----------------------------
(***************************************************************************)
(* How a daemon answers a puppet request: plugin/puppet/server.go          *)
(* (HandleEvent, handleCommand and what they call) and the coercion of a   *)
(* query result in query/query.go.  Pure operators: the state they read is *)
(* the node's name and what the request's expression evaluates to there.   *)
(***************************************************************************)
EXTENDS Naturals, Sequences

CONSTANT Nodes        \* fqdns of the daemons, as strings

Commands == {"query", "status", "run", "fact", "factlist", "classlist", "other"}

\* What an expression evaluates to on a node: a boolean, string or integer counts as true
\* or false, anything else is a value without a truth, and evaluation may fail.
Values == {"true", "false", "value", "failure"}

\* A request as it comes off the topic tree: path is the topic split at "/", decodes and
\* paramsOk say whether the envelope and the parameters unmarshal.
Requests(paths) ==
    [cmd : Commands, filtered : BOOLEAN, answerAlways : BOOLEAN, path : paths,
     decodes : BOOLEAN, replyTo : BOOLEAN, paramsOk : BOOLEAN]

\* A handlerResult: silent when Send is false, else the reply type and, for a query, what
\* the body says.
Silent == [type |-> "silent", says |-> "nothing"]
Answer(type) == [type |-> type, says |-> "nothing"]
QueryAnswer(says) == [type |-> "query", says |-> says]

LastOf(p) == p[Len(p)]
BeforeLast(p) == p[Len(p) - 1]

-----------------------------------------------------------------------------
(* Plausible bugs of the operators below, put in their place to see that   *)
(* the properties notice them                                              *)

\* Anything that ends in this node's name counts, anything that ends in puppet too.
AddressedLoosely(n, p) == LastOf(p) \in {n, "puppet"} \/ BeforeLast(p) = "puppet"

\* A query that fails or has no truth is dropped like a filter that did not match.
HandleQueryQuietly(req, v) ==
    IF ~req.filtered \/ v \in {"failure", "value"} THEN Silent
    ELSE QueryAnswer(IF v = "true" THEN "matched" ELSE "notMatched")

\* A dump request on a unicast topic is answered, whoever it names.
DumpDecisionUnnamed(n, req) ==
    IF n \in Nodes /\ (req.filtered \/ LastOf(req.path) # "puppet") THEN "answer" ELSE "refuse"

-----------------------------------------------------------------------------
(* Addressing                                                              *)

\* The request named this node explicitly.
UnicastToMe(n, p) == Len(p) >= 2 /\ LastOf(p) = n /\ BeforeLast(p) = "puppet"

\* The request named a node, not necessarily a different one: asked after UnicastToMe.
UnicastToOther(p) == Len(p) >= 2 /\ BeforeLast(p) = "puppet" /\ LastOf(p) # "puppet"

\* The request was meant for this node: by name, by the two-element broadcast topic, or
\* by a broadcast topic under a longer prefix.
AddressedToMe(n, p) ==
    /\ Len(p) >= 2
    /\ \/ LastOf(p) = n /\ BeforeLast(p) = "puppet"
       \/ LastOf(p) = "puppet" /\ Len(p) = 2
       \/ LastOf(p) = "puppet" /\ BeforeLast(p) # "puppet"

-----------------------------------------------------------------------------
(* Commands                                                                *)

\* Engine.ParseBool: a value without a truth is an error.
ParseBool(v) == IF v = "value" THEN "failure" ELSE v

\* handleQuery always answers.
HandleQuery(req, v) ==
    QueryAnswer(CASE ~req.filtered -> "error"
                  [] v \in {"failure", "value"} -> "error"
                  [] v = "true" -> "matched"
                  [] v = "false" -> "notMatched")

\* A full dump goes out only when this node was named, or when the request was broadcast
\* with a filter; a broadcast without one is refused, a dump meant for another is ignored.
DumpDecision(n, req) ==
    CASE UnicastToMe(n, req.path) -> "answer"
      [] ~UnicastToMe(n, req.path) /\ UnicastToOther(req.path) -> "ignore"
      [] OTHER -> IF req.filtered THEN "answer" ELSE "refuse"

HandleDump(n, req, type) ==
    CASE DumpDecision(n, req) = "ignore" -> Silent
      [] DumpDecision(n, req) = "refuse" -> Answer("error")
      [] OTHER -> IF type = "facts" /\ ~req.paramsOk THEN Silent ELSE Answer(type)

\* The command itself, the filter having matched or been absent.  An answer of type
\* runStatus is the only one that calls Puppet.Run.
Execute(n, req) ==
    CASE req.cmd = "status" -> Answer("status")
      [] req.cmd = "run" -> IF req.paramsOk /\ AddressedToMe(n, req.path)
                            THEN Answer("runStatus") ELSE Silent
      [] req.cmd = "fact" -> IF req.paramsOk THEN Answer("fact") ELSE Silent
      [] req.cmd = "factlist" -> HandleDump(n, req, "facts")
      [] req.cmd = "classlist" -> HandleDump(n, req, "classes")
      [] OTHER -> Answer("error")

\* handleCommand: a query is answered first, then comes the filter gate, then the rest.
HandleCommand(n, req, v) ==
    CASE req.cmd = "query" -> HandleQuery(req, v)
      [] req.cmd # "query" /\ req.filtered /\ ParseBool(v) = "failure" -> Answer("error")
      [] req.cmd # "query" /\ req.filtered /\ ParseBool(v) = "false" ->
             IF req.answerAlways THEN Answer("noMatch") ELSE Silent
      [] OTHER -> Execute(n, req)

\* HandleEvent: an envelope that does not decode, has nowhere to reply to or came on too
\* short a topic is dropped.
HandleEvent(n, req, v) ==
    IF req.decodes /\ req.replyTo /\ Len(req.path) >= 2
    THEN HandleCommand(n, req, v)
    ELSE Silent
===============================================================================
