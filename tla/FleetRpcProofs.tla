---------------------------- MODULE FleetRpcProofs ----------------------------
(***************************************************************************)
(* Proofs about FleetRpc, for any fleet, any calls made at once and any    *)
(* number of redelivered requests and doubled replies: the client side is  *)
(* a Session, a dump is of the node that was asked, and the counts of      *)
(* FilterMatch and Query are of nodes, each in the list its own evaluation *)
(* puts it in.                                                             *)
(***************************************************************************)
EXTENDS FleetRpc, SessionProofs, FiniteSetTheorems

Asking == {"FilterMatch", "Query"}

\* The list of an outcome a reply belongs to, and what puts the node there.
Verdict(r) ==
    IF r.type = "error" \/ (ask[r.id].op = "Query" /\ r.says = "error") THEN "errors"
    ELSE IF (ask[r.id].op = "FilterMatch" /\ r.type # "noMatch")
            \/ (ask[r.id].op = "Query" /\ r.says = "matched") THEN "matched"
    ELSE "noMatch"

Evidence(c, n, verdict) ==
    /\ verdict = "matched" => "true" \in saw[c][n]
    /\ verdict = "noMatch" => "false" \in saw[c][n]
    /\ verdict = "errors" => saw[c][n] \cap {"value", "failure"} # {}

\* A reply that a daemon gave: its verdict is what the node saw, and a dump is its own.
Genuine(r) ==
    /\ r \in FleetReplies
    /\ ask[r.id].op \in Dumping /\ r.type # "error" => r.fqdn = ask[r.id].node
    /\ ask[r.id].op \in Asking => Evidence(r.id, r.fqdn, Verdict(r))

\* The half of the invariant that is about the broker and the daemons.
WireInv ==
    /\ ask \in Asks
    /\ saw \in [Calls -> [Nodes -> SUBSET Values]]
    /\ inbox \in [Nodes -> SUBSET Made]
    /\ \A r \in net : Genuine(r)

LEMMA WireInitially == FleetInit => WireInv
  BY DEF FleetInit, WireInv

-----------------------------------------------------------------------------
(* What the daemons answer the requests of the client functions with       *)

LEMMA Asked ==
    ASSUME ask \in Asks, NEW c \in Calls
    PROVE  /\ ask[c].op \in Counting \cup Dumping \cup {Unused} /\ ask[c].node \in Nodes
  BY AsksAssumption

\* A filter or a query that is broadcast.
LEMMA ExpressionIsAnswered ==
    ASSUME NEW n, NEW v \in Values, NEW req, req.decodes, req.replyTo, req.filtered,
           Len(req.path) >= 2, req.cmd \in {"status", "query"},
           req.cmd = "status" => req.answerAlways
    PROVE  LET a == HandleEvent(n, req, v) IN
           \/ v = "true" /\ a = IF req.cmd = "status" THEN Answer("status")
                                ELSE QueryAnswer("matched")
           \/ v = "false" /\ a = IF req.cmd = "status" THEN Answer("noMatch")
                                 ELSE QueryAnswer("notMatched")
           \/ v \in {"value", "failure"} /\ a = IF req.cmd = "status" THEN Answer("error")
                                                ELSE QueryAnswer("error")
  <1>1. HandleEvent(n, req, v) = HandleCommand(n, req, v)
    BY DEF HandleEvent
  <1>2. CASE req.cmd = "query"
    <2>1. HandleEvent(n, req, v) = HandleQuery(req, v)
      BY <1>1, <1>2 DEF HandleCommand
    <2>2. QED BY <1>2, <2>1 DEF HandleQuery, Values
  <1>3. CASE req.cmd = "status"
    <2>1. CASE v = "true"
      BY <1>1, <1>3, <2>1 DEF HandleCommand, ParseBool, Execute
    <2>2. CASE v = "false"
      BY <1>1, <1>3, <2>2 DEF HandleCommand, ParseBool
    <2>3. CASE v \in {"value", "failure"}
      BY <1>1, <1>3, <2>3 DEF HandleCommand, ParseBool
    <2>4. QED BY <2>1, <2>2, <2>3 DEF Values
  <1>4. QED BY <1>2, <1>3

\* A dump that is asked of one node.
LEMMA DumpIsAnswered ==
    ASSUME NEW n, NEW v, NEW node, NEW req, req.decodes, req.replyTo, req.paramsOk,
           ~req.filtered, Len(req.path) = 3, req.path[2] = "puppet", req.path[3] = node,
           req.cmd \in {"factlist", "classlist"}
    PROVE  LET a == HandleEvent(n, req, v) IN
           \/ a = Silent
           \/ a = Answer("error")
           \/ a = Answer(IF req.cmd = "factlist" THEN "facts" ELSE "classes") /\ n = node
  <1>1. HandleEvent(n, req, v) = Execute(n, req)
    BY DEF HandleEvent, HandleCommand
  <1>2. HandleEvent(n, req, v) =
            HandleDump(n, req, IF req.cmd = "factlist" THEN "facts" ELSE "classes")
    BY <1>1 DEF Execute
  <1>3. DumpDecision(n, req) = "answer" => n = node
    BY DEF DumpDecision, UnicastToMe, LastOf
  <1>4. DumpDecision(n, req) \in {"answer", "ignore", "refuse"}
    BY DEF DumpDecision
  <1>5. QED BY <1>2, <1>3, <1>4 DEF HandleDump

LEMMA RepliesAreGenuine ==
    ASSUME WireInv, NEW c \in Made, NEW n \in Nodes, NEW v \in Evaluates(c),
           NEW a, a = HandleEvent(n, RequestOf(c), v), a.type # "silent", v \in saw'[c][n],
           ask' = ask
    PROVE  Genuine([id |-> c, fqdn |-> n, type |-> a.type, says |-> a.says])'
  <1> DEFINE r == [id |-> c, fqdn |-> n, type |-> a.type, says |-> a.says]
             req == RequestOf(c)
             op == ask[c].op
  <1>1. c \in Calls /\ op \in Counting \cup Dumping /\ ask[c].node \in Nodes
    BY Asked DEF WireInv, Made
  <1>2. /\ req.decodes /\ req.replyTo /\ req.paramsOk
        /\ req.filtered <=> op \in Counting
        /\ req.answerAlways <=> op \in {"FilterMatch", "Status"}
        /\ req.path = IF op \in Dumping THEN <<"rv", "puppet", ask[c].node>> ELSE <<"rv", "puppet">>
        /\ req.cmd = CASE op \in {"FilterMatch", "Status"} -> "status"
                       [] op = "Query" -> "query"
                       [] op = "NodeFacts" -> "factlist"
                       [] op = "NodeClasses" -> "classlist"
    BY DEF RequestOf
  <1>3. CASE op \in Counting
    <2>1. v \in Values
      BY <1>2, <1>3 DEF Evaluates
    <2>2. /\ Len(req.path) >= 2 /\ req.cmd \in {"status", "query"}
          /\ req.cmd = "status" => req.answerAlways /\ op \in {"FilterMatch", "Status"}
          /\ req.cmd = "query" => op = "Query"
      BY <1>2, <1>3 DEF Counting, Dumping
    <2> HIDE DEF req
    <2>3. \/ v = "true" /\ a = IF req.cmd = "status" THEN Answer("status")
                                 ELSE QueryAnswer("matched")
          \/ v = "false" /\ a = IF req.cmd = "status" THEN Answer("noMatch")
                                  ELSE QueryAnswer("notMatched")
          \/ v \in {"value", "failure"} /\ a = IF req.cmd = "status" THEN Answer("error")
                                                 ELSE QueryAnswer("error")
      BY <1>2, <1>3, <2>1, <2>2, ExpressionIsAnswered DEF req
    <2>4. r \in FleetReplies
      BY <1>1, <2>3, <2>2 DEF Answer, QueryAnswer, FleetReplies
    <2>5. op \in Asking => \/ Verdict(r)' = "matched" /\ v = "true"
                           \/ Verdict(r)' = "noMatch" /\ v = "false"
                           \/ Verdict(r)' = "errors" /\ v \in {"value", "failure"}
      BY <2>2, <2>3 DEF Answer, QueryAnswer, Asking, Verdict
    <2>6. op \notin Dumping
      BY <1>3 DEF Counting, Dumping
    <2>7. op \in Asking => Evidence(c, n, Verdict(r))'
      BY <2>5 DEF Evidence
    <2>8. QED BY <2>4, <2>6, <2>7 DEF Genuine
  <1>4. CASE op \in Dumping
    <2>1. /\ req.decodes /\ req.replyTo /\ req.paramsOk /\ ~req.filtered
          /\ Len(req.path) = 3 /\ req.path[2] = "puppet" /\ req.path[3] = ask[c].node
          /\ req.cmd \in {"factlist", "classlist"}
      BY <1>2, <1>4 DEF Counting, Dumping
    <2> HIDE DEF req
    <2>7. a = HandleEvent(n, req, v)
      BY DEF req
    <2>8. \/ a = Silent
          \/ a = Answer("error")
          \/ a = Answer(IF req.cmd = "factlist" THEN "facts" ELSE "classes") /\ n = ask[c].node
      BY <2>1, <2>7, DumpIsAnswered
    <2>2. \/ a = Answer("error")
          \/ a = Answer(IF req.cmd = "factlist" THEN "facts" ELSE "classes") /\ n = ask[c].node
      BY <2>8 DEF Silent
    <2>3. r \in FleetReplies
      BY <1>1, <2>2 DEF Answer, FleetReplies
    <2>4. r.type # "error" => n = ask[c].node
      BY <2>2 DEF Answer
    <2>5. op \notin Asking
      BY <1>4 DEF Dumping, Asking
    <2>6. QED BY <2>3, <2>4, <2>5 DEF Genuine
  <1>5. QED BY <1>1, <1>3, <1>4

\* What a node saw once it saw for good.
LEMMA StaysGenuine ==
    ASSUME ask' = ask, \A c \in Calls : \A n \in Nodes : saw[c][n] \subseteq saw'[c][n],
           NEW r, Genuine(r)
    PROVE  Genuine(r)'
  <1>1. r \in FleetReplies /\ r.id \in Calls /\ r.fqdn \in Nodes
    BY DEF Genuine, FleetReplies
  <1>2. Verdict(r)' = Verdict(r)
    BY DEF Verdict
  <1>3. \A verdict : Evidence(r.id, r.fqdn, verdict) => Evidence(r.id, r.fqdn, verdict)'
    BY <1>1 DEF Evidence
  <1>4. QED BY <1>1, <1>2, <1>3 DEF Genuine

\* Nothing a node saw is forgotten.
LEMMA SawGrows ==
    ASSUME WireInv, [FleetNext]_vars
    PROVE  /\ ask' = ask /\ saw' \in [Calls -> [Nodes -> SUBSET Values]]
           /\ \A c \in Calls : \A n \in Nodes : saw[c][n] \subseteq saw'[c][n]
  <1>1. ask' = ask
    BY DEF FleetNext, vars
  <1>2. CASE \E n \in Nodes, c \in Made : \E v \in Evaluates(c) : HandleRequest(n, c, v)
    <2>1. PICK n \in Nodes, c \in Made : \E v \in Evaluates(c) : HandleRequest(n, c, v)
      BY <1>2
    <2>2. PICK v \in Evaluates(c) : HandleRequest(n, c, v)
      BY <2>1
    <2>6. v \in Values /\ c \in Calls
      BY DEF Evaluates, Values, Made
    <2>3. saw' = [saw EXCEPT ![c][n] = @ \cup {v}]
      BY <2>2 DEF HandleRequest
    <2>4. saw \in [Calls -> [Nodes -> SUBSET Values]]
      BY DEF WireInv
    <2>5. QED BY <1>1, <2>6, <2>3, <2>4
  <1>3. CASE UNCHANGED saw
    BY <1>1, <1>3 DEF WireInv
  <1>4. QED BY <1>2, <1>3 DEF FleetNext, Client, CallLocally, Publish, Fleet, Redeliver, Broker,
                              Deliver, fleetVars, vars

\* A daemon answers what it saw; a doubled reply is the one there was.
LEMMA WireStep ==
    ASSUME WireInv, [FleetNext]_vars
    PROVE  WireInv'
  <1>1. /\ ask' = ask /\ saw' \in [Calls -> [Nodes -> SUBSET Values]]
        /\ \A c \in Calls : \A n \in Nodes : saw[c][n] \subseteq saw'[c][n]
    BY SawGrows
  <1>2. Made' = Made
    BY <1>1 DEF Made
  <1>3. \A r \in net : Genuine(r)'
    BY <1>1, StaysGenuine DEF WireInv
  <1>4. ASSUME inbox' \in [Nodes -> SUBSET Made], \A r \in net' : Genuine(r)'
        PROVE  WireInv'
    BY <1>1, <1>2, <1>4 DEF WireInv
  <1>5. ASSUME NEW n \in Nodes, NEW c \in Made, NEW v \in Evaluates(c), HandleRequest(n, c, v)
        PROVE  WireInv'
    <2>6. PICK a : a = HandleEvent(n, RequestOf(c), v)
      OBVIOUS
    <2> DEFINE r == [id |-> c, fqdn |-> n, type |-> a.type, says |-> a.says]
    <2>1. v \in saw'[c][n]
      BY <1>5 DEF HandleRequest, WireInv, Made
    <2>2. a.type # "silent" => Genuine(r)'
      BY <1>1, <2>1, <2>6, RepliesAreGenuine
    <2>3. net' = IF a.type = "silent" THEN net ELSE net \cup {r}
      BY <1>5, <2>6 DEF HandleRequest
    <2> HIDE DEF r
    <2>4. inbox' \in [Nodes -> SUBSET Made]
      BY <1>5 DEF HandleRequest, WireInv
    <2>5. QED BY <1>3, <1>4, <2>2, <2>3, <2>4
  <1>6. ASSUME NEW n \in Nodes, NEW c \in Made, Redeliver(n, c)
        PROVE  WireInv'
    BY <1>3, <1>4, <1>6 DEF Redeliver, WireInv
  <1>7. ASSUME NEW c \in Made, CallLocally(c) \/ Publish(c)
        PROVE  WireInv'
    BY <1>3, <1>4, <1>7 DEF CallLocally, Publish, fleetVars, WireInv
  <1>8. ASSUME NEW r \in net, Deliver(r)
        PROVE  WireInv'
    BY <1>3, <1>4, <1>8 DEF Deliver, WireInv
  <1>9. CASE UNCHANGED fleetVars
    BY <1>3, <1>4, <1>9 DEF fleetVars, WireInv
  <1>10. QED BY <1>5, <1>6, <1>7, <1>8, <1>9 DEF FleetNext, Client, Fleet, Broker, vars

\* server.go:18-26 and session.go:206: whatever the broker doubles, delays and reorders, what is
\* on its way to the client is a node's answer to a request it got.
THEOREM WireInvariant == FleetSpec => []WireInv
  BY WireInitially, WireStep, PTL DEF FleetSpec

-----------------------------------------------------------------------------
(* The client side is a Session                                            *)

LEMMA FleetStepIsSessionStep ==
    ASSUME WireInv, [FleetNext]_vars
    PROVE  [Next]_sessionVars
  <1>1. ASSUME NEW c \in Made, CallLocally(c) \/ Publish(c)
        PROVE  Next
    <2>1. c \in Calls
      BY DEF Made
    <2>2. CASE Receive(c)
      <3>1. KeepsGoing(c, Head(sinks[c]).reply) \in BOOLEAN
        BY DEF KeepsGoing
      <3>2. QED BY <2>1, <2>2, <3>1 DEF Receive, Call, Next
    <2>3. QED BY <1>1, <2>1, <2>2 DEF CallLocally, Publish, Call, Next
  <1>2. ASSUME NEW r \in net, Deliver(r)
        PROVE  Next
    <2>1. r \in Replies
      BY RepliesAssumption DEF WireInv, Genuine
    <2>2. QED BY <1>2, <2>1 DEF Deliver, Next
  <1>3. CASE Route \/ Close \/ Drain
    BY <1>3 DEF Next
  <1>4. CASE Fleet
    BY <1>4 DEF Fleet, Redeliver, HandleRequest
  <1>5. CASE UNCHANGED vars
    BY <1>5 DEF vars
  <1>6. QED BY <1>1, <1>2, <1>3, <1>4, <1>5 DEF FleetNext, Client, Broker

\* session.go beneath query.go: with the daemons, the broker and the client functions around
\* it, the session makes no step that Session does not allow.
THEOREM FleetImplementsSession == FleetSpec => ImplementsSession
  <1>1. FleetInit => Init
    BY DEF FleetInit
  <1>2. QED BY <1>1, WireInvariant, FleetStepIsSessionStep, PTL DEF FleetSpec, Spec, ImplementsSession

\* So calls made at once do not get each other's replies.
LEMMA FleetIsolates == FleetSpec => []SessionInv
  BY FleetImplementsSession, SessionInvariant, PTL DEF ImplementsSession

-----------------------------------------------------------------------------
(* What the client functions are given, and make of it                     *)

Genuines == {m \in Message : Genuine(m.reply)}

\* Every message of the session is a daemon's.
MessagesAreGenuine ==
    /\ ch \in Seq(Genuines)
    /\ router \in Genuines \cup {Nothing}
    /\ sinks \in [Calls -> Seq(Genuines)]
    /\ got \in [Calls -> Seq(Genuines)]

Outcomes == [seen : SUBSET Nodes, matched : Seq(Nodes), noMatch : Seq(Nodes),
             errors : SUBSET Nodes]

\* What FilterMatch and Query have made of their replies: the nodes seen are the ones listed,
\* as many as the lists are long together, and each list is of nodes that saw the like.
Tally(c) ==
    /\ outcome[c] \in Outcomes
    /\ IsFiniteSet(outcome[c].seen) /\ IsFiniteSet(outcome[c].errors)
    /\ outcome[c].seen = Listed(outcome[c])
    /\ Answered(outcome[c]) = Cardinality(outcome[c].seen)
    /\ \A n \in Nodes :
        /\ InSeq(n, outcome[c].matched) => Evidence(c, n, "matched")
        /\ InSeq(n, outcome[c].noMatch) => Evidence(c, n, "noMatch")
        /\ n \in outcome[c].errors => Evidence(c, n, "errors")

ClientInv ==
    /\ MessagesAreGenuine
    /\ DOMAIN outcome = Calls
    /\ \A c \in Calls : ask[c].op \in Asking => Tally(c)

LEMMA ClientInitially == FleetInit => ClientInv
  <1> SUFFICES ASSUME FleetInit PROVE ClientInv
    OBVIOUS
  <1>1. <<>> \in Seq(Genuines) /\ <<>> \in Seq(Nodes)
    BY EmptySeq
  <1>2. MessagesAreGenuine /\ DOMAIN outcome = Calls
    BY <1>1 DEF FleetInit, Init, MessagesAreGenuine
  <1>3. ASSUME NEW c \in Calls, ask[c].op \in Asking
        PROVE  Tally(c)
    <2>1. outcome[c] = NoOutcome
      BY <1>3 DEF FleetInit, Asking
    <2>2. NoOutcome \in Outcomes /\ Listed(NoOutcome) = {}
      BY <1>1 DEF NoOutcome, Outcomes, Listed, InSeq
    <2>3. IsFiniteSet({}) /\ Cardinality({}) = 0
      BY FS_EmptySet
    <2>4. Answered(NoOutcome) = 0
      BY <2>3 DEF NoOutcome, Answered
    <2>5. QED BY <2>1, <2>2, <2>3, <2>4 DEF Tally, NoOutcome, InSeq
  <1>4. QED BY <1>2, <1>3 DEF ClientInv

\* Lists that grow by one node.
LEMMA OneMore ==
    ASSUME NEW s \in Seq(Nodes), NEW x \in Nodes
    PROVE  /\ Append(s, x) \in Seq(Nodes) /\ Len(s) \in Nat
           /\ Len(Append(s, x)) = Len(s) + 1
           /\ \A n : InSeq(n, Append(s, x)) <=> InSeq(n, s) \/ n = x
  <1>1. Append(s, x) \in Seq(Nodes) /\ Len(Append(s, x)) = Len(s) + 1 /\ Len(s) \in Nat
    BY AppendProperties
  <1>2. ASSUME NEW n
        PROVE  InSeq(n, Append(s, x)) <=> InSeq(n, s) \/ n = x
    <2>1. DOMAIN s = 1..Len(s) /\ DOMAIN Append(s, x) = 1..Len(s) + 1
      BY <1>1
    <2>2. /\ \A i \in 1..Len(s) : Append(s, x)[i] = s[i]
          /\ Append(s, x)[Len(s) + 1] = x
      BY <1>1, AppendProperties
    <2>3. InSeq(n, s) => InSeq(n, Append(s, x))
      BY <1>1, <2>1, <2>2 DEF InSeq
    <2>4. InSeq(x, Append(s, x))
      BY <1>1, <2>1, <2>2 DEF InSeq
    <2>5. InSeq(n, Append(s, x)) => InSeq(n, s) \/ n = x
      BY <1>1, <2>1, <2>2 DEF InSeq
    <2>6. QED BY <2>3, <2>4, <2>5
  <1>3. QED BY <1>1, <1>2

\* FilterMatch and Query put a node they have not seen into the list of its verdict.
LEMMA OnReplyLists ==
    ASSUME NEW c \in Calls, ask[c].op \in Asking, NEW r, r.id = c,
           outcome[c] \in Outcomes, r.fqdn \notin outcome[c].seen
    PROVE  LET out == outcome[c]
               n == r.fqdn IN
           \/ /\ Verdict(r) = "matched"
              /\ OnReply(c, r) = [seen |-> out.seen \cup {n}, matched |-> Append(out.matched, n),
                                  noMatch |-> out.noMatch, errors |-> out.errors]
           \/ /\ Verdict(r) = "noMatch"
              /\ OnReply(c, r) = [seen |-> out.seen \cup {n}, matched |-> out.matched,
                                  noMatch |-> Append(out.noMatch, n), errors |-> out.errors]
           \/ /\ Verdict(r) = "errors"
              /\ OnReply(c, r) = [seen |-> out.seen \cup {n}, matched |-> out.matched,
                                  noMatch |-> out.noMatch, errors |-> out.errors \cup {n}]
  <1>1. CASE ask[c].op = "FilterMatch"
    <2>1. OnReply(c, r) = FilterStep(outcome[c], r)
      BY <1>1 DEF OnReply
    <2>2. QED BY <1>1, <2>1 DEF FilterStep, Verdict, Outcomes
  <1>2. CASE ask[c].op = "Query"
    <2>1. OnReply(c, r) = QueryStep(outcome[c], r)
      BY <1>2 DEF OnReply
    <2>2. QED BY <1>2, <2>1 DEF QueryStep, Verdict, Outcomes
  <1>3. QED BY <1>1, <1>2 DEF Asking

LEMMA SeenIsIgnored ==
    ASSUME NEW c \in Calls, ask[c].op \in Asking, NEW r, r.fqdn \in outcome[c].seen
    PROVE  OnReply(c, r) = outcome[c]
  BY DEF OnReply, FilterStep, QueryStep, Asking

LEMMA AnsweredGrows ==
    ASSUME NEW old, NEW new,
           Len(old.matched) \in Nat, Len(old.noMatch) \in Nat, Cardinality(old.errors) \in Nat,
           \/ /\ Len(new.matched) = Len(old.matched) + 1 /\ Len(new.noMatch) = Len(old.noMatch)
              /\ Cardinality(new.errors) = Cardinality(old.errors)
           \/ /\ Len(new.matched) = Len(old.matched) /\ Len(new.noMatch) = Len(old.noMatch) + 1
              /\ Cardinality(new.errors) = Cardinality(old.errors)
           \/ /\ Len(new.matched) = Len(old.matched) /\ Len(new.noMatch) = Len(old.noMatch)
              /\ Cardinality(new.errors) = Cardinality(old.errors) + 1
    PROVE  Answered(new) = Answered(old) + 1
  <1> DEFINE x == Len(old.matched)
             y == Len(old.noMatch)
             z == Cardinality(old.errors)
             X == Len(new.matched)
             Y == Len(new.noMatch)
             Z == Cardinality(new.errors)
  <1>1. /\ x \in Nat /\ y \in Nat /\ z \in Nat
        /\ \/ X = x + 1 /\ Y = y /\ Z = z
           \/ X = x /\ Y = y + 1 /\ Z = z
           \/ X = x /\ Y = y /\ Z = z + 1
    OBVIOUS
  <1>2. Answered(new) = X + Y + Z /\ Answered(old) = x + y + z
    BY DEF Answered
  <1> HIDE DEF x, y, z, X, Y, Z
  <1>3. QED BY <1>1, <1>2

\* One more node is counted once, where it belongs.
LEMMA CountOne ==
    ASSUME NEW c \in Calls, Tally(c), ask[c].op \in Asking, NEW r, Genuine(r), r.id = c,
           DOMAIN outcome = Calls, outcome' = [outcome EXCEPT ![c] = OnReply(c, r)], saw' = saw
    PROVE  Tally(c)'
  <1> DEFINE out == outcome[c]
             new == outcome'[c]
             n == r.fqdn
  <1>1. new = OnReply(c, r) /\ n \in Nodes /\ Evidence(c, n, Verdict(r))
    BY DEF Genuine, FleetReplies
  <1>2. CASE n \in out.seen
    <2>1. new = out
      BY <1>1, <1>2, SeenIsIgnored
    <2>2. QED BY <2>1 DEF Tally, Evidence
  <1>3. CASE n \notin out.seen
    <2>1. /\ out.matched \in Seq(Nodes) /\ out.noMatch \in Seq(Nodes)
          /\ out.seen \in SUBSET Nodes /\ out.errors \in SUBSET Nodes
          /\ IsFiniteSet(out.seen) /\ IsFiniteSet(out.errors)
          /\ \A m \in Nodes : m \in out.seen <=>
                 InSeq(m, out.matched) \/ InSeq(m, out.noMatch) \/ m \in out.errors
      BY DEF Tally, Outcomes, Listed
    <2>2. /\ IsFiniteSet(out.seen \cup {n})
          /\ Cardinality(out.seen \cup {n}) = Cardinality(out.seen) + 1
          /\ Cardinality(out.seen) \in Nat /\ Cardinality(out.errors) \in Nat
      BY <1>3, <2>1, FS_AddElement, FS_CardinalityType
    <2>3. /\ IsFiniteSet(out.errors \cup {n})
          /\ Cardinality(out.errors \cup {n}) = Cardinality(out.errors) + 1
      <3>1. n \notin out.errors
        BY <1>1, <1>3, <2>1
      <3>2. QED BY <2>1, <3>1, FS_AddElement
    <2>4. /\ Append(out.matched, n) \in Seq(Nodes) /\ Append(out.noMatch, n) \in Seq(Nodes)
          /\ Len(out.matched) \in Nat /\ Len(out.noMatch) \in Nat
          /\ Len(Append(out.matched, n)) = Len(out.matched) + 1
          /\ Len(Append(out.noMatch, n)) = Len(out.noMatch) + 1
          /\ \A m : InSeq(m, Append(out.matched, n)) <=> InSeq(m, out.matched) \/ m = n
          /\ \A m : InSeq(m, Append(out.noMatch, n)) <=> InSeq(m, out.noMatch) \/ m = n
      BY <1>1, <2>1, OneMore
    <2>5. Answered(out) = Cardinality(out.seen)
      BY DEF Tally
    <2>6. /\ \A m \in Nodes : InSeq(m, out.matched) => Evidence(c, m, "matched")
          /\ \A m \in Nodes : InSeq(m, out.noMatch) => Evidence(c, m, "noMatch")
          /\ \A m \in Nodes : m \in out.errors => Evidence(c, m, "errors")
      BY DEF Tally
    <2>7. \/ /\ Verdict(r) = "matched"
             /\ new = [seen |-> out.seen \cup {n}, matched |-> Append(out.matched, n),
                       noMatch |-> out.noMatch, errors |-> out.errors]
          \/ /\ Verdict(r) = "noMatch"
             /\ new = [seen |-> out.seen \cup {n}, matched |-> out.matched,
                       noMatch |-> Append(out.noMatch, n), errors |-> out.errors]
          \/ /\ Verdict(r) = "errors"
             /\ new = [seen |-> out.seen \cup {n}, matched |-> out.matched,
                       noMatch |-> out.noMatch, errors |-> out.errors \cup {n}]
      BY <1>1, <1>3, OnReplyLists DEF Tally
    <2> HIDE DEF out, n, new
    <2>14. /\ new.seen = out.seen \cup {n}
           /\ \/ /\ Verdict(r) = "matched" /\ new.matched = Append(out.matched, n)
                 /\ new.noMatch = out.noMatch /\ new.errors = out.errors
              \/ /\ Verdict(r) = "noMatch" /\ new.matched = out.matched
                 /\ new.noMatch = Append(out.noMatch, n) /\ new.errors = out.errors
              \/ /\ Verdict(r) = "errors" /\ new.matched = out.matched
                 /\ new.noMatch = out.noMatch /\ new.errors = out.errors \cup {n}
      BY <2>7
    <2>8. new \in Outcomes /\ IsFiniteSet(new.seen) /\ IsFiniteSet(new.errors)
      <3>1. \E s, m, no, e : new = [seen |-> s, matched |-> m, noMatch |-> no, errors |-> e]
        BY <2>7
      <3>2. /\ new.seen \in SUBSET Nodes /\ new.matched \in Seq(Nodes)
            /\ new.noMatch \in Seq(Nodes) /\ new.errors \in SUBSET Nodes
        BY <1>1, <2>1, <2>4, <2>14
      <3>3. QED BY <2>1, <2>2, <2>3, <2>14, <3>1, <3>2 DEF Outcomes
    <2>9. Answered(new) = Cardinality(new.seen)
      <3>1. Cardinality(new.seen) = Cardinality(out.seen) + 1
        BY <2>2, <2>14
      <3>2. \/ /\ Len(new.matched) = Len(out.matched) + 1 /\ Len(new.noMatch) = Len(out.noMatch)
               /\ Cardinality(new.errors) = Cardinality(out.errors)
            \/ /\ Len(new.matched) = Len(out.matched) /\ Len(new.noMatch) = Len(out.noMatch) + 1
               /\ Cardinality(new.errors) = Cardinality(out.errors)
            \/ /\ Len(new.matched) = Len(out.matched) /\ Len(new.noMatch) = Len(out.noMatch)
               /\ Cardinality(new.errors) = Cardinality(out.errors) + 1
        BY <2>3, <2>4, <2>14
      <3>3. /\ Len(out.matched) \in Nat /\ Len(out.noMatch) \in Nat
            /\ Cardinality(out.errors) \in Nat
        BY <2>2, <2>4
      <3>4. Answered(new) = Answered(out) + 1
        BY <3>2, <3>3, AnsweredGrows
      <3>5. QED BY <2>5, <3>1, <3>4
    <2>10. new.seen = Listed(new)
      <3>1. \A m \in Nodes : m \in new.seen <=>
                InSeq(m, new.matched) \/ InSeq(m, new.noMatch) \/ m \in new.errors
        BY <2>1, <2>4, <2>14
      <3>2. QED BY <3>1, <2>8 DEF Listed, Outcomes
    <2>11. \A m \in Nodes :
             /\ InSeq(m, new.matched) => Evidence(c, m, "matched")
             /\ InSeq(m, new.noMatch) => Evidence(c, m, "noMatch")
             /\ m \in new.errors => Evidence(c, m, "errors")
      BY <1>1, <2>4, <2>6, <2>14
    <2>12. \A m, verdict : Evidence(c, m, verdict) = Evidence(c, m, verdict)'
      BY DEF Evidence
    <2>13. QED BY <2>8, <2>9, <2>10, <2>11, <2>12 DEF Tally, new
  <1>4. QED BY <1>2, <1>3

\* What was counted stays right as nodes see more.
LEMMA TallyStays ==
    ASSUME NEW c \in Calls, Tally(c), outcome'[c] = outcome[c],
           \A n \in Nodes : saw[c][n] \subseteq saw'[c][n]
    PROVE  Tally(c)'
  BY DEF Tally, Evidence

\* Messages are handed on, and only what a daemon sent comes in.
LEMMA MessagesStep ==
    ASSUME SessionInv, WireInv, MessagesAreGenuine, [FleetNext]_vars
    PROVE  MessagesAreGenuine'
  <1> DEFINE here == /\ ch' \in Seq(Genuines)
                     /\ router' \in Genuines \cup {Nothing}
                     /\ sinks' \in [Calls -> Seq(Genuines)]
                     /\ got' \in [Calls -> Seq(Genuines)]
  <1>1. Genuines \subseteq Genuines'
    BY SawGrows, StaysGenuine DEF Genuines, Message
  <1>2. \A q \in Seq(Genuines) : q \in Seq(Genuines')
    BY <1>1
  <1>3. here => MessagesAreGenuine'
    BY <1>1, <1>2 DEF MessagesAreGenuine
  <1>4. CASE UNCHANGED <<ch, router, sinks, got>>
    BY <1>3, <1>4 DEF MessagesAreGenuine
  <1>5. ASSUME NEW c \in Made, Receive(c)
        PROVE  MessagesAreGenuine'
    <2>1. c \in Calls /\ sinks[c] \in Seq(Genuines) /\ sinks[c] # <<>>
      BY <1>5 DEF Made, Receive, MessagesAreGenuine
    <2>2. Head(sinks[c]) \in Genuines /\ Tail(sinks[c]) \in Seq(Genuines)
      BY <2>1, HeadTailProperties
    <2>3. Append(got[c], Head(sinks[c])) \in Seq(Genuines)
      BY <2>1, <2>2, AppendProperties DEF MessagesAreGenuine
    <2>4. here
      BY <1>5, <2>1, <2>2, <2>3 DEF Receive, Consume, MessagesAreGenuine
    <2>5. QED BY <1>3, <2>4
  <1>6. CASE FindCall \/ Drain
    <2>1. Head(ch) \in Genuines /\ Tail(ch) \in Seq(Genuines)
      BY <1>6, HeadTailProperties DEF FindCall, Drain, MessagesAreGenuine
    <2>2. here
      BY <1>6, <2>1 DEF FindCall, Drain, MessagesAreGenuine
    <2>3. QED BY <1>3, <2>2
  <1>7. CASE HandOver
    <2> DEFINE c == router.reply.id
    <2>1. router \in Genuines
      BY <1>7 DEF HandOver, MessagesAreGenuine
    <2>2. c \in Calls
      BY <2>1 DEF Genuines, Genuine, FleetReplies
    <2>3. Append(sinks[c], router) \in Seq(Genuines)
      BY <2>1, <2>2, AppendProperties DEF MessagesAreGenuine
    <2>4. here
      BY <1>7, <2>2, <2>3 DEF HandOver, MessagesAreGenuine
    <2>5. QED BY <1>3, <2>4
  <1>8. CASE DropFull
    <2>1. here
      BY <1>8 DEF DropFull, MessagesAreGenuine
    <2>2. QED BY <1>3, <2>1
  <1>9. ASSUME NEW r \in net, Deliver(r)
        PROVE  MessagesAreGenuine'
    <2> DEFINE m == [reply |-> r, late |-> closed]
    <2>1. Genuine(r) /\ r \in Replies
      BY RepliesAssumption DEF WireInv, Genuine
    <2>2. m \in Genuines
      BY <2>1 DEF Genuines, Message, SessionInv, TypeOK
    <2>3. Append(ch, m) \in Seq(Genuines)
      BY <2>2, AppendProperties DEF MessagesAreGenuine
    <2>4. here
      BY <1>9, <2>3 DEF Deliver, Arrive, MessagesAreGenuine
    <2>5. QED BY <1>3, <2>4
  <1>10. ASSUME NEW c \in Made,
                Register(c) \/ RefuseClosed(c) \/ SendFails(c) \/ ContextDone(c) \/ Return(c)
                    \/ Publish(c)
         PROVE  UNCHANGED <<ch, router, sinks, got>>
    BY <1>10 DEF Register, RefuseClosed, SendFails, ContextDone, Return, Publish, Send
  <1>11. Fleet \/ Close \/ UNCHANGED vars => UNCHANGED <<ch, router, sinks, got>>
    BY DEF Fleet, Redeliver, HandleRequest, Close, sessionVars, vars
  <1>12. QED BY <1>4, <1>5, <1>6, <1>7, <1>8, <1>9, <1>10, <1>11
             DEF FleetNext, Client, CallLocally, Broker, Route

LEMMA ClientStep ==
    ASSUME SessionInv, WireInv, ClientInv, [FleetNext]_vars
    PROVE  ClientInv'
  <1>1. MessagesAreGenuine'
    BY MessagesStep DEF ClientInv
  <1>2. ask' = ask /\ \A c \in Calls : \A n \in Nodes : saw[c][n] \subseteq saw'[c][n]
    BY SawGrows
  <1>3. CASE UNCHANGED outcome
    BY <1>1, <1>2, <1>3, TallyStays DEF ClientInv
  <1>4. ASSUME NEW c \in Made, Receive(c), UNCHANGED fleetVars
        PROVE  ClientInv'
    <2> DEFINE r == Head(sinks[c]).reply
    <2>1. c \in Calls /\ sinks[c] # <<>>
      BY <1>4 DEF Made, Receive
    <2>2. outcome' = [outcome EXCEPT ![c] = OnReply(c, r)] /\ saw' = saw
      BY <1>4 DEF Receive, fleetVars
    <2>3. Head(sinks[c]) \in Genuines /\ Head(sinks[c]) \in Own(c)
      BY <2>1, HeadTailProperties DEF ClientInv, MessagesAreGenuine, SessionInv
    <2>4. Genuine(r) /\ r.id = c
      BY <2>3 DEF Genuines, Own
    <2>5. ask[c].op \in Asking => Tally(c)'
      BY <2>1, <2>2, <2>4, CountOne DEF ClientInv
    <2>6. \A d \in Calls \ {c} : ask[d].op \in Asking => Tally(d)'
      BY <1>2, <2>2, TallyStays DEF ClientInv
    <2>7. DOMAIN outcome' = Calls
      BY <2>2 DEF ClientInv
    <2> HIDE DEF r
    <2>8. QED BY <1>1, <1>2, <2>5, <2>6, <2>7 DEF ClientInv
  <1>5. QED BY <1>3, <1>4 DEF FleetNext, Client, CallLocally, Publish, Fleet, Redeliver,
                              HandleRequest, Broker, Deliver, vars

\* query.go:48-75: after every reply the lists hold the nodes seen, each once and with reason.
THEOREM ClientInvariant == FleetSpec => []ClientInv
  BY ClientInitially, ClientStep, WireInvariant, FleetIsolates, PTL DEF FleetSpec

\* query.go:38: Answered() of FilterMatch and Query is the number of nodes that ran the query,
\* for a fleet of any size and whatever the broker delivers twice.
THEOREM OutcomesCountNodes == FleetSpec => []OutcomeCountsNodes
  <1>1. ClientInv => OutcomeCountsNodes
    <2> SUFFICES ASSUME ClientInv, NEW c \in Calls, ask[c].op \in Asking
                 PROVE  /\ Answered(outcome[c]) = Cardinality(Listed(outcome[c]))
                        /\ \A n \in Listed(outcome[c]) : saw[c][n] # {}
      BY DEF OutcomeCountsNodes, Asking
    <2>1. Tally(c)
      BY DEF ClientInv
    <2>2. Answered(outcome[c]) = Cardinality(Listed(outcome[c]))
      BY <2>1 DEF Tally
    <2>3. \A n \in Listed(outcome[c]) : saw[c][n] # {}
      BY <2>1 DEF Tally, Listed, Evidence
    <2>4. QED BY <2>2, <2>3
  <1>2. QED BY <1>1, ClientInvariant, PTL

\* And a node is in the list that what it evaluated the expression to puts it in.
THEOREM OutcomesAreWhatNodesSaw == FleetSpec => []OutcomeIsWhatNodesSaw
  <1>1. ClientInv => OutcomeIsWhatNodesSaw
    BY DEF ClientInv, Tally, Evidence, OutcomeIsWhatNodesSaw, Asking
  <1>2. QED BY <1>1, ClientInvariant, PTL

\* query.go:261: the dump NodeFacts and NodeClasses take without a look at its sender is of
\* the node they asked.
THEOREM DumpsAreOfTheNodeAsked == FleetSpec => []DumpIsOfTheNodeAsked
  <1>1. SessionInv /\ ClientInv => DumpIsOfTheNodeAsked
    <2> SUFFICES ASSUME SessionInv, ClientInv, NEW c \in Calls, ask[c].op \in Dumping,
                        NEW i \in DOMAIN got[c], got[c][i].reply.type # "error"
                 PROVE  got[c][i].reply.fqdn = ask[c].node
      BY DEF DumpIsOfTheNodeAsked, Dump
    <2>1. got[c][i] \in Genuines
      BY DEF ClientInv, MessagesAreGenuine
    <2>2. got[c][i].reply.id = c
      BY GotIsOwn
    <2>3. QED BY <2>1, <2>2 DEF Genuines, Genuine
  <1>2. QED BY <1>1, ClientInvariant, FleetIsolates, PTL
-----------------------------------------------------------------------------
(* What an answer to the user is made from is made once                    *)

\* Only onReply gets anything, and only what it makes of it changes an outcome.
LEMMA OnlyReceiveGives == [FleetNext]_vars =>
    UNCHANGED <<got, outcome>> \/ \E d \in Made : Receive(d)
  <1>1. ASSUME NEW d \in Made,
               Register(d) \/ RefuseClosed(d) \/ SendFails(d) \/ ContextDone(d) \/ Return(d)
                   \/ Publish(d)
        PROVE  got' = got
    BY <1>1 DEF Register, RefuseClosed, SendFails, ContextDone, Return, Publish, Send
  <1>2. Route \/ Close \/ Drain => got' = got
    BY DEF Route, FindCall, HandOver, DropFull, Close, Drain
  <1>3. Fleet => UNCHANGED <<got, outcome>>
    BY DEF Fleet, Redeliver, HandleRequest, sessionVars
  <1>4. Broker => UNCHANGED <<got, outcome>>
    BY DEF Broker, Deliver, Arrive
  <1>5. Client => UNCHANGED <<got, outcome>> \/ \E d \in Made : Receive(d)
    BY <1>1, <1>2 DEF Client, CallLocally, Publish
  <1>6. QED BY <1>3, <1>4, <1>5 DEF FleetNext, vars, sessionVars

\* NodeFacts and NodeClasses end with the first reply that is not an error, so the dump they
\* take is the last thing they get and there is no second.
DumpIsTheLast == \A c \in Calls : ask[c].op \in Dumping =>
    \A i \in Dump(c) : i = Len(got[c]) /\ stage[c] = "returned"

LEMMA DumpStep ==
    ASSUME SessionInv, WireInv, DumpIsTheLast, [FleetNext]_vars
    PROVE  DumpIsTheLast'
  <1> SUFFICES ASSUME NEW c \in Calls, ask'[c].op \in Dumping, NEW i \in Dump(c)'
               PROVE  i = Len(got'[c]) /\ stage'[c] = "returned"
    BY DEF DumpIsTheLast
  <1>1. ask' = ask /\ got[c] \in Seq(Message) /\ DOMAIN got = Calls /\ DOMAIN stage = Calls
    BY DEF FleetNext, vars, SessionInv, TypeOK
  <1>2. CASE got'[c] = got[c]
    <2>1. i \in Dump(c)
      BY <1>2 DEF Dump
    <2>2. i = Len(got[c]) /\ stage[c] = "returned"
      BY <1>1, <2>1 DEF DumpIsTheLast
    <2>3. stage'[c] = stage[c]
      BY <2>2, FleetStepIsSessionStep, StepEndsForGood DEF OverIsOver, sessionVars
    <2>4. QED BY <1>2, <2>2, <2>3
  <1>3. ASSUME NEW d \in Made, Receive(d), got'[c] # got[c]
        PROVE  i = Len(got'[c]) /\ stage'[c] = "returned"
    <2> DEFINE reply == Head(sinks[c]).reply
    <2>1. d = c
      BY <1>1, <1>3 DEF Receive, Consume
    <2>2. /\ sinks[c] # <<>> /\ Head(sinks[c]) \in Message
          /\ got'[c] = Append(got[c], Head(sinks[c])) /\ stage[c] = "waiting"
          /\ stage'[c] = IF KeepsGoing(c, reply) THEN stage[c] ELSE "returned"
      <3>1. sinks[c] # <<>> /\ Consume(c, KeepsGoing(c, reply))
        BY <1>3, <2>1 DEF Receive
      <3>2. Head(sinks[c]) \in Message
        BY <3>1, HeadTailProperties DEF SessionInv, TypeOK
      <3>3. QED BY <1>1, <3>1, <3>2 DEF Consume
    <2>3. Dump(c) = {}
      BY <1>1, <2>2 DEF DumpIsTheLast
    <2>4. /\ i \in 1..Len(got[c]) + 1 /\ Len(got'[c]) = Len(got[c]) + 1 /\ Len(got[c]) \in Nat
          /\ \A j \in 1..Len(got[c]) : got'[c][j] = got[c][j]
          /\ got'[c][Len(got[c]) + 1] = Head(sinks[c])
          /\ got'[c][i].reply.type # "error"
      BY <1>1, <2>2, AppendProperties DEF Dump
    <2>5. i \notin 1..Len(got[c])
      BY <1>1, <2>3, <2>4 DEF Dump
    <2>6. i = Len(got[c]) + 1
      BY <2>4, <2>5
    <2>7. ~KeepsGoing(c, reply)
      BY <1>1, <2>4, <2>6 DEF KeepsGoing
    <2>8. QED BY <2>2, <2>4, <2>6, <2>7
  <1>4. got'[c] = got[c] \/ \E d \in Made : Receive(d)
    BY OnlyReceiveGives
  <1>5. QED BY <1>2, <1>3, <1>4

\* query.go:245-295: NodeFacts and NodeClasses answer with one dump, however many nodes answered
\* and however often what they sent is delivered.
THEOREM OneDumpIsTaken == FleetSpec => []DumpIsTheLast
  <1>1. FleetInit => DumpIsTheLast
    BY DEF FleetInit, Init, DumpIsTheLast, Dump
  <1>2. QED BY <1>1, DumpStep, WireInvariant, FleetIsolates, PTL DEF FleetSpec

\* What FilterMatch and Query said of a node stands, and after they returned there is
\* nothing added.
VerdictsStand == \A c \in Calls : ask[c].op \in Asking =>
    /\ \A n \in outcome[c].seen :
           /\ n \in outcome'[c].seen
           /\ InSeq(n, outcome'[c].matched) <=> InSeq(n, outcome[c].matched)
           /\ InSeq(n, outcome'[c].noMatch) <=> InSeq(n, outcome[c].noMatch)
           /\ n \in outcome'[c].errors <=> n \in outcome[c].errors
    /\ stage[c] \in {"returned", "failed"} => outcome'[c] = outcome[c]

LEMMA VerdictStep ==
    ASSUME SessionInv, ClientInv, [FleetNext]_vars
    PROVE  VerdictsStand
  <1> SUFFICES ASSUME NEW c \in Calls, ask[c].op \in Asking, outcome'[c] # outcome[c]
               PROVE  /\ stage[c] = "waiting"
                      /\ \A n \in outcome[c].seen :
                             /\ n \in outcome'[c].seen
                             /\ InSeq(n, outcome'[c].matched) <=> InSeq(n, outcome[c].matched)
                             /\ InSeq(n, outcome'[c].noMatch) <=> InSeq(n, outcome[c].noMatch)
                             /\ n \in outcome'[c].errors <=> n \in outcome[c].errors
    BY DEF VerdictsStand
  <1>1. PICK d \in Made : Receive(d)
    BY OnlyReceiveGives
  <1>2. d = c
    BY <1>1 DEF Receive, ClientInv
  <1>3. PICK r : r = Head(sinks[c]).reply
    OBVIOUS
  <1>4. stage[c] = "waiting" /\ sinks[c] # <<>> /\ outcome'[c] = OnReply(c, r)
    BY <1>1, <1>2, <1>3 DEF Receive, Consume, ClientInv
  <1>5. Genuine(r) /\ r.id = c /\ r.fqdn \in Nodes
    <2>1. Head(sinks[c]) \in Genuines /\ Head(sinks[c]) \in Own(c)
      BY <1>4, HeadTailProperties DEF ClientInv, MessagesAreGenuine, SessionInv
    <2>2. QED BY <1>3, <2>1 DEF Genuines, Own, Genuine, FleetReplies
  <1>6. PICK n : n = r.fqdn
    OBVIOUS
  <1>7. outcome[c] \in Outcomes /\ n \notin outcome[c].seen /\ n \in Nodes
    BY <1>4, <1>5, <1>6, SeenIsIgnored DEF ClientInv, Tally
  <1>8. /\ outcome[c].matched \in Seq(Nodes) /\ outcome[c].noMatch \in Seq(Nodes)
        /\ \A m : InSeq(m, Append(outcome[c].matched, n)) <=> InSeq(m, outcome[c].matched) \/ m = n
        /\ \A m : InSeq(m, Append(outcome[c].noMatch, n)) <=> InSeq(m, outcome[c].noMatch) \/ m = n
    BY <1>7, OneMore DEF Outcomes
  <1>9. \/ outcome'[c] = [seen |-> outcome[c].seen \cup {n},
                          matched |-> Append(outcome[c].matched, n),
                          noMatch |-> outcome[c].noMatch, errors |-> outcome[c].errors]
        \/ outcome'[c] = [seen |-> outcome[c].seen \cup {n}, matched |-> outcome[c].matched,
                          noMatch |-> Append(outcome[c].noMatch, n), errors |-> outcome[c].errors]
        \/ outcome'[c] = [seen |-> outcome[c].seen \cup {n}, matched |-> outcome[c].matched,
                          noMatch |-> outcome[c].noMatch, errors |-> outcome[c].errors \cup {n}]
    BY <1>4, <1>5, <1>6, <1>7, OnReplyLists
  <1>10. ASSUME NEW m \in outcome[c].seen
         PROVE  /\ m \in outcome'[c].seen
                /\ InSeq(m, outcome'[c].matched) <=> InSeq(m, outcome[c].matched)
                /\ InSeq(m, outcome'[c].noMatch) <=> InSeq(m, outcome[c].noMatch)
                /\ m \in outcome'[c].errors <=> m \in outcome[c].errors
    <2>1. m # n
      BY <1>7
    <2>2. /\ InSeq(m, Append(outcome[c].matched, n)) <=> InSeq(m, outcome[c].matched)
          /\ InSeq(m, Append(outcome[c].noMatch, n)) <=> InSeq(m, outcome[c].noMatch)
      BY <1>8, <2>1
    <2>3. /\ outcome'[c].seen = outcome[c].seen \cup {n}
          /\ outcome'[c].matched \in {outcome[c].matched, Append(outcome[c].matched, n)}
          /\ outcome'[c].noMatch \in {outcome[c].noMatch, Append(outcome[c].noMatch, n)}
          /\ outcome'[c].errors \in {outcome[c].errors, outcome[c].errors \cup {n}}
      BY <1>9
    <2>4. InSeq(m, outcome'[c].matched) <=> InSeq(m, outcome[c].matched)
      BY <2>2, <2>3
    <2>5. InSeq(m, outcome'[c].noMatch) <=> InSeq(m, outcome[c].noMatch)
      BY <2>2, <2>3
    <2>6. QED BY <2>1, <2>3, <2>4, <2>5
  <1>11. QED BY <1>4, <1>10

\* query.go:48-75: replies that come twice, late or contradict each other change nothing of what
\* FilterMatch and Query have counted, and no reply changes what they returned.
THEOREM VerdictsAlwaysStand == FleetSpec => [][VerdictsStand]_vars
  <1>1. SessionInv /\ ClientInv /\ [FleetNext]_vars => [VerdictsStand]_vars
    BY VerdictStep
  <1>2. QED BY <1>1, ClientInvariant, FleetIsolates, PTL DEF FleetSpec
===============================================================================
