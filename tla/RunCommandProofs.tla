--------------------------- MODULE RunCommandProofs ---------------------------
(***************************************************************************)
(* Proofs about one request and the command that sends it, for any fleet,  *)
(* any prefixes of the topics and any delays: puppet runs where and when   *)
(* it was asked to, and what is counted on is answered.                    *)
(***************************************************************************)
EXTENDS RunCommand, SequenceTheorems, TLAPS

-----------------------------------------------------------------------------
(* Topics                                                                  *)

\* How a topic ends.
LEMMA TopicEnds ==
    ASSUME NEW p \in Prefixes, NEW dest \in Nodes \cup {All}
    PROVE  LET path == Topic(p, dest) IN
           /\ Len(path) \in Nat /\ Len(path) >= 2
           /\ dest = All => /\ LastOf(path) = "puppet"
                            /\ Len(path) = 2 \/ BeforeLast(path) # "puppet"
           /\ dest # All => /\ LastOf(path) = dest /\ BeforeLast(path) = "puppet"
                            /\ Len(path) > 2
  <1> DEFINE tail == IF dest = All THEN <<"puppet">> ELSE <<"puppet", dest>>
             path == p \o tail
             S == STRING \cup {"puppet"} \cup Nodes
  <1>1. p \in Seq(S) /\ p # <<>> /\ (Len(p) > 1 => LastOf(p) # "puppet")
    BY PrefixAssumption
  <1>2. tail \in Seq(S) /\ Len(tail) \in 1..2
    <2>1. "puppet" \in S /\ (dest # All => dest \in S)
      OBVIOUS
    <2> HIDE DEF S
    <2>2. QED BY <2>1
  <1>3. Len(p) \in Nat /\ Len(p) >= 1
    BY <1>1, EmptySeq, LenProperties
  <1>4. Len(path) = Len(p) + Len(tail) /\ path \in Seq(S)
    BY <1>1, <1>2, ConcatProperties
  <1>5. \A i \in 1..Len(path) : path[i] = IF i <= Len(p) THEN p[i] ELSE tail[i - Len(p)]
    BY <1>1, <1>2, ConcatProperties
  <1>6. CASE dest = All
    <2>1. Len(path) = Len(p) + 1 /\ tail[1] = "puppet"
      BY <1>4, <1>6
    <2>2. path[Len(p) + 1] = "puppet" /\ path[Len(p)] = p[Len(p)]
      BY <1>3, <1>5, <2>1
    <2>3. Len(p) > 1 => p[Len(p)] # "puppet"
      BY <1>1 DEF LastOf
    <2> HIDE DEF path
    <2>4. QED BY <1>3, <1>6, <2>1, <2>2, <2>3 DEF LastOf, BeforeLast, Topic, path
  <1>7. CASE dest # All
    <2>1. Len(path) = Len(p) + 2 /\ tail[1] = "puppet" /\ tail[2] = dest
      BY <1>4, <1>7
    <2>2. path[Len(p) + 2] = dest /\ path[Len(p) + 1] = "puppet"
      BY <1>3, <1>5, <2>1
    <2> HIDE DEF path
    <2>3. QED BY <1>3, <1>7, <2>1, <2>2 DEF LastOf, BeforeLast, Topic, path
  <1>8. QED BY <1>6, <1>7

\* Addressing by topic is addressing by name.
LEMMA AddressedIsMeant ==
    ASSUME NEW p \in Prefixes, NEW dest \in Nodes \cup {All}, NEW n \in Nodes
    PROVE  AddressedToMe(n, Topic(p, dest)) <=> dest \in {n, All}
  <1>1. n # All
    BY SentinelAssumption
  <1> DEFINE path == Topic(p, dest)
  <1>4. /\ Len(path) \in Nat /\ Len(path) >= 2
        /\ dest = All => /\ LastOf(path) = "puppet"
                         /\ Len(path) = 2 \/ BeforeLast(path) # "puppet"
        /\ dest # All => /\ LastOf(path) = dest /\ BeforeLast(path) = "puppet"
                         /\ Len(path) > 2
    BY TopicEnds
  <1> HIDE DEF path
  <1>2. CASE dest = All
    <2>1. AddressedToMe(n, path)
      BY <1>2, <1>4 DEF AddressedToMe
    <2>2. QED BY <1>2, <2>1 DEF path
  <1>3. CASE dest # All
    <2>3. /\ Len(path) >= 2 /\ Len(path) # 2 /\ LastOf(path) = dest
          /\ BeforeLast(path) = "puppet"
      <3>1. LastOf(path) = dest /\ BeforeLast(path) = "puppet"
        BY <1>3, <1>4
      <3> DEFINE k == Len(path)
      <3>2. k \in Nat /\ k > 2
        BY <1>3, <1>4
      <3>3. ASSUME k \in Nat, k > 2
            PROVE  k >= 2 /\ k # 2
        <4> HIDE DEF k
        <4>1. QED BY <3>3
      <3>4. QED BY <3>1, <3>2, <3>3
    <2>1. AddressedToMe(n, path) <=> dest = n
      BY <2>3 DEF AddressedToMe
    <2>2. QED BY <1>3, <2>1 DEF path
  <1>5. QED BY <1>2, <1>3

-----------------------------------------------------------------------------
(* Answers                                                                 *)

LEMMA AnswerIsTyped ==
    ASSUME NEW n, NEW r, NEW v \in Values
    PROVE  HandleEvent(n, r, v) \in Answers
  <1>1. \A type \in {"error", "noMatch", "status", "runStatus", "fact", "facts", "classes"} :
            Answer(type) \in Answers
    BY DEF Answer, Answers
  <1>2. \A says \in {"error", "matched", "notMatched"} : QueryAnswer(says) \in Answers
    BY DEF QueryAnswer, Answers
  <1>3. Silent \in Answers
    BY DEF Silent, Answers
  <1>4. HandleQuery(r, v) \in Answers
    BY <1>2 DEF HandleQuery, Values
  <1>5. \A type \in {"facts", "classes"} : HandleDump(n, r, type) \in Answers
    BY <1>1, <1>3 DEF HandleDump
  <1>6. Execute(n, r) \in Answers
    BY <1>1, <1>3, <1>5 DEF Execute
  <1>7. HandleCommand(n, r, v) \in Answers
    BY <1>1, <1>3, <1>4, <1>6 DEF HandleCommand
  <1>8. QED BY <1>3, <1>7 DEF HandleEvent

\* Only a run that is addressed here runs puppet.
LEMMA OnlyRunsRun ==
    ASSUME NEW n, NEW r
    PROVE  Execute(n, r).type = "runStatus" <=>
               r.cmd = "run" /\ r.paramsOk /\ AddressedToMe(n, r.path)
  <1>1. \A type \in {"facts", "classes"} : HandleDump(n, r, type).type # "runStatus"
    BY DEF HandleDump, Silent, Answer
  <1>2. CASE r.cmd \in {"factlist", "classlist"}
    BY <1>1, <1>2 DEF Execute
  <1>3. CASE r.cmd \notin {"factlist", "classlist"}
    BY <1>3 DEF Execute, Silent, Answer
  <1>4. QED BY <1>2, <1>3

LEMMA NothingElseSays ==
    ASSUME NEW n, NEW r
    PROVE  Execute(n, r).says = "nothing"
  <1>1. \A type \in {"facts", "classes"} : HandleDump(n, r, type).says = "nothing"
    BY DEF HandleDump, Silent, Answer
  <1>2. QED BY <1>1 DEF Execute, Silent, Answer

\* What the properties ask of one answer.
Right(n, dest, r, v, a) ==
    /\ a.type = "runStatus" <=>
           /\ r.decodes /\ r.replyTo /\ r.cmd = "run" /\ r.paramsOk
           /\ dest \in {n, All} /\ (r.filtered => v = "true")
    /\ a.type \notin {"silent", "error", "noMatch", "query"} => (r.filtered => v = "true")
    /\ a.says = "matched" => v = "true"
    /\ ( /\ r.decodes /\ r.replyTo /\ r.paramsOk
         /\ r.cmd = "query" \/ (r.cmd \in {"status", "fact"} /\ r.answerAlways) )
       => a.type # "silent"

LEMMA AnswerIsRight ==
    ASSUME NEW p \in Prefixes, NEW dest \in Nodes \cup {All}, NEW n \in Nodes,
           NEW r \in Requests({Topic(p, dest)}), NEW v \in Values
    PROVE  Right(n, dest, r, v, HandleEvent(n, r, v))
  <1> DEFINE a == HandleEvent(n, r, v)
  <1>1. /\ Len(r.path) >= 2
        /\ AddressedToMe(n, r.path) <=> dest \in {n, All}
        /\ r.decodes \in BOOLEAN /\ r.replyTo \in BOOLEAN /\ r.paramsOk \in BOOLEAN
        /\ r.filtered \in BOOLEAN /\ r.answerAlways \in BOOLEAN
    BY TopicEnds, AddressedIsMeant DEF Requests
  <1>2. CASE ~(r.decodes /\ r.replyTo)
    <2>1. a = Silent
      BY <1>2 DEF HandleEvent
    <2>2. QED BY <1>2, <2>1 DEF Right, Silent
  <1>3. CASE r.decodes /\ r.replyTo /\ r.cmd = "query"
    <2>1. a = HandleQuery(r, v)
      BY <1>1, <1>3 DEF HandleEvent, HandleCommand
    <2>2. a.type = "query" /\ (a.says = "matched" => v = "true")
      BY <2>1 DEF HandleQuery, QueryAnswer, Values
    <2> HIDE DEF a
    <2>3. QED BY <1>3, <2>2 DEF Right, a
  <1>4. CASE r.decodes /\ r.replyTo /\ r.cmd # "query" /\ r.filtered /\ v # "true"
    <2>1. a = HandleCommand(n, r, v)
      BY <1>1, <1>4 DEF HandleEvent
    <2>2. \/ a = Answer("error")
          \/ a = Answer("noMatch")
          \/ a = Silent /\ ~r.answerAlways
      BY <1>4, <2>1 DEF HandleCommand, ParseBool, Values
    <2> HIDE DEF a
    <2>3. QED BY <1>4, <2>2 DEF Right, Answer, Silent, a
  <1>5. CASE r.decodes /\ r.replyTo /\ r.cmd # "query" /\ (r.filtered => v = "true")
    <2>1. a = HandleCommand(n, r, v)
      BY <1>1, <1>5 DEF HandleEvent
    <2>2. a = Execute(n, r)
      BY <1>5, <2>1 DEF HandleCommand, ParseBool
    <2>3. a.says = "nothing"
      BY <2>2, NothingElseSays
    <2>4. a.type = "runStatus" <=> r.cmd = "run" /\ r.paramsOk /\ dest \in {n, All}
      BY <1>1, <2>2, OnlyRunsRun
    <2>5. r.paramsOk /\ r.cmd \in {"status", "fact"} => a.type # "silent"
      BY <2>2 DEF Execute, Answer
    <2> HIDE DEF a
    <2>6. QED BY <1>5, <2>3, <2>4, <2>5 DEF Right, a
  <1>6. QED BY <1>1, <1>2, <1>3, <1>4, <1>5

-----------------------------------------------------------------------------
(* One request, and the command that sends it                              *)

\* Whatever a node answered, it answered to the one request and its own value.
RequestInv ==
    /\ to \in Nodes \cup {All} /\ value \in [Nodes -> Values] /\ DOMAIN answer = Nodes
    /\ \E p \in Prefixes : req \in Requests({Topic(p, to)})
    /\ \A n \in Nodes : answer[n] \in {Pending, HandleEvent(n, req, value[n])}

\* Nobody has an answer before the request is out, and what is out is what the flags say.
CmdInv ==
    /\ RequestInv
    /\ phase \in {"flags", "refused", "sent"}
    /\ phase # "sent" => \A n \in Nodes : answer[n] = Pending
    /\ phase = "flags" => flags \in Flags
    /\ phase = "sent" /\ flags # NoFlags =>
           /\ flags \in Flags /\ ~Refused(flags) /\ delay = DelayOf(flags)
           /\ to = IF TargetOf(flags) = "all" THEN All ELSE TargetOf(flags)

LEMMA RunIsARequest ==
    ASSUME NEW prefix, NEW dest, NEW filter
    PROVE  Run(prefix, dest, filter) \in Requests({Topic(prefix, dest)})
  BY DEF Run, Requests, Commands

LEMMA CmdInitially == CmdInit => CmdInv
  <1>1. Init => RequestInv
    BY DEF Init, RequestInv
  <1>2. ASSUME value \in [Nodes -> Values], answer = [n \in Nodes |-> Pending], to = All,
               NEW prefix \in Prefixes, req = Run(prefix, All, "none")
        PROVE  RequestInv
    BY <1>2, RunIsARequest DEF RequestInv
  <1>3. Init => \A n \in Nodes : answer[n] = Pending
    BY DEF Init
  <1>4. QED BY <1>1, <1>2, <1>3 DEF CmdInit, CmdInv

\* A command that is not refused names a node, or all of them.
LEMMA TargetIsSomebody ==
    ASSUME NEW f \in Flags, ~Refused(f)
    PROVE  TargetOf(f) \in Nodes \cup {"all"}
  BY DEF Flags, Refused, TargetOf, Node, Default

LEMMA CmdStep ==
    ASSUME CmdInv, [CmdNext]_<<vars, cmdVars>>
    PROVE  CmdInv'
  <1>1. CASE Refuse
    BY <1>1 DEF Refuse, vars, CmdInv, RequestInv
  <1>2. CASE Publish
    <2> DEFINE dest == IF TargetOf(flags) = "all" THEN All ELSE TargetOf(flags)
    <2>1. flags \in Flags /\ ~Refused(flags) /\ \A n \in Nodes : answer[n] = Pending
      BY <1>2 DEF Publish, CmdInv
    <2>2. dest \in Nodes \cup {All}
      BY <2>1, TargetIsSomebody
    <2>3. PICK prefix \in Prefixes : req' = Run(prefix, dest, flags.filter)
      BY <1>2 DEF Publish
    <2>4. req' \in Requests({Topic(prefix, dest)})
      BY <2>3, RunIsARequest
    <2>5. /\ to' = dest /\ delay' = DelayOf(flags) /\ phase' = "sent"
          /\ UNCHANGED <<value, answer, flags>>
      BY <1>2 DEF Publish
    <2>6. RequestInv'
      BY <2>1, <2>2, <2>4, <2>5 DEF CmdInv, RequestInv
    <2>7. QED BY <2>1, <2>5, <2>6 DEF CmdInv, Refused, DelayOf, TargetOf, Node, Default
  <1>3. CASE phase = "sent" /\ Next /\ UNCHANGED cmdVars
    <2>1. PICK n \in Nodes : Handle(n)
      BY <1>3 DEF Next
    <2>2. RequestInv'
      BY <2>1 DEF Handle, CmdInv, RequestInv
    <2>3. QED BY <1>3, <2>1, <2>2 DEF Handle, cmdVars, CmdInv
  <1>4. CASE UNCHANGED <<vars, cmdVars>>
    BY <1>4 DEF vars, cmdVars, CmdInv, RequestInv
  <1>5. QED BY <1>1, <1>2, <1>3, <1>4 DEF CmdNext

\* run.go:12-35: what is sent is what the command line says, and nothing is when it is refused;
\* what a node then answers is what HandleEvent makes of the request.
THEOREM CmdInvariant == CmdSpec => []CmdInv
  BY CmdInitially, CmdStep, PTL DEF CmdSpec

\* Every answer there is is the right one.
LEMMA AnswersAreRight ==
    ASSUME CmdInv, NEW n \in Nodes, Handled(n)
    PROVE  /\ Right(n, to, req, value[n], answer[n])
           /\ phase = "sent"
  <1>1. answer[n] = HandleEvent(n, req, value[n]) /\ value[n] \in Values
    BY DEF CmdInv, RequestInv, Handled
  <1>2. PICK p \in Prefixes : req \in Requests({Topic(p, to)})
    BY DEF CmdInv, RequestInv
  <1>3. Right(n, to, req, value[n], HandleEvent(n, req, value[n]))
    BY <1>1, <1>2, AnswerIsRight DEF CmdInv, RequestInv
  <1>4. phase = "sent"
    BY DEF CmdInv, Handled
  <1>5. QED BY <1>1, <1>3, <1>4

\* The flags of a run that is under way mean the node it is on.
LEMMA RunIsWhereAsked ==
    ASSUME CmdInv, flags # NoFlags, phase = "sent", NEW n \in Nodes, to \in {n, All}
    PROVE  /\ n \in {flags.node, flags.target} \/ {flags.node, flags.target} \cap {"all", "unset"} # {}
           /\ flags.node \in Nodes => flags.node = n /\ delay = flags.delay
           /\ flags.node \in {"all", "unset"} => delay > 0
  <1>1. /\ flags \in Flags /\ ~Refused(flags) /\ delay = DelayOf(flags)
        /\ to = IF TargetOf(flags) = "all" THEN All ELSE TargetOf(flags)
    BY DEF CmdInv
  <1>2. TargetOf(flags) \in Nodes \cup {"all"} /\ TargetOf(flags) \in {n, "all"}
    BY <1>1, TargetIsSomebody, SentinelAssumption
  <1>3. Nodes \cap {"all", "", "unset"} = {}
    BY FlagsAssumption
  <1>4. n \in {flags.node, flags.target} \/ {flags.node, flags.target} \cap {"all", "unset"} # {}
    BY <1>2, <1>3 DEF TargetOf, Node, Default
  <1>5. flags.node \in Nodes => flags.node = n /\ delay = flags.delay
    BY <1>1, <1>2, <1>3 DEF TargetOf, Node, Default, DelayOf
  <1>6. flags.node \in {"all", "unset"} => delay > 0
    <2>1. delay \in Nat
      BY <1>1, DelaysAssumption DEF DelayOf, Flags
    <2>2. flags.node \in {"all", "unset"} => delay # 0
      BY <1>1 DEF Refused, Node, Default
    <2>3. QED BY <2>1, <2>2
  <1>7. QED BY <1>4, <1>5, <1>6

\* server.go:262-280 under run.go: puppet runs exactly on the nodes that were meant and whose
\* filter holds, which with a command line are the one it names or, after a delay, all.
THEOREM RunsAreAsAsked == CmdSpec => []RunsAsAsked
  <1>1. CmdInv => RunsWhereMeant
    BY AnswersAreRight DEF Right, RunsWhereMeant, WellFormed, MeantFor, FilterPasses
  <1>2. CmdInv => RunsAsAsked
    <2> SUFFICES ASSUME CmdInv, flags # NoFlags, NEW n \in Nodes, Handled(n),
                        answer[n].type = "runStatus"
                 PROVE  /\ n \in {flags.node, flags.target}
                           \/ {flags.node, flags.target} \cap {"all", "unset"} # {}
                        /\ flags.node \in Nodes => flags.node = n /\ delay = flags.delay
                        /\ flags.node \in {"all", "unset"} => delay > 0
      BY <1>1 DEF RunsAsAsked
    <2>1. to \in {n, All} /\ phase = "sent"
      BY AnswersAreRight DEF Right
    <2>2. QED BY <2>1, RunIsWhereAsked
  <1>3. QED BY <1>2, CmdInvariant, PTL

\* server.go:117-160: a request that is counted on is never met with silence.
THEOREM CountedAreAnswered == CmdSpec => []CountedRequestsAreAnswered
  <1>1. CmdInv => CountedRequestsAreAnswered
    BY AnswersAreRight DEF Right, CountedRequestsAreAnswered, WellFormed
  <1>2. QED BY <1>1, CmdInvariant, PTL

===============================================================================
