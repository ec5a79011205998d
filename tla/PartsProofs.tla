----------------------------- MODULE PartsProofs -----------------------------
(***************************************************************************)
(* Proofs about the components of Parts, for every value of their          *)
(* parameters.  For each component an inductive invariant is shown to hold *)
(* initially and to be kept by its steps; in Parts it then holds whenever  *)
(* focus names the component, which is the last step of every theorem.     *)
(***************************************************************************)
EXTENDS Parts, SequenceTheorems, FiniteSetTheorems, WellFoundedInduction, TLAPS

\* One component moves, the other ones stand still.
LEMMA OneMoves ==
    ASSUME [Next]_vars
    PROVE  /\ focus' = focus
           /\ focus = "puppetAnswer" => PA!AnswerNext \/ UNCHANGED paVars
           /\ focus = "downtime" => DT!Next \/ UNCHANGED dtVars
           /\ focus = "ipset" => IP!Next \/ UNCHANGED ipVars
           /\ focus = "snapshotFile" => SF!Next \/ UNCHANGED sfVars
           /\ focus = "clusterBackend" => CB!Next \/ UNCHANGED cbVars
           /\ focus = "repl" => RL!Next \/ UNCHANGED rlVars
           /\ focus = "replOutput" => RO!Next \/ UNCHANGED roVars
           /\ focus = "completion" => CO!Next \/ UNCHANGED coVars
  BY DEF Next, vars

\* The sizes the components speak of are those the facts about finite sets are about.
LEMMA SameSize == \A S : PA!Cardinality(S) = Cardinality(S) /\ CB!Cardinality(S) = Cardinality(S)
                         /\ RO!Cardinality(S) = Cardinality(S) /\ CO!Cardinality(S) = Cardinality(S)
  BY DEF PA!Cardinality, CB!Cardinality, RO!Cardinality, CO!Cardinality, Cardinality

-----------------------------------------------------------------------------
(* Downtime                                                                *)

\* What is in the channel is a request of a machine.
DTInv == dtQueue \in Seq(DT!Requests) /\ DT!OnlyItself

LEMMA DTInit == DT!Init => DTInv
  BY EmptySeq DEF DT!Init, DTInv, DT!OnlyItself

LEMMA DTStep ==
    ASSUME DTInv, DT!Next
    PROVE  DTInv'
  <1>1. CASE DT!Client
    <2>1. PICK r \in DT!Requests : dtQueue' = Append(dtQueue, r) /\ dtScheduled' = dtScheduled
      <3>1. ASSUME NEW m \in dtMachines, NEW host \in DT!Names \cup {<<>>},
                   NEW duration \in DT!Durations, DT!Send(m, host, duration)
            PROVE  \E r \in DT!Requests : dtQueue' = Append(dtQueue, r) /\ dtScheduled' = dtScheduled
        <4>1. m.hostname \in DT!Names
          BY DEF DT!Names
        <4> DEFINE named == IF host = <<>> THEN m.hostname ELSE host
        <4>2. named \in DT!Names \cup {<<>>}
          BY <4>1
        <4>3. [from |-> m, duration |-> duration, decodes |-> TRUE, host |-> named] \in DT!Requests
          BY <4>2 DEF DT!Requests
        <4>4. QED BY <3>1, <4>3 DEF DT!Send
      <3>2. ASSUME NEW m \in dtMachines, NEW decodes \in BOOLEAN, DT!SendOther(m, decodes)
            PROVE  \E r \in DT!Requests : dtQueue' = Append(dtQueue, r) /\ dtScheduled' = dtScheduled
        BY <3>2, PartsAssumption DEF DT!SendOther, DT!Requests, DT!Durations, DT!LimitAssumption
      <3>3. QED BY <1>1, <3>1, <3>2 DEF DT!Client
    <2>2. QED BY <2>1, AppendProperties DEF DTInv, DT!OnlyItself
  <1>2. CASE DT!Run
    <2>1. /\ Head(dtQueue) \in DT!Requests /\ Tail(dtQueue) \in Seq(DT!Requests)
          /\ dtQueue' = Tail(dtQueue)
      BY <1>2, HeadTailProperties DEF DTInv, DT!Run, DT!Ignore, DT!Schedule
    <2>2. CASE DT!Ignore
      BY <2>1, <2>2 DEF DT!Ignore, DTInv, DT!OnlyItself
    <2>3. CASE DT!Schedule
      <3>1. /\ Head(dtQueue).host = <<Head(dtQueue).from.name[1]>>
            /\ Head(dtQueue).duration \in 1..dtMaxDowntime - 1
        BY <2>1, <2>3, PartsAssumption
           DEF DT!Schedule, DT!Validate, DT!HostFromRoutingKey, DT!Certname, DT!Requests,
               DT!Durations, DT!LimitAssumption
      <3>2. QED BY <2>1, <2>3, <3>1 DEF DT!Schedule, DTInv, DT!OnlyItself
    <2>4. QED BY <1>2, <2>2, <2>3 DEF DT!Run
  <1>3. CASE DT!ApiChanges
    BY <1>3 DEF DT!ApiChanges, DTInv, DT!OnlyItself
  <1>4. QED BY <1>1, <1>2, <1>3 DEF DT!Next

\* downtime.go:89: only a host itself gets downtime scheduled for it, for a time that is
\* neither over nor endless, whatever anybody publishes.
THEOREM OnlyItselfIsDown == Spec => []OnlyItself
  <1>1. Init => DTInv
    BY DTInit DEF Init
  <1>2. (focus = "downtime" => DTInv) /\ [Next]_vars => (focus = "downtime" => DTInv)'
    <2> SUFFICES ASSUME focus = "downtime" => DTInv, [Next]_vars, focus' = "downtime"
                 PROVE  DTInv'
      OBVIOUS
    <2>1. DTInv /\ (DT!Next \/ UNCHANGED dtVars)
      BY OneMoves
    <2>2. UNCHANGED dtVars => DTInv'
      BY <2>1 DEF dtVars, DTInv, DT!OnlyItself
    <2>3. QED BY <2>1, <2>2, DTStep
  <1>3. (focus = "downtime" => DTInv) => OnlyItself
    BY DEF OnlyItself, DTInv
  <1>4. QED BY <1>1, <1>2, <1>3, PTL DEF Spec

-----------------------------------------------------------------------------
(* Ipset                                                                   *)

\* Whether the first k commands of a topic leave an address in the set.
LeftIn(s, t, a, k) == \E i \in 1..k :
    /\ IP!IsAbout(s[i], t, a) /\ s[i].cmd # "del"
    /\ \A j \in (i + 1)..k : ~IP!IsAbout(s[j], t, a)

\* Commands about something else change nothing.
LEMMA NothingAbout ==
    ASSUME NEW s, NEW t, NEW a, NEW k \in Nat, NEW m \in Nat, k <= m,
           \A i \in (k + 1)..m : ~IP!IsAbout(s[i], t, a)
    PROVE  LeftIn(s, t, a, k) <=> LeftIn(s, t, a, m)
  <1>1. ASSUME LeftIn(s, t, a, k) PROVE LeftIn(s, t, a, m)
    <2>1. PICK i \in 1..k : /\ IP!IsAbout(s[i], t, a) /\ s[i].cmd # "del"
                            /\ \A j \in (i + 1)..k : ~IP!IsAbout(s[j], t, a)
      BY <1>1 DEF LeftIn
    <2>2. i \in 1..m /\ \A j \in (i + 1)..m : ~IP!IsAbout(s[j], t, a)
      BY <2>1
    <2>3. QED BY <2>1, <2>2 DEF LeftIn
  <1>2. ASSUME LeftIn(s, t, a, m) PROVE LeftIn(s, t, a, k)
    <2>1. PICK i \in 1..m : /\ IP!IsAbout(s[i], t, a) /\ s[i].cmd # "del"
                            /\ \A j \in (i + 1)..m : ~IP!IsAbout(s[j], t, a)
      BY <1>2 DEF LeftIn
    <2>2. i \in 1..k /\ \A j \in (i + 1)..k : ~IP!IsAbout(s[j], t, a)
      BY <2>1
    <2>3. QED BY <2>1, <2>2 DEF LeftIn
  <1>3. QED BY <1>1, <1>2

\* The last command about an address decides.
LEMMA LastDecides ==
    ASSUME NEW s, NEW t, NEW a, NEW k \in Nat, IP!IsAbout(s[k + 1], t, a)
    PROVE  LeftIn(s, t, a, k + 1) <=> s[k + 1].cmd # "del"
  <1>1. ASSUME LeftIn(s, t, a, k + 1) PROVE s[k + 1].cmd # "del"
    <2>1. PICK i \in 1..(k + 1) : /\ IP!IsAbout(s[i], t, a) /\ s[i].cmd # "del"
                                  /\ \A j \in (i + 1)..(k + 1) : ~IP!IsAbout(s[j], t, a)
      BY <1>1 DEF LeftIn
    <2>2. i = k + 1
      BY <2>1
    <2>3. QED BY <2>1, <2>2
  <1>2. ASSUME s[k + 1].cmd # "del" PROVE LeftIn(s, t, a, k + 1)
    <2>1. k + 1 \in 1..(k + 1) /\ \A j \in (k + 1 + 1)..(k + 1) : ~IP!IsAbout(s[j], t, a)
      OBVIOUS
    <2>2. QED BY <1>2, <2>1 DEF LeftIn
  <1>3. QED BY <1>1, <1>2

\* What comes later does not matter to what was left before.
LEMMA LaterIsLater ==
    ASSUME NEW S, NEW s \in Seq(S), NEW c, NEW t, NEW a, NEW k \in 0..Len(s)
    PROVE  LeftIn(Append(s, c), t, a, k) <=> LeftIn(s, t, a, k)
  <1>1. \A i \in 1..k : Append(s, c)[i] = s[i]
    OBVIOUS
  <1>2. \A i \in 1..k : \A j \in (i + 1)..k : Append(s, c)[j] = s[j]
    BY <1>1
  <1>3. QED BY <1>1, <1>2 DEF LeftIn

\* What is in a channel is the end of what was published.
EndOf(f, s) == Len(f) <= Len(s) /\ \A i \in 1..Len(f) : f[i] = s[Len(s) - Len(f) + i]

LEMMA EndGrows ==
    ASSUME NEW S, NEW s \in Seq(S), NEW f \in Seq(S), NEW c \in S, EndOf(f, s)
    PROVE  EndOf(Append(f, c), Append(s, c))
  <1>1. /\ Append(f, c) \in Seq(S) /\ Len(Append(f, c)) = Len(f) + 1
        /\ Append(s, c) \in Seq(S) /\ Len(Append(s, c)) = Len(s) + 1
    OBVIOUS
  <1>2. ASSUME NEW i \in 1..(Len(f) + 1)
        PROVE  Append(f, c)[i] = Append(s, c)[Len(s) + 1 - (Len(f) + 1) + i]
    <2>1. CASE i = Len(f) + 1
      <3>1. Append(f, c)[Len(f) + 1] = c /\ Append(s, c)[Len(s) + 1] = c
        OBVIOUS
      <3>2. Len(s) + 1 - (Len(f) + 1) + i = Len(s) + 1
        BY <2>1, EmptySeq
      <3>3. QED BY <2>1, <3>1, <3>2
    <2>2. CASE i # Len(f) + 1
      <3>1. i \in 1..Len(f) /\ f[i] = s[Len(s) - Len(f) + i]
        BY <2>2 DEF EndOf
      <3>2. Append(f, c)[i] = f[i]
        BY <3>1
      <3>3. Len(s) + 1 - (Len(f) + 1) + i = Len(s) - Len(f) + i
            /\ Len(s) - Len(f) + i \in 1..Len(s)
        BY <3>1 DEF EndOf
      <3>4. Append(s, c)[Len(s) - Len(f) + i] = s[Len(s) - Len(f) + i]
        BY <3>3
      <3>5. QED BY <3>1, <3>2, <3>3, <3>4
    <2>3. QED BY <2>1, <2>2
  <1>3. Len(Append(f, c)) <= Len(Append(s, c))
    BY <1>1 DEF EndOf
  <1>4. \A i \in 1..Len(Append(f, c)) :
            Append(f, c)[i] = Append(s, c)[Len(Append(s, c)) - Len(Append(f, c)) + i]
    <2> SUFFICES ASSUME NEW i \in 1..Len(Append(f, c))
                 PROVE  Append(f, c)[i] = Append(s, c)[Len(Append(s, c)) - Len(Append(f, c)) + i]
      OBVIOUS
    <2>1. i \in 1..(Len(f) + 1)
      BY <1>1
    <2>2. Len(Append(s, c)) - Len(Append(f, c)) + i = Len(s) + 1 - (Len(f) + 1) + i
      BY <1>1
    <2>3. QED BY <1>2, <2>1, <2>2, Zenon
  <1>5. QED BY <1>3, <1>4 DEF EndOf

LEMMA EndShrinks ==
    ASSUME NEW S, NEW s \in Seq(S), NEW f \in Seq(S), EndOf(f, s), f # <<>>
    PROVE  /\ EndOf(Tail(f), s)
           /\ Head(f) = s[Len(s) - Len(f) + 1] /\ Len(Tail(f)) = Len(f) - 1
  <1>1. /\ Tail(f) \in Seq(S) /\ Len(Tail(f)) = Len(f) - 1 /\ Head(f) = f[1]
        /\ \A i \in 1..Len(Tail(f)) : Tail(f)[i] = f[i + 1]
    BY HeadTailProperties
  <1>2. Len(f) \in Nat /\ Len(s) \in Nat /\ Len(f) >= 1
    BY EmptySeq
  <1>3. \A i \in 1..(Len(f) - 1) :
            Tail(f)[i] = s[Len(s) - Len(f) + (i + 1)] /\ i + 1 \in 1..Len(f)
    BY <1>1, <1>2 DEF EndOf
  <1>4. \A i \in 1..(Len(f) - 1) : Len(s) - Len(f) + (i + 1) = Len(s) - (Len(f) - 1) + i
    BY <1>2
  <1>5. EndOf(Tail(f), s)
    <2> SUFFICES ASSUME NEW i \in 1..Len(Tail(f))
                 PROVE  Tail(f)[i] = s[Len(s) - Len(Tail(f)) + i]
      BY <1>1, <1>2 DEF EndOf
    <2>1. i \in 1..(Len(f) - 1)
      BY <1>1
    <2>2. QED BY <1>1, <1>3, <1>4, <2>1
  <1>6. QED BY <1>1, <1>2, <1>5 DEF EndOf

LEMMA NothingIsAnEnd ==
    ASSUME NEW S, NEW s \in Seq(S)
    PROVE  EndOf(<<>>, s)
  BY EmptySeq DEF EndOf

IPShape ==
    /\ DOMAIN ipSent = IP!Topics
    /\ DOMAIN ipFeed = ipNodes /\ \A n \in ipNodes : DOMAIN ipFeed[n] = IP!Topics
    /\ DOMAIN ipListens = ipNodes /\ \A n \in ipNodes : ipListens[n] \subseteq ipConfig[n]
    /\ DOMAIN ipContent = ipNodes /\ \A n \in ipNodes : DOMAIN ipContent[n] = ipNames
    /\ DOMAIN ipSpoilt = ipNodes

\* What a listener has not read is what was published last, if it listens.
IPUnread(n, t) ==
    /\ ipFeed[n][t] \in Seq(IP!Sendable(t)) /\ EndOf(ipFeed[n][t], ipSent[t])
    /\ t \notin ipListens[n] => ipFeed[n][t] = <<>>

\* InSync for one entry of one node.
IPEntry(n, t, a) ==
    [set |-> t[2], addr |-> a] \notin ipSpoilt[n] =>
        (a \in ipContent[n][t[2]] <=> LeftIn(ipSent[t], t, a, Len(ipSent[t]) - Len(ipFeed[n][t])))

IPInv ==
    /\ IPShape
    /\ \A t \in IP!Topics : ipSent[t] \in Seq(IP!Sendable(t))
    /\ \A n \in ipNodes, t \in IP!Topics : IPUnread(n, t)
    /\ \A n \in ipNodes : \A t \in ipConfig[n], a \in ipAddrs : IPEntry(n, t, a)

LEMMA IPConfigured ==
    /\ \A n \in ipNodes : \A t \in ipConfig[n] : t \in IP!Topics /\ t[2] \in ipNames /\ t[2] # ""
    /\ \A n \in ipNodes : \A s, t \in ipConfig[n] : s[2] = t[2] => s = t
  <1>1. ASSUME NEW n \in ipNodes, NEW t \in ipConfig[n]
        PROVE  t \in IP!Topics /\ t[2] \in ipNames /\ t[2] # ""
    <2>1. ipConfig[n] \in SUBSET (ipGroups \X ipNames) /\ "" \notin ipNames
      BY PartsAssumption DEF IP!ConfigAssumption
    <2>2. t \in ipGroups \X ipNames
      BY <2>1, Zenon
    <2>3. QED BY <2>1, <2>2 DEF IP!Topics
  <1>2. QED BY <1>1, PartsAssumption DEF IP!OneGroupAssumption

\* What is sent on a topic is about an entry of its set, or of none.
LEMMA IPSent ==
    ASSUME NEW t, NEW c \in IP!Sendable(t), t[2] # ""
    PROVE  /\ c.addr \in ipAddrs
           /\ c.set = t[2] => IP!Entry(c) = {[set |-> t[2], addr |-> c.addr]}
           /\ c.set # t[2] => c.set = "" /\ IP!Entry(c) = {}
           /\ \A a : IP!IsAbout(c, t, a) <=> [set |-> t[2], addr |-> a] \in IP!Entry(c)
  <1>1. c.addr \in ipAddrs /\ c.set \in {t[2], ""}
    BY DEF IP!Sendable
  <1>2. \A x, y, u, v : [set |-> x, addr |-> y] = [set |-> u, addr |-> v] <=> x = u /\ y = v
    <2> SUFFICES ASSUME NEW x, NEW y, NEW u, NEW v, [set |-> x, addr |-> y] = [set |-> u, addr |-> v]
                 PROVE  x = u /\ y = v
      OBVIOUS
    <2>1. [set |-> x, addr |-> y].set = x /\ [set |-> u, addr |-> v].set = u
          /\ [set |-> x, addr |-> y].addr = y /\ [set |-> u, addr |-> v].addr = v
      OBVIOUS
    <2>2. QED BY <2>1
  <1>3. QED BY <1>1, <1>2 DEF IP!Entry, IP!IsAbout

LEMMA IPInitially == IP!Init => IPInv
  <1> SUFFICES ASSUME IP!Init PROVE IPInv
    OBVIOUS
  <1>1. IPShape
    BY PartsAssumption DEF IP!Init, IPShape, IP!ConfigAssumption
  <1>2. \A t \in IP!Topics : ipSent[t] = <<>> /\ \A n \in ipNodes : ipFeed[n][t] = <<>>
    BY DEF IP!Init
  <1>3. \A t \in IP!Topics : <<>> \in Seq(IP!Sendable(t))
    BY EmptySeq
  <1>4. EndOf(<<>>, <<>>)
    BY EmptySeq DEF EndOf
  <1>5. ASSUME NEW n \in ipNodes, NEW t \in ipConfig[n], NEW a \in ipAddrs
        PROVE  IPEntry(n, t, a)
    <2>1. t \in IP!Topics /\ t[2] \in ipNames
      BY IPConfigured
    <2>2. ipContent[n][t[2]] = {} /\ Len(ipSent[t]) - Len(ipFeed[n][t]) = 0
      BY <1>2, <2>1, EmptySeq DEF IP!Init
    <2>3. ~LeftIn(ipSent[t], t, a, 0)
      BY DEF LeftIn
    <2>4. QED BY <2>2, <2>3 DEF IPEntry
  <1>6. QED BY <1>1, <1>2, <1>3, <1>4, <1>5 DEF IPInv, IPUnread

\* Where a listener is in what was published.
LEMMA IPRead ==
    ASSUME IPInv, NEW n \in ipNodes, NEW t \in IP!Topics
    PROVE  /\ Len(ipSent[t]) \in Nat /\ Len(ipFeed[n][t]) \in Nat
           /\ Len(ipSent[t]) - Len(ipFeed[n][t]) \in 0..Len(ipSent[t])
  <1>1. ipSent[t] \in Seq(IP!Sendable(t)) /\ IPUnread(n, t)
    BY DEF IPInv
  <1>2. ipFeed[n][t] \in Seq(IP!Sendable(t)) /\ Len(ipFeed[n][t]) <= Len(ipSent[t])
    BY <1>1 DEF IPUnread, EndOf
  <1>3. Len(ipSent[t]) \in Nat /\ Len(ipFeed[n][t]) \in Nat
    BY <1>1, <1>2, LenProperties
  <1>4. \A k, m \in Nat : m <= k => k - m \in 0..k
    OBVIOUS
  <1>5. QED BY <1>2, <1>3, <1>4

\* ipset.Cmd: who listens has it to read, who does not has missed it.
LEMMA IPCmdStep ==
    ASSUME IPInv, NEW t \in IP!Topics, NEW c \in IP!Sendable(t), IP!Cmd(t, c)
    PROVE  IPInv'
  <1>1. /\ ipSent' = [ipSent EXCEPT ![t] = Append(@, c)]
        /\ ipFeed' = [n \in ipNodes |-> [u \in IP!Topics |->
               IF u = t /\ t \in ipListens[n] THEN Append(ipFeed[n][u], c) ELSE ipFeed[n][u]]]
        /\ ipSpoilt' = [n \in ipNodes |-> IF t \in ipConfig[n] \ ipListens[n]
               THEN ipSpoilt[n] \cup IP!Entry(c) ELSE ipSpoilt[n]]
        /\ ipListens' = ipListens /\ ipContent' = ipContent
    BY DEF IP!Cmd
  <1>2. IPShape'
    BY <1>1 DEF IPInv, IPShape
  <1>3. ipSent[t] \in Seq(IP!Sendable(t)) /\ ipSent'[t] = Append(ipSent[t], c)
        /\ \A u \in IP!Topics \ {t} : ipSent'[u] = ipSent[u]
    BY <1>1 DEF IPInv, IPShape
  <1>4. \A u \in IP!Topics : ipSent'[u] \in Seq(IP!Sendable(u))
    <2>1. Append(ipSent[t], c) \in Seq(IP!Sendable(t))
      BY <1>3, AppendProperties
    <2>2. QED BY <1>3, <2>1 DEF IPInv
  <1>5. ASSUME NEW n \in ipNodes, NEW u \in IP!Topics
        PROVE  IPUnread(n, u)'
    <2>1. IPUnread(n, u)
      BY DEF IPInv
    <2>2. CASE u # t
      BY <1>1, <1>3, <2>1, <2>2 DEF IPUnread
    <2>3. CASE u = t /\ t \in ipListens[n]
      <3>1. ipFeed'[n][t] = Append(ipFeed[n][t], c)
        BY <1>1, <2>3
      <3>2. ipFeed[n][t] \in Seq(IP!Sendable(t)) /\ EndOf(ipFeed[n][t], ipSent[t])
        BY <2>1, <2>3 DEF IPUnread
      <3>3. Append(ipFeed[n][t], c) \in Seq(IP!Sendable(t))
        BY <3>2, AppendProperties
      <3>4. EndOf(Append(ipFeed[n][t], c), Append(ipSent[t], c))
        BY <1>3, <3>2, EndGrows
      <3>5. QED BY <1>1, <1>3, <2>3, <3>1, <3>3, <3>4 DEF IPUnread
    <2>4. CASE u = t /\ t \notin ipListens[n]
      <3>1. ipFeed'[n][t] = <<>> /\ <<>> \in Seq(IP!Sendable(t))
        BY <1>1, <2>1, <2>4, EmptySeq DEF IPUnread
      <3>2. EndOf(<<>>, ipSent'[t])
        BY <1>4, NothingIsAnEnd
      <3>3. QED BY <2>4, <3>1, <3>2 DEF IPUnread
    <2>5. QED BY <2>2, <2>3, <2>4
  <1>6. ASSUME NEW n \in ipNodes, NEW u \in ipConfig[n], NEW a \in ipAddrs
        PROVE  IPEntry(n, u, a)'
    <2>1. u \in IP!Topics /\ u[2] # "" /\ IPEntry(n, u, a) /\ IPUnread(n, u)
      BY IPConfigured DEF IPInv
    <2>2. ipSpoilt[n] \subseteq ipSpoilt'[n]
      BY <1>1
    <2>3. CASE u # t
      <3>1. ipSent'[u] = ipSent[u] /\ ipFeed'[n][u] = ipFeed[n][u]
        BY <1>1, <1>3, <2>1, <2>3
      <3>2. QED BY <1>1, <2>1, <2>2, <3>1 DEF IPEntry
    <2>4. CASE u = t /\ t \in ipListens[n]
      <3>1. ipFeed'[n][t] = Append(ipFeed[n][t], c) /\ ipFeed[n][t] \in Seq(IP!Sendable(t))
        BY <1>1, <2>1, <2>4 DEF IPUnread
      <3>2. Len(ipSent'[t]) = Len(ipSent[t]) + 1 /\ Len(ipFeed'[n][t]) = Len(ipFeed[n][t]) + 1
        BY <1>3, <3>1, AppendProperties
      <3>3. Len(ipSent'[t]) - Len(ipFeed'[n][t]) = Len(ipSent[t]) - Len(ipFeed[n][t])
        BY <3>2, IPRead
      <3>4. LeftIn(ipSent'[t], t, a, Len(ipSent[t]) - Len(ipFeed[n][t]))
            <=> LeftIn(ipSent[t], t, a, Len(ipSent[t]) - Len(ipFeed[n][t]))
        <4>1. Len(ipSent[t]) - Len(ipFeed[n][t]) \in 0..Len(ipSent[t])
          BY IPRead
        <4>2. \A k \in 0..Len(ipSent[t]) :
                  LeftIn(Append(ipSent[t], c), t, a, k) <=> LeftIn(ipSent[t], t, a, k)
          BY <1>3, LaterIsLater
        <4>3. QED BY <1>3, <4>1, <4>2, Zenon
      <3>5. QED BY <1>1, <2>1, <2>2, <2>4, <3>3, <3>4 DEF IPEntry
    <2>5. CASE u = t /\ t \notin ipListens[n]
      <3>1. ipFeed[n][t] = <<>> /\ ipFeed'[n][t] = <<>>
        BY <1>1, <2>1, <2>5 DEF IPUnread
      <3>2. Len(ipFeed[n][t]) = 0 /\ Len(ipFeed'[n][t]) = 0
        BY <3>1, EmptySeq
      <3>3. /\ Len(ipSent[t]) \in Nat /\ Len(ipSent'[t]) = Len(ipSent[t]) + 1
            /\ ipSent'[t][Len(ipSent[t]) + 1] = c
        BY <1>3, AppendProperties, LenProperties
      <3>4. ASSUME [set |-> t[2], addr |-> a] \notin ipSpoilt'[n]
            PROVE  a \in ipContent[n][t[2]] <=> LeftIn(ipSent'[t], t, a, Len(ipSent[t]) + 1)
        <4>1. [set |-> t[2], addr |-> a] \notin IP!Entry(c)
          BY <1>1, <2>5, <3>4
        <4>2. ~IP!IsAbout(c, t, a)
          BY <2>1, <2>5, <4>1, IPSent
        <4>3. \A i \in (Len(ipSent[t]) + 1)..(Len(ipSent[t]) + 1) : ~IP!IsAbout(ipSent'[t][i], t, a)
          BY <3>3, <4>2
        <4>4. LeftIn(ipSent'[t], t, a, Len(ipSent[t])) <=> LeftIn(ipSent'[t], t, a, Len(ipSent[t]) + 1)
          BY <3>3, <4>3, NothingAbout
        <4>5. LeftIn(ipSent'[t], t, a, Len(ipSent[t])) <=> LeftIn(ipSent[t], t, a, Len(ipSent[t]))
          BY <1>3, <3>3, LaterIsLater
        <4>6. Len(ipSent[t]) - Len(ipFeed[n][t]) = Len(ipSent[t])
          BY <3>2, <3>3
        <4>7. QED BY <2>1, <2>2, <2>5, <3>4, <4>4, <4>5, <4>6 DEF IPEntry
      <3>5. Len(ipSent'[t]) - Len(ipFeed'[n][t]) = Len(ipSent[t]) + 1
        BY <3>2, <3>3
      <3>6. QED BY <1>1, <2>5, <3>4, <3>5 DEF IPEntry
    <2>6. QED BY <2>3, <2>4, <2>5
  <1>7. QED BY <1>2, <1>4, <1>5, <1>6 DEF IPInv

\* EventListener: the command that is read decides about its entry, or spoils it, or is about none.
LEMMA IPHandleStep ==
    ASSUME IPInv, NEW n \in ipNodes, NEW t \in IP!Topics, IP!Handle(n, t)
    PROVE  IPInv'
  <1> DEFINE c == Head(ipFeed[n][t])
             read == Len(ipSent[t]) - Len(ipFeed[n][t])
  <1>1. /\ ipFeed[n][t] # <<>> /\ IPUnread(n, t) /\ ipSent[t] \in Seq(IP!Sendable(t))
        /\ ipFeed' = [ipFeed EXCEPT ![n][t] = Tail(@)]
        /\ ipSent' = ipSent /\ ipListens' = ipListens
    BY DEF IP!Handle, IPInv
  <1>2. t \in ipConfig[n] /\ t[2] \in ipNames /\ t[2] # ""
    <2>1. t \in ipListens[n] /\ ipListens[n] \subseteq ipConfig[n]
      BY <1>1 DEF IPUnread, IPInv, IPShape
    <2>2. QED BY <2>1, IPConfigured
  <1>3. /\ c \in IP!Sendable(t)
        /\ EndOf(Tail(ipFeed[n][t]), ipSent[t]) /\ Tail(ipFeed[n][t]) \in Seq(IP!Sendable(t))
        /\ c = ipSent[t][read + 1] /\ Len(Tail(ipFeed[n][t])) = Len(ipFeed[n][t]) - 1
    BY <1>1, EndShrinks, HeadTailProperties DEF IPUnread
  <1>4. read \in Nat /\ Len(ipSent'[t]) - Len(ipFeed'[n][t]) = read + 1
    <2>1. ipFeed'[n][t] = Tail(ipFeed[n][t])
      BY <1>1 DEF IPInv, IPShape
    <2>2. \A k, m \in Nat : k - m \in 0..k => k - m \in Nat /\ k - (m - 1) = (k - m) + 1
      OBVIOUS
    <2>3. PICK k, m : k = Len(ipSent[t]) /\ m = Len(ipFeed[n][t])
      OBVIOUS
    <2>4. k \in Nat /\ m \in Nat /\ k - m \in 0..k
      BY <2>3, IPRead
    <2>5. k - m \in Nat /\ k - (m - 1) = (k - m) + 1
      BY <2>2, <2>4
    <2>6. Len(ipSent'[t]) = k /\ Len(ipFeed'[n][t]) = m - 1
      BY <1>1, <1>3, <2>1, <2>3
    <2>7. QED BY <2>3, <2>5, <2>6
  <1>5. IPShape'
    BY <1>1 DEF IP!Handle, IPInv, IPShape
  <1>6. ASSUME NEW m \in ipNodes, NEW u \in IP!Topics
        PROVE  IPUnread(m, u)'
    <2>1. IPUnread(m, u)
      BY DEF IPInv
    <2>2. CASE m = n /\ u = t
      <3>1. ipFeed'[n][t] = Tail(ipFeed[n][t])
        BY <1>1 DEF IPInv, IPShape
      <3>2. QED BY <1>1, <1>3, <2>1, <2>2, <3>1 DEF IPUnread
    <2>3. CASE ~(m = n /\ u = t)
      <3>1. ipFeed'[m][u] = ipFeed[m][u]
        BY <1>1, <2>3 DEF IPInv, IPShape
      <3>2. QED BY <1>1, <2>1, <3>1 DEF IPUnread
    <2>4. QED BY <2>2, <2>3
  <1> HIDE DEF c, read
  <1>5a. \/ ipContent' = ipContent
         \/ ipContent' = [ipContent EXCEPT ![n][c.set] = IP!Apply(@, c)] /\ c.set \in ipNames
    <2>1. \A u \in ipConfig[n] : u[2] \in ipNames
      BY IPConfigured
    <2>2. QED BY <2>1 DEF IP!Handle, IP!Target, c
  <1>7. ASSUME NEW a \in ipAddrs
        PROVE  IPEntry(n, t, a)'
    <2>1. IPEntry(n, t, a)
      BY <1>2 DEF IPInv
    <2>2. CASE ~IP!IsAbout(c, t, a)
      <3>1. LeftIn(ipSent[t], t, a, read) <=> LeftIn(ipSent[t], t, a, read + 1)
        <4>1. \A i \in (read + 1)..(read + 1) : ~IP!IsAbout(ipSent[t][i], t, a)
          BY <1>3, <1>4, <2>2
        <4>2. QED BY <1>4, <4>1, NothingAbout
      <3>2. [set |-> t[2], addr |-> a] \notin IP!Entry(c)
        BY <1>2, <1>3, <2>2, IPSent
      <3>3. [set |-> t[2], addr |-> a] \in ipSpoilt'[n] <=> [set |-> t[2], addr |-> a] \in ipSpoilt[n]
        BY <3>2 DEF IP!Handle, c, IPInv, IPShape
      <3>4. a \in ipContent'[n][t[2]] <=> a \in ipContent[n][t[2]]
        <4>1. c.set = t[2] => c.addr # a
          BY <2>2 DEF IP!IsAbout
        <4>2. CASE c.set = t[2]
          <5>1. \/ ipContent'[n][t[2]] = ipContent[n][t[2]]
                \/ ipContent'[n][t[2]] = IP!Apply(ipContent[n][t[2]], c)
            <6>1. CASE ipContent' = ipContent
              BY <6>1
            <6>2. CASE ipContent' = [ipContent EXCEPT ![n][c.set] = IP!Apply(@, c)]
              <7>1. n \in DOMAIN ipContent /\ c.set \in DOMAIN ipContent[n]
                BY <1>2, <4>2 DEF IPInv, IPShape
              <7>2. ipContent'[n][c.set] = IP!Apply(ipContent[n][c.set], c)
                BY <6>2, <7>1
              <7>3. QED BY <4>2, <7>2
            <6>3. QED BY <1>5a, <6>1, <6>2
          <5>2. QED BY <4>1, <4>2, <5>1 DEF IP!Apply
        <4>3. CASE c.set # t[2]
          <5>1. CASE ipContent' = ipContent
            BY <5>1
          <5>2. CASE ipContent' = [ipContent EXCEPT ![n][c.set] = IP!Apply(@, c)]
            BY <4>3, <5>2
          <5>3. QED BY <1>5a, <5>1, <5>2
        <4>4. QED BY <4>2, <4>3
      <3>5. IPEntry(n, t, a) <=> ([set |-> t[2], addr |-> a] \notin ipSpoilt[n] =>
                (a \in ipContent[n][t[2]] <=> LeftIn(ipSent[t], t, a, read)))
        BY DEF IPEntry, read
      <3>6. QED BY <1>1, <1>4, <2>1, <3>1, <3>3, <3>4, <3>5 DEF IPEntry
    <2>3. CASE IP!IsAbout(c, t, a)
      <3>1. LeftIn(ipSent[t], t, a, read + 1) <=> c.cmd # "del"
        BY <1>3, <1>4, <2>3, LastDecides
      <3>2. c.set = t[2] /\ c.addr = a /\ [set |-> t[2], addr |-> a] \in IP!Entry(c)
        <4>1. c.set = t[2] /\ c.addr = a
          BY <2>3 DEF IP!IsAbout
        <4>2. IP!Entry(c) = {[set |-> t[2], addr |-> c.addr]}
          BY <1>2, <1>3, <4>1, IPSent
        <4>3. QED BY <4>1, <4>2
      <3>3. IP!Target(t, c) = t[2] /\ t[2] \in {u[2] : u \in ipConfig[n]}
        BY <1>2, <3>2 DEF IP!Target
      <3>4. \/ ipContent' = [ipContent EXCEPT ![n][t[2]] = IP!Apply(@, c)]
            \/ ipSpoilt' = [ipSpoilt EXCEPT ![n] = @ \cup IP!Entry(c)]
        BY <3>3 DEF IP!Handle, c
      <3>5. CASE ipContent' = [ipContent EXCEPT ![n][t[2]] = IP!Apply(@, c)]
        <4>1. a \in ipContent'[n][t[2]] <=> c.cmd # "del"
          BY <1>2, <3>2, <3>5 DEF IP!Apply, IPInv, IPShape
        <4>2. QED BY <1>1, <1>4, <3>1, <4>1 DEF IPEntry
      <3>6. CASE ipSpoilt' = [ipSpoilt EXCEPT ![n] = @ \cup IP!Entry(c)]
        BY <3>2, <3>6 DEF IPEntry, IPInv, IPShape
      <3>7. QED BY <3>4, <3>5, <3>6
    <2>4. QED BY <2>2, <2>3
  <1>8. ASSUME NEW m \in ipNodes, NEW u \in ipConfig[m], NEW a \in ipAddrs, ~(m = n /\ u = t)
        PROVE  IPEntry(m, u, a)'
    <2>1. IPEntry(m, u, a) /\ u \in IP!Topics
      BY IPConfigured DEF IPInv
    <2>2. ipFeed'[m][u] = ipFeed[m][u]
      BY <1>1, <1>8, <2>1 DEF IPInv, IPShape
    <2>3. c.set \in {t[2], ""} /\ \A e \in IP!Entry(c) : e.set = t[2]
      <3>1. c.set \in {t[2], ""}
        BY <1>3 DEF IP!Sendable
      <3>2. \A e \in IP!Entry(c) : e.set = c.set /\ c.set # ""
        <4>1. CASE c.set = ""
          BY <4>1 DEF IP!Entry
        <4>2. CASE c.set # ""
          <5>1. IP!Entry(c) = {[set |-> c.set, addr |-> c.addr]}
            BY <4>2 DEF IP!Entry
          <5>2. [set |-> c.set, addr |-> c.addr].set = c.set
            OBVIOUS
          <5>3. QED BY <4>2, <5>1, <5>2
        <4>3. QED BY <4>1, <4>2
      <3>3. QED BY <3>1, <3>2
    <2>4. m = n => u[2] # t[2] /\ u[2] # ""
      BY <1>2, <1>8, IPConfigured
    <2>5. [set |-> u[2], addr |-> a] \in ipSpoilt'[m] <=> [set |-> u[2], addr |-> a] \in ipSpoilt[m]
      <3>1. m = n => [set |-> u[2], addr |-> a] \notin IP!Entry(c)
        BY <2>3, <2>4
      <3>2. QED BY <3>1 DEF IP!Handle, c, IPInv, IPShape
    <2>6. ipContent'[m][u[2]] = ipContent[m][u[2]]
      <3>1. m = n => c.set # u[2]
        BY <2>3, <2>4
      <3>2. u[2] \in ipNames
        BY IPConfigured
      <3>3. QED BY <1>5a, <3>1, <3>2 DEF IPInv, IPShape
    <2>7. QED BY <1>1, <2>1, <2>2, <2>5, <2>6 DEF IPEntry
  <1>9. QED BY <1>1, <1>5, <1>6, <1>7, <1>8 DEF IPInv

\* The channel closes: what was not read is spoilt.
LEMMA IPDisconnectStep ==
    ASSUME IPInv, NEW n \in ipNodes, NEW t \in IP!Topics, IP!Disconnect(n, t)
    PROVE  IPInv'
  <1>1. /\ t \in ipListens[n] /\ IPUnread(n, t) /\ ipSent[t] \in Seq(IP!Sendable(t))
        /\ ipListens' = [ipListens EXCEPT ![n] = @ \ {t}]
        /\ ipFeed' = [ipFeed EXCEPT ![n][t] = <<>>]
        /\ ipSpoilt' = [ipSpoilt EXCEPT ![n] =
               @ \cup UNION {IP!Entry(ipFeed[n][t][i]) : i \in DOMAIN ipFeed[n][t]}]
        /\ ipSent' = ipSent /\ ipContent' = ipContent
    BY DEF IP!Disconnect, IPInv
  <1>2. IPShape'
    BY <1>1 DEF IPInv, IPShape
  <1>3. ASSUME NEW m \in ipNodes, NEW u \in IP!Topics
        PROVE  /\ m = n /\ u = t => ipFeed'[m][u] = <<>>
               /\ ~(m = n /\ u = t) => ipFeed'[m][u] = ipFeed[m][u]
    BY <1>1 DEF IPInv, IPShape
  <1>4. ASSUME NEW m \in ipNodes, NEW u \in IP!Topics
        PROVE  IPUnread(m, u)'
    <2>1. IPUnread(m, u)
      BY DEF IPInv
    <2>2. CASE m = n /\ u = t
      <3>1. <<>> \in Seq(IP!Sendable(t)) /\ EndOf(<<>>, ipSent[t])
        BY <1>1, EmptySeq, NothingIsAnEnd
      <3>2. QED BY <1>1, <1>3, <2>2, <3>1 DEF IPUnread
    <2>3. CASE ~(m = n /\ u = t)
      <3>1. u \notin ipListens'[m] => u \notin ipListens[m]
        BY <1>1, <2>3 DEF IPInv, IPShape
      <3>2. QED BY <1>1, <1>3, <2>1, <2>3, <3>1 DEF IPUnread
    <2>4. QED BY <2>2, <2>3
  <1>5. ASSUME NEW m \in ipNodes, NEW u \in ipConfig[m], NEW a \in ipAddrs
        PROVE  IPEntry(m, u, a)'
    <2>1. IPEntry(m, u, a) /\ u \in IP!Topics /\ u[2] # "" /\ ipSpoilt[m] \subseteq ipSpoilt'[m]
      BY <1>1, IPConfigured DEF IPInv, IPShape
    <2>2. CASE ~(m = n /\ u = t)
      BY <1>1, <1>3, <2>1, <2>2 DEF IPEntry
    <2>3. CASE m = n /\ u = t
      <3> DEFINE all == Len(ipSent[t])
                 unread == Len(ipFeed[n][t])
      <3>1. all \in Nat /\ unread \in Nat /\ all - unread \in 0..all
        BY IPRead
      <3>2. ipFeed[n][t] \in Seq(IP!Sendable(t)) /\ \A i \in 1..unread :
                ipFeed[n][t][i] = ipSent[t][all - unread + i]
        BY <1>1 DEF IPUnread, EndOf
      <3>3. Len(ipFeed'[n][t]) = 0
        BY <1>3, EmptySeq
      <3> HIDE DEF all, unread
      <3>4. ASSUME [set |-> t[2], addr |-> a] \notin ipSpoilt'[n]
            PROVE  LeftIn(ipSent[t], t, a, all - unread) <=> LeftIn(ipSent[t], t, a, all)
        <4>1. ASSUME NEW i \in 1..unread
              PROVE  ~IP!IsAbout(ipFeed[n][t][i], t, a)
          <5>1. i \in DOMAIN ipFeed[n][t] /\ ipFeed[n][t][i] \in IP!Sendable(t)
            BY <3>2 DEF unread
          <5>2. [set |-> t[2], addr |-> a] \notin IP!Entry(ipFeed[n][t][i])
            BY <1>1, <3>4, <5>1 DEF IPInv, IPShape
          <5>3. QED BY <2>1, <2>3, <5>1, <5>2, IPSent
        <4>2. ASSUME NEW j \in (all - unread + 1)..all
              PROVE  ~IP!IsAbout(ipSent[t][j], t, a)
          <5>1. j - (all - unread) \in 1..unread /\ all - unread + (j - (all - unread)) = j
            BY <3>1
          <5>2. QED BY <3>2, <4>1, <5>1
        <4>3. all - unread \in Nat /\ all - unread <= all
          BY <3>1
        <4>4. QED BY <3>1, <4>2, <4>3, NothingAbout
      <3>5. Len(ipSent'[t]) - Len(ipFeed'[n][t]) = all
        <4>1. Len(ipSent'[t]) = all
          BY <1>1 DEF all
        <4>2. QED BY <3>1, <3>3, <4>1
      <3>6. IPEntry(n, t, a) <=> ([set |-> t[2], addr |-> a] \notin ipSpoilt[n] =>
                (a \in ipContent[n][t[2]] <=> LeftIn(ipSent[t], t, a, all - unread)))
        BY DEF IPEntry, all, unread
      <3>7. QED BY <1>1, <2>1, <2>3, <3>4, <3>5, <3>6 DEF IPEntry
    <2>4. QED BY <2>2, <2>3
  <1>6. QED BY <1>1, <1>2, <1>4, <1>5 DEF IPInv

LEMMA IPSubscribeStep ==
    ASSUME IPInv, NEW n \in ipNodes, NEW t \in IP!Topics, IP!Subscribe(n, t)
    PROVE  IPInv'
  <1>1. IPShape'
    BY DEF IP!Subscribe, IPInv, IPShape
  <1>2. \A m \in ipNodes : ipListens[m] \subseteq ipListens'[m]
    BY DEF IP!Subscribe, IPInv, IPShape
  <1>3. QED BY <1>1, <1>2 DEF IP!Subscribe, IPInv, IPUnread, IPEntry

\* The kernel drops an entry, which is spoilt then.
LEMMA IPExpireStep ==
    ASSUME IPInv, NEW n \in ipNodes, NEW s \in ipNames, NEW a \in ipAddrs, IP!Expire(n, s, a)
    PROVE  IPInv'
  <1>1. IPShape'
    BY DEF IP!Expire, IPInv, IPShape
  <1>2. ASSUME NEW m \in ipNodes, NEW u \in ipConfig[m], NEW b \in ipAddrs
        PROVE  IPEntry(m, u, b)'
    <2>1. IPEntry(m, u, b)
      BY DEF IPInv
    <2>2. CASE m = n /\ u[2] = s /\ b = a
      BY <2>2 DEF IP!Expire, IPInv, IPShape, IPEntry
    <2>3. CASE ~(m = n /\ u[2] = s /\ b = a)
      <3>1. b \in ipContent'[m][u[2]] <=> b \in ipContent[m][u[2]]
        BY <2>3 DEF IP!Expire, IPInv, IPShape
      <3>2. ipSpoilt[m] \subseteq ipSpoilt'[m]
        BY DEF IP!Expire, IPInv, IPShape
      <3>3. QED BY <2>1, <3>1, <3>2 DEF IP!Expire, IPEntry
    <2>4. QED BY <2>2, <2>3
  <1>3. QED BY <1>1, <1>2 DEF IP!Expire, IPInv, IPUnread

LEMMA IPIsInSync == IPInv => IP!InSync
  <1> SUFFICES ASSUME IPInv, NEW n \in ipNodes, NEW t \in ipConfig[n], NEW a \in ipAddrs,
                      [set |-> t[2], addr |-> a] \notin ipSpoilt[n]
               PROVE  a \in ipContent[n][t[2]] <=>
                          a \in IP!Wanted(t, Len(ipSent[t]) - Len(ipFeed[n][t]))
    BY DEF IP!InSync
  <1>1. IPEntry(n, t, a)
    BY DEF IPInv
  <1>2. QED BY <1>1 DEF IPEntry, IP!Wanted, LeftIn

\* README:428: for any fleet, groups and sets, whatever nodes miss or fail at and for however
\* long, an entry that was not spoilt since the last command about it is what that command made it.
THEOREM SetsStayInSync == Spec => []InSync
  <1>1. Init => IPInv
    BY IPInitially DEF Init
  <1>2. (focus = "ipset" => IPInv) /\ [Next]_vars => (focus = "ipset" => IPInv)'
    <2> SUFFICES ASSUME focus = "ipset" => IPInv, [Next]_vars, focus' = "ipset"
                 PROVE  IPInv'
      OBVIOUS
    <2>1. IPInv /\ (IP!Next \/ UNCHANGED ipVars)
      BY OneMoves
    <2>2. UNCHANGED ipVars => IPInv'
      BY <2>1 DEF ipVars, IPInv, IPShape, IPUnread, IPEntry
    <2>3. IP!Next => IPInv'
      BY <2>1, IPCmdStep, IPHandleStep, IPDisconnectStep, IPSubscribeStep, IPExpireStep DEF IP!Next
    <2>4. QED BY <2>1, <2>2, <2>3
  <1>3. (focus = "ipset" => IPInv) => InSync
    BY IPIsInSync DEF InSync
  <1>4. QED BY <1>1, <1>2, <1>3, PTL DEF Spec

-----------------------------------------------------------------------------
(* SnapshotFile                                                            *)

\* The temporary file of a saver, by how far its saver got.
Files == [content : [of : sfSavers \cup {nobody}, part : {"nothing", "empty", "half", "whole"}],
          private : BOOLEAN]
Holds(w, part) == sfTemp[w].content = SF!Content(w, part) /\ sfTemp[w].private
SFTemp(w) ==
    /\ sfStage[w] \in {"new", "created", "private", "writing", "closed", "done", "failed", "killed"}
    /\ sfStage[w] \in {"new", "done", "failed"} => sfTemp[w].content = SF!NotYet
    /\ sfStage[w] \in {"created", "private"} => Holds(w, "empty")
    /\ sfStage[w] = "writing" => Holds(w, "half")
    /\ sfStage[w] = "closed" => Holds(w, "whole")
    /\ sfStage[w] = "killed" => \E part \in {"empty", "half", "whole"} : Holds(w, part)

\* The path names what it named at the start, or what was saved last.
SFPath ==
    /\ sfSaved \subseteq {SF!Whole(w) : w \in sfSavers}
    /\ \/ sfFile.content \in {SF!NotYet, SF!Junk} /\ \A w \in sfSavers : sfStage[w] # "done"
       \/ sfFile.content \in sfSaved /\ sfFile.private

SFShape == DOMAIN sfStage = sfSavers /\ sfTemp \in [sfSavers -> Files] /\ DOMAIN sfLoaded = sfLoaders

SFInv == SFShape /\ (\A w \in sfSavers : SFTemp(w)) /\ SFPath /\ SF!LoadsAreSaved

LEMMA SFInitially == SF!Init => SFInv
  <1> SUFFICES ASSUME SF!Init PROVE SFInv
    OBVIOUS
  <1>1. SFShape
    BY DEF SF!Init, SFShape, Files, SF!NoFile, SF!NotYet, SF!Content
  <1>2. \A w \in sfSavers : SFTemp(w)
    BY DEF SF!Init, SFTemp, SF!NoFile
  <1>3. SFPath /\ SF!LoadsAreSaved
    BY DEF SF!Init, SFPath, SF!LoadsAreSaved, SF!NoFile
  <1>4. QED BY <1>1, <1>2, <1>3 DEF SFInv

LEMMA SFIsSafe == SFInv => SF!SavesAreSafe
  <1> SUFFICES ASSUME SFInv PROVE SF!SavesAreSafe
    OBVIOUS
  <1>1. SF!FactsStayPrivate
    <2>1. ASSUME NEW w \in sfSavers, sfTemp[w].content.part \in {"half", "whole"}
          PROVE  sfTemp[w].private
      <3>1. SF!NotYet.part = "nothing"
        BY DEF SF!NotYet, SF!Content
      <3>2. sfStage[w] \notin {"new", "done", "failed"}
        BY <2>1, <3>1 DEF SFInv, SFTemp
      <3>3. QED BY <3>2 DEF SFInv, SFTemp, Holds
    <2>2. ASSUME sfFile.content.part \in {"half", "whole"}
          PROVE  sfFile.private
      BY <2>2 DEF SFInv, SFPath, SF!Content, SF!NotYet, SF!Junk
    <2>3. QED BY <2>1, <2>2 DEF SF!FactsStayPrivate
  <1>2. SF!FileIsWhole
    BY DEF SFInv, SFPath, SF!FileIsWhole, SF!Content, SF!NotYet, SF!Junk, SF!Whole
  <1>3. QED BY <1>1, <1>2 DEF SFInv, SF!SavesAreSafe

\* A saver on its way touches its own temporary file only, and moves on or ends.
LEMMA SFSaverStep ==
    ASSUME SFInv, NEW w \in sfSavers,
           SF!CreateTemp(w) \/ SF!Chmod(w) \/ SF!WriteSome(w) \/ SF!WriteRest(w)
               \/ SF!Fail(w) \/ SF!Kill(w)
    PROVE  SFInv'
  <1> DEFINE step(to, f) == /\ sfStage' = [sfStage EXCEPT ![w] = to]
                            /\ sfTemp' = [sfTemp EXCEPT ![w] = f]
                            /\ f \in Files
                            /\ UNCHANGED <<sfFile, sfSaved, sfLoaded>>
             is(f, part) == f.content = SF!Content(w, part) /\ f.private
  <1>1. \A part \in {"empty", "half", "whole"} : SF!Content(w, part) \in
            [of : sfSavers \cup {nobody}, part : {"nothing", "empty", "half", "whole"}]
    BY DEF SF!Content
  <1>2. sfTemp[w] \in Files
    BY DEF SFInv, SFShape
  <1>3. \/ \E to \in {"created", "private"} : \E f \in Files : step(to, f) /\ is(f, "empty")
        \/ \E f \in Files : step("writing", f) /\ is(f, "half")
        \/ \E f \in Files : step("closed", f) /\ is(f, "whole")
        \/ \E f \in Files : step("failed", f) /\ f.content = SF!NotYet
        \/ step("killed", sfTemp[w]) /\ \E part \in {"empty", "half", "whole"} : Holds(w, part)
    <2> USE DEF SFInv, SFTemp, Holds
    <2>1. CASE SF!CreateTemp(w)
      <3>1. [content |-> SF!Content(w, "empty"), private |-> TRUE] \in Files
        BY <1>1 DEF Files
      <3>2. QED BY <2>1, <3>1 DEF SF!CreateTemp, SF!Go
    <2>2. CASE SF!Chmod(w)
      <3> DEFINE f == [sfTemp[w] EXCEPT !.private = TRUE]
      <3>1. f \in Files /\ f.content = sfTemp[w].content /\ f.private
        BY <1>2 DEF Files
      <3>2. sfTemp[w].content = SF!Content(w, "empty")
        BY <2>2 DEF SF!Chmod, SF!Go
      <3>3. step("private", f)
        BY <2>2, <3>1 DEF SF!Chmod, SF!Go
      <3>4. QED BY <3>1, <3>2, <3>3
    <2>3. CASE SF!WriteSome(w)
      <3> DEFINE f == [sfTemp[w] EXCEPT !.content = SF!Content(w, "half")]
      <3>1. f \in Files /\ f.content = SF!Content(w, "half") /\ f.private = sfTemp[w].private
        BY <1>1, <1>2 DEF Files
      <3>2. sfTemp[w].private
        BY <2>3 DEF SF!WriteSome, SF!Go
      <3>3. step("writing", f)
        BY <2>3, <3>1 DEF SF!WriteSome, SF!Go
      <3>4. QED BY <3>1, <3>2, <3>3
    <2>4. CASE SF!WriteRest(w)
      <3> DEFINE f == [sfTemp[w] EXCEPT !.content = SF!Whole(w)]
      <3>1. f \in Files /\ f.content = SF!Content(w, "whole") /\ f.private = sfTemp[w].private
        BY <1>1, <1>2 DEF Files, SF!Whole
      <3>2. sfTemp[w].private
        BY <2>4 DEF SF!WriteRest, SF!Go
      <3>3. step("closed", f)
        BY <2>4, <3>1 DEF SF!WriteRest, SF!Go
      <3>4. QED BY <3>1, <3>2, <3>3
    <2>5. CASE SF!Fail(w)
      <3>1. SF!NoFile \in Files /\ SF!NoFile.content = SF!NotYet
        BY DEF SF!NoFile, Files, SF!NotYet, SF!Content
      <3>2. step("failed", SF!NoFile)
        BY <2>5, <3>1 DEF SF!Fail
      <3>3. QED BY <3>1, <3>2
    <2>6. CASE SF!Kill(w)
      <3>1. step("killed", sfTemp[w])
        BY <1>2, <2>6 DEF SF!Kill, SFShape
      <3>2. \E part \in {"empty", "half", "whole"} : Holds(w, part)
        BY <2>6 DEF SF!Kill
      <3>3. QED BY <3>1, <3>2
    <2>7. QED BY <2>1, <2>2, <2>3, <2>4, <2>5, <2>6
  <1>4. /\ SFShape' /\ UNCHANGED <<sfFile, sfSaved, sfLoaded>>
        /\ \A v \in sfSavers \ {w} : sfStage'[v] = sfStage[v] /\ sfTemp'[v] = sfTemp[v]
    BY <1>2, <1>3 DEF SFInv, SFShape
  <1>5. SFTemp(w)' /\ sfStage'[w] # "done"
    BY <1>2, <1>3 DEF SFInv, SFShape, SFTemp, Holds
  <1>6. \A v \in sfSavers \ {w} : SFTemp(v)'
    BY <1>4 DEF SFInv, SFTemp, Holds
  <1>7. SFPath' /\ SF!LoadsAreSaved'
    BY <1>4, <1>5 DEF SFInv, SFShape, SFPath, SF!LoadsAreSaved
  <1>8. QED BY <1>4, <1>5, <1>6, <1>7 DEF SFInv

\* The rename puts a whole snapshot there, and only it does.
LEMMA SFRenameStep ==
    ASSUME SFInv, NEW w \in sfSavers, SF!Rename(w)
    PROVE  SFInv'
  <1>1. sfTemp[w].content = SF!Whole(w) /\ sfTemp[w].private
    BY DEF SFInv, SFTemp, Holds, SF!Whole, SF!Rename, SF!Go
  <1>2. sfFile'.content = SF!Whole(w) /\ sfFile'.private /\ sfSaved' = sfSaved \cup {SF!Whole(w)}
    BY <1>1 DEF SF!Rename
  <1>3. SFShape'
    <2>1. SF!NoFile \in Files
      BY DEF SF!NoFile, Files, SF!NotYet, SF!Content
    <2>2. QED BY <2>1 DEF SFShape, SFInv, SF!Rename, SF!Go
  <1>4. \A v \in sfSavers : SFTemp(v)'
    BY DEF SFShape, SFInv, SFTemp, Holds, SF!NoFile, SF!Rename, SF!Go
  <1>5. SFPath'
    BY <1>2 DEF SFShape, SFInv, SFPath
  <1>6. SF!LoadsAreSaved'
    BY <1>2 DEF SFShape, SFInv, SF!LoadsAreSaved, SF!Rename
  <1>7. QED BY <1>3, <1>4, <1>5, <1>6 DEF SFShape, SFInv

\* A loader gets an error, or what the path names when that can be used, so was saved.
LEMMA SFLoadStep ==
    ASSUME SFInv, NEW r \in sfLoaders, SF!Load(r)
    PROVE  SFInv'
  <1>1. SF!Usable(sfFile.content) => sfFile.content \in sfSaved
    BY DEF SFShape, SFInv, SFPath, SF!Usable, SF!Whole, SF!Content, SF!NotYet, SF!Junk
  <1>2. SF!LoadsAreSaved'
    BY <1>1 DEF SFShape, SFInv, SF!LoadsAreSaved, SF!Load
  <1>3. QED BY <1>2 DEF SFShape, SFInv, SFTemp, Holds, SFPath, SF!Load

\* snapshot.go:142-187: for any number of processes that save and load on one path, failing or
\* killed anywhere, no fact is ever readable by others, the path never names half a snapshot,
\* and what is loaded was saved.
THEOREM SavesStaySafe == Spec => []SavesAreSafe
  <1>1. Init => SFInv
    BY SFInitially DEF Init
  <1>2. (focus = "snapshotFile" => SFInv) /\ [Next]_vars => (focus = "snapshotFile" => SFInv)'
    <2> SUFFICES ASSUME focus = "snapshotFile" => SFInv, [Next]_vars, focus' = "snapshotFile"
                 PROVE  SFInv'
      OBVIOUS
    <2>1. SFInv /\ (SF!Next \/ UNCHANGED sfVars)
      BY OneMoves
    <2>2. UNCHANGED sfVars => SFInv'
      BY <2>1 DEF sfVars, SFShape, SFInv, SFTemp, Holds, SFPath, SF!LoadsAreSaved
    <2>3. SF!Next => SFInv'
      BY <2>1, SFSaverStep, SFRenameStep, SFLoadStep DEF SF!Next
    <2>4. QED BY <2>1, <2>2, <2>3
  <1>3. (focus = "snapshotFile" => SFInv) => SavesAreSafe
    BY SFIsSafe DEF SavesAreSafe
  <1>4. QED BY <1>1, <1>2, <1>3, PTL DEF Spec

-----------------------------------------------------------------------------
(* Repl                                                                    *)

\* The counters tell of the queries so far just what the exit code is about.
RLCounts ==
    /\ rlCount \in [queries : Nat, matched : Nat, failed : Nat]
    /\ rlCount.queries = 0 <=> rlAnswers = {}
    /\ rlCount.matched > 0 <=> \E o \in rlAnswers : o.matched
    /\ rlCount.failed > 0 <=> \E o \in rlAnswers : o.failed

RLExit == rlPhase = "ended" /\ ~rlInteractive => rlExit \in {2, RL!ExitCode(rlCount)}

RLInv ==
    /\ RLCounts
    /\ rlPhase \in {"starting", "running", "ended"}
    /\ rlPhase = "starting" => ~rlConnected
    /\ RLExit
    /\ RL!BackendIsSound

LEMMA RLInitially == RL!Init => RLInv
  BY DEF RL!Init, RLInv, RLCounts, RLExit, RL!BackendIsSound

\* However metadata is made up, what --node-meta gives ends up in it.
LEMMA FlagsWin ==
    /\ \A k \in rlGiven : /\ k \in DOMAIN RL!HarnessOf(RL!FromFlags)
                          /\ RL!HarnessOf(RL!FromFlags)[k] = "flag"
    /\ \A k \in rlGiven : /\ k \in DOMAIN RL!HarnessOf(RL!HarnessMeta)
                          /\ RL!HarnessOf(RL!HarnessMeta)[k] = "flag"
  <1> SUFFICES ASSUME NEW k \in rlGiven
               PROVE  /\ k \in DOMAIN RL!HarnessOf(RL!FromFlags)
                      /\ RL!HarnessOf(RL!FromFlags)[k] = "flag"
                      /\ k \in DOMAIN RL!HarnessOf(RL!HarnessMeta)
                      /\ RL!HarnessOf(RL!HarnessMeta)[k] = "flag"
    OBVIOUS
  <1>1. DOMAIN <<>> = {}
    OBVIOUS
  <1>2. k \in DOMAIN RL!FromFlags /\ RL!FromFlags[k] = "flag"
    BY DEF RL!FromFlags
  <1>3. k \in DOMAIN RL!HarnessMeta /\ RL!HarnessMeta[k] = "flag"
    BY DEF RL!HarnessMeta
  <1>4. RL!FromFlags # <<>> /\ RL!HarnessMeta # <<>>
    BY <1>1, <1>2, <1>3
  <1>5. QED BY <1>2, <1>3, <1>4 DEF RL!HarnessOf

LEMMA OutcomeShape ==
    ASSUME NEW o \in RL!Outcomes
    PROVE  /\ o.syntax \in BOOLEAN /\ o.lost \in BOOLEAN /\ o.silent \in BOOLEAN
           /\ o.matched \in 0..1 /\ o.noMatch \in 0..1 /\ o.errors \in 0..1
           /\ o.syntax => o.matched = 0
  <1>1. CASE o \in [syntax : {TRUE}, lost : {FALSE}, matched : {0}, noMatch : {0}, errors : {0},
                    silent : {FALSE}]
    <2>1. o.syntax \in {TRUE} /\ o.lost \in {FALSE} /\ o.silent \in {FALSE}
      BY <1>1, Zenon
    <2>2. o.matched = 0 /\ o.noMatch = 0 /\ o.errors = 0
      BY <1>1
    <2>3. o.syntax \in BOOLEAN /\ o.lost \in BOOLEAN /\ o.silent \in BOOLEAN
      BY <2>1, Zenon
    <2>4. o.matched \in 0..1 /\ o.noMatch \in 0..1 /\ o.errors \in 0..1
      BY <2>2
    <2>5. QED BY <2>2, <2>3, <2>4
  <1>2. CASE o \in [syntax : {FALSE}, lost : BOOLEAN, matched : 0..1, noMatch : 0..1,
                    errors : 0..1, silent : BOOLEAN]
    BY <1>2
  <1>3. CASE o \in [syntax : {FALSE}, lost : {FALSE}, matched : 0..1, noMatch : 0..1,
                    errors : 0..1, silent : {FALSE}]
    BY <1>3
  <1>4. QED BY <1>1, <1>2, <1>3 DEF RL!Outcomes

\* runQuery counts a query as failed, or as matched, exactly if the nodes told so.
LEMMA QueryCounts ==
    ASSUME RLCounts, NEW o \in RL!Outcomes, RL!RunQuery(o)
    PROVE  RLCounts'
  <1> DEFINE failed == RL!Failed(o)
             matched == o.matched > 0
  <1>1. rlAnswers' = rlAnswers \cup {[failed |-> failed, matched |-> matched]}
    BY DEF RL!RunQuery
  <1>2. /\ rlCount' \in [queries : Nat, matched : Nat, failed : Nat]
        /\ rlCount'.queries = rlCount.queries + 1
        /\ rlCount'.matched > 0 <=> rlCount.matched > 0 \/ matched
        /\ rlCount'.failed > 0 <=> rlCount.failed > 0 \/ failed
    <2>1. rlCount' = RL!Counted(rlCount, o)
      BY DEF RL!RunQuery
    <2>2. CASE o.syntax \/ (o.lost /\ RL!Responded(o) = 0)
      <3>1. o.matched = 0 /\ failed
        BY <2>2, OutcomeShape DEF RL!Responded, RL!Failed
      <3>2. rlCount' = [rlCount EXCEPT !.queries = @ + 1, !.failed = @ + 1]
        BY <2>1, <2>2 DEF RL!Counted
      <3>3. rlCount \in [queries : Nat, matched : Nat, failed : Nat]
        BY DEF RLCounts
      <3>4. /\ rlCount'.queries = rlCount.queries + 1 /\ rlCount'.failed = rlCount.failed + 1
            /\ rlCount'.matched = rlCount.matched
        BY <3>2, <3>3
      <3>5. rlCount.failed \in Nat /\ rlCount.failed + 1 \in Nat /\ rlCount.queries + 1 \in Nat
        BY <3>3
      <3>6. rlCount' \in [queries : Nat, matched : Nat, failed : Nat]
        BY <3>2, <3>3, <3>5, Zenon
      <3>7. QED BY <3>1, <3>4, <3>5, <3>6
    <2>3. CASE ~(o.syntax \/ (o.lost /\ RL!Responded(o) = 0))
      <3> DEFINE m == IF o.matched > 0 THEN 1 ELSE 0
                 f == (IF o.lost THEN 1 ELSE 0) + (IF o.errors > 0 THEN 1 ELSE 0)
                          + (IF RL!Responded(o) = 0 /\ ~o.silent THEN 1 ELSE 0)
      <3>1. m \in Nat /\ (m > 0 <=> matched)
        OBVIOUS
      <3>2. f \in Nat /\ (f > 0 <=> failed)
        BY <2>3, OutcomeShape DEF RL!Failed
      <3>3. rlCount' = [queries |-> rlCount.queries + 1, matched |-> rlCount.matched + m,
                        failed |-> rlCount.failed + f]
        <4>1. rlCount.failed + (IF o.lost THEN 1 ELSE 0) + (IF o.errors > 0 THEN 1 ELSE 0)
                  + (IF RL!Responded(o) = 0 /\ ~o.silent THEN 1 ELSE 0) = rlCount.failed + f
          BY DEF RLCounts
        <4>2. QED BY <2>1, <2>3, <4>1 DEF RL!Counted
      <3> HIDE DEF m, f, failed, matched
      <3>4. QED BY <3>1, <3>2, <3>3 DEF RLCounts
    <2>4. QED BY <2>2, <2>3
  <1>3. PICK a : a.failed = failed /\ a.matched = matched /\ rlAnswers' = rlAnswers \cup {a}
    BY <1>1
  <1> HIDE DEF failed, matched
  <1>4. (\E b \in rlAnswers' : b.failed) <=> (\E b \in rlAnswers : b.failed) \/ failed
    BY <1>3, Zenon
  <1>5. (\E b \in rlAnswers' : b.matched) <=> (\E b \in rlAnswers : b.matched) \/ matched
    BY <1>3, Zenon
  <1>6. rlAnswers' # {} /\ rlCount'.queries # 0
    BY <1>2, <1>3 DEF RLCounts
  <1>7. QED BY <1>2, <1>4, <1>5, <1>6 DEF RLCounts

LEMMA RLStep ==
    ASSUME RLInv, RL!Next
    PROVE  RLInv'
  <1> USE DEF RLInv, RLExit, RL!BackendIsSound
  <1>1. CASE RL!StartFails
    BY <1>1 DEF RL!StartFails, RLCounts
  <1>2. ASSUME NEW d \in rlData, RL!StartLocal(d)
        PROVE  RLInv'
    BY <1>2, FlagsWin DEF RL!StartLocal, RL!Local, RLCounts
  <1>3. ASSUME NEW d, RL!StartCluster(d)
        PROVE  RLInv'
    BY <1>3 DEF RL!StartCluster, RL!Cluster, RLCounts
  <1>4. ASSUME NEW o \in RL!Outcomes, RL!RunQuery(o)
        PROVE  RLInv'
    <2>1. RLCounts'
      BY <1>4, QueryCounts
    <2>2. QED BY <1>4, <2>1 DEF RL!RunQuery, RL!ReadLine
  <1>5. ASSUME NEW d \in rlData, RL!MetaLocal(d)
        PROVE  RLInv'
    BY <1>5, FlagsWin DEF RL!MetaLocal, RL!SetBackend, RL!Local, RL!ReadLine, RLCounts
  <1>6. ASSUME UNCHANGED <<rlPhase, rlInteractive, rlGiven, rlBackend, rlConnected, rlCount,
                           rlAnswers, rlExit>>
        PROVE  RLInv'
    BY <1>6 DEF RLCounts
  <1>7. CASE RL!End \/ RL!EndBadly
    <2>1. /\ rlPhase' = "ended" /\ UNCHANGED <<rlInteractive, rlCount, rlAnswers>>
          /\ ~rlInteractive => rlExit' \in {2, RL!ExitCode(rlCount)}
      BY <1>7 DEF RL!End, RL!EndBadly
    <2>2. QED BY <2>1 DEF RLCounts, RL!ExitCode
  <1>8. CASE RL!Line
    <2>1. ASSUME NEW d \in rlData, NEW b \in BOOLEAN,
                 RL!MetaSnapshot(d, b) \/ RL!MetaLocalFails(d) \/ RL!OtherLine \/ RL!MetaQuit
          PROVE  RLInv'
      BY <1>6, <2>1 DEF RL!MetaSnapshot, RL!MetaLocalFails, RL!OtherLine, RL!MetaQuit
    <2>2. CASE RL!OtherLine \/ RL!MetaQuit
      BY <1>6, <2>2 DEF RL!OtherLine, RL!MetaQuit
    <2>3. QED BY <1>4, <1>5, <1>8, <2>1, <2>2 DEF RL!Line
  <1>9. QED BY <1>1, <1>2, <1>3, <1>7, <1>8 DEF RL!Next

LEMMA RLTells == RLInv => RL!ExitCodeTells
  <1> SUFFICES ASSUME RLInv, rlPhase = "ended", ~rlInteractive, rlExit < 2
               PROVE  /\ \A o \in rlAnswers : ~o.failed
                      /\ rlExit = IF rlAnswers = {} \/ \E o \in rlAnswers : o.matched THEN 0 ELSE 1
    BY DEF RL!ExitCodeTells
  <1>1. rlExit = RL!ExitCode(rlCount) /\ RL!ExitCode(rlCount) # 2
    BY DEF RLInv, RLExit
  <1>2. ~(rlCount.failed > 0)
    BY <1>1 DEF RL!ExitCode
  <1>3. rlCount.failed = 0
    BY <1>2 DEF RLInv, RLCounts
  <1>4. rlExit = IF rlCount.queries = 0 \/ rlCount.matched > 0 THEN 0 ELSE 1
    BY <1>1, <1>2, <1>3 DEF RL!ExitCode
  <1>5. QED BY <1>2, <1>4 DEF RLInv, RLCounts

LEMMA RLInvariant == Spec => [](focus = "repl" => RLInv)
  <1>1. Init => RLInv
    BY RLInitially DEF Init
  <1>2. (focus = "repl" => RLInv) /\ [Next]_vars => (focus = "repl" => RLInv)'
    <2> SUFFICES ASSUME focus = "repl" => RLInv, [Next]_vars, focus' = "repl"
                 PROVE  RLInv'
      OBVIOUS
    <2>1. RLInv /\ (RL!Next \/ UNCHANGED rlVars)
      BY OneMoves
    <2>2. UNCHANGED rlVars => RLInv'
      BY <2>1 DEF rlVars, RLInv, RLCounts, RLExit, RL!BackendIsSound, RL!ExitCode
    <2>3. QED BY <2>1, <2>2, RLStep
  <1>3. QED BY <1>1, <1>2, PTL DEF Spec

\* README:277: for scripts of any length, on whatever backends their queries ran, exit code 0
\* or 1 means that no query failed, and says whether one matched.
THEOREM ExitCodesTell == Spec => []ExitCodeTells
  <1>1. (focus = "repl" => RLInv) => ExitCodeTells
    BY RLTells DEF ExitCodeTells
  <1>2. QED BY <1>1, RLInvariant, PTL

\* session_test.go:474: however often a session changes what it runs on, a connection is open
\* exactly while it asks the cluster, and local data keep every override.
THEOREM BackendsStaySound == Spec => []BackendIsSound
  <1>1. (focus = "repl" => RLInv) => BackendIsSound
    BY DEF BackendIsSound, RLInv
  <1>2. QED BY <1>1, RLInvariant, PTL

-----------------------------------------------------------------------------
(* PuppetAnswer                                                            *)

\* A worker that sleeps holds nothing.
PAState == PA!TypeOK /\ \A w \in Workers : paWorker[w].got # Bad => paWorker[w].at # 0

\* What parses to nothing is only ever taken for a run summary.
PAGot == \A w \in Workers : paWorker[w].got = Blank => PA!Pass[paWorker[w].at] = "summary"

\* What the sandbox was given is of the time of the request, and lookups see nothing else.
PALooked == \A m \in PA!Maps :
    /\ paPointer[m] # None => paAt \in {"sandbox", "evaluating"} /\ paPointer[m] \in paSince[m]
    /\ paAt = "evaluating" => paPointer[m] # None /\ paLooked[m] \subseteq {paPointer[m]}
    /\ paAt \in {"idle", "sandbox"} => paLooked[m] = {}
    /\ paLooked[m] \subseteq paSince[m] /\ \E x : paLooked[m] \subseteq {x}

\* The result is too, and as long as it is not made the cache is part of that time.
PAResult ==
    /\ paAt # "answering" => paSent = None
    /\ paSent # None => paSent.data \in PA!Data /\ paSent.is \in paSince[paSent.data]
    /\ paAt \in {"sandbox", "evaluating", "matched"} => \A d \in PA!Data : paCache[d] \in paSince[d]

\* Facts and classes that are there are there for good.
PALoaded ==
    /\ paLoaded = {m \in PA!Maps : paCache[m] # Blank}
    /\ paHad \subseteq paLoaded
    /\ \A m \in paHad : Blank \notin paSince[m]

PATypes ==
    /\ paAt \in {"idle", "sandbox", "evaluating", "matched", "answering"}
    /\ paPointer \in [PA!Maps -> PA!Content \cup {Blank, None}]
    /\ paLooked \in [PA!Maps -> SUBSET (PA!Content \cup {Blank})]
    /\ paSince \in [PA!Data -> SUBSET (PA!Content \cup {Blank})]

PAInv == PAState /\ PAGot /\ PATypes /\ PALooked /\ PAResult /\ PALoaded

\* The sentinels are told from what a file holds, and from each other where they meet.
LEMMA Sentinels ==
    /\ paMaxWrites \in Nat /\ Bad \notin PA!Content /\ Blank \notin PA!Content
    /\ None \notin PA!Content /\ None # Bad /\ None # Blank /\ Bad # Blank
  BY PartsAssumption DEF PA!BoundAssumption, PA!SentinelAssumption, PA!AnswersAssumption

LEMMA PassNames ==
    /\ Len(PA!Pass) = 3
    /\ \A i \in 1..3 : PA!Pass[i] \in PA!Data
    /\ PA!Maps \subseteq PA!Data
  BY DEF PA!Pass, PA!Data, PA!Maps

\* The workers and the agent: a store replaces facts by facts and classes by classes.
LEMMA PAStateStep ==
    ASSUME PAState, PAGot, PA!Next
    PROVE  /\ PAState' /\ PAGot'
           /\ \A m \in PA!Maps : paCache[m] # Blank => paCache'[m] # Blank
  <1> USE DEF PAState, PA!TypeOK
  <1>1. ASSUME NEW w \in Workers, PA!Worker(w)
        PROVE  /\ PAState' /\ PAGot'
               /\ \A m \in PA!Maps : paCache[m] # Blank => paCache'[m] # Blank
    <2> DEFINE slot == [at : 0..Len(PA!Pass), got : PA!Content \cup {Bad, Blank}]
    <2>1. paWorker[w] \in slot /\ paWorker[w].at \in 0..3
      BY PassNames
    <2>2. PA!Sleeping \in slot /\ PA!Sleeping.got = Bad
      BY PassNames DEF PA!Sleeping
    <2>3. /\ PA!Advance(w) \in slot
          /\ PA!Advance(w).got = Bad
      <3>1. CASE paWorker[w].at = Len(PA!Pass)
        BY <2>2, <3>1 DEF PA!Advance
      <3>2. CASE paWorker[w].at # Len(PA!Pass)
        <4>1. PA!Advance(w) = [at |-> paWorker[w].at + 1, got |-> Bad]
          BY <3>2 DEF PA!Advance
        <4>2. paWorker[w].at + 1 \in 0..Len(PA!Pass)
          BY <2>1, <3>2, PassNames
        <4>3. QED BY <4>1, <4>2
      <3>3. QED BY <3>1, <3>2
    <2>4. CASE PA!StartPass(w)
      <3> DEFINE next == [paWorker[w] EXCEPT !.at = 1]
      <3>1. next \in slot /\ next.at = 1 /\ next.got = Bad
        BY <2>1, <2>4, PassNames DEF PA!StartPass
      <3>2. paWorker' = [paWorker EXCEPT ![w] = next] /\ UNCHANGED <<paFile, paWrites, paCache>>
        BY <2>4 DEF PA!StartPass
      <3> HIDE DEF next
      <3>3. PAState'
        BY <3>1, <3>2
      <3>4. PAGot'
        BY <3>1, <3>2, Sentinels DEF PAGot
      <3>5. QED BY <3>2, <3>3, <3>4
    <2>5. CASE PA!Read(w)
      <3> DEFINE d == PA!Pass[paWorker[w].at]
                 got == [paWorker[w] EXCEPT !.got = PA!Parsed(d)]
      <3>1. paWorker[w].at \in 1..3 /\ d \in PA!Data
        BY <2>1, <2>5, PassNames DEF PA!Read
      <3>2. PA!Parsed(d) \in PA!Content \cup {Bad, Blank} /\ (PA!Parsed(d) = Blank => d = "summary")
        BY <3>1, Sentinels DEF PA!Parsed
      <3>3. got \in slot /\ got.at = paWorker[w].at /\ got.at # 0 /\ got.got = PA!Parsed(d)
        BY <2>1, <3>1, <3>2
      <3>4. paWorker' = [paWorker EXCEPT ![w] = got] /\ UNCHANGED <<paFile, paWrites, paCache>>
        BY <2>5 DEF PA!Read
      <3> HIDE DEF got
      <3>5. PAState'
        BY <3>3, <3>4
      <3>6. PAGot'
        BY <3>2, <3>3, <3>4 DEF PAGot
      <3>7. QED BY <3>4, <3>5, <3>6
    <2>6. CASE PA!Skip(w)
      <3>1. paWorker' = [paWorker EXCEPT ![w] = PA!Advance(w)]
            /\ UNCHANGED <<paFile, paWrites, paCache>>
        BY <2>6 DEF PA!Skip
      <3>2. PAGot'
        BY <2>3, <3>1, Sentinels DEF PAGot
      <3>3. QED BY <2>3, <3>1, <3>2
    <2>7. CASE PA!Store(w)
      <3>1. paWorker[w].got \in PA!Content \cup {Blank}
        BY <2>1, <2>7, Sentinels DEF PA!Store
      <3>2. /\ PA!Pass[paWorker[w].at] \in PA!Data
            /\ PA!Pass[paWorker[w].at] \in PA!Maps => paWorker[w].got # Blank
        BY <2>1, <2>7, PassNames DEF PA!Store, PAGot, PA!Maps
      <3>3. /\ paWorker' = [paWorker EXCEPT ![w] = PA!Advance(w)]
            /\ paCache' = [paCache EXCEPT ![PA!Pass[paWorker[w].at]] = paWorker[w].got]
            /\ UNCHANGED <<paFile, paWrites>>
        BY <2>7 DEF PA!Store
      <3>4. paCache' \in [PA!Data -> PA!Content \cup {Blank}]
        BY <3>1, <3>2, <3>3
      <3>5. \A m \in PA!Maps : paCache[m] # Blank => paCache'[m] # Blank
        BY <3>2, <3>3, PassNames
      <3>6. paWorker' \in [Workers -> slot]
            /\ \A v \in Workers : paWorker'[v].got # Bad => paWorker'[v].at # 0
        BY <2>3, <3>3
      <3>7. PAGot'
        BY <2>3, <3>3, Sentinels DEF PAGot
      <3>8. QED BY <3>3, <3>4, <3>5, <3>6, <3>7
    <2>8. QED BY <1>1, <2>4, <2>5, <2>6, <2>7 DEF PA!Worker
  <1>2. ASSUME NEW d \in PA!Data, PA!AgentWrites(d)
        PROVE  PAState' /\ PAGot' /\ paCache' = paCache
    <2>1. paWrites + 1 \in 0..paMaxWrites
      BY <1>2, Sentinels DEF PA!AgentWrites
    <2>2. \A new \in [version : {paWrites + 1}, part : {"whole", "cut", "head"}] \cup {Bad} :
              new \in PA!Content \cup {Bad}
      BY <2>1 DEF PA!Content
    <2>3. PAState'
      BY <1>2, <2>1, <2>2 DEF PA!AgentWrites
    <2>4. QED BY <1>2, <2>3 DEF PA!AgentWrites, PAGot
  <1>3. ASSUME NEW d \in PA!Data, PA!AgentCompletes(d)
        PROVE  PAState' /\ PAGot' /\ paCache' = paCache
    <2>1. paFile[d] \in [version : 0..paMaxWrites, part : {"whole", "cut", "head"}]
      BY <1>3 DEF PA!AgentCompletes, PA!Content
    <2>2. [paFile[d] EXCEPT !.part = "whole"] \in PA!Content \cup {Bad}
      BY <2>1 DEF PA!Content
    <2>3. PAState'
      BY <1>3, <2>2 DEF PA!AgentCompletes
    <2>4. QED BY <1>3, <2>3 DEF PA!AgentCompletes, PAGot
  <1>4. QED BY <1>1, <1>2, <1>3 DEF PA!Next

LEMMA PAInitially == PA!AnswerInit => PAInv
  <1> SUFFICES ASSUME PA!AnswerInit PROVE PAInv
    OBVIOUS
  <1> USE DEF PA!AnswerInit, PA!Init
  <1>1. [version |-> 0, part |-> "whole"] \in PA!Content
    BY Sentinels DEF PA!Content
  <1>2. PA!Sleeping \in [at : 0..Len(PA!Pass), got : PA!Content \cup {Bad, Blank}] /\ PA!Sleeping.got = Bad
    BY PassNames DEF PA!Sleeping
  <1>3. PAState
    <2>1. paFile \in [PA!Data -> PA!Content \cup {Bad}]
      BY <1>1
    <2>2. paCache \in [PA!Data -> PA!Content \cup {Blank}]
      BY <2>1
    <2>3. QED BY <1>2, <2>1, <2>2, Sentinels DEF PAState, PA!TypeOK
  <1>4. PATypes /\ PALooked /\ PAResult /\ PALoaded
    BY DEF PATypes, PALooked, PAResult, PALoaded
  <1>5. PAGot
    BY <1>2, Sentinels DEF PAGot
  <1>6. QED BY <1>3, <1>4, <1>5 DEF PAInv

\* Whatever is stored meanwhile is of the time of the request too.
LEMMA PAMeanwhile ==
    ASSUME PAInv, PA!Meanwhile
    PROVE  PAInv'
  <1>1. PAState' /\ PAGot' /\ \A m \in PA!Maps : paCache[m] # Blank => paCache'[m] # Blank
    BY PAStateStep DEF PA!Meanwhile, PAInv
  <1>2. /\ UNCHANGED <<paAt, paPointer, paLooked, paSent, paHad>>
        /\ paSince' = IF paAt \in {"idle", "answering"} THEN paSince
                      ELSE [d \in PA!Data |-> paSince[d] \cup {paCache'[d]}]
        /\ paLoaded' = paLoaded \cup {m \in PA!Maps : paCache'[m] # Blank}
    BY DEF PA!Meanwhile
  <1>3. PATypes'
    <2>1. \A d \in PA!Data : paCache'[d] \in PA!Content \cup {Blank}
      BY <1>1 DEF PAState, PA!TypeOK
    <2>2. paSince' \in [PA!Data -> SUBSET (PA!Content \cup {Blank})]
      BY <1>2, <2>1 DEF PAInv, PATypes
    <2>3. QED BY <1>2, <2>2 DEF PAInv, PATypes
  <1>4. \A d \in PA!Data : paSince[d] \subseteq paSince'[d]
    BY <1>2
  <1>5. PALooked'
    BY <1>2, <1>4, PassNames DEF PAInv, PALooked
  <1>6. PAResult'
    <2>1. paAt \in {"sandbox", "evaluating", "matched"} => \A d \in PA!Data : paCache'[d] \in paSince'[d]
      BY <1>2
    <2>2. QED BY <1>2, <1>4, <2>1 DEF PAInv, PAResult
  <1>7. PALoaded'
    <2>1. paLoaded' = {m \in PA!Maps : paCache'[m] # Blank} /\ paLoaded \subseteq paLoaded'
      BY <1>1, <1>2 DEF PAInv, PALoaded
    <2>2. \A m \in paHad : Blank \notin paSince'[m]
      BY <1>1, <1>2, PassNames DEF PAInv, PALoaded
    <2>3. QED BY <1>2, <2>1, <2>2 DEF PAInv, PALoaded
  <1>8. QED BY <1>1, <1>3, <1>5, <1>6, <1>7 DEF PAInv

\* handleCommand and the sandbox, which touch neither files nor cache.
LEMMA PAListener ==
    ASSUME PAInv, PA!Listener
    PROVE  PAInv'
  <1>1. UNCHANGED PA!vars
    BY DEF PA!Listener, PA!TakeRequest, PA!Evaluated, PA!Done, PA!TakeMap, PA!Lookup, PA!Result
  <1>2. PAState' /\ PAGot' /\ paCache' = paCache
    BY <1>1 DEF PA!vars, PAInv, PAState, PA!TypeOK, PAGot
  <1>3. \A d \in PA!Data : paCache[d] \in PA!Content \cup {Blank} /\ paCache[d] # None
    BY Sentinels DEF PAInv, PAState, PA!TypeOK
  <1> SUFFICES PATypes' /\ PALooked' /\ PAResult' /\ PALoaded'
    BY <1>2 DEF PAInv
  <1> USE DEF PAInv
  <1>4. CASE PA!TakeRequest
    <2> USE DEF PA!TakeRequest
    <2>1. PATypes'
      BY <1>3, <1>4 DEF PATypes
    <2>2. PALooked'
      BY <1>4, PassNames DEF PALooked
    <2>3. /\ paAt = "idle" /\ paAt' \in {"sandbox", "matched"}
          /\ paSince' = [d \in PA!Data |-> {paCache[d]}]
          /\ paHad' = paLoaded /\ UNCHANGED <<paSent, paLoaded>>
      BY <1>4
    <2>4. PAResult'
      BY <1>2, <2>3 DEF PAResult
    <2>5. \A m \in PA!Maps : m \in paLoaded => Blank \notin paSince'[m]
      BY <2>3, PassNames DEF PALoaded
    <2>6. PALoaded'
      BY <1>2, <2>3, <2>5 DEF PALoaded
    <2>7. QED BY <2>1, <2>2, <2>4, <2>6
  <1>5. ASSUME NEW m \in PA!Maps, PA!TakeMap(m)
        PROVE  PATypes' /\ PALooked' /\ PAResult' /\ PALoaded'
    <2> USE DEF PA!TakeMap
    <2>1. /\ paAt = "sandbox" /\ paAt' \in {"sandbox", "evaluating"} /\ m \in PA!Data
          /\ paPointer' = [paPointer EXCEPT ![m] = paCache[m]]
          /\ paAt' = "evaluating" => \A k \in PA!Maps \ {m} : paPointer[k] # None
          /\ UNCHANGED <<paLooked, paSent, paSince, paLoaded, paHad>>
      BY <1>5, PassNames
    <2>2. PATypes'
      BY <1>3, <2>1 DEF PATypes
    <2>3. PALooked'
      <3> SUFFICES ASSUME NEW k \in PA!Maps
                   PROVE  /\ paPointer'[k] # None => paPointer'[k] \in paSince[k]
                          /\ paAt' = "evaluating" => paPointer'[k] # None
                          /\ paLooked[k] = {}
        BY <2>1 DEF PALooked
      <3>1. paLooked[k] = {}
        BY <2>1 DEF PALooked
      <3>2. CASE k = m
        BY <1>3, <2>1, <3>1, <3>2 DEF PATypes, PAResult
      <3>3. CASE k # m
        BY <2>1, <3>1, <3>3 DEF PATypes, PALooked
      <3>4. QED BY <3>2, <3>3
    <2>4. PAResult' /\ PALoaded'
      BY <1>2, <2>1 DEF PAResult, PALoaded
    <2>5. QED BY <2>2, <2>3, <2>4
  <1>6. ASSUME NEW m \in PA!Maps, PA!Lookup(m)
        PROVE  PATypes' /\ PALooked' /\ PAResult' /\ PALoaded'
    <2>1. /\ paAt = "evaluating" /\ paLooked' = [paLooked EXCEPT ![m] = paLooked[m] \cup {paPointer[m]}]
          /\ UNCHANGED <<paAt, paPointer, paSent, paSince, paLoaded, paHad>>
      BY <1>6 DEF PA!Lookup
    <2>2. paPointer[m] \in paSince[m] /\ paLooked[m] \subseteq {paPointer[m]}
      BY <2>1 DEF PALooked
    <2>3. PATypes'
      BY <2>1, <2>2, PassNames DEF PATypes
    <2>4. PALooked'
      BY <2>1, <2>2 DEF PATypes, PALooked
    <2>5. PAResult' /\ PALoaded'
      BY <1>2, <2>1 DEF PAResult, PALoaded
    <2>6. QED BY <2>3, <2>4, <2>5
  <1>7. CASE PA!Evaluated
    <2>1. PATypes' /\ PALooked'
      BY <1>7 DEF PA!Evaluated, PATypes, PALooked
    <2>2. PAResult' /\ PALoaded'
      BY <1>2, <1>7 DEF PA!Evaluated, PAResult, PALoaded
    <2>3. QED BY <2>1, <2>2
  <1>8. ASSUME NEW d \in PA!Data, PA!Result(d)
        PROVE  PATypes' /\ PALooked' /\ PAResult' /\ PALoaded'
    <2>1. /\ paAt = "matched" /\ paAt' = "answering"
          /\ paSent' \in {[data |-> d, is |-> paCache[d]], None}
          /\ UNCHANGED <<paPointer, paLooked, paSince, paLoaded, paHad>>
      BY <1>8 DEF PA!Result
    <2>2. PATypes' /\ PALooked' /\ PALoaded'
      BY <1>2, <2>1 DEF PATypes, PALooked, PALoaded
    <2>3. PAResult'
      BY <2>1 DEF PAResult
    <2>4. QED BY <2>2, <2>3
  <1>9. CASE PA!Done
    <2>1. PATypes' /\ PALooked'
      BY <1>9, PassNames DEF PA!Done, PATypes, PALooked
    <2>2. PAResult' /\ PALoaded'
      BY <1>2, <1>9 DEF PA!Done, PAResult, PALoaded
    <2>3. QED BY <2>1, <2>2
  <1>10. QED BY <1>4, <1>5, <1>6, <1>7, <1>8, <1>9 DEF PA!Listener

LEMMA PAIsSound == PAInv => PA!AnswersAreSound
  <1> SUFFICES ASSUME PAInv PROVE PA!AnswersAreSound
    OBVIOUS
  <1>1. ASSUME NEW m \in PA!Maps
        PROVE  PA!Cardinality(paLooked[m]) <= 1 /\ paLooked[m] \subseteq paSince[m]
    <2>1. PICK x : paLooked[m] \subseteq {x}
      BY DEF PAInv, PALooked
    <2>2. paLooked[m] = {} \/ paLooked[m] = {x}
      BY <2>1
    <2>3. Cardinality({}) = 0 /\ Cardinality({x}) = 1
      BY FS_EmptySet, FS_Singleton
    <2>4. PA!Cardinality(paLooked[m]) \in {0, 1}
      BY <2>2, <2>3, SameSize
    <2>5. paLooked[m] \subseteq paSince[m]
      BY DEF PAInv, PALooked
    <2>6. QED BY <2>4, <2>5
  <1>2. paSent # None => paSent.is \in paSince[paSent.data]
    BY DEF PAInv, PAResult
  <1>3. \A m \in paHad : Blank \notin paSince[m]
    BY DEF PAInv, PALoaded
  <1>4. QED BY <1>1, <1>2, <1>3 DEF PA!AnswersAreSound

\* query.go:60, server.go:192, facts_test.go:47: for any number of workers, rewrites and
\* requests, an expression sees one version of the facts and one of the classes, the result
\* is of the time of the request too, and nothing is answered out of empty facts or classes
\* once there were some, because no step blanks those; a run summary may be blanked.
THEOREM AnswersStaySound == Spec => []AnswersAreSound
  <1>1. Init => PAInv
    BY PAInitially DEF Init
  <1>2. (focus = "puppetAnswer" => PAInv) /\ [Next]_vars => (focus = "puppetAnswer" => PAInv)'
    <2> SUFFICES ASSUME focus = "puppetAnswer" => PAInv, [Next]_vars, focus' = "puppetAnswer"
                 PROVE  PAInv'
      OBVIOUS
    <2>1. PAInv /\ (PA!AnswerNext \/ UNCHANGED paVars)
      BY OneMoves
    <2>2. UNCHANGED paVars => PAInv'
      BY <2>1 DEF paVars, PAInv, PAState, PAGot, PA!TypeOK, PATypes, PALooked, PAResult, PALoaded
    <2>3. QED BY <2>1, <2>2, PAListener, PAMeanwhile DEF PA!AnswerNext
  <1>3. (focus = "puppetAnswer" => PAInv) => AnswersAreSound
    BY PAIsSound DEF AnswersAreSound
  <1>4. QED BY <1>1, <1>2, <1>3, PTL DEF Spec

-----------------------------------------------------------------------------
(* ClusterBackend                                                          *)

\* A node that was told of is one that got to the request, and told of in one list.
CBLists ==
    /\ cbOut \in [matched : SUBSET cbNodes, noMatch : SUBSET cbNodes, errors : SUBSET cbNodes,
                  unknown : SUBSET cbNodes]
    /\ cbOut.unknown \subseteq cbOut.errors
    /\ (cbOut.matched \cup cbOut.noMatch \cup cbOut.errors) \cap cbWaiting = {}
    /\ cbOut.matched \cap cbOut.noMatch = {}
    /\ cbOut.matched \cap cbOut.errors = {}
    /\ cbOut.noMatch \cap cbOut.errors = {}

\* The lists say what the nodes' own evaluation said.
CBTruth ==
    /\ cbTruth \in [cbNodes -> CB!Values]
    /\ \A n \in cbOut.matched : cbTruth[n] = "true"
    /\ \A n \in cbOut.noMatch : cbTruth[n] = "false"
    /\ \A n \in cbOut.errors \ cbOut.unknown : cbTruth[n] \in {"value", "failure"}

\* A summary is of the request before, and there is none while one is under way.
CBSummary ==
    /\ cbMode \in {"idle", "query", "filter"}
    /\ cbSum.from \in {"none", "query", "filter"}
    /\ cbMode # "idle" => cbSum.from = "none"
    /\ cbMode = "query" \/ cbSum.from = "query" =>
           cbNodes \ cbWaiting \subseteq cbOut.matched \cup cbOut.noMatch \cup cbOut.errors
    /\ cbSum.from # "none" =>
           /\ cbSum.matched = Cardinality(cbOut.matched) /\ cbSum.errors = Cardinality(cbOut.errors)
           /\ cbSum.responded = Cardinality(cbOut.matched \cup cbOut.noMatch \cup cbOut.errors)

CBInv == CBLists /\ CBTruth /\ CBSummary

LEMMA CBInitially == CB!Init => CBInv
  BY DEF CB!Init, CB!NoOutcome, CB!NoSummary, CB!Values, CBInv, CBLists, CBTruth, CBSummary

\* What HandleEvent answers a query with, and a status that is asked of whom a filter selects.
LEMMA QueryIsAnswered ==
    ASSUME NEW n, NEW v \in CB!Values, NEW req, req.decodes, req.replyTo, req.filtered,
           Len(req.path) >= 2, req.cmd = "query"
    PROVE  CB!Counted(CB!HandleEvent(n, req, v)) =
               IF v = "true" THEN "matched" ELSE IF v = "false" THEN "noMatch" ELSE "errors"
  <1>1. CB!HandleEvent(n, req, v) = CB!HandleQuery(req, v)
    BY DEF CB!HandleEvent, CB!HandleCommand
  <1>2. CASE v \in {"failure", "value"}
    BY <1>1, <1>2 DEF CB!HandleQuery, CB!QueryAnswer, CB!Counted
  <1>3. CASE v = "true"
    BY <1>1, <1>3 DEF CB!HandleQuery, CB!QueryAnswer, CB!Counted
  <1>4. CASE v = "false"
    BY <1>1, <1>4 DEF CB!HandleQuery, CB!QueryAnswer, CB!Counted
  <1>5. QED BY <1>2, <1>3, <1>4 DEF CB!Values

LEMMA StatusIsFiltered ==
    ASSUME NEW n, NEW v \in CB!Values, NEW req, req.decodes, req.replyTo, req.filtered,
           Len(req.path) >= 2, req.cmd = "status"
    PROVE  CB!Counted(CB!HandleEvent(n, req, v)) =
               IF v = "true" THEN "matched"
               ELSE IF v = "false" THEN (IF req.answerAlways THEN "noMatch" ELSE "silent")
               ELSE "errors"
  <1>1. CB!HandleEvent(n, req, v) = CB!HandleCommand(n, req, v)
    BY DEF CB!HandleEvent
  <1>2. CASE v \in {"failure", "value"}
    <2>1. CB!HandleCommand(n, req, v) = CB!Answer("error")
      BY <1>2 DEF CB!HandleCommand, CB!ParseBool
    <2>2. QED BY <1>1, <1>2, <2>1 DEF CB!Answer, CB!Counted
  <1>3. CASE v = "true"
    <2>1. CB!HandleCommand(n, req, v) = CB!Answer("status")
      BY <1>3 DEF CB!HandleCommand, CB!ParseBool, CB!Execute
    <2>2. QED BY <1>1, <1>3, <2>1 DEF CB!Answer, CB!Counted
  <1>4. CASE v = "false" /\ req.answerAlways
    <2>1. CB!HandleCommand(n, req, v) = CB!Answer("noMatch")
      BY <1>4 DEF CB!HandleCommand, CB!ParseBool
    <2>2. QED BY <1>1, <1>4, <2>1 DEF CB!Answer, CB!Counted
  <1>5. CASE v = "false" /\ ~req.answerAlways
    <2>1. CB!HandleCommand(n, req, v) = CB!Silent
      BY <1>5 DEF CB!HandleCommand, CB!ParseBool
    <2>2. QED BY <1>1, <1>5, <2>1 DEF CB!Silent, CB!Counted
  <1>6. QED BY <1>2, <1>3, <1>4, <1>5 DEF CB!Values

\* What the client makes of the answer of a daemon of any age.
LEMMA AnswersTellTheTruth ==
    ASSUME NEW n \in cbNodes, cbTruth[n] \in CB!Values, cbMode \in {"query", "filter"}
    PROVE  \/ CB!Counted(CB!AnswerOf(n)) = "matched" /\ cbTruth[n] = "true"
           \/ CB!Counted(CB!AnswerOf(n)) = "noMatch" /\ cbTruth[n] = "false"
           \/ CB!Counted(CB!AnswerOf(n)) = "errors" /\ cbTruth[n] \in {"value", "failure"}
           \/ CB!Counted(CB!AnswerOf(n)) = "unknown"
           \/ CB!Counted(CB!AnswerOf(n)) = "silent" /\ cbMode # "query"
  <1> DEFINE old == [CB!Request EXCEPT !.answerAlways = FALSE]
             v == cbTruth[n]
  <1>1. /\ CB!Request.decodes /\ CB!Request.replyTo /\ CB!Request.filtered
        /\ Len(CB!Request.path) >= 2
        /\ CB!Request.cmd = IF cbMode = "query" THEN "query" ELSE "status"
    BY DEF CB!Request
  <1>2. /\ old.decodes /\ old.replyTo /\ old.filtered /\ Len(old.path) >= 2
        /\ old.cmd = IF cbMode = "query" THEN "query" ELSE "status"
    BY DEF CB!Request
  <1>3. CASE CB!AnswerOf(n) = CB!HandleEvent(n, CB!Request, v)
    <2>1. CB!Request.answerAlways <=> cbMode = "filter"
      BY DEF CB!Request
    <2> HIDE DEF v
    <2>2. QED BY <1>1, <1>3, <2>1, QueryIsAnswered, StatusIsFiltered DEF CB!Values, v
  <1>4. CASE CB!AnswerOf(n) = CB!Answer("unknown")
    BY <1>4 DEF CB!Answer, CB!Counted
  <1>5. CASE cbMode = "filter" /\ CB!AnswerOf(n) = CB!HandleEvent(n, old, v)
    <2> HIDE DEF v, old
    <2>1. QED BY <1>2, <1>5, StatusIsFiltered DEF CB!Values, v
  <1>6. QED BY <1>3, <1>4, <1>5 DEF CB!AnswerOf

\* A node that got to the request is in the list of what it answered, and only it is.
LEMMA CBReplyStep ==
    ASSUME CBInv, NEW n \in cbNodes, CB!Reply(n)
    PROVE  CBInv'
  <1> DEFINE c == CB!Counted(CB!AnswerOf(n))
             fresh == /\ n \notin cbOut.matched /\ n \notin cbOut.noMatch
                      /\ n \notin cbOut.errors /\ n \notin cbOut.unknown
             told(m, no, e, u) == cbOut' = [matched |-> m, noMatch |-> no, errors |-> e,
                                            unknown |-> u]
  <1>1. /\ cbMode \in {"query", "filter"} /\ cbWaiting' = cbWaiting \ {n} /\ n \in cbWaiting
        /\ UNCHANGED <<cbTruth, cbMode, cbSum>> /\ cbSum.from = "none"
    BY DEF CB!Reply, CBInv, CBSummary
  <1>2. fresh
    BY <1>1 DEF CBInv, CBLists
  <1>3. \/ c = "matched" /\ cbTruth[n] = "true"
        \/ c = "noMatch" /\ cbTruth[n] = "false"
        \/ c = "errors" /\ cbTruth[n] \in {"value", "failure"}
        \/ c = "unknown"
        \/ c = "silent" /\ cbMode # "query"
    BY <1>1, AnswersTellTheTruth DEF CBInv, CBTruth
  <1>4. \/ /\ c = "matched" /\ cbTruth[n] = "true"
           /\ told(cbOut.matched \cup {n}, cbOut.noMatch, cbOut.errors, cbOut.unknown)
        \/ /\ c = "noMatch" /\ cbTruth[n] = "false"
           /\ told(cbOut.matched, cbOut.noMatch \cup {n}, cbOut.errors, cbOut.unknown)
        \/ /\ c = "errors" /\ cbTruth[n] \in {"value", "failure"}
           /\ told(cbOut.matched, cbOut.noMatch, cbOut.errors \cup {n}, cbOut.unknown)
        \/ /\ c = "unknown"
           /\ told(cbOut.matched, cbOut.noMatch, cbOut.errors \cup {n}, cbOut.unknown \cup {n})
        \/ /\ c = "silent" /\ cbMode # "query"
           /\ told(cbOut.matched, cbOut.noMatch, cbOut.errors, cbOut.unknown)
    <2>1. cbOut \in [matched : SUBSET cbNodes, noMatch : SUBSET cbNodes,
                     errors : SUBSET cbNodes, unknown : SUBSET cbNodes]
      BY DEF CBInv, CBLists
    <2>2. cbOut' = CASE c = "silent" -> cbOut
                     [] c = "unknown" -> [cbOut EXCEPT !.errors = @ \cup {n}, !.unknown = @ \cup {n}]
                     [] OTHER -> [cbOut EXCEPT ![c] = @ \cup {n}]
      BY DEF CB!Reply
    <2> HIDE DEF c
    <2>3. QED BY <1>3, <2>1, <2>2
  <1>5. CBLists'
    BY <1>1, <1>2, <1>4 DEF CBInv, CBLists
  <1>6. CBTruth'
    BY <1>1, <1>2, <1>4 DEF CBInv, CBTruth
  <1>7. CBSummary'
    BY <1>1, <1>2, <1>4 DEF CBInv, CBSummary
  <1>8. QED BY <1>5, <1>6, <1>7 DEF CBInv

LEMMA CBStep ==
    ASSUME CBInv, CB!Next
    PROVE  CBInv'
  <1>1. CASE UNCHANGED <<cbTruth, cbMode, cbWaiting, cbOut, cbSum>>
    BY <1>1 DEF CBInv, CBLists, CBTruth, CBSummary
  <1>2. CASE CB!Eval
    BY <1>2 DEF CB!Eval, CB!NoOutcome, CB!NoSummary, CBInv, CBLists, CBTruth, CBSummary
  <1>3. CASE CB!Deadline
    <2>1. /\ cbSum'.from = cbMode /\ cbSum'.matched = Cardinality(cbOut.matched)
          /\ cbSum'.errors = Cardinality(cbOut.errors)
          /\ cbSum'.responded = Cardinality(cbOut.matched \cup cbOut.noMatch \cup cbOut.errors)
      BY <1>3, SameSize DEF CB!Deadline, CB!Summary
    <2>2. cbMode' = "idle" /\ UNCHANGED <<cbTruth, cbWaiting, cbOut>>
      BY <1>3 DEF CB!Deadline
    <2>3. CBSummary'
      BY <1>3, <2>1, <2>2 DEF CBInv, CBSummary, CB!Deadline
    <2>4. QED BY <2>2, <2>3 DEF CBInv, CBLists, CBTruth
  <1>4. ASSUME NEW n \in cbNodes, CB!Heartbeat(n) \/ CB!GoesStale(n) \/ CB!Upgrade(n)
        PROVE  UNCHANGED <<cbTruth, cbMode, cbWaiting, cbOut, cbSum>>
    BY <1>4 DEF CB!Heartbeat, CB!GoesStale, CB!Upgrade
  <1>5. QED BY <1>1, <1>2, <1>3, <1>4, CBReplyStep DEF CB!Next

\* The lists are disjoint, so what responded is what each of them counts.
LEMMA CBIsTrue == CBInv => CB!SummaryIsTrue
  <1> SUFFICES ASSUME CBInv PROVE CB!SummaryIsTrue
    OBVIOUS
  <1> DEFINE m == cbOut.matched
             no == cbOut.noMatch
             e == cbOut.errors
  <1>1. IsFiniteSet(cbNodes)
    <2>1. CB!IsFiniteSet(cbNodes)
      BY PartsAssumption DEF CB!FleetAssumption
    <2>2. QED BY <2>1 DEF CB!IsFiniteSet, IsFiniteSet
  <1>2. /\ m \subseteq cbNodes /\ no \subseteq cbNodes /\ e \subseteq cbNodes
        /\ m \cap no = {} /\ (m \cup no) \cap e = {}
    BY DEF CBInv, CBLists
  <1> HIDE DEF m, no, e
  <1>3. IsFiniteSet(m) /\ IsFiniteSet(no) /\ IsFiniteSet(e) /\ IsFiniteSet(m \cup no)
    BY <1>1, <1>2, FS_Subset
  <1>4. /\ Cardinality(m) \in Nat /\ Cardinality(no) \in Nat /\ Cardinality(e) \in Nat
        /\ Cardinality(m \cup no) \in Nat
    BY <1>3, FS_CardinalityType
  <1>5. Cardinality(m \cup no) = Cardinality(m) + Cardinality(no)
    <2>1. Cardinality(m \cup no) = Cardinality(m) + Cardinality(no) - Cardinality(m \cap no)
      BY <1>3, FS_Union
    <2>2. Cardinality(m \cap no) = 0
      BY <1>2, FS_EmptySet
    <2>3. QED BY <1>4, <2>1, <2>2
  <1>6. Cardinality(m \cup no \cup e) = Cardinality(m \cup no) + Cardinality(e)
    <2>1. Cardinality(m \cup no \cup e)
              = Cardinality(m \cup no) + Cardinality(e) - Cardinality((m \cup no) \cap e)
      BY <1>3, FS_Union
    <2>2. Cardinality((m \cup no) \cap e) = 0
      BY <1>2, FS_EmptySet
    <2>3. QED BY <1>4, <2>1, <2>2
  <1>7. Cardinality(m \cup no \cup e) = Cardinality(m) + Cardinality(e) + Cardinality(no)
    BY <1>4, <1>5, <1>6
  <1>8. cbSum.from # "none" =>
            cbSum.responded = cbSum.matched + cbSum.errors + CB!Cardinality(cbOut.noMatch)
    BY <1>7, SameSize DEF CBInv, CBSummary, m, no, e
  <1>9. QED BY <1>8 DEF CBInv, CBTruth, CBSummary, CB!SummaryIsTrue

\* eval_cluster.go:60: whatever the number of nodes and the ages of their daemons, upgraded
\* while they are asked or not, what a summary counts is what the nodes evaluated, no node is
\* counted twice, and of those that got to a query none is missing.
THEOREM SummariesAreTrue == Spec => []SummaryIsTrue
  <1>1. Init => CBInv
    BY CBInitially DEF Init
  <1>2. (focus = "clusterBackend" => CBInv) /\ [Next]_vars => (focus = "clusterBackend" => CBInv)'
    <2> SUFFICES ASSUME focus = "clusterBackend" => CBInv, [Next]_vars, focus' = "clusterBackend"
                 PROVE  CBInv'
      OBVIOUS
    <2>1. CBInv /\ (CB!Next \/ UNCHANGED cbVars)
      BY OneMoves
    <2>2. UNCHANGED cbVars => CBInv'
      BY <2>1 DEF cbVars, CBInv, CBLists, CBTruth, CBSummary
    <2>3. QED BY <2>1, <2>2, CBStep
  <1>3. (focus = "clusterBackend" => CBInv) => SummaryIsTrue
    BY CBIsTrue DEF SummaryIsTrue
  <1>4. QED BY <1>1, <1>2, <1>3, PTL DEF Spec

-----------------------------------------------------------------------------
(* ReplOutput                                                              *)

ROShape ==
    /\ roFormat \in RO!Formats /\ roVerbose \in BOOLEAN /\ roStream \in BOOLEAN
    /\ roAsking \in BOOLEAN
    /\ roResults \in Seq(RO!Result) /\ roListed \in Seq(RO!Result)
    /\ roStreamed \in Nat /\ roSuppressed \in Nat

\* A table is headed once its header is noted.
ROSheets ==
    /\ DOMAIN roSheet = RO!Tables
    /\ \A t \in RO!Tables : roSheet[t] # "broken" /\ (t \in roCsvHeader <=> roSheet[t] = "headed")

ROFinite ==
    /\ IsFiniteSet(RO!ToSet(roResults)) /\ IsFiniteSet(RO!ToSet(roListed))
    /\ RO!ToSet(roListed) \subseteq RO!ToSet(roResults)

\* What the sink keeps true until the end of the query is printed.
ROStreams ==
    /\ Len(roListed) = roStreamed
    /\ roVerbose => roSuppressed = 0 /\ RO!ListedAs("unmatched") = RO!Are("unmatched")
    /\ ~roVerbose => roStreamed <= roStreamLimit /\ RO!ListedAs("unmatched") = {}
    /\ Cardinality(RO!ListedAs("matched")) + roSuppressed = Cardinality(RO!Are("matched"))

ROAsking == roAsking =>
    /\ roPage = RO!NoPage
    /\ IF roFormat = "human" /\ roStream THEN ROStreams ELSE roListed = <<>>

ROInv == ROShape /\ ROSheets /\ ROFinite /\ ROAsking /\ RO!OutputAddsUp

LEMMA NothingInEmpty == RO!ToSet(<<>>) = {}
  BY EmptySeq DEF RO!ToSet

LEMMA OneMoreInAppend ==
    ASSUME NEW S, NEW s \in Seq(S), NEW r \in S
    PROVE  RO!ToSet(Append(s, r)) = RO!ToSet(s) \cup {r}
  <1>1. /\ Append(s, r) \in Seq(S) /\ Len(Append(s, r)) = Len(s) + 1
        /\ Append(s, r)[Len(s) + 1] = r /\ \A i \in 1..Len(s) : Append(s, r)[i] = s[i]
    BY AppendProperties
  <1>2. DOMAIN s = 1..Len(s) /\ DOMAIN Append(s, r) = 1..(Len(s) + 1) /\ Len(s) \in Nat
    BY <1>1, LenProperties
  <1>3. 1..(Len(s) + 1) = 1..Len(s) \cup {Len(s) + 1}
    BY <1>2
  <1>4. QED BY <1>1, <1>2, <1>3 DEF RO!ToSet

\* A page that is not printed adds up.
LEMMA NoPageAddsUp == ROSheets /\ roPage.kind = "none" => RO!OutputAddsUp
  BY DEF RO!OutputAddsUp, ROSheets

\* collapseErrors has each node that failed, under its own message.
LEMMA ErrorsAreCollapsed ==
    ASSUME ROShape, NEW e \in roErrorTexts
    PROVE  RO!Are(e) = UNION {{[node |-> n, is |-> g.text] : n \in g.nodes} :
                                 g \in {h \in RO!CollapseErrors : h.text = e}}
  <1> DEFINE failed == {j \in DOMAIN roResults : roResults[j].is = e}
             line == [text |-> e, nodes |-> {roResults[i].node : i \in failed}]
  <1>1. \A i \in DOMAIN roResults :
            roResults[i] = [node |-> roResults[i].node, is |-> roResults[i].is]
    <2>1. \A i \in DOMAIN roResults : roResults[i] \in RO!Result
      BY DEF ROShape
    <2>2. QED BY <2>1 DEF RO!Result
  <1>2. RO!Are(e) = {roResults[i] : i \in failed}
    BY DEF RO!Are, RO!ToSet
  <1>3. line.text = e /\ line.nodes = {roResults[i].node : i \in failed}
    OBVIOUS
  <1>4. \A h \in RO!CollapseErrors : h.text = e => h = line
    BY DEF RO!CollapseErrors
  <1>5. CASE failed = {}
    <2>1. \A h \in RO!CollapseErrors : h.text # e
      <3> SUFFICES ASSUME NEW f \in roErrorTexts \cap {roResults[i].is : i \in DOMAIN roResults}
                   PROVE  f # e
        BY DEF RO!CollapseErrors
      <3>1. QED BY <1>5
    <2>2. QED BY <1>2, <1>5, <2>1
  <1>6. CASE failed # {}
    <2>1. line \in RO!CollapseErrors
      <3>1. e \in roErrorTexts \cap {roResults[i].is : i \in DOMAIN roResults}
        BY <1>6
      <3>2. QED BY <3>1 DEF RO!CollapseErrors
    <2>2. {h \in RO!CollapseErrors : h.text = e} = {line}
      BY <1>3, <1>4, <2>1
    <2>3. UNION {{[node |-> n, is |-> g.text] : n \in g.nodes} : g \in {line}}
              = {[node |-> n, is |-> e] : n \in {roResults[i].node : i \in failed}}
      <3> HIDE DEF line
      <3>1. {{[node |-> n, is |-> g.text] : n \in g.nodes} : g \in {line}}
                = {{[node |-> n, is |-> line.text] : n \in line.nodes}}
        OBVIOUS
      <3>2. \A S : UNION {S} = S
        OBVIOUS
      <3>3. QED BY <1>3, <3>1, <3>2
    <2>4. {[node |-> n, is |-> e] : n \in {roResults[i].node : i \in failed}}
              = {roResults[i] : i \in failed}
      BY <1>1
    <2>5. QED BY <1>2, <2>2, <2>3, <2>4
  <1>7. QED BY <1>5, <1>6

LEMMA ROInitially == RO!Init => ROInv
  <1> SUFFICES ASSUME RO!Init PROVE ROInv
    OBVIOUS
  <1>1. ROShape /\ ROAsking
    BY EmptySeq DEF RO!Init, ROShape, ROAsking
  <1>2. ROSheets
    BY DEF RO!Init, ROSheets
  <1>3. ROFinite
    BY NothingInEmpty, FS_EmptySet DEF RO!Init, ROFinite
  <1>4. roPage.kind = "none"
    BY DEF RO!Init, RO!NoPage
  <1>5. QED BY <1>1, <1>2, <1>3, <1>4, NoPageAddsUp DEF ROInv

\* The header and the rows of a table.
LEMMA ROTableStep ==
    ASSUME ROSheets, NEW t \in RO!Tables, RO!WriteTable(t)
    PROVE  ROSheets'
  BY DEF RO!WriteTable, ROSheets

\* Between queries nothing touches what the last one left.
LEMMA ROMetaStep ==
    ASSUME ROInv,
           \/ \E f \in RO!Formats : RO!MetaOut(f)
           \/ RO!MetaVerbose \/ RO!SetBackend \/ \E t \in {"fact", "class"} : RO!Show(t)
    PROVE  ROInv'
  <1>1. /\ UNCHANGED <<roAsking, roResults, roStreamed, roSuppressed, roListed, roPage>>
        /\ ~roAsking
    BY DEF RO!MetaOut, RO!MetaVerbose, RO!SetBackend, RO!Show, RO!ReadLine, RO!query
  <1>2. ROShape'
    BY <1>1 DEF RO!MetaOut, RO!MetaVerbose, RO!SetBackend, RO!Show, RO!settings, ROInv, ROShape
  <1>3. ROSheets'
    <2>1. CASE \E f \in RO!Formats : RO!MetaOut(f)
      BY <2>1 DEF RO!MetaOut, ROSheets
    <2>2. CASE RO!MetaVerbose \/ RO!SetBackend
      BY <2>2 DEF RO!MetaVerbose, RO!SetBackend, ROInv, ROSheets
    <2>3. ASSUME NEW t \in {"fact", "class"}, RO!Show(t)
          PROVE  ROSheets'
      <3>1. CASE RO!WriteTable(t)
        BY <3>1, ROTableStep DEF ROInv, RO!Tables
      <3>2. CASE UNCHANGED <<roCsvHeader, roSheet>>
        BY <3>2 DEF ROInv, ROSheets
      <3>3. QED BY <2>3, <3>1, <3>2 DEF RO!Show
    <2>4. QED BY <2>1, <2>2, <2>3
  <1>4. ROFinite' /\ ROAsking'
    BY <1>1 DEF ROInv, ROFinite, ROAsking
  <1>5. RO!OutputAddsUp'
    BY <1>1, <1>3 DEF ROInv, ROSheets, RO!OutputAddsUp, RO!Are, RO!ListedAs
  <1>6. QED BY <1>2, <1>3, <1>4, <1>5 DEF ROInv

\* runQuery: the counters start over.
LEMMA ROQueryStep ==
    ASSUME ROInv, RO!RunQuery
    PROVE  ROInv'
  <1>1. /\ roAsking' = TRUE /\ roResults' = <<>> /\ roListed' = <<>> /\ roPage' = RO!NoPage
        /\ roStreamed' = 0 /\ roSuppressed' = 0
        /\ UNCHANGED <<roFormat, roVerbose, roStream, roCsvHeader, roSheet>>
    BY DEF RO!RunQuery, RO!settings
  <1>2. ROShape' /\ ROSheets'
    BY <1>1, EmptySeq DEF ROInv, ROShape, ROSheets
  <1>3. ROFinite'
    BY <1>1, NothingInEmpty, FS_EmptySet DEF ROFinite
  <1>4. ROAsking'
    <2>1. /\ RO!Are("matched")' = {} /\ RO!ListedAs("matched")' = {}
          /\ RO!Are("unmatched")' = {} /\ RO!ListedAs("unmatched")' = {}
      BY <1>1, NothingInEmpty DEF RO!Are, RO!ListedAs
    <2>2. Len(roListed') = 0 /\ roStreamLimit \in Nat
      BY <1>1, EmptySeq, PartsAssumption DEF RO!LimitAssumption
    <2>3. ROStreams'
      <3>1. Cardinality({}) + 0 = Cardinality({})
        BY FS_EmptySet
      <3>2. Len(roListed') = roStreamed' /\ roStreamed' <= roStreamLimit /\ roSuppressed' = 0
        BY <1>1, <2>2
      <3>3. QED BY <2>1, <3>1, <3>2 DEF ROStreams
    <2>4. QED BY <1>1, <2>3 DEF ROAsking
  <1>5. RO!OutputAddsUp'
    <2>1. roPage'.kind = "none"
      BY <1>1 DEF RO!NoPage
    <2>2. QED BY <1>2, <2>1 DEF ROSheets, RO!OutputAddsUp
  <1>6. QED BY <1>2, <1>3, <1>4, <1>5 DEF ROInv

\* streamResult: a new result is listed, counted as not listed, or not for the list.
LEMMA ROSinkStep ==
    ASSUME ROInv, NEW r \in RO!Result, RO!Sink(r)
    PROVE  ROInv'
  <1>1. /\ roAsking /\ roAsking' = roAsking /\ roPage' = roPage
        /\ roResults' = Append(roResults, r) /\ RO!StreamResult(r)
        /\ UNCHANGED <<roFormat, roVerbose, roStream, roCsvHeader, roSheet>>
    BY DEF RO!Sink, RO!settings
  <1>2. /\ roResults \in Seq(RO!Result) /\ roListed \in Seq(RO!Result)
        /\ roStreamed \in Nat /\ roSuppressed \in Nat /\ roVerbose \in BOOLEAN
        /\ roStreamLimit \in Nat
    BY PartsAssumption DEF ROInv, ROShape, RO!LimitAssumption
  <1>3. r \notin RO!ToSet(roResults)
    <2>1. r.node \notin {roResults[i].node : i \in DOMAIN roResults}
      BY DEF RO!Sink
    <2>2. QED BY <2>1 DEF RO!ToSet
  <1>4. roResults' \in Seq(RO!Result) /\ RO!ToSet(roResults') = RO!ToSet(roResults) \cup {r}
    BY <1>1, <1>2, AppendProperties, OneMoreInAppend
  <1>5. /\ roListed' \in Seq(RO!Result) /\ roStreamed' \in Nat /\ roSuppressed' \in Nat
        /\ RO!ToSet(roListed') \in {RO!ToSet(roListed), RO!ToSet(roListed) \cup {r}}
    <2>1. /\ Append(roListed, r) \in Seq(RO!Result)
          /\ RO!ToSet(Append(roListed, r)) = RO!ToSet(roListed) \cup {r}
      BY <1>2, AppendProperties, OneMoreInAppend
    <2>2. QED BY <1>1, <1>2, <2>1 DEF RO!StreamResult
  <1>6. ROShape' /\ ROSheets'
    BY <1>1, <1>4, <1>5 DEF ROInv, ROShape, ROSheets
  <1>7. ROFinite'
    <2>1. IsFiniteSet(RO!ToSet(roResults) \cup {r}) /\ IsFiniteSet(RO!ToSet(roListed) \cup {r})
      BY FS_AddElement DEF ROInv, ROFinite
    <2>2. QED BY <1>4, <1>5, <2>1 DEF ROInv, ROFinite
  <1>8. roPage = RO!NoPage
    BY <1>1 DEF ROInv, ROAsking
  <1>9. RO!OutputAddsUp'
    <2>1. roPage'.kind = "none"
      BY <1>1, <1>8 DEF RO!NoPage
    <2>2. QED BY <1>6, <2>1 DEF ROSheets, RO!OutputAddsUp
  <1>10. CASE ~(roFormat = "human" /\ roStream)
    <2>1. roListed = <<>>
      BY <1>1, <1>10 DEF ROInv, ROAsking
    <2>2. roListed' = roListed
      BY <1>1, <1>10 DEF RO!StreamResult, RO!Listable
    <2>3. ROAsking'
      BY <1>1, <1>8, <1>10, <2>1, <2>2 DEF ROAsking
    <2>4. QED BY <1>6, <1>7, <1>9, <2>3 DEF ROInv
  <1>11. CASE roFormat = "human" /\ roStream
    <2>1. ROStreams
      BY <1>1, <1>11 DEF ROInv, ROAsking
    <2>2. /\ RO!Are("matched")' = IF r.is = "matched" THEN RO!Are("matched") \cup {r}
                                                     ELSE RO!Are("matched")
          /\ RO!Are("unmatched")' = IF r.is = "unmatched" THEN RO!Are("unmatched") \cup {r}
                                                         ELSE RO!Are("unmatched")
          /\ r \notin RO!Are("matched") /\ r \notin RO!ListedAs("matched")
      BY <1>3, <1>4 DEF RO!Are, RO!ListedAs, ROInv, ROFinite
    <2>3. IsFiniteSet(RO!Are("matched")) /\ IsFiniteSet(RO!ListedAs("matched"))
      <3>1. RO!Are("matched") \subseteq RO!ToSet(roResults)
            /\ RO!ListedAs("matched") \subseteq RO!ToSet(roListed)
        BY DEF RO!Are, RO!ListedAs
      <3>2. QED BY <3>1, FS_Subset DEF ROInv, ROFinite
    <2>4. /\ Cardinality(RO!Are("matched")) \in Nat /\ Cardinality(RO!ListedAs("matched")) \in Nat
          /\ Cardinality(RO!Are("matched") \cup {r}) = Cardinality(RO!Are("matched")) + 1
          /\ Cardinality(RO!ListedAs("matched") \cup {r}) = Cardinality(RO!ListedAs("matched")) + 1
      BY <2>2, <2>3, FS_CardinalityType, FS_AddElement
    <2>5. CASE RO!Listable(r) /\ ~RO!Full
      <3>1. /\ roListed' = Append(roListed, r) /\ roStreamed' = roStreamed + 1
            /\ roSuppressed' = roSuppressed
        BY <1>1, <2>5 DEF RO!StreamResult
      <3>2. /\ RO!ListedAs("matched")' = IF r.is = "matched" THEN RO!ListedAs("matched") \cup {r}
                                                            ELSE RO!ListedAs("matched")
            /\ RO!ListedAs("unmatched")' = IF r.is = "unmatched"
                                           THEN RO!ListedAs("unmatched") \cup {r}
                                           ELSE RO!ListedAs("unmatched")
        BY <1>2, <3>1, OneMoreInAppend DEF RO!ListedAs
      <3>3. r.is = "matched" \/ (roVerbose /\ r.is = "unmatched")
        BY <2>5 DEF RO!Listable
      <3>4. Len(roListed') = roStreamed'
        BY <1>2, <2>1, <3>1, AppendProperties DEF ROStreams
      <3>5. ~roVerbose => roStreamed' <= roStreamLimit
        BY <1>2, <2>5, <3>1 DEF RO!Full
      <3>6. Cardinality(RO!ListedAs("matched")') + roSuppressed' = Cardinality(RO!Are("matched")')
        <4>1. CASE r.is = "matched"
          <5>1. /\ RO!ListedAs("matched")' = RO!ListedAs("matched") \cup {r}
                /\ RO!Are("matched")' = RO!Are("matched") \cup {r}
            BY <2>2, <3>2, <4>1
          <5>2. Cardinality(RO!ListedAs("matched")) + roSuppressed = Cardinality(RO!Are("matched"))
            BY <2>1 DEF ROStreams
          <5>3. \A l, s, a \in Nat : l + s = a => (l + 1) + s = a + 1
            OBVIOUS
          <5>4. (Cardinality(RO!ListedAs("matched")) + 1) + roSuppressed
                    = Cardinality(RO!Are("matched")) + 1
            <6>1. PICK l, u, a : /\ l = Cardinality(RO!ListedAs("matched")) /\ u = roSuppressed
                                 /\ a = Cardinality(RO!Are("matched"))
              OBVIOUS
            <6>2. l \in Nat /\ u \in Nat /\ a \in Nat
              BY <1>2, <2>4, <6>1, Zenon
            <6>3. l + u = a
              BY <5>2, <6>1
            <6>4. (l + 1) + u = a + 1
              BY <5>3, <6>2, <6>3
            <6>5. QED BY <6>1, <6>4
          <5>5. QED BY <2>4, <3>1, <5>1, <5>4, Zenon
        <4>2. CASE r.is # "matched"
          BY <2>1, <2>2, <3>1, <3>2, <4>2 DEF ROStreams
        <4>3. QED BY <4>1, <4>2
      <3>7. roVerbose => roSuppressed' = 0 /\ RO!ListedAs("unmatched")' = RO!Are("unmatched")'
        BY <2>1, <2>2, <3>1, <3>2 DEF ROStreams
      <3>8. ~roVerbose => RO!ListedAs("unmatched")' = {}
        BY <2>1, <3>2, <3>3 DEF ROStreams
      <3>9. QED BY <1>1, <3>4, <3>5, <3>6, <3>7, <3>8, <1>6, <1>7, <1>8, <1>9, <1>11
                DEF ROInv, ROAsking, ROStreams
    <2>6. CASE ~(RO!Listable(r) /\ ~RO!Full)
      <3>1. /\ roListed' = roListed /\ roStreamed' = roStreamed
            /\ roSuppressed' = IF RO!Listable(r) THEN roSuppressed + 1 ELSE roSuppressed
        BY <1>1, <2>6 DEF RO!StreamResult
      <3>2. /\ RO!ListedAs("matched")' = RO!ListedAs("matched")
            /\ RO!ListedAs("unmatched")' = RO!ListedAs("unmatched")
        BY <3>1 DEF RO!ListedAs
      <3>3. roVerbose => ~RO!Listable(r)
        BY <2>6 DEF RO!Full
      <3>4. RO!Listable(r) <=> r.is = "matched" \/ (roVerbose /\ r.is = "unmatched")
        BY <1>11 DEF RO!Listable
      <3>5. Cardinality(RO!ListedAs("matched")') + roSuppressed' = Cardinality(RO!Are("matched")')
        <4>1. CASE r.is = "matched"
          <5>1. /\ RO!ListedAs("matched")' = RO!ListedAs("matched")
                /\ RO!Are("matched")' = RO!Are("matched") \cup {r}
                /\ roSuppressed' = roSuppressed + 1
            BY <2>2, <3>1, <3>2, <3>4, <4>1
          <5>2. Cardinality(RO!ListedAs("matched")) + roSuppressed = Cardinality(RO!Are("matched"))
            BY <2>1 DEF ROStreams
          <5>3. \A l, s, a \in Nat : l + s = a => l + (s + 1) = a + 1
            OBVIOUS
          <5>4. Cardinality(RO!ListedAs("matched")) + (roSuppressed + 1)
                    = Cardinality(RO!Are("matched")) + 1
            BY <1>2, <2>4, <5>2, <5>3
          <5>5. QED BY <2>4, <5>1, <5>4, Zenon
        <4>2. CASE r.is # "matched"
          <5>1. ~RO!Listable(r)
            BY <3>3, <3>4, <4>2
          <5>2. QED BY <2>1, <2>2, <3>1, <3>2, <4>2, <5>1 DEF ROStreams
        <4>3. QED BY <4>1, <4>2
      <3>6. roVerbose => roSuppressed' = 0 /\ RO!ListedAs("unmatched")' = RO!Are("unmatched")'
        BY <2>1, <2>2, <3>1, <3>2, <3>3, <3>4 DEF ROStreams
      <3>7. QED BY <1>1, <2>1, <3>1, <3>2, <3>5, <3>6, <1>6, <1>7, <1>8, <1>9, <1>11
                DEF ROInv, ROAsking, ROStreams
    <2>7. QED BY <2>5, <2>6
  <1>12. QED BY <1>10, <1>11

\* printQuery: what was streamed, what was not, and the errors make up the results.
LEMMA ROPrintStep ==
    ASSUME ROInv, RO!PrintQuery
    PROVE  ROInv'
  <1>1. /\ roAsking /\ roAsking' = FALSE
        /\ UNCHANGED <<roFormat, roVerbose, roStream, roResults, roStreamed, roSuppressed, roListed>>
    BY DEF RO!PrintQuery, RO!settings
  <1>2. ROShape' /\ ROFinite' /\ ROAsking'
    BY <1>1 DEF ROInv, ROShape, ROFinite, ROAsking
  <1>3. ROSheets'
    <2>1. CASE RO!WriteTable("query")
      BY <2>1, ROTableStep DEF ROInv, RO!Tables
    <2>2. CASE UNCHANGED <<roCsvHeader, roSheet>>
      BY <2>2 DEF ROInv, ROSheets
    <2>3. QED BY <2>1, <2>2 DEF RO!PrintQuery
  <1>4. \A is : RO!Are(is)' = RO!Are(is) /\ RO!ListedAs(is)' = RO!ListedAs(is)
    BY <1>1 DEF RO!Are, RO!ListedAs
  <1>5. CASE roFormat = "human"
    <2>1. /\ roPage'.kind = IF roStream THEN "human" ELSE "value"
          /\ roPage'.verbose = roVerbose /\ roPage'.errors = RO!CollapseErrors
          /\ roPage'.more = roSuppressed
      BY <1>5 DEF RO!PrintQuery, RO!PrintHuman, RO!NoPage
    <2>2. \A e \in roErrorTexts : RO!Are(e) =
              UNION {{[node |-> n, is |-> g.text] : n \in g.nodes} :
                         g \in {h \in roPage'.errors : h.text = e}}
      BY <2>1, ErrorsAreCollapsed DEF ROInv
    <2>3. roPage'.kind = "human" =>
              /\ Cardinality(RO!ListedAs("matched")) + roPage'.more = Cardinality(RO!Are("matched"))
              /\ roPage'.verbose =>
                     roPage'.more = 0 /\ RO!ListedAs("unmatched") = RO!Are("unmatched")
              /\ ~roPage'.verbose => Len(roListed) <= roStreamLimit /\ RO!ListedAs("unmatched") = {}
      <3>1. roPage'.kind = "human" => ROStreams
        BY <1>1, <1>5, <2>1 DEF ROInv, ROAsking
      <3>2. QED BY <2>1, <3>1 DEF ROStreams
    <2>4. roPage'.kind \notin {"csv", "json"}
      BY <2>1
    <2>5. RO!OutputAddsUp'
      BY <1>1, <1>3, <1>4, <2>2, <2>3, <2>4, SameSize DEF RO!OutputAddsUp, ROSheets
    <2>6. QED BY <1>2, <1>3, <2>5 DEF ROInv
  <1>6. CASE roFormat # "human"
    <2>1. roPage'.kind \in {"csv", "json"} /\ roPage'.rows = roResults
      BY <1>6 DEF RO!PrintQuery, RO!PrintRows, RO!NoPage, ROInv, ROShape, RO!Formats
    <2>2. roListed = <<>>
      BY <1>1, <1>6 DEF ROInv, ROAsking
    <2>3. RO!OutputAddsUp'
      BY <1>1, <1>3, <2>1, <2>2 DEF RO!OutputAddsUp, ROSheets
    <2>4. QED BY <1>2, <1>3, <2>3 DEF ROInv
  <1>7. QED BY <1>5, <1>6

LEMMA ROFailStep ==
    ASSUME ROInv, RO!EvalFails
    PROVE  ROInv'
  BY DEF RO!EvalFails, RO!settings, ROInv, ROShape, ROSheets, ROFinite, ROAsking, RO!OutputAddsUp,
         RO!Are, RO!ListedAs

\* session.go:29-31 and format.go: over any number of nodes and lines, with any limit and whatever
\* is switched between queries, the output accounts for every result once and heads every table.
THEOREM OutputStaysWhole == Spec => []OutputAddsUp
  <1>1. Init => ROInv
    BY ROInitially DEF Init
  <1>2. (focus = "replOutput" => ROInv) /\ [Next]_vars => (focus = "replOutput" => ROInv)'
    <2> SUFFICES ASSUME focus = "replOutput" => ROInv, [Next]_vars, focus' = "replOutput"
                 PROVE  ROInv'
      OBVIOUS
    <2>1. ROInv /\ (RO!Next \/ UNCHANGED roVars)
      BY OneMoves
    <2>2. UNCHANGED roVars => ROInv'
      BY <2>1 DEF roVars, ROInv, ROShape, ROSheets, ROFinite, ROAsking, ROStreams,
                  RO!OutputAddsUp, RO!Are, RO!ListedAs
    <2>3. RO!Next => ROInv'
      BY <2>1, ROMetaStep, ROQueryStep, ROSinkStep, ROPrintStep, ROFailStep DEF RO!Next
    <2>4. QED BY <2>1, <2>2, <2>3
  <1>3. (focus = "replOutput" => ROInv) => OutputAddsUp
    BY DEF OutputAddsUp, ROInv
  <1>4. QED BY <1>1, <1>2, <1>3, PTL DEF Spec
-----------------------------------------------------------------------------
(* Completion                                                              *)

\* Induction on the natural numbers, over a set and not a formula.
LEMMA NatSet ==
    ASSUME NEW S, 0 \in S, \A n \in Nat : n \in S => n + 1 \in S
    PROVE  \A n \in Nat : n \in S
  <1> DEFINE T == {n \in Nat : n \notin S}
  <1>1. SUFFICES ASSUME T # {} PROVE FALSE
    OBVIOUS
  <1>2. PICK m \in T : \A k \in T : ~ (<<k, m>> \in OpToRel(<, Nat))
    <2>1. T \subseteq Nat
      OBVIOUS
    <2> HIDE DEF T
    <2>2. QED BY <1>1, <2>1, NatLessThanWellFounded, WFMin, Zenon
  <1>3. m \in Nat /\ m # 0 /\ m - 1 \in Nat /\ m - 1 < m /\ (m - 1) + 1 = m
    OBVIOUS
  <1>4. m - 1 \notin T
    <2>1. <<m - 1, m>> \in OpToRel(<, Nat)
      BY <1>3, Zenon DEF OpToRel
    <2>2. QED BY <1>2, <2>1, Zenon
  <1>5. m \in S
    BY <1>3, <1>4
  <1>6. QED BY <1>5


\* One step of a walk down the facts: of the repl, or of a query.
WalkStep(who, at, key) == IF who = "repl" THEN CO!FactStep(at, key) ELSE CO!TraverseStep(at, key)

IsWalk(who, path, hash, n, root) ==
    root = [i \in 0..n |-> IF i = 0 THEN hash ELSE WalkStep(who, root[i - 1], path[i])]

\* The recursion of a walk has a solution, so the function defined by it satisfies it.
LEMMA WalkExists ==
    ASSUME NEW S, NEW path \in Seq(S), NEW hash, NEW who
    PROVE  \E root : IsWalk(who, path, hash, Len(path), root)
  <1> DEFINE L == Len(path)
             D == {n \in Nat : \E f : IsWalk(who, path, hash, n, f)}
  <1>1. 0 \in D
    <2>1. IsWalk(who, path, hash, 0, [i \in 0..0 |-> hash])
      BY DEF IsWalk
    <2>2. QED BY <2>1
  <1>2. ASSUME NEW k \in Nat, k \in D PROVE k + 1 \in D
    <2>1. PICK f : IsWalk(who, path, hash, k, f)
      BY <1>2
    <2> DEFINE g == [i \in 0..(k + 1) |->
                        IF i = k + 1 THEN WalkStep(who, f[k], path[k + 1]) ELSE f[i]]
               h == [i \in 0..(k + 1) |->
                        IF i = 0 THEN hash ELSE WalkStep(who, g[i - 1], path[i])]
    <2>2. ASSUME NEW i \in 0..(k + 1) PROVE g[i] = h[i]
      <3>1. CASE i = 0
        BY <2>1, <3>1 DEF IsWalk
      <3>2. CASE i = k + 1
        <4>1. i - 1 = k /\ i - 1 \in 0..(k + 1) /\ k # k + 1 /\ i # 0
          BY <3>2
        <4>2. g[i - 1] = f[k]
          BY <4>1
        <4>3. QED BY <3>2, <4>1, <4>2
      <3>3. CASE i # 0 /\ i # k + 1
        <4>1. i \in 0..k /\ i - 1 \in 0..(k + 1) /\ i - 1 # k + 1
          BY <3>3
        <4>2. g[i] = f[i] /\ g[i - 1] = f[i - 1]
          BY <4>1
        <4>3. f[i] = WalkStep(who, f[i - 1], path[i])
          <5> HIDE DEF g, h
          <5>1. QED BY <2>1, <3>3, <4>1 DEF IsWalk
        <4>4. QED BY <3>3, <4>2, <4>3
      <3>4. QED BY <3>1, <3>2, <3>3
    <2>3. g = h
      BY <2>2
    <2>4. IsWalk(who, path, hash, k + 1, g)
      BY <2>3 DEF IsWalk
    <2> HIDE DEF g, h
    <2>5. k + 1 \in Nat
      OBVIOUS
    <2>6. QED BY <2>4, <2>5, Zenon
  <1>3. L \in Nat
    BY LenProperties
  <1>4. L \in D
    <2> HIDE DEF D
    <2>1. QED BY <1>1, <1>2, <1>3, NatSet
  <1>5. QED BY <1>4

\* What the two walks are at the end of a path, step by step.
LEMMA Walks ==
    ASSUME NEW S, NEW path \in Seq(S)
    PROVE  \E query, repl :
               /\ query[0] = coFacts /\ repl[0] = coFacts
               /\ \A i \in 1..Len(path) : /\ query[i] = CO!TraverseStep(query[i - 1], path[i])
                                         /\ repl[i] = CO!FactStep(repl[i - 1], path[i])
               /\ CO!TraverseHash(path, coFacts) = query[Len(path)]
               /\ CO!FactPath(path) = repl[Len(path)]
  <1> DEFINE L == Len(path)
             q == CHOOSE root : root = [i \in 0..L |->
                      IF i = 0 THEN coFacts ELSE CO!TraverseStep(root[i - 1], path[i])]
             r == CHOOSE current : current = [i \in 0..L |->
                      IF i = 0 THEN coFacts ELSE CO!FactStep(current[i - 1], path[i])]
  <1>1. L \in Nat
    BY LenProperties
  <1>2. q = [i \in 0..L |-> IF i = 0 THEN coFacts ELSE CO!TraverseStep(q[i - 1], path[i])]
    <2>1. \E root : root = [i \in 0..L |->
                       IF i = 0 THEN coFacts ELSE WalkStep("query", root[i - 1], path[i])]
      <3>1. PICK f : f = coFacts
        OBVIOUS
      <3>2. \E root : IsWalk("query", path, f, Len(path), root)
        BY WalkExists
      <3>3. QED BY <3>1, <3>2 DEF IsWalk
    <2>2. QED BY <2>1, Zenon DEF WalkStep
  <1>3. r = [i \in 0..L |-> IF i = 0 THEN coFacts ELSE CO!FactStep(r[i - 1], path[i])]
    <2>1. \E root : root = [i \in 0..L |->
                       IF i = 0 THEN coFacts ELSE WalkStep("repl", root[i - 1], path[i])]
      <3>1. PICK f : f = coFacts
        OBVIOUS
      <3>2. \E root : IsWalk("repl", path, f, Len(path), root)
        BY WalkExists
      <3>3. QED BY <3>1, <3>2 DEF IsWalk
    <2>2. QED BY <2>1, Zenon DEF WalkStep
  <1>4. CO!TraverseHash(path, coFacts) = q[L] /\ CO!FactPath(path) = r[L]
    BY DEF CO!TraverseHash, CO!FactPath
  <1> HIDE DEF q, r
  <1>5. \A i \in 0..L : /\ q[i] = IF i = 0 THEN coFacts ELSE CO!TraverseStep(q[i - 1], path[i])
                        /\ r[i] = IF i = 0 THEN coFacts ELSE CO!FactStep(r[i - 1], path[i])
    BY <1>2, <1>3
  <1> HIDE DEF L
  <1>6. /\ q[0] = coFacts /\ r[0] = coFacts
        /\ \A i \in 1..L : /\ q[i] = CO!TraverseStep(q[i - 1], path[i])
                           /\ r[i] = CO!FactStep(r[i - 1], path[i])
    BY <1>1, <1>5
  <1>7. QED BY <1>4, <1>6 DEF L

\* Names one after the other, each in a sequence of its own, make the sequence of the names.
LEMMA FlattenSingles ==
    ASSUME NEW S, NEW s \in Seq(S)
    PROVE  CO!FlattenSeq([i \in 1..Len(s) |-> <<s[i]>>]) = s
  <1> DEFINE L == Len(s)
             ss == [i \in 1..L |-> <<s[i]>>]
             flat == CHOOSE flatten : flatten = [i \in 1..L |->
                         IF i = 1 THEN ss[i] ELSE flatten[i - 1] \o ss[i]]
             D == {n \in Nat : n + 1 \in 1..L => flat[n + 1] = SubSeq(s, 1, n + 1)}
  <1>1. L \in Nat /\ Len(ss) = L /\ DOMAIN s = 1..L
    <2>1. L \in Nat /\ DOMAIN s = 1..L
      BY LenProperties
    <2>2. ss \in Seq({<<x>> : x \in S})
      BY <2>1, ElementOfSeq
    <2>3. DOMAIN ss = 1..Len(ss) /\ Len(ss) \in Nat
      BY <2>2, LenProperties
    <2>4. QED BY <2>1, <2>3
  <1>2. \A i \in 1..L : SubSeq(s, 1, i) = IF i = 1 THEN ss[i] ELSE SubSeq(s, 1, i - 1) \o ss[i]
    <2>1. SUFFICES ASSUME NEW i \in 1..L
                   PROVE  SubSeq(s, 1, i) = IF i = 1 THEN ss[i] ELSE SubSeq(s, 1, i - 1) \o ss[i]
      OBVIOUS
    <2>2. SubSeq(s, 1, i) = SubSeq(s, 1, i - 1) \o <<s[i]>>
      BY <1>1, <2>1, SubSeqRecursiveSecond
    <2>3. CASE i = 1
      <3>1. SubSeq(s, 1, i - 1) = <<>>
        BY <2>3, SubSeqEmpty
      <3>2. s[i] \in S /\ <<s[i]>> \in Seq(S)
        BY <1>1, <2>1, ElementOfSeq
      <3>3. <<>> \o <<s[i]>> = <<s[i]>>
        BY <3>2, ConcatEmptySeq, Zenon
      <3>4. QED BY <2>1, <2>2, <2>3, <3>1, <3>3
    <2>4. QED BY <2>1, <2>2, <2>3
  <1>3. flat = [i \in 1..L |-> IF i = 1 THEN ss[i] ELSE flat[i - 1] \o ss[i]]
    <2> DEFINE f == [i \in 1..L |-> SubSeq(s, 1, i)]
               g == [i \in 1..L |-> IF i = 1 THEN ss[i] ELSE f[i - 1] \o ss[i]]
    <2>1. \A i \in 1..L : f[i] = g[i]
      BY <1>1, <1>2
    <2>2. f = g
      BY <2>1
    <2> HIDE DEF ss
    <2>3. \E x : x = [i \in 1..L |-> IF i = 1 THEN ss[i] ELSE x[i - 1] \o ss[i]]
      BY <2>2, Zenon
    <2>4. QED BY <2>3, Zenon
  <1>4. CASE L = 0
    <2>1. s = <<>> /\ ss = <<>>
      BY <1>1, <1>4
    <2>2. QED BY <1>1, <1>4, <2>1 DEF CO!FlattenSeq
  <1>5. CASE L # 0
    <2>1. \A i \in 1..L : flat[i] = IF i = 1 THEN ss[i] ELSE flat[i - 1] \o ss[i]
      <3> HIDE DEF flat, ss
      <3>1. QED BY <1>3
    <2> HIDE DEF flat
    <2>2. 0 \in D
      <3>1. SUFFICES ASSUME 1 \in 1..L PROVE flat[1] = SubSeq(s, 1, 1)
        OBVIOUS
      <3> HIDE DEF ss, L
      <3>2. QED BY <1>2, <2>1, <3>1
    <2>3. ASSUME NEW n \in Nat, n \in D PROVE n + 1 \in D
      <3>1. SUFFICES ASSUME (n + 1) + 1 \in 1..L PROVE flat[(n + 1) + 1] = SubSeq(s, 1, (n + 1) + 1)
        OBVIOUS
      <3>2. n + 1 \in 1..L /\ (n + 1) + 1 # 1 /\ ((n + 1) + 1) - 1 = n + 1
        BY <1>1, <3>1
      <3>3. flat[n + 1] = SubSeq(s, 1, n + 1)
        BY <2>3, <3>2
      <3> HIDE DEF ss, L
      <3>4. SubSeq(s, 1, (n + 1) + 1) = SubSeq(s, 1, n + 1) \o ss[(n + 1) + 1]
        BY <1>2, <3>1, <3>2
      <3>5. flat[(n + 1) + 1] = flat[n + 1] \o ss[(n + 1) + 1]
        BY <2>1, <3>1, <3>2
      <3>6. QED BY <3>3, <3>4, <3>5
    <2>4. \A n \in Nat : n \in D
      <3> HIDE DEF D
      <3>1. QED BY <2>2, <2>3, NatSet
    <2>5. flat[L] = SubSeq(s, 1, L)
      <3>1. L - 1 \in Nat /\ (L - 1) + 1 = L /\ L \in 1..L
        BY <1>1, <1>5
      <3>2. QED BY <2>4, <3>1
    <2>6. SubSeq(s, 1, L) = s
      BY SubSeqFull
    <2>7. CO!FlattenSeq(ss) = flat[L]
      BY <1>1, <1>5 DEF CO!FlattenSeq, flat
    <2>8. QED BY <2>5, <2>6, <2>7
  <1>6. QED BY <1>4, <1>5

\* How many calls more are opened than closed from a token on: negative inside of what closes.
Count(s, kind, i) == Cardinality({j \in i..Len(s) : s[j].t = kind})
Depth(s, i) == Count(s, "open", i) - Count(s, "close", i)
Weight(e) == IF e.t = "open" THEN 1 ELSE IF e.t = "close" THEN -1 ELSE 0

LEMMA CountAppend ==
    ASSUME NEW S, NEW s \in Seq(S), NEW e \in S, NEW kind, NEW i \in 1..(Len(s) + 1)
    PROVE  /\ Count(s, kind, i) \in Nat
           /\ Count(Append(s, e), kind, i) = Count(s, kind, i) + (IF e.t = kind THEN 1 ELSE 0)
           /\ Count(s, kind, Len(s) + 1) = 0
  <1> DEFINE L == Len(s)
             t == Append(s, e)
             A == {j \in i..L : s[j].t = kind}
             B == {j \in i..Len(t) : t[j].t = kind}
  <1>1. /\ L \in Nat /\ Len(t) = L + 1 /\ i \in 1..(L + 1)
        /\ \A j \in 1..L : t[j] = s[j]
        /\ t[L + 1] = e
    BY LenProperties, AppendProperties
  <1>2. IsFiniteSet(A) /\ Cardinality(A) \in Nat
    <2>1. IsFiniteSet(i..L)
      BY <1>1, FS_Interval
    <2>2. A \subseteq i..L
      OBVIOUS
    <2> HIDE DEF A
    <2>3. IsFiniteSet(A)
      BY <2>1, <2>2, FS_Subset
    <2>4. QED BY <2>3, FS_CardinalityType
  <1>3. B = IF e.t = kind THEN A \cup {L + 1} ELSE A
    <2> HIDE DEF t, L
    <2>1. ASSUME NEW j PROVE j \in B <=> j \in IF e.t = kind THEN A \cup {L + 1} ELSE A
      <3>1. CASE j = L + 1
        <4>1. j \in i..Len(t) /\ j \notin i..L /\ t[j].t = e.t
          BY <1>1, <3>1
        <4>2. QED BY <3>1, <4>1
      <3>2. CASE j # L + 1
        BY <1>1, <3>2
      <3>3. QED BY <3>1, <3>2
    <2>2. QED BY <2>1
  <1>4. L + 1 \notin A
    BY <1>1
  <1>5. Cardinality(B) = Cardinality(A) + (IF e.t = kind THEN 1 ELSE 0)
    <2> HIDE DEF A, B, L
    <2>1. CASE e.t = kind
      BY <1>2, <1>3, <1>4, <2>1, FS_AddElement
    <2>2. CASE e.t # kind
      BY <1>2, <1>3, <2>2
    <2>3. QED BY <2>1, <2>2
  <1>6. {j \in (L + 1)..L : s[j].t = kind} = {}
    BY <1>1
  <1>7. QED BY <1>2, <1>5, <1>6, FS_EmptySet DEF Count

LEMMA CountDown ==
    ASSUME NEW S, NEW s \in Seq(S), NEW kind, NEW i \in 1..Len(s)
    PROVE  /\ Count(s, kind, i + 1) \in Nat
           /\ Count(s, kind, i) = Count(s, kind, i + 1) + (IF s[i].t = kind THEN 1 ELSE 0)
  <1> DEFINE L == Len(s)
             A == {j \in (i + 1)..L : s[j].t = kind}
             B == {j \in i..L : s[j].t = kind}
  <1>1. L \in Nat
    BY LenProperties
  <1>2. IsFiniteSet(A) /\ Cardinality(A) \in Nat
    <2>1. IsFiniteSet((i + 1)..L)
      BY <1>1, FS_Interval
    <2>2. A \subseteq (i + 1)..L
      OBVIOUS
    <2> HIDE DEF A
    <2>3. IsFiniteSet(A)
      BY <2>1, <2>2, FS_Subset
    <2>4. QED BY <2>3, FS_CardinalityType
  <1>3. B = IF s[i].t = kind THEN A \cup {i} ELSE A
    <2>1. ASSUME NEW j PROVE j \in B <=> j \in IF s[i].t = kind THEN A \cup {i} ELSE A
      <3>1. CASE j = i
        BY <1>1, <3>1
      <3>2. CASE j # i
        <4>1. j \in i..L <=> j \in (i + 1)..L
          BY <1>1, <3>2
        <4>2. QED BY <3>2, <4>1
      <3>3. QED BY <3>1, <3>2
    <2>2. QED BY <2>1
  <1>4. i \notin A
    BY <1>1
  <1>5. Cardinality(B) = Cardinality(A) + (IF s[i].t = kind THEN 1 ELSE 0)
    <2> HIDE DEF A, B, L
    <2>1. CASE s[i].t = kind
      BY <1>2, <1>3, <1>4, <2>1, FS_AddElement
    <2>2. CASE s[i].t # kind
      BY <1>2, <1>3, <2>2
    <2>3. QED BY <2>1, <2>2
  <1>6. QED BY <1>2, <1>5 DEF Count

\* What a token more changes, and what a token less.
LEMMA DepthAppend ==
    ASSUME NEW S, NEW s \in Seq(S), NEW e \in S, NEW i \in 1..(Len(s) + 1)
    PROVE  /\ Depth(s, i) \in Int
           /\ Depth(Append(s, e), i) = Depth(s, i) + Weight(e)
           /\ Depth(s, Len(s) + 1) = 0
           /\ Depth(Append(s, e), Len(s) + 2) = 0
  <1> DEFINE o == Count(s, "open", i)
             c == Count(s, "close", i)
             u == Count(Append(s, e), "open", i)
             d == Count(Append(s, e), "close", i)
  <1>1. /\ o \in Nat /\ c \in Nat
        /\ u = o + (IF e.t = "open" THEN 1 ELSE 0)
        /\ d = c + (IF e.t = "close" THEN 1 ELSE 0)
    BY CountAppend
  <1>2. Count(s, "open", Len(s) + 1) = 0 /\ Count(s, "close", Len(s) + 1) = 0
    BY CountAppend
  <1>3. /\ Append(s, e) \in Seq(S) /\ Len(Append(s, e)) = Len(s) + 1
        /\ 1 \in 1..(Len(Append(s, e)) + 1) /\ Len(s) \in Nat
    BY AppendProperties, LenProperties
  <1>4. /\ Count(Append(s, e), "open", Len(Append(s, e)) + 1) = 0
        /\ Count(Append(s, e), "close", Len(Append(s, e)) + 1) = 0
    BY <1>3, CountAppend
  <1>5. Len(Append(s, e)) + 1 = Len(s) + 2
    BY <1>3
  <1>6. Depth(s, i) = o - c /\ Depth(Append(s, e), i) = u - d
    BY DEF Depth
  <1> HIDE DEF o, c, u, d
  <1>7. u - d = (o - c) + Weight(e) /\ o - c \in Int
    BY <1>1 DEF Weight
  <1>8. Depth(s, Len(s) + 1) = 0 /\ Depth(Append(s, e), Len(s) + 2) = 0
    BY <1>2, <1>4, <1>5 DEF Depth
  <1>9. QED BY <1>6, <1>7, <1>8

LEMMA DepthDown ==
    ASSUME NEW S, NEW s \in Seq(S), NEW i \in 1..Len(s)
    PROVE  Depth(s, i + 1) \in Int /\ Depth(s, i) = Depth(s, i + 1) + Weight(s[i])
  <1> DEFINE o == Count(s, "open", i + 1)
             c == Count(s, "close", i + 1)
             u == Count(s, "open", i)
             d == Count(s, "close", i)
  <1>1. /\ o \in Nat /\ c \in Nat
        /\ u = o + (IF s[i].t = "open" THEN 1 ELSE 0)
        /\ d = c + (IF s[i].t = "close" THEN 1 ELSE 0)
    BY CountDown
  <1>2. Depth(s, i + 1) = o - c /\ Depth(s, i) = u - d
    BY DEF Depth
  <1> HIDE DEF o, c, u, d
  <1>3. u - d = (o - c) + Weight(s[i]) /\ o - c \in Int
    BY <1>1 DEF Weight
  <1>4. QED BY <1>2, <1>3

\* The places of the open calls of an expression: inside of each as many calls are opened as
\* closed but for the ones that are open in it, and no end of the expression closes fewer.
\* While nothing else is an argument of it, the last one is followed by its arguments.
NoCall(args) == \A j \in DOMAIN args : args[j].t # "call"

Inside(s, at, open) ==
    /\ at \in 0..Len(s)
    /\ Depth(s, at + 1) = open
    /\ \A i \in (at + 1)..(Len(s) + 1) : Depth(s, i) <= open

FollowedBy(s, at, args) ==
    /\ Len(s) = at + Len(args)
    /\ \A j \in 1..Len(args) : s[at + j] = args[j]

Nesting(s, c, p) ==
    /\ p[0] = 0
    /\ \A k \in 0..Len(c) : Inside(s, p[k], Len(c) - k)
    /\ \A k \in 1..Len(c) : p[k] # 0 /\ s[p[k]] = CO!Open(c[k].fn)
    /\ c # <<>> /\ NoCall(c[Len(c)].args) => FollowedBy(s, p[Len(c)], c[Len(c)].args)

LEMMA InsideKeeps ==
    ASSUME NEW S, NEW s \in Seq(S), NEW e \in S, NEW at, NEW open \in Int, Inside(s, at, open),
           open + Weight(e) >= 0
    PROVE  Inside(Append(s, e), at, open + Weight(e))
  <1> DEFINE t == Append(s, e)
             L == Len(s)
             w == Weight(e)
  <1>1. L \in Nat /\ Len(t) = L + 1 /\ at \in 0..L /\ w \in Int
    BY LenProperties, AppendProperties DEF Inside, Weight
  <1>2. \A i \in 1..(L + 1) : Depth(s, i) \in Int /\ Depth(t, i) = Depth(s, i) + w
    BY DepthAppend
  <1>3. Depth(t, L + 2) = 0
    <2>1. 1 \in 1..(L + 1)
      BY <1>1
    <2>2. QED BY <2>1, DepthAppend
  <1>4. Depth(s, at + 1) = open /\ \A i \in (at + 1)..(L + 1) : Depth(s, i) <= open
    BY DEF Inside
  <1> HIDE DEF t, L, w
  <1>5. Depth(t, at + 1) = open + w
    BY <1>1, <1>2, <1>4
  <1>6. ASSUME NEW i \in (at + 1)..(Len(t) + 1) PROVE Depth(t, i) <= open + w
    <2>1. CASE i = L + 2
      BY <1>3, <2>1 DEF w
    <2>2. CASE i # L + 2
      <3>1. i \in 1..(L + 1) /\ i \in (at + 1)..(L + 1)
        BY <1>1, <2>2
      <3>2. \A x, y \in Int : x <= y => x + w <= y + w
        BY <1>1
      <3>3. QED BY <1>2, <1>4, <3>1, <3>2
    <2>3. QED BY <2>1, <2>2
  <1>7. at \in 0..Len(t)
    BY <1>1
  <1>8. QED BY <1>5, <1>6, <1>7 DEF Inside, t, w

LEMMA OpenNests ==
    ASSUME NEW S, NEW s \in Seq(S), NEW C, NEW c \in Seq(C), NEW d \in C, NEW p, Nesting(s, c, p),
           CO!Open(d.fn) \in S, d.args = <<>>
    PROVE  \E q : Nesting(Append(s, CO!Open(d.fn)), Append(c, d), q)
  <1> DEFINE e == CO!Open(d.fn)
             t == Append(s, e)
             b == Append(c, d)
             n == Len(c)
             q == [k \in 0..(n + 1) |-> IF k = n + 1 THEN Len(s) + 1 ELSE p[k]]
  <1>1. /\ Len(s) \in Nat /\ Len(t) = Len(s) + 1 /\ t \in Seq(S)
        /\ \A i \in 1..Len(s) : t[i] = s[i]
        /\ t[Len(s) + 1] = e
    BY LenProperties, AppendProperties
  <1>2. /\ n \in Nat /\ Len(b) = n + 1
        /\ \A k \in 1..n : b[k] = c[k]
        /\ b[n + 1] = d
    BY LenProperties, AppendProperties
  <1>3. Weight(e) = 1
    BY DEF Weight, CO!Open
  <1>4. ASSUME NEW k \in 0..n PROVE Inside(t, q[k], Len(b) - k)
    <2>1. Inside(s, p[k], n - k) /\ q[k] = p[k] /\ n - k \in Int /\ (n - k) + Weight(e) >= 0
      BY <1>2, <1>3 DEF Nesting
    <2>2. Inside(t, p[k], (n - k) + Weight(e))
      BY <2>1, InsideKeeps
    <2>3. (n - k) + Weight(e) = Len(b) - k
      BY <1>2, <1>3
    <2>4. QED BY <2>1, <2>2, <2>3
  <1>5. Inside(t, q[n + 1], Len(b) - (n + 1))
    <2>1. q[n + 1] = Len(t) /\ Len(b) - (n + 1) = 0 /\ Len(t) \in Nat
      BY <1>1, <1>2
    <2>2. Depth(t, Len(t) + 1) = 0
      <3>1. 1 \in 1..(Len(t) + 1)
        BY <2>1
      <3>2. QED BY <1>1, <3>1, DepthAppend
    <2> HIDE DEF t
    <2>3. \A i \in (Len(t) + 1)..(Len(t) + 1) : i = Len(t) + 1
      BY <2>1
    <2>4. \A i \in (Len(t) + 1)..(Len(t) + 1) : Depth(t, i) <= 0
      BY <2>2, <2>3
    <2>5. Inside(t, Len(t), 0)
      BY <2>1, <2>2, <2>4 DEF Inside
    <2>6. QED BY <2>1, <2>5
  <1>6. ASSUME NEW k \in 1..(n + 1) PROVE q[k] # 0 /\ t[q[k]] = CO!Open(b[k].fn)
    <2>1. CASE k = n + 1
      BY <1>1, <1>2, <2>1
    <2>2. CASE k # n + 1
      <3>1. k \in 1..n /\ k \in 0..n /\ q[k] = p[k] /\ b[k] = c[k]
        BY <1>2, <2>2
      <3>2. p[k] # 0 /\ s[p[k]] = CO!Open(c[k].fn) /\ p[k] \in 0..Len(s)
        BY <3>1 DEF Nesting, Inside
      <3>3. t[p[k]] = s[p[k]]
        BY <1>1, <3>2
      <3>4. QED BY <3>1, <3>2, <3>3
    <2>3. QED BY <2>1, <2>2
  <1>7. FollowedBy(t, q[n + 1], d.args)
    <2>1. q[n + 1] = Len(t) /\ Len(t) \in Nat
      BY <1>1, <1>2
    <2>2. Len(<<>>) = 0
      OBVIOUS
    <2>3. QED BY <2>1, <2>2 DEF FollowedBy
  <1>8. q[0] = 0
    BY <1>2 DEF Nesting
  <1>9. \A k \in 0..(n + 1) : k \in 0..n \/ k = n + 1
    BY <1>2
  <1> HIDE DEF q, t, b, n
  <1>10. Nesting(t, b, q)
    BY <1>2, <1>4, <1>5, <1>6, <1>7, <1>8, <1>9 DEF Nesting
  <1>11. QED BY <1>10 DEF t, b

LEMMA ArgNests ==
    ASSUME NEW S, NEW s \in Seq(S), NEW e \in S, NEW C, NEW c \in Seq(C), NEW b, NEW p,
           Nesting(s, c, p), Weight(e) = 0, e.t # "call", c # <<>>, Len(b) = Len(c),
           \A k \in 1..Len(c) : b[k].fn = c[k].fn,
           NEW A, c[Len(c)].args \in Seq(A), e \in A,
           b[Len(c)].args = Append(c[Len(c)].args, e)
    PROVE  Nesting(Append(s, e), b, p)
  <1> DEFINE t == Append(s, e)
             n == Len(c)
             args == c[n].args
  <1>1. /\ Len(s) \in Nat /\ Len(t) = Len(s) + 1
        /\ \A i \in 1..Len(s) : t[i] = s[i]
        /\ t[Len(s) + 1] = e
    BY LenProperties, AppendProperties
  <1>2. /\ Len(args) \in Nat /\ Len(Append(args, e)) = Len(args) + 1 /\ DOMAIN args = 1..Len(args)
        /\ DOMAIN Append(args, e) = 1..(Len(args) + 1)
        /\ \A j \in 1..Len(args) : Append(args, e)[j] = args[j]
        /\ Append(args, e)[Len(args) + 1] = e
    BY LenProperties, AppendProperties
  <1>3. n \in Nat /\ n # 0
    BY LenProperties, EmptySeq
  <1>4. ASSUME NEW k \in 0..n PROVE Inside(t, p[k], n - k)
    <2>1. Inside(s, p[k], n - k) /\ n - k \in Int /\ (n - k) + Weight(e) >= 0 /\ (n - k) + Weight(e) = n - k
      BY <1>3 DEF Nesting
    <2>2. Inside(t, p[k], (n - k) + Weight(e))
      BY <2>1, InsideKeeps
    <2>3. QED BY <2>1, <2>2
  <1>5. ASSUME NEW k \in 1..n PROVE p[k] # 0 /\ t[p[k]] = CO!Open(b[k].fn)
    <2>1. p[k] # 0 /\ s[p[k]] = CO!Open(c[k].fn) /\ p[k] \in 0..Len(s)
      BY <1>3 DEF Nesting, Inside
    <2>2. t[p[k]] = s[p[k]]
      BY <1>1, <2>1
    <2>3. QED BY <2>1, <2>2
  <1>6. ASSUME NoCall(Append(args, e)) PROVE FollowedBy(t, p[n], Append(args, e))
    <2>1. NoCall(args)
      BY <1>2, <1>6 DEF NoCall
    <2>2. FollowedBy(s, p[n], args) /\ p[n] \in 0..Len(s)
      BY <1>3, <2>1 DEF Nesting, Inside
    <2> HIDE DEF t, args, n
    <2>3. Len(t) = p[n] + (Len(args) + 1)
      BY <1>1, <1>2, <2>2 DEF FollowedBy
    <2>4. Len(s) \in Nat /\ Len(args) \in Nat /\ p[n] \in Nat /\ Len(s) = p[n] + Len(args)
      BY <1>1, <1>2, <2>2 DEF FollowedBy
    <2>5. p[n] + (Len(args) + 1) = Len(s) + 1
      <3>1. \A x, y, z \in Nat : z = x + y => x + (y + 1) = z + 1
        OBVIOUS
      <3>2. QED BY <2>4, <3>1
    <2>6. \A j \in 1..(Len(args) + 1) :
              j # Len(args) + 1 => j \in 1..Len(args) /\ p[n] + j \in 1..Len(s)
      <3>1. \A x, y, z \in Nat : z = x + y =>
                \A j \in 1..(y + 1) : j # y + 1 => j \in 1..y /\ x + j \in 1..z
        OBVIOUS
      <3>2. QED BY <2>4, <3>1
    <2>7. ASSUME NEW j \in 1..(Len(args) + 1) PROVE t[p[n] + j] = Append(args, e)[j]
      <3>1. CASE j = Len(args) + 1
        <4>1. p[n] + j = Len(s) + 1
          BY <2>5, <3>1
        <4>2. QED BY <1>1, <1>2, <3>1, <4>1
      <3>2. CASE j # Len(args) + 1
        <4>1. j \in 1..Len(args) /\ p[n] + j \in 1..Len(s)
          BY <2>6, <3>2
        <4>2. QED BY <1>1, <1>2, <2>2, <4>1 DEF FollowedBy
      <3>3. QED BY <3>1, <3>2
    <2>8. QED BY <1>2, <2>3, <2>7 DEF FollowedBy
  <1>7. QED
    <2>1. p[0] = 0
      BY DEF Nesting
    <2> HIDE DEF t
    <2>2. QED BY <1>4, <1>5, <1>6, <2>1 DEF Nesting, t

LEMMA CloseNests ==
    ASSUME NEW S, NEW s \in Seq(S), CO!Close \in S, NEW C, NEW c \in Seq(C), c # <<>>, NEW b, NEW p,
           Nesting(s, c, p), Len(b) = Len(c) - 1, b = <<>> <=> Len(b) = 0,
           \A k \in 1..Len(b) : b[k].fn = c[k].fn,
           b # <<>> => ~NoCall(b[Len(b)].args)
    PROVE  Nesting(Append(s, CO!Close), b, p)
  <1> DEFINE e == CO!Close
             t == Append(s, e)
             n == Len(c)
  <1>1. /\ Len(s) \in Nat /\ Len(t) = Len(s) + 1
        /\ \A i \in 1..Len(s) : t[i] = s[i]
    BY LenProperties, AppendProperties
  <1>2. n \in Nat /\ n # 0
    BY LenProperties, EmptySeq
  <1>3. Weight(e) = -1
    BY DEF Weight, CO!Close
  <1>4. ASSUME NEW k \in 0..(n - 1) PROVE Inside(t, p[k], (n - 1) - k)
    <2>1. /\ Inside(s, p[k], n - k) /\ n - k \in Int /\ (n - k) + Weight(e) >= 0
          /\ (n - k) + Weight(e) = (n - 1) - k
      BY <1>2, <1>3 DEF Nesting
    <2>2. Inside(t, p[k], (n - k) + Weight(e))
      BY <2>1, InsideKeeps
    <2>3. QED BY <2>1, <2>2
  <1>5. ASSUME NEW k \in 1..(n - 1) PROVE p[k] # 0 /\ t[p[k]] = CO!Open(b[k].fn)
    <2>1. p[k] # 0 /\ s[p[k]] = CO!Open(c[k].fn) /\ p[k] \in 0..Len(s)
      BY <1>2 DEF Nesting, Inside
    <2>2. t[p[k]] = s[p[k]]
      BY <1>1, <2>1
    <2>3. QED BY <2>1, <2>2
  <1>6. p[0] = 0
    BY DEF Nesting
  <1> HIDE DEF t
  <1>7. QED BY <1>4, <1>5, <1>6 DEF Nesting, t

\* What the user may have typed, and the calls it makes.
COArgs == {CO!Arg(n) : n \in coNames} \cup {CO!Array(<<n>>) : n \in coNames}
COTokens == {CO!Open(fn) : fn \in CO!Fns} \cup {CO!Close} \cup COArgs
COArguments == COArgs \cup {[t |-> "call", names |-> <<>>]}
COCalls == [fn : CO!Fns, args : Seq(COArguments)]

COInv ==
    /\ coFacts \in coFactTrees
    /\ coText \in Seq(COTokens)
    /\ coCalls \in Seq(COCalls)
    /\ \E p : Nesting(coText, coCalls, p)
    /\ Len(coClass.segs) \in Nat
    /\ coClass.closed => coClass.segs \in coClasses

LEMMA COInitially == CO!Init => COInv
  <1> SUFFICES ASSUME CO!Init PROVE COInv
    OBVIOUS
  <1>1. /\ coFacts \in coFactTrees /\ coText = <<>> /\ coCalls = <<>>
        /\ coClass.segs = <<>> /\ ~coClass.closed
    BY DEF CO!Init, CO!NoClass
  <1>2. Count(<<>>, "open", 1) = 0 /\ Count(<<>>, "close", 1) = 0
    <2>1. \A kind : {j \in 1..Len(<<>>) : <<>>[j].t = kind} = {}
      OBVIOUS
    <2>2. QED BY <2>1, FS_EmptySet DEF Count
  <1>3. Inside(<<>>, 0, 0)
    <2>1. Depth(<<>>, 1) = 0
      BY <1>2 DEF Depth
    <2>2. Len(<<>>) = 0 /\ \A i \in (0 + 1)..(0 + 1) : i = 1
      OBVIOUS
    <2>3. QED BY <2>1, <2>2 DEF Inside
  <1> DEFINE p == [k \in {0} |-> 0]
  <1>4. p[0] = 0 /\ Len(<<>>) = 0 /\ 0..0 = {0} /\ 1..0 = {} /\ 0 - 0 = 0
    OBVIOUS
  <1> HIDE DEF p
  <1>5. Nesting(<<>>, <<>>, p)
    BY <1>3, <1>4 DEF Nesting
  <1>6. QED BY <1>1, <1>4, <1>5, EmptySeq DEF COInv

LEMMA COOpenStep ==
    ASSUME COInv, NEW fn \in CO!Fns, CO!TypeOpen(fn)
    PROVE  COInv'
  <1> DEFINE call == [fn |-> fn, args |-> <<>>]
  <1>1. /\ coText' = Append(coText, CO!Open(fn)) /\ coCalls' = Append(coCalls, call)
        /\ coFacts' = coFacts /\ coClass' = coClass
    BY DEF CO!TypeOpen
  <1>2. CO!Open(fn) \in COTokens
    BY DEF COTokens
  <1>3. call \in COCalls /\ call.fn = fn /\ call.args = <<>>
    BY EmptySeq DEF COCalls
  <1>4. coText \in Seq(COTokens) /\ coCalls \in Seq(COCalls)
    BY DEF COInv
  <1> HIDE DEF call
  <1>5. coText' \in Seq(COTokens) /\ coCalls' \in Seq(COCalls)
    BY <1>1, <1>2, <1>3, <1>4, AppendProperties
  <1>6. \E q : Nesting(coText', coCalls', q)
    <2>1. PICK s, c, p : s = coText /\ c = coCalls /\ Nesting(s, c, p)
      BY DEF COInv
    <2>2. \E q : Nesting(Append(s, CO!Open(call.fn)), Append(c, call), q)
      BY <1>2, <1>3, <1>4, <2>1, OpenNests
    <2>3. QED BY <1>1, <1>3, <2>1, <2>2
  <1>7. QED BY <1>1, <1>5, <1>6 DEF COInv

LEMMA COArgStep ==
    ASSUME COInv, NEW a \in COArgs, CO!TypeArg(a)
    PROVE  COInv'
  <1> DEFINE n == Len(coCalls)
  <1>1. /\ coText' = Append(coText, a) /\ coCalls # <<>>
        /\ coCalls' = [coCalls EXCEPT ![n].args = Append(@, a)]
        /\ coFacts' = coFacts /\ coClass' = coClass
    BY DEF CO!TypeArg
  <1>2. a \in COTokens /\ a \in COArguments
    BY DEF COTokens, COArguments
  <1>3. Weight(a) = 0 /\ a.t # "call"
    BY DEF COArgs, CO!Arg, CO!Array, Weight
  <1>4. coText \in Seq(COTokens) /\ coCalls \in Seq(COCalls)
    BY DEF COInv
  <1>5. n \in Nat /\ n \in 1..n /\ DOMAIN coCalls = 1..n
    BY <1>1, <1>4, LenProperties, EmptySeq
  <1>6. \A k \in 1..n : coCalls[k] \in COCalls
    BY <1>4, ElementOfSeq
  <1>7. coCalls[n].args \in Seq(COArguments) /\ coCalls[n].fn \in CO!Fns
    BY <1>5, <1>6 DEF COCalls
  <1> DEFINE call == [coCalls[n] EXCEPT !.args = Append(@, a)]
  <1>8. call \in COCalls /\ call.fn = coCalls[n].fn /\ call.args = Append(coCalls[n].args, a)
    <2>1. Append(coCalls[n].args, a) \in Seq(COArguments)
      BY <1>2, <1>7, AppendProperties
    <2>2. QED BY <1>5, <1>6, <2>1 DEF COCalls
  <1> HIDE DEF call
  <1>9. coCalls' = [coCalls EXCEPT ![n] = call]
    BY <1>1 DEF call
  <1>10. /\ coCalls' \in Seq(COCalls) /\ Len(coCalls') = n
         /\ coCalls'[n] = call /\ \A k \in 1..n : k # n => coCalls'[k] = coCalls[k]
    <2>1. n \in 1..Len(coCalls) /\ n = Len(coCalls)
      BY <1>5
    <2> HIDE DEF n
    <2>2. /\ [coCalls EXCEPT ![n] = call] \in Seq(COCalls)
          /\ Len([coCalls EXCEPT ![n] = call]) = Len(coCalls)
          /\ \A j \in 1..Len(coCalls) :
                 [coCalls EXCEPT ![n] = call][j] = IF j = n THEN call ELSE coCalls[j]
      BY <1>4, <1>8, <2>1, ExceptSeq
    <2>3. QED BY <1>9, <2>1, <2>2
  <1>11. \A k \in 1..n : coCalls'[k].fn = coCalls[k].fn
    BY <1>8, <1>10
  <1>12. coText' \in Seq(COTokens)
    BY <1>1, <1>2, <1>4, AppendProperties
  <1>13. \E q : Nesting(coText', coCalls', q)
    <2>1. PICK s, c, p : s = coText /\ c = coCalls /\ Nesting(s, c, p)
      BY DEF COInv
    <2>2. PICK b : b = coCalls'
      OBVIOUS
    <2> DEFINE m == Len(c)
    <2>3. /\ s \in Seq(COTokens) /\ c \in Seq(COCalls) /\ c # <<>> /\ m = n /\ Len(b) = m
          /\ \A k \in 1..m : b[k].fn = c[k].fn
          /\ c[m].args \in Seq(COArguments) /\ b[m].args = Append(c[m].args, a)
      BY <1>1, <1>4, <1>7, <1>8, <1>10, <1>11, <2>1, <2>2
    <2>4. Nesting(Append(s, a), b, p)
      BY <1>2, <1>3, <2>1, <2>3, ArgNests
    <2>5. QED BY <1>1, <2>1, <2>2, <2>4
  <1>14. QED BY <1>1, <1>10, <1>12, <1>13 DEF COInv

LEMMA COCloseStep ==
    ASSUME COInv, CO!TypeClose
    PROVE  COInv'
  <1> DEFINE n == Len(coCalls)
             outer == SubSeq(coCalls, 1, n - 1)
             arg == [t |-> "call", names |-> <<>>]
  <1>1. /\ coText' = Append(coText, CO!Close) /\ coCalls # <<>>
        /\ coCalls' = IF outer = <<>> THEN <<>>
                      ELSE [outer EXCEPT ![Len(outer)].args = Append(@, arg)]
        /\ coFacts' = coFacts /\ coClass' = coClass
    BY DEF CO!TypeClose, CO!Front
  <1>2. CO!Close \in COTokens /\ arg \in COArguments /\ arg.t = "call"
    BY DEF COTokens, COArguments
  <1>3. coText \in Seq(COTokens) /\ coCalls \in Seq(COCalls)
    BY DEF COInv
  <1>4. n \in Nat /\ n # 0 /\ DOMAIN coCalls = 1..n /\ \A k \in 1..n : coCalls[k] \in COCalls
    BY <1>1, <1>3, LenProperties, EmptySeq, ElementOfSeq
  <1>5. /\ outer \in Seq(COCalls) /\ Len(outer) = n - 1
        /\ \A k \in 1..(n - 1) : outer[k] = coCalls[k]
    <2>1. \A k \in 1..(n - 1) : coCalls[k] \in COCalls
      BY <1>4
    <2>2. 1 \in Int /\ n - 1 \in Int /\ (n - 1) - 1 + 1 = n - 1
      BY <1>4
    <2> HIDE DEF n
    <2>3. /\ outer \in Seq(COCalls)
          /\ Len(outer) = IF 1 <= n - 1 THEN (n - 1) - 1 + 1 ELSE 0
          /\ \A k \in 1..((n - 1) - 1 + 1) : outer[k] = coCalls[1 + k - 1]
      BY <2>1, <2>2, SubSeqProperties
    <2>4. Len(outer) = n - 1 /\ \A k \in 1..(n - 1) : 1 + k - 1 = k
      BY <1>4, <2>3
    <2>5. QED BY <2>2, <2>3, <2>4
  <1> HIDE DEF outer, arg, n
  <1>6. coText' \in Seq(COTokens)
    BY <1>1, <1>2, <1>3, AppendProperties
  <1>7. /\ coCalls' \in Seq(COCalls) /\ Len(coCalls') = n - 1
        /\ \A k \in 1..(n - 1) : coCalls'[k].fn = coCalls[k].fn
        /\ coCalls' # <<>> => ~NoCall(coCalls'[n - 1].args)
    <2>1. CASE outer = <<>>
      <3>1. Len(outer) = 0 /\ coCalls' = <<>>
        BY <1>1, <2>1
      <3>2. n - 1 = 0 /\ 1..(n - 1) = {}
        BY <1>4, <1>5, <3>1
      <3>3. QED BY <1>5, <2>1, <3>1, <3>2
    <2>2. CASE outer # <<>>
      <3> DEFINE m == n - 1
                 call == [outer[m] EXCEPT !.args = Append(@, arg)]
      <3>1. Len(outer) = m /\ m \in Nat /\ m # 0 /\ m \in 1..m
        BY <1>4, <1>5, <2>2, EmptySeq
      <3> HIDE DEF m
      <3>2. outer[m] \in COCalls
        BY <1>5, <3>1, ElementOfSeq
      <3>3. outer[m].args \in Seq(COArguments)
        BY <3>2 DEF COCalls
      <3>4. /\ Append(outer[m].args, arg) \in Seq(COArguments)
            /\ ~NoCall(Append(outer[m].args, arg))
        <4> DEFINE args == Append(outer[m].args, arg)
                   l == Len(outer[m].args)
        <4>1. args \in Seq(COArguments) /\ l \in Nat /\ Len(args) = l + 1 /\ args[l + 1] = arg
          BY <1>2, <3>3, AppendProperties, LenProperties
        <4> HIDE DEF args, l
        <4>2. l + 1 \in DOMAIN args
          <5>1. DOMAIN args = 1..Len(args)
            BY <4>1, LenProperties
          <5>2. QED BY <4>1, <5>1
        <4>3. QED BY <1>2, <4>1, <4>2 DEF NoCall, args
      <3>5. call \in COCalls /\ call.fn = outer[m].fn /\ call.args = Append(outer[m].args, arg)
        BY <3>2, <3>4 DEF COCalls
      <3>6. coCalls' = [outer EXCEPT ![m] = call]
        BY <1>1, <2>2, <3>1
      <3> HIDE DEF call
      <3>7. /\ coCalls' \in Seq(COCalls) /\ Len(coCalls') = m
            /\ coCalls'[m] = call /\ \A k \in 1..m : k # m => coCalls'[k] = outer[k]
        BY <1>5, <3>1, <3>5, <3>6, ExceptSeq
      <3>8. \A k \in 1..m : coCalls'[k].fn = coCalls[k].fn
        BY <1>5, <3>5, <3>7 DEF m
      <3>9. QED BY <3>4, <3>5, <3>7, <3>8 DEF m
    <2>3. QED BY <2>1, <2>2
  <1>8. coCalls' = <<>> <=> Len(coCalls') = 0
    BY <1>7, EmptySeq
  <1>9. \E q : Nesting(coText', coCalls', q)
    <2>1. PICK s, c, p : s = coText /\ c = coCalls /\ Nesting(s, c, p)
      BY DEF COInv
    <2>2. PICK b : b = coCalls'
      OBVIOUS
    <2>3. /\ s \in Seq(COTokens) /\ c \in Seq(COCalls) /\ c # <<>> /\ Len(c) = n
          /\ Len(b) = Len(c) - 1 /\ (b = <<>> <=> Len(b) = 0)
          /\ \A k \in 1..Len(b) : b[k].fn = c[k].fn
          /\ b # <<>> => ~NoCall(b[Len(b)].args)
      BY <1>1, <1>3, <1>7, <1>8, <2>1, <2>2 DEF n
    <2>4. Nesting(Append(s, CO!Close), b, p)
      BY <1>2, <2>1, <2>3, CloseNests
    <2>5. QED BY <1>1, <2>1, <2>2, <2>4
  <1>10. QED BY <1>1, <1>6, <1>7, <1>9 DEF COInv

LEMMA COClassStep ==
    ASSUME COInv, NEW c \in CO!OfferedClasses(coClass.segs), CO!AcceptClass(c)
    PROVE  COInv'
  <1>1. UNCHANGED <<coFacts, coText, coCalls>> /\ coClass' = c
    BY DEF CO!AcceptClass
  <1> DEFINE n == Len(coClass.segs) + 1
  <1>2. PICK d \in coClasses :
            c = IF Len(d) > n THEN [segs |-> SubSeq(d, 1, n), closed |-> FALSE]
                              ELSE [segs |-> d, closed |-> TRUE]
    BY DEF CO!OfferedClasses
  <1>3. d \in Seq({d[i] : i \in DOMAIN d})
    BY PartsAssumption DEF CO!ClassesAssumption
  <1>4. Len(d) \in Nat /\ n \in Nat
    BY <1>3, LenProperties DEF COInv
  <1>5. c.closed => c.segs = d
    BY <1>2
  <1>6. Len(c.segs) \in Nat
    <2>1. CASE Len(d) > n
      <3>1. c.segs = SubSeq(d, 1, n)
        BY <1>2, <2>1
      <3>2. DOMAIN d = 1..Len(d)
        BY <1>3, LenProperties
      <3> HIDE DEF n
      <3>3. \A i \in 1..n : i \in DOMAIN d
        BY <1>4, <2>1, <3>2
      <3>4. SubSeq(d, 1, n) \in Seq({d[i] : i \in DOMAIN d})
        BY <1>4, <3>3, SubSeqProperties
      <3>5. QED BY <3>1, <3>4, LenProperties
    <2>2. CASE ~(Len(d) > n)
      BY <1>2, <1>4, <2>2
    <2>3. QED BY <2>1, <2>2
  <1>7. QED BY <1>1, <1>5, <1>6 DEF COInv

LEMMA COStep ==
    ASSUME COInv, CO!Next
    PROVE  COInv'
  <1>1. ASSUME NEW n \in coNames
        PROVE  CO!Arg(n) \in COArgs /\ CO!Array(<<n>>) \in COArgs
    BY DEF COArgs
  <1>2. QED BY <1>1, COOpenStep, COArgStep, COCloseStep, COClassStep DEF CO!Next

\* The innermost open call, found from the end, is the last one that is open.
LEMMA StartIsLast ==
    ASSUME NEW S, coText \in Seq(S), NEW m, Inside(coText, m, 0),
           m = 0 \/ coText[m].t = "open"
    PROVE  CO!Start = m
  <1> DEFINE T == {0} \cup {i \in DOMAIN coText :
                                coText[i].t = "open" /\ CO!Opens(i + 1) = CO!Closes(i + 1)}
             L == Len(coText)
  <1>1. L \in Nat /\ DOMAIN coText = 1..L /\ m \in 0..L
    BY LenProperties DEF Inside
  <1>2. \A i : CO!Opens(i) = Count(coText, "open", i) /\ CO!Closes(i) = Count(coText, "close", i)
    BY SameSize DEF CO!Opens, CO!Closes, Count
  <1>3. \A i \in 1..L : CO!Opens(i + 1) = CO!Closes(i + 1) <=> Depth(coText, i + 1) = 0
    <2>1. SUFFICES ASSUME NEW i \in 1..L
                   PROVE  CO!Opens(i + 1) = CO!Closes(i + 1) <=> Depth(coText, i + 1) = 0
      OBVIOUS
    <2> DEFINE o == Count(coText, "open", i + 1)
               c == Count(coText, "close", i + 1)
    <2>2. PICK s : s = coText
      OBVIOUS
    <2>3. Count(s, "open", i + 1) \in Nat /\ Count(s, "close", i + 1) \in Nat
      BY <2>2, CountDown
    <2>4. o \in Nat /\ c \in Nat
      BY <2>2, <2>3
    <2>5. Depth(coText, i + 1) = o - c
      BY DEF Depth
    <2>6. CO!Opens(i + 1) = o /\ CO!Closes(i + 1) = c
      BY <1>2
    <2> HIDE DEF o, c
    <2>7. o = c <=> o - c = 0
      BY <2>4
    <2>8. QED BY <2>5, <2>6, <2>7
  <1>4. m \in T
    <2>1. CASE m = 0
      BY <2>1
    <2>2. CASE m # 0
      <3>1. m \in 1..L /\ Depth(coText, m + 1) = 0
        BY <1>1, <2>2 DEF Inside
      <3>2. QED BY <1>1, <1>3, <2>2, <3>1
    <2>3. QED BY <2>1, <2>2
  <1>5. ASSUME NEW i \in T PROVE i \in Nat /\ i <= m
    <2>1. CASE i = 0
      BY <1>1, <2>1
    <2>2. CASE i # 0
      <3>1. i \in 1..L /\ coText[i].t = "open" /\ Depth(coText, i + 1) = 0
        BY <1>1, <1>3, <2>2
      <3>2. Depth(coText, i) = 1
        <4>1. PICK s : s = coText
          OBVIOUS
        <4>2. Depth(s, i) = Depth(s, i + 1) + Weight(s[i])
          BY <3>1, <4>1, DepthDown
        <4>3. Weight(s[i]) = 1
          BY <3>1, <4>1 DEF Weight
        <4>4. QED BY <3>1, <4>1, <4>2, <4>3
      <3>3. i \in (m + 1)..(L + 1) => Depth(coText, i) <= 0
        BY DEF Inside
      <3>4. ~(i \in (m + 1)..(L + 1))
        BY <3>2, <3>3
      <3> HIDE DEF L
      <3>5. QED BY <1>1, <3>1, <3>4
    <2>3. QED BY <2>1, <2>2
  <1>6. CO!Start = CHOOSE x \in T : \A y \in T : x >= y
    BY DEF CO!Start, CO!Max
  <1>7. m \in Nat
    BY <1>1
  <1> HIDE DEF T
  <1>8. \A y \in T : m >= y
    BY <1>5, <1>7
  <1>9. ASSUME NEW x \in T, \A y \in T : x >= y PROVE x = m
    <2>1. x \in Nat /\ x <= m /\ x >= m
      BY <1>4, <1>5, <1>9
    <2>2. QED BY <1>7, <2>1
  <1>10. QED BY <1>4, <1>6, <1>8, <1>9

\* What the two walks come to is the same, or nothing to either of them.
Agree(query, repl) ==
    \/ query = repl /\ repl \in coValues
    \/ query = CO!Nil /\ repl = CO!Missing

LEMMA StepsAgree ==
    ASSUME NEW query, NEW repl, Agree(query, repl), NEW key
    PROVE  Agree(CO!TraverseStep(query, key), CO!FactStep(repl, key))
  <1>1. CO!Nil.kind = "nil" /\ CO!Missing.kind = "missing"
    BY DEF CO!Nil, CO!Missing
  <1>2. CASE query = CO!Nil /\ repl = CO!Missing
    BY <1>1, <1>2 DEF CO!TraverseStep, CO!FactStep, Agree
  <1>3. CASE query = repl /\ repl \in coValues
    <2>1. /\ repl.kind = "map" => \A k \in DOMAIN repl.sub : repl.sub[k] \in coValues
          /\ repl.kind = "list" => repl.sub \in Seq(coValues)
      BY <1>3, PartsAssumption DEF CO!ValuesAssumption
    <2>2. CASE repl.kind = "map"
      BY <1>3, <2>1, <2>2 DEF CO!TraverseStep, CO!FactStep, Agree
    <2>3. CASE repl.kind = "list"
      <3> DEFINE L == Len(repl.sub)
                 i == coAtoi[key]
      <3>1. L \in Nat /\ DOMAIN repl.sub = 1..L /\ \A j \in 1..L : repl.sub[j] \in coValues
        BY <2>1, <2>3, LenProperties, ElementOfSeq
      <3>2. key \in DOMAIN coAtoi => i \in Int
        BY PartsAssumption DEF CO!NamesAssumption
      <3>3. CASE key \in DOMAIN coAtoi /\ i \in 0..(L - 1)
        <4>1. ~(i < 0) /\ ~(i + 1 > L) /\ i + 1 \in 1..L
          BY <3>1, <3>3
        <4>2. CO!TraverseStep(query, key) = repl.sub[i + 1]
          BY <1>3, <2>3, <3>3, <4>1 DEF CO!TraverseStep
        <4>3. CO!FactStep(repl, key) = repl.sub[i + 1]
          BY <2>3, <3>3 DEF CO!FactStep
        <4>4. QED BY <3>1, <4>1, <4>2, <4>3 DEF Agree
      <3>4. CASE ~(key \in DOMAIN coAtoi /\ i \in 0..(L - 1))
        <4>1. key \notin DOMAIN coAtoi \/ i < 0 \/ i + 1 > L
          <5> HIDE DEF L, i
          <5>1. QED BY <3>1, <3>2, <3>4
        <4>2. CO!TraverseStep(query, key) = CO!Nil
          BY <1>3, <2>3, <4>1 DEF CO!TraverseStep
        <4>3. CO!FactStep(repl, key) = CO!Missing
          BY <2>3, <3>4 DEF CO!FactStep
        <4>4. QED BY <4>2, <4>3 DEF Agree
      <3>5. QED BY <3>3, <3>4
    <2>4. CASE repl.kind # "map" /\ repl.kind # "list"
      BY <1>3, <2>4 DEF CO!TraverseStep, CO!FactStep, Agree
    <2>5. QED BY <2>2, <2>3, <2>4
  <1>4. QED BY <1>2, <1>3 DEF Agree

\* Where a path leads, and where it leads with one name more.
LEMMA LookupsAgree ==
    ASSUME coFacts \in coFactTrees, NEW S, NEW path \in Seq(S), NEW key \in S
    PROVE  /\ Agree(CO!TraverseHash(path, coFacts), CO!FactPath(path))
           /\ CO!TraverseHash(Append(path, key), coFacts)
                  = CO!TraverseStep(CO!TraverseHash(path, coFacts), key)
           /\ CO!FactPath(Append(path, key)) = CO!FactStep(CO!FactPath(path), key)
  <1> DEFINE L == Len(path)
             more == Append(path, key)
  <1>1. /\ L \in Nat /\ more \in Seq(S) /\ Len(more) = L + 1
        /\ \A i \in 1..L : more[i] = path[i]
        /\ more[L + 1] = key
    BY LenProperties, AppendProperties
  <1>2. coFacts \in coValues
    BY PartsAssumption DEF CO!TreesAssumption
  <1>3. PICK q, r : /\ q[0] = coFacts /\ r[0] = coFacts
                    /\ \A i \in 1..L : /\ q[i] = CO!TraverseStep(q[i - 1], path[i])
                                      /\ r[i] = CO!FactStep(r[i - 1], path[i])
                    /\ CO!TraverseHash(path, coFacts) = q[L]
                    /\ CO!FactPath(path) = r[L]
    BY Walks, Zenon
  <1> HIDE DEF more
  <1>4. PICK query, repl :
            /\ query[0] = coFacts /\ repl[0] = coFacts
            /\ \A i \in 1..Len(more) : /\ query[i] = CO!TraverseStep(query[i - 1], more[i])
                                       /\ repl[i] = CO!FactStep(repl[i - 1], more[i])
            /\ CO!TraverseHash(more, coFacts) = query[Len(more)]
            /\ CO!FactPath(more) = repl[Len(more)]
    BY <1>1, Walks, Zenon
  <1> HIDE DEF L
  <1>5. \A i \in 1..L : /\ query[i] = CO!TraverseStep(query[i - 1], path[i])
                        /\ repl[i] = CO!FactStep(repl[i - 1], path[i])
    BY <1>1, <1>4
  <1> DEFINE D == {i \in Nat : i <= L => Agree(q[i], r[i]) /\ query[i] = q[i] /\ repl[i] = r[i]}
  <1>6. 0 \in D
    BY <1>2, <1>3, <1>4 DEF Agree
  <1>7. ASSUME NEW i \in Nat, i \in D PROVE i + 1 \in D
    <2>1. SUFFICES ASSUME i + 1 <= L
                   PROVE  Agree(q[i + 1], r[i + 1]) /\ query[i + 1] = q[i + 1] /\ repl[i + 1] = r[i + 1]
      OBVIOUS
    <2>2. i <= L /\ i + 1 \in 1..L /\ (i + 1) - 1 = i
      BY <1>1, <2>1
    <2>3. Agree(q[i], r[i]) /\ query[i] = q[i] /\ repl[i] = r[i]
      BY <1>7, <2>2
    <2>4. /\ query[i + 1] = CO!TraverseStep(query[i], path[i + 1])
          /\ repl[i + 1] = CO!FactStep(repl[i], path[i + 1])
          /\ q[i + 1] = CO!TraverseStep(q[i], path[i + 1])
          /\ r[i + 1] = CO!FactStep(r[i], path[i + 1])
      BY <1>3, <1>5, <2>2
    <2>5. QED BY <2>3, <2>4, StepsAgree
  <1>8. L \in D
    <2> HIDE DEF D
    <2>1. QED BY <1>1, <1>6, <1>7, NatSet
  <1>9. Agree(q[L], r[L]) /\ query[L] = q[L] /\ repl[L] = r[L]
    BY <1>1, <1>8
  <1>10. /\ query[L + 1] = CO!TraverseStep(query[L], key)
         /\ repl[L + 1] = CO!FactStep(repl[L], key)
    <2>1. L + 1 \in 1..Len(more) /\ (L + 1) - 1 = L
      BY <1>1
    <2>2. QED BY <1>1, <1>4, <2>1
  <1>11. QED BY <1>1, <1>3, <1>4, <1>9, <1>10 DEF more

\* In a call of plain arguments the fields before the cursor are those arguments.
LEMMA PlainFields ==
    ASSUME coText \in Seq(COTokens), NEW m, NEW args \in Seq(COArguments), FollowedBy(coText, m, args),
           CO!Start = m, m \in Nat, NEW call, call.args = args, CO!Plain(call), m # 0
    PROVE  \E path \in Seq(coNames) :
               /\ Len(path) = Len(args)
               /\ \A i \in 1..Len(args) : args[i] = CO!Arg(path[i])
               /\ CO!EnclosingCall.args = path
  <1> DEFINE L == Len(args)
             path == [i \in 1..L |-> args[i].names[1]]
  <1>1. L \in Nat /\ DOMAIN args = 1..L
    BY LenProperties
  <1>2. ASSUME NEW i \in 1..L PROVE path[i] \in coNames /\ args[i] = CO!Arg(path[i]) /\ Len(path[i]) = 1
    <2>1. args[i] \in COArguments /\ args[i].t = "arg" /\ Len(args[i].names[1]) = 1
      BY <1>1, ElementOfSeq DEF CO!Plain
    <2>2. PICK n \in coNames : args[i] = CO!Arg(n)
      BY <2>1 DEF COArguments, COArgs, CO!Array
    <2>3. CO!Arg(n).names[1] = n
      BY DEF CO!Arg
    <2>4. QED BY <2>1, <2>2, <2>3
  <1>3. path \in Seq(coNames) /\ Len(path) = L
    <2>1. path \in [1..L -> coNames]
      BY <1>2
    <2> HIDE DEF path
    <2>2. path \in Seq(coNames)
      BY <1>1, <2>1, SeqDef
    <2>3. DOMAIN path = 1..L /\ DOMAIN path = 1..Len(path) /\ Len(path) \in Nat
      BY <2>1, <2>2, LenProperties
    <2> HIDE DEF L
    <2>4. QED BY <1>1, <2>2, <2>3
  <1> HIDE DEF path
  <1>4. Len(coText) = m + L /\ \A i \in 1..L : coText[m + i] = args[i]
    BY DEF FollowedBy
  <1> HIDE DEF L
  <1>5. Len(coText) - m = L
    BY <1>1, <1>4
  <1>6. ASSUME NEW i \in 1..L PROVE CO!FieldsOf(m + i) = <<path[i]>>
    <2>1. coText[m + i] = CO!Arg(path[i]) /\ coText[m + i].t = "arg"
      BY <1>2, <1>4 DEF CO!Arg
    <2>2. ~(m + i < Len(coText) /\ coText[(m + i) + 1].t = "close")
      <3>1. SUFFICES ASSUME m + i < Len(coText) PROVE coText[(m + i) + 1].t # "close"
        OBVIOUS
      <3>2. i + 1 \in 1..L /\ (m + i) + 1 = m + (i + 1)
        BY <1>1, <1>4, <3>1
      <3>3. coText[m + (i + 1)] = CO!Arg(path[i + 1])
        BY <1>2, <1>4, <3>2
      <3>4. QED BY <3>2, <3>3 DEF CO!Arg
    <2>3. coText[m + i].names[1] = path[i]
      BY <2>1 DEF CO!Arg
    <2>4. CO!FieldsOf(m + i) = [w \in DOMAIN path[i] |-> <<path[i][w]>>]
      BY <2>1, <2>2, <2>3 DEF CO!FieldsOf
    <2>5. path[i] \in Seq({path[i][w] : w \in DOMAIN path[i]}) /\ Len(path[i]) = 1
      BY <1>2, PartsAssumption DEF CO!NamesAssumption
    <2>6. DOMAIN path[i] = 1..1 /\ path[i] = <<path[i][1]>>
      BY <2>5
    <2>7. QED BY <2>4, <2>6
  <1>7. CO!EnclosingCall.args = CO!FlattenSeq([i \in 1..L |-> CO!FieldsOf(m + i)])
    BY <1>5 DEF CO!EnclosingCall
  <1>8. [i \in 1..L |-> CO!FieldsOf(m + i)] = [i \in 1..Len(path) |-> <<path[i]>>]
    BY <1>3, <1>6
  <1>9. CO!EnclosingCall.args = path
    <2>1. PICK p : p = path
      OBVIOUS
    <2>2. CO!FlattenSeq([i \in 1..Len(p) |-> <<p[i]>>]) = p
      BY <1>3, <2>1, FlattenSingles
    <2>3. QED BY <1>7, <1>8, <2>1, <2>2
  <1>10. QED BY <1>2, <1>3, <1>9 DEF L

\* A query of those arguments and one more looks their names up.
LEMMA PlainLookup ==
    ASSUME NEW args \in Seq(COArguments), NEW path \in Seq(coNames), Len(path) = Len(args),
           \A i \in 1..Len(args) : args[i] = CO!Arg(path[i]), NEW key
    PROVE  CO!HashGet(Append(args, CO!Arg(key)), coFacts)
               = CO!TraverseHash(Append(path, key), coFacts)
  <1> DEFINE S == coNames \cup {key}
             A == COArguments \cup {CO!Arg(key)}
             L == Len(args)
             more == Append(path, key)
             all == Append(args, CO!Arg(key))
  <1>1. path \in Seq(S) /\ key \in S /\ args \in Seq(A) /\ CO!Arg(key) \in A
    BY SeqMonotonic
  <1> HIDE DEF S, A
  <1>2. /\ L \in Nat /\ more \in Seq(S) /\ Len(more) = L + 1 /\ Len(all) = L + 1
        /\ DOMAIN all = 1..(L + 1) /\ all[L + 1] = CO!Arg(key) /\ more[L + 1] = key
        /\ \A i \in 1..L : all[i] = args[i] /\ more[i] = path[i]
    <2>1. all \in Seq(A)
      BY <1>1, AppendProperties
    <2>2. DOMAIN all = 1..Len(all)
      BY <2>1, LenProperties
    <2>3. QED BY <1>1, <2>2, AppendProperties, LenProperties
  <1> HIDE DEF more, all
  <1>3. ASSUME NEW i \in 1..(L + 1) PROVE all[i] = CO!Arg(more[i])
    <2>1. CASE i = L + 1
      BY <1>2, <2>1
    <2>2. CASE i # L + 1
      <3>1. i \in 1..L
        BY <1>2, <2>2
      <3>2. QED BY <1>2, <3>1
    <2>3. QED BY <2>1, <2>2
  <1> HIDE DEF L
  <1>4. \A i \in 1..(L + 1) : all[i].t = "arg" /\ all[i].names = <<more[i]>>
    <2>1. \A x : CO!Arg(x).t = "arg" /\ CO!Arg(x).names = <<x>>
      BY DEF CO!Arg
    <2>2. QED BY <1>3, <2>1
  <1>5. CO!Path(all) = more
    <2>1. CO!Path(all) = CO!FlattenSeq([i \in 1..(L + 1) |-> all[i].names])
      BY <1>2 DEF CO!Path
    <2>2. [i \in 1..(L + 1) |-> all[i].names] = [i \in 1..Len(more) |-> <<more[i]>>]
      BY <1>2, <1>4
    <2>3. QED BY <1>2, <2>1, <2>2, FlattenSingles
  <1>6. more # <<>>
    BY <1>2, EmptySeq
  <1>7. ~CO!Refused(all)
    BY <1>2, <1>4, <1>5, <1>6 DEF CO!Refused
  <1>8. QED BY <1>5, <1>7 DEF CO!HashGet, more, all

\* Below a value are the names that lead on from it.
LEMMA ChildrenLeadOn ==
    ASSUME NEW query, NEW repl, Agree(query, repl)
    PROVE  /\ \A k \in CO!ChildrenOf(repl) : CO!TraverseStep(query, k) = CO!FactStep(repl, k)
           /\ \A n : CO!TraverseStep(query, n) # CO!Nil =>
                  \E k \in CO!ChildrenOf(repl) : CO!TraverseStep(query, k) = CO!TraverseStep(query, n)
  <1>1. CO!Nil.kind = "nil" /\ CO!Missing.kind = "missing"
    BY DEF CO!Nil, CO!Missing
  <1>2. CASE query = CO!Nil /\ repl = CO!Missing
    BY <1>1, <1>2 DEF CO!ChildrenOf, CO!TraverseStep
  <1>3. CASE query = repl /\ repl \in coValues
    <2>1. CASE repl.kind = "map"
      <3>1. CO!ChildrenOf(repl) = DOMAIN repl.sub
        BY <2>1 DEF CO!ChildrenOf
      <3>2. \A n : CO!TraverseStep(repl, n) = IF n \in DOMAIN repl.sub THEN repl.sub[n] ELSE CO!Nil
        BY <2>1 DEF CO!TraverseStep
      <3>3. \A k \in DOMAIN repl.sub : CO!FactStep(repl, k) = repl.sub[k]
        BY <2>1 DEF CO!FactStep
      <3>4. QED BY <1>3, <3>1, <3>2, <3>3
    <2>2. CASE repl.kind = "list"
      <3> DEFINE L == Len(repl.sub)
      <3>1. L \in Nat /\ DOMAIN repl.sub = 1..L /\ 0..(L - 1) \subseteq DOMAIN coIndexes
        BY <1>3, <2>2, PartsAssumption, LenProperties DEF CO!ValuesAssumption
      <3>2. CO!ChildrenOf(repl) = {coIndexes[i - 1] : i \in 1..L}
        BY <2>2, <3>1 DEF CO!ChildrenOf
      <3>3. \A n : CO!TraverseStep(repl, n) =
                IF n \notin DOMAIN coAtoi \/ coAtoi[n] < 0 \/ coAtoi[n] + 1 > L
                THEN CO!Nil ELSE repl.sub[coAtoi[n] + 1]
        BY <2>2 DEF CO!TraverseStep
      <3>4. \A n : n \in DOMAIN coAtoi /\ coAtoi[n] \in 0..(L - 1) =>
                CO!FactStep(repl, n) = repl.sub[coAtoi[n] + 1]
        BY <2>2 DEF CO!FactStep
      <3> HIDE DEF L
      <3>5. \A i \in 1..L : i - 1 \in 0..(L - 1) /\ (i - 1) + 1 = i /\ ~(i - 1 < 0) /\ ~((i - 1) + 1 > L)
        BY <3>1
      <3>6. ASSUME NEW i \in 1..L
            PROVE  /\ coIndexes[i - 1] \in DOMAIN coAtoi /\ coAtoi[coIndexes[i - 1]] = i - 1
                   /\ CO!TraverseStep(repl, coIndexes[i - 1]) = repl.sub[i]
                   /\ CO!FactStep(repl, coIndexes[i - 1]) = repl.sub[i]
        <4>1. i - 1 \in DOMAIN coIndexes
          BY <3>1, <3>5
        <4>2. coIndexes[i - 1] \in DOMAIN coAtoi /\ coAtoi[coIndexes[i - 1]] = i - 1
          BY <4>1, PartsAssumption DEF CO!NamesAssumption
        <4>3. QED BY <3>3, <3>4, <3>5, <4>2
      <3>7. ASSUME NEW n, CO!TraverseStep(repl, n) # CO!Nil
            PROVE  \E k \in CO!ChildrenOf(repl) : CO!TraverseStep(repl, k) = CO!TraverseStep(repl, n)
        <4> DEFINE i == coAtoi[n] + 1
        <4>1. /\ n \in DOMAIN coAtoi /\ ~(coAtoi[n] < 0) /\ ~(coAtoi[n] + 1 > L)
              /\ CO!TraverseStep(repl, n) = repl.sub[i]
          BY <3>3, <3>7
        <4>2. coAtoi[n] \in Int
          BY <4>1, PartsAssumption DEF CO!NamesAssumption
        <4>3. i \in 1..L
          BY <3>1, <4>1, <4>2
        <4> HIDE DEF i
        <4>4. coIndexes[i - 1] \in CO!ChildrenOf(repl)
          BY <3>2, <4>3
        <4>5. QED BY <3>6, <4>1, <4>3, <4>4
      <3>8. QED BY <1>3, <3>2, <3>6, <3>7
    <2>3. CASE repl.kind # "map" /\ repl.kind # "list"
      BY <1>3, <2>3 DEF CO!ChildrenOf, CO!TraverseStep
    <2>4. QED BY <2>1, <2>2, <2>3
  <1>4. QED BY <1>2, <1>3 DEF Agree

LEMMA ClassesComplete ==
    ASSUME COInv
    PROVE  /\ coClass.closed => coClass.segs \in coClasses
           /\ ~coClass.closed => \A c \in coClasses : CO!IsStrictPrefix(coClass.segs, c) =>
                  \E o \in CO!OfferedClasses(coClass.segs) : CO!IsPrefix(o.segs, c)
  <1> DEFINE n == Len(coClass.segs) + 1
  <1>1. n \in Nat /\ (coClass.closed => coClass.segs \in coClasses)
    BY DEF COInv
  <1>2. ASSUME NEW c \in coClasses, CO!IsStrictPrefix(coClass.segs, c)
        PROVE  \E o \in CO!OfferedClasses(coClass.segs) : CO!IsPrefix(o.segs, c)
    <2> DEFINE o == IF Len(c) > n THEN [segs |-> SubSeq(c, 1, n), closed |-> FALSE]
                                  ELSE [segs |-> c, closed |-> TRUE]
    <2>1. o \in CO!OfferedClasses(coClass.segs)
      BY <1>2 DEF CO!OfferedClasses
    <2>2. c \in Seq({c[i] : i \in DOMAIN c}) /\ Len(c) \in Nat /\ DOMAIN c = 1..Len(c)
      BY PartsAssumption, LenProperties DEF CO!ClassesAssumption
    <2> HIDE DEF n
    <2>3. CASE Len(c) > n
      <3>1. o.segs = SubSeq(c, 1, n)
        BY <2>3
      <3>2. Len(SubSeq(c, 1, n)) = IF 1 <= n THEN n - 1 + 1 ELSE 0
        <4>1. \A i \in 1..n : c[i] \in {c[j] : j \in DOMAIN c}
          BY <1>1, <2>2, <2>3
        <4>2. QED BY <1>1, <4>1, SubSeqProperties
      <3>3. Len(o.segs) = n
        BY <1>1, <3>1, <3>2
      <3>4. SubSeq(o.segs, 1, Len(o.segs)) = o.segs
        <4>1. \A i \in 1..n : c[i] \in {c[j] : j \in DOMAIN c}
          BY <1>1, <2>2, <2>3
        <4>2. o.segs \in Seq({c[j] : j \in DOMAIN c})
          BY <1>1, <3>1, <4>1, SubSeqProperties
        <4>3. QED BY <4>2, SubSeqFull
      <3>5. n <= Len(c)
        BY <1>1, <2>2, <2>3
      <3>6. CO!IsPrefix(o.segs, c)
        BY <3>1, <3>3, <3>4, <3>5 DEF CO!IsPrefix
      <3>7. QED BY <2>1, <3>6
    <2>4. CASE ~(Len(c) > n)
      <3>1. o.segs = c
        BY <2>4
      <3>2. CO!IsPrefix(c, c)
        BY <2>2 DEF CO!IsPrefix
      <3>3. QED BY <2>1, <3>1, <3>2
    <2>5. QED BY <2>3, <2>4
  <1>3. QED BY <1>1, <1>2

LEMMA COResolves == COInv => CO!CompletionsResolve
  <1> SUFFICES ASSUME COInv PROVE CO!CompletionsResolve
    OBVIOUS
  <1> DEFINE n == Len(coCalls)
             call == coCalls[n]
  <1>1. PICK p : Nesting(coText, coCalls, p)
    BY DEF COInv
  <1>2. coText \in Seq(COTokens) /\ coCalls \in Seq(COCalls) /\ coFacts \in coFactTrees
    BY DEF COInv
  <1>3. n \in Nat /\ (coCalls # <<>> => n # 0 /\ call \in COCalls) /\ (coCalls = <<>> => n = 0)
    BY <1>2, LenProperties, EmptySeq, ElementOfSeq
  <1>4. /\ Inside(coText, p[n], 0)
        /\ n # 0 => p[n] # 0 /\ coText[p[n]] = CO!Open(call.fn)
        /\ n = 0 => p[n] = 0
    <2>1. /\ \A k \in 0..n : Inside(coText, p[k], n - k)
          /\ \A k \in 1..n : p[k] # 0 /\ coText[p[k]] = CO!Open(coCalls[k].fn)
          /\ p[0] = 0
      BY <1>1 DEF Nesting
    <2> HIDE DEF n
    <2>2. n \in 0..n /\ n - n = 0 /\ (n # 0 => n \in 1..n)
      BY <1>3
    <2>3. QED BY <2>1, <2>2
  <1>5. CO!Start = p[n]
    <2>1. p[n] = 0 \/ coText[p[n]].t = "open"
      BY <1>4 DEF CO!Open
    <2>2. PICK m : m = p[n]
      OBVIOUS
    <2>3. Inside(coText, m, 0) /\ (m = 0 \/ coText[m].t = "open")
      BY <1>4, <2>1, <2>2
    <2>4. CO!Start = m
      BY <1>2, <2>3, StartIsLast
    <2>5. QED BY <2>2, <2>4
  <1> HIDE DEF n
  <1>6. coCalls = <<>> \/ call.fn # "fact" => CO!Offered = {}
    <2>1. CASE coCalls = <<>>
      <3>1. CO!Start = 0
        BY <1>3, <1>4, <1>5, <2>1
      <3>2. CO!EnclosingCall.fn = ""
        BY <3>1 DEF CO!EnclosingCall
      <3>3. QED BY <3>2 DEF CO!Offered
    <2>2. CASE coCalls # <<>> /\ call.fn # "fact"
      <3>1. CO!Start # 0 /\ coText[CO!Start] = CO!Open(call.fn)
        BY <1>3, <1>4, <1>5, <2>2
      <3>2. CO!EnclosingCall.fn = call.fn
        BY <3>1 DEF CO!EnclosingCall, CO!Open
      <3>3. QED BY <2>2, <3>2 DEF CO!Offered
    <2>3. QED BY <2>1, <2>2
  <1>7. ASSUME coCalls # <<>>, call.fn = "fact", CO!Plain(call)
        PROVE  /\ \A k \in CO!Offered : CO!HashGet(Append(call.args, CO!Arg(k)), coFacts)
                                            = CO!FactPath(Append(CO!EnclosingCall.args, k))
               /\ \A x \in coNames :
                      CO!HashGet(Append(call.args, CO!Arg(x)), coFacts) # CO!Nil =>
                          \E k \in CO!Offered : CO!HashGet(Append(call.args, CO!Arg(k)), coFacts)
                                              = CO!HashGet(Append(call.args, CO!Arg(x)), coFacts)
    <2>1. PICK c, args, m : c = call /\ args = call.args /\ m = p[n]
      OBVIOUS
    <2>2. args \in Seq(COArguments) /\ c.args = args /\ CO!Plain(c)
      BY <1>3, <1>7, <2>1 DEF COCalls
    <2>3. NoCall(args)
      BY <2>2 DEF CO!Plain, NoCall
    <2>4. FollowedBy(coText, m, args) /\ m \in Nat /\ m # 0 /\ CO!Start = m
      <3>1. FollowedBy(coText, m, args)
        BY <1>1, <1>7, <2>1, <2>3 DEF Nesting, n
      <3>2. m \in Nat
        BY <1>4, <2>1 DEF Inside
      <3>3. QED BY <1>3, <1>4, <1>5, <1>7, <2>1, <3>1, <3>2
    <2>5. PICK path \in Seq(coNames) :
              /\ Len(path) = Len(args)
              /\ \A i \in 1..Len(args) : args[i] = CO!Arg(path[i])
              /\ CO!EnclosingCall.args = path
      BY <1>2, <2>2, <2>4, PlainFields
    <2>6. CO!EnclosingCall.fn = "fact"
      <3>1. CO!Start # 0 /\ coText[CO!Start] = CO!Open("fact")
        BY <1>3, <1>4, <1>5, <1>7
      <3>2. QED BY <3>1 DEF CO!EnclosingCall, CO!Open
    <2>7. CO!Offered = CO!ChildrenOf(CO!FactPath(path))
      BY <2>5, <2>6 DEF CO!Offered, CO!FactChildren
    <2> DEFINE query == CO!TraverseHash(path, coFacts)
               repl == CO!FactPath(path)
    <2>8. ASSUME NEW k
          PROVE  /\ Agree(query, repl)
                 /\ CO!HashGet(Append(args, CO!Arg(k)), coFacts) = CO!TraverseStep(query, k)
                 /\ CO!FactPath(Append(path, k)) = CO!FactStep(repl, k)
      <3>1. path \in Seq(coNames \cup {k}) /\ k \in coNames \cup {k}
        BY SeqMonotonic
      <3>2. CO!HashGet(Append(args, CO!Arg(k)), coFacts) = CO!TraverseHash(Append(path, k), coFacts)
        BY <2>2, <2>5, PlainLookup
      <3>3. QED BY <1>2, <3>1, <3>2, LookupsAgree
    <2>9. /\ \A k \in CO!ChildrenOf(repl) : CO!TraverseStep(query, k) = CO!FactStep(repl, k)
          /\ \A x : CO!TraverseStep(query, x) # CO!Nil =>
                 \E k \in CO!ChildrenOf(repl) : CO!TraverseStep(query, k) = CO!TraverseStep(query, x)
      <3>1. PICK q, r : q = query /\ r = repl
        OBVIOUS
      <3> HIDE DEF query, repl
      <3>2. Agree(q, r)
        BY <2>8, <3>1
      <3>3. QED BY <3>1, <3>2, ChildrenLeadOn
    <2> HIDE DEF query, repl
    <2>10. QED BY <2>1, <2>5, <2>7, <2>8, <2>9 DEF repl
  <1>8. QED BY <1>6, <1>7, ClassesComplete DEF CO!CompletionsResolve, n

\* data.go:13: at every place of every expression, with whatever calls in it, what TAB offers
\* is what the query finds, and everything that the query can find is offered; completing a
\* class ends at a class, and can end at each of them.
THEOREM CompletionsAlwaysResolve == Spec => []CompletionsResolve
  <1> DEFINE I == focus = "completion" => COInv
  <1>1. Init => I
    BY COInitially DEF Init
  <1>2. I /\ [Next]_vars => I'
    <2>1. SUFFICES ASSUME I, [Next]_vars, focus' = "completion" PROVE COInv'
      OBVIOUS
    <2>2. focus = "completion" /\ (CO!Next \/ UNCHANGED coVars)
      BY <2>1, OneMoves
    <2>3. COInv
      BY <2>1, <2>2
    <2>4. CASE UNCHANGED coVars
      BY <2>3, <2>4 DEF COInv, coVars
    <2>5. QED BY <2>2, <2>3, <2>4, COStep
  <1>3. I => CompletionsResolve
    BY COResolves DEF CompletionsResolve
  <1>4. QED BY <1>1, <1>2, <1>3, PTL DEF Spec
=============================================================================
