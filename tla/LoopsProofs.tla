----------------------------- MODULE LoopsProofs -----------------------------
(***************************************************************************)
(* Proofs about the components of Loops, for every value of their          *)
(* parameters: the safety of the two whose loops keep something true while *)
(* they fail and start over.                                               *)
(***************************************************************************)
EXTENDS Loops, SequenceTheorems, TLAPS

-----------------------------------------------------------------------------
(* Daemon                                                                  *)

\* HealthIsHonest is inductive: whoever leaves its channel says so in the same step.
DMInv ==
    /\ DOMAIN dmListener = DM!Listeners /\ DOMAIN dmHealth = DM!Components
    /\ DM!HealthIsHonest

LEMMA DMInitially == DM!Init => DMInv
  BY DEF DM!Init, DMInv, DM!HealthIsHonest, DM!Components

\* The sets report to a component that is nobody else's.
LEMMA OwnComponents ==
    /\ DM!Listeners \ dmSets = {"puppet", "fence"}
    /\ \A l \in {"puppet", "fence"} : DM!Component(l) = l /\ l \in DM!Components
    /\ \A l \in dmSets : DM!Component(l) = "ipset"
    /\ "icinga" \in DM!Components /\ "icinga" \notin DM!Listeners
  BY LoopsAssumption DEF DM!NamesAssumption, DM!Listeners, DM!Component, DM!Components

LEMMA DMListenerStep ==
    ASSUME DMInv, NEW l \in DM!Listeners,
           DM!Subscribe(l) \/ DM!SubscribeFails(l) \/ DM!Disconnect(l) \/ DM!Retry(l)
    PROVE  DMInv'
  <1>1. DM!Component(l) # "icinga" /\ (l \in dmSets => DM!Component(l) \notin {"puppet", "fence"})
    BY OwnComponents
  <1>2. CASE DM!Subscribe(l)
    BY <1>1, <1>2, OwnComponents DEF DM!Subscribe, DMInv, DM!HealthIsHonest
  <1>3. CASE DM!SubscribeFails(l)
    BY <1>1, <1>3, OwnComponents DEF DM!SubscribeFails, DMInv, DM!HealthIsHonest
  <1>4. CASE DM!Disconnect(l)
    BY <1>1, <1>4, OwnComponents DEF DM!Disconnect, DMInv, DM!HealthIsHonest
  <1>5. CASE DM!Retry(l)
    BY <1>1, <1>5, OwnComponents DEF DM!Retry, DMInv, DM!HealthIsHonest
  <1>6. QED BY <1>2, <1>3, <1>4, <1>5

LEMMA DMMainStep ==
    ASSUME DMInv, DM!Main \/ DM!DowntimeEnds
    PROVE  DMInv'
  <1> USE DEF DMInv, DM!HealthIsHonest
  <1>1. CASE DM!Connect
    BY <1>1 DEF DM!Connect
  <1>2. CASE DM!StartModules
    BY <1>2, OwnComponents DEF DM!StartModules
  <1>3. CASE DM!StartIcinga
    <2>1. dmIcinga \in {"off", "down", "up"}
      BY LoopsAssumption DEF DM!ConfigAssumption
    <2>2. PICK s \in {"none", "critical", "unknown"} : dmHealth' = [dmHealth EXCEPT !["icinga"] = s]
      <3>1. CASE dmIcinga = "off"
        BY <1>3, <3>1 DEF DM!StartIcinga
      <3>2. CASE dmIcinga = "down"
        BY <1>3, <3>2 DEF DM!StartIcinga
      <3>3. CASE dmIcinga = "up"
        BY <1>3, <3>3 DEF DM!StartIcinga
      <3>4. QED BY <2>1, <3>1, <3>2, <3>3
    <2>3. dmListener' = dmListener
      BY <1>3 DEF DM!StartIcinga
    <2>4. QED BY <2>2, <2>3, OwnComponents
  <1>4. CASE DM!StartWeb \/ DM!SendFailure \/ DM!Exit \/ DM!DowntimeRetries
    BY <1>4 DEF DM!StartWeb, DM!SendFailure, DM!Exit, DM!DowntimeRetries
  <1>5. CASE DM!DowntimeListens
    BY <1>5, OwnComponents DEF DM!DowntimeListens
  <1>6. CASE DM!DowntimeEnds
    BY <1>6, OwnComponents DEF DM!DowntimeEnds
  <1>7. QED BY <1>1, <1>2, <1>3, <1>4, <1>5, <1>6 DEF DM!Main

LEMMA DMHupStep ==
    ASSUME DMInv, DM!Hup \/ DM!HupLoop
    PROVE  DMInv'
  BY DEF DM!Hup, DM!HupLoop, DM!HupTaken, DM!HupElapses, DM!HupSends, DM!Fallback, DMInv,
         DM!HealthIsHonest

\* README:322: a module of the daemon that has its health to itself listens when it says ok,
\* with any sets configured, over any number of reconnects and HUPs.
THEOREM HealthStaysHonest == Spec => []HealthIsHonest
  <1>1. Init => DMInv
    BY DMInitially DEF Init
  <1>2. DMInv /\ [Next]_vars => DMInv'
    <2> SUFFICES ASSUME DMInv, [Next]_vars
                 PROVE  DMInv'
      OBVIOUS
    <2>1. DM!Next \/ UNCHANGED dmVars
      BY DEF Next, PSStep, DOStep, DMStep, HVStep, vars
    <2>2. UNCHANGED dmVars => DMInv'
      BY DEF dmVars, DMInv, DM!HealthIsHonest
    <2>3. DM!Next => DMInv'
      BY DMListenerStep, DMMainStep, DMHupStep DEF DM!Next
    <2>4. QED BY <2>1, <2>2, <2>3
  <1>3. DMInv => HealthIsHonest
    BY DEF DMInv, HealthIsHonest
  <1>4. QED BY <1>1, <1>2, <1>3, PTL DEF Spec

-----------------------------------------------------------------------------
(* HvmInfo                                                                 *)

\* What is on the line and in the files is of a host the VM was on.
HVHosts ==
    /\ hvHost \in hvVisited /\ hvVisited \subseteq hvHosts
    /\ hvLine \in Seq(hvVisited \cup {Noise, Nameless})
    /\ hvReader \in {"open", "write"} => hvInfo \in hvVisited
    /\ hvTemp # None => hvTemp.host \in hvVisited
    /\ hvFact # None => hvFact.host \in hvVisited

\* What is renamed after a WriteFile that did not fail is whole, and so is what was.
HVWhole ==
    /\ hvReader = "rename" /\ hvTemp # None => hvTemp.whole
    /\ hvFact # None => hvFact.whole \/ hvTorn

HVInv == HVHosts /\ HVWhole

LEMMA HVInitially == HV!Init => HVInv
  BY EmptySeq DEF HV!Init, HVInv, HVHosts, HVWhole

LEMMA HVReaderStep ==
    ASSUME HVInv, HV!Reader \/ HV!WriteFails \/ HV!RenameFails \/ HV!ReaderExits \/ HV!Restart
    PROVE  HVInv'
  <1> USE DEF HVInv, HVHosts, HVWhole
  <1>1. CASE HV!TakeLine
    <2>1. Head(hvLine) \in hvVisited \cup {Noise, Nameless} /\ Head(hvLine) \in hvHosts
          /\ Tail(hvLine) \in Seq(hvVisited \cup {Noise, Nameless})
      BY <1>1, HeadTailProperties DEF HV!TakeLine
    <2>2. Head(hvLine) \in hvVisited
      BY <2>1, LoopsAssumption DEF HV!NamesAssumption
    <2>3. QED BY <1>1, <2>1, <2>2 DEF HV!TakeLine
  <1>2. CASE HV!SkipLine
    <2>1. Tail(hvLine) \in Seq(hvVisited \cup {Noise, Nameless})
      BY <1>2, HeadTailProperties DEF HV!SkipLine
    <2>2. QED BY <1>2, <2>1 DEF HV!SkipLine, HV!client
  <1>3. CASE HV!Open
    BY <1>3 DEF HV!Open, HV!wire
  <1>4. CASE HV!Write
    BY <1>4 DEF HV!Write, HV!wire
  <1>5. CASE HV!Rename
    BY <1>5 DEF HV!Rename, HV!wire
  <1>6. CASE HV!WriteFails
    BY <1>6 DEF HV!WriteFails, HV!wire
  <1>7. CASE HV!RenameFails \/ HV!ReaderExits \/ HV!Restart
    BY <1>7 DEF HV!RenameFails, HV!ReaderExits, HV!Restart, HV!wire
  <1>8. QED BY <1>1, <1>2, <1>3, <1>4, <1>5, <1>6, <1>7 DEF HV!Reader

LEMMA HVWireStep ==
    ASSUME HVInv, HV!Ask \/ HV!Serve \/ HV!Lose \/ HV!Garble
    PROVE  HVInv'
  <1> USE DEF HVInv, HVHosts, HVWhole
  <1>1. CASE HV!Ask \/ HV!Lose
    BY <1>1 DEF HV!Ask, HV!Lose, HV!client
  <1>2. CASE HV!Serve
    <2>1. Append(hvLine, hvHost) \in Seq(hvVisited \cup {Noise, Nameless})
      BY AppendProperties
    <2>2. QED BY <1>2, <2>1 DEF HV!Serve, HV!client
  <1>3. CASE HV!Garble
    <2>1. \A n \in {Noise, Nameless} : Append(hvLine, n) \in Seq(hvVisited \cup {Noise, Nameless})
      BY AppendProperties
    <2>2. QED BY <1>3, <2>1 DEF HV!Garble, HV!client
  <1>4. QED BY <1>1, <1>2, <1>3

LEMMA HVHostStep ==
    ASSUME HVInv, NEW h \in hvHosts, HV!Break(h) \/ HV!Recover(h) \/ HV!Migrate(h)
    PROVE  HVInv'
  <1> USE DEF HVInv, HVHosts, HVWhole
  <1>1. CASE HV!Break(h) \/ HV!Recover(h)
    BY <1>1 DEF HV!Break, HV!Recover, HV!wire, HV!client
  <1>2. CASE HV!Migrate(h)
    <2>1. hvVisited' = hvVisited \cup {h} /\ hvHost' = h /\ UNCHANGED <<hvLine, hvReader, hvInfo,
              hvTemp, hvFact, hvTorn>>
      BY <1>2 DEF HV!Migrate, HV!wire, HV!client
    <2>2. hvLine \in Seq(hvVisited' \cup {Noise, Nameless})
      BY <2>1
    <2>3. QED BY <2>1, <2>2
  <1>3. QED BY <1>1, <1>2

\* hvminfo/client.go:58-69: whenever the VM's daemon is killed and wherever the VM has gone by
\* then, the fact puppet reads is of a hypervisor the VM has been on, and complete unless it is
\* the very one whose WriteFile failed - with any number of hypervisors, migrations and faults.
THEOREM FactStaysSound == Spec => []FactIsSound
  <1>1. Init => HVInv
    BY HVInitially DEF Init
  <1>2. HVInv /\ [Next]_vars => HVInv'
    <2> SUFFICES ASSUME HVInv, [Next]_vars
                 PROVE  HVInv'
      OBVIOUS
    <2>1. HV!Next \/ UNCHANGED hvVars
      BY DEF Next, PSStep, DOStep, DMStep, HVStep, vars
    <2>2. UNCHANGED hvVars => HVInv'
      BY DEF hvVars, HVInv, HVHosts, HVWhole
    <2>3. HV!Next => HVInv'
      BY HVReaderStep, HVWireStep, HVHostStep DEF HV!Next
    <2>4. QED BY <2>1, <2>2, <2>3
  <1>3. HVInv => FactIsSound
    BY DEF HVInv, HVHosts, HVWhole, FactIsSound, HV!FactIsSound
  <1>4. QED BY <1>1, <1>2, <1>3, PTL DEF Spec
-----------------------------------------------------------------------------
(* The steps of Loops are those of its components                          *)

LEMMA LoopsStep == [Next]_vars =>
    /\ PS!Next \/ UNCHANGED psVars
    /\ DO!Next \/ UNCHANGED doVars
    /\ DM!Next \/ UNCHANGED dmVars
    /\ HV!Next \/ UNCHANGED hvVars
  BY DEF Next, PSStep, DOStep, DMStep, HVStep, vars

-----------------------------------------------------------------------------
(* PuppetState                                                             *)

\* A worker that has parsed something is on a file.
PSInv == PS!TypeOK /\ \A w \in Workers : psWorker[w].got # Bad => psWorker[w].at # 0

LEMMA PSInitially == PS!Init => PSInv
  <1> SUFFICES ASSUME PS!Init PROVE PSInv
    OBVIOUS
  <1>1. [version |-> 0, part |-> "whole"] \in PS!Content /\ psWrites \in 0..psMaxWrites
    BY LoopsAssumption DEF PS!Init, PS!Content, PS!BoundAssumption
  <1>2. PS!Sleeping \in [at : 0..Len(PS!Pass), got : PS!Content \cup {Bad, Blank}]
    BY DEF PS!Sleeping, PS!Pass
  <1>3. psFile \in [PS!Data -> PS!Content \cup {Bad}]
    BY <1>1 DEF PS!Init
  <1>4. psCache \in [PS!Data -> PS!Content \cup {Blank}]
    BY <1>3 DEF PS!Init
  <1>5. QED BY <1>1, <1>2, <1>3, <1>4 DEF PSInv, PS!TypeOK, PS!Init, PS!Sleeping

LEMMA PSWorkerStep ==
    ASSUME PSInv, NEW w \in Workers, PS!Worker(w)
    PROVE  PSInv'
  <1> USE DEF PSInv, PS!TypeOK
  <1> DEFINE Rec == [at : 0..3, got : PS!Content \cup {Bad, Blank}]
  <1>1. Len(PS!Pass) = 3
    BY DEF PS!Pass
  <1>2. psWorker \in [Workers -> Rec] /\ psWorker[w].at \in 0..3
    BY <1>1
  <1>3. PS!Advance(w) \in Rec /\ PS!Advance(w).got = Bad
    <2>1. psWorker[w].at # 3 => psWorker[w].at + 1 \in 0..3
      BY <1>2
    <2>2. QED BY <1>1, <2>1 DEF PS!Advance, PS!Sleeping
  <1>4. CASE PS!StartPass(w)
    <2>1. psWorker' \in [Workers -> Rec]
      BY <1>2, <1>4 DEF PS!StartPass
    <2>2. QED BY <1>1, <1>2, <1>4, <2>1 DEF PS!StartPass
  <1>5. CASE PS!Read(w)
    <2> DEFINE got == PS!Parsed(PS!Pass[psWorker[w].at])
    <2>1. got \in PS!Content \cup {Bad, Blank}
      BY <1>2, <1>5 DEF PS!Read, PS!Pass, PS!Data, PS!Parsed
    <2>2. psWorker' = [psWorker EXCEPT ![w].got = got]
      BY <1>5 DEF PS!Read
    <2> HIDE DEF got
    <2>3. psWorker' \in [Workers -> Rec]
      BY <1>2, <2>1, <2>2
    <2>4. psWorker'[w].at # 0 /\ \A v \in Workers \ {w} : psWorker'[v] = psWorker[v]
      BY <1>2, <1>5, <2>2 DEF PS!Read
    <2>5. QED BY <1>1, <1>5, <2>3, <2>4 DEF PS!Read
  <1>6. CASE PS!Skip(w)
    <2>1. psWorker' \in [Workers -> Rec]
      BY <1>2, <1>3, <1>6 DEF PS!Skip
    <2>2. QED BY <1>1, <1>2, <1>3, <1>6, <2>1 DEF PS!Skip
  <1>7. CASE PS!Store(w)
    <2>1. psWorker' \in [Workers -> Rec]
      BY <1>2, <1>3, <1>7 DEF PS!Store
    <2>2. psCache' \in [PS!Data -> PS!Content \cup {Blank}]
      BY <1>2, <1>7 DEF PS!Store
    <2>3. QED BY <1>1, <1>2, <1>3, <1>7, <2>1, <2>2 DEF PS!Store
  <1>8. QED BY <1>4, <1>5, <1>6, <1>7 DEF PS!Worker

LEMMA PSAgentStep ==
    ASSUME PSInv, NEW d \in PS!Data, PS!AgentWrites(d) \/ PS!AgentCompletes(d)
    PROVE  PSInv'
  <1> USE DEF PSInv, PS!TypeOK
  <1>1. CASE PS!AgentWrites(d)
    <2>1. psWrites + 1 \in 0..psMaxWrites
      BY <1>1, LoopsAssumption DEF PS!AgentWrites, PS!BoundAssumption
    <2>2. [version : {psWrites + 1}, part : {"whole", "cut", "head"}] \subseteq PS!Content
      BY <2>1 DEF PS!Content
    <2>3. psFile' \in [PS!Data -> PS!Content \cup {Bad}]
      BY <1>1, <2>2 DEF PS!AgentWrites
    <2>4. QED BY <1>1, <2>1, <2>3 DEF PS!AgentWrites
  <1>2. CASE PS!AgentCompletes(d)
    <2>1. psFile[d] \in PS!Content
      BY <1>2 DEF PS!AgentCompletes
    <2>2. [psFile[d] EXCEPT !.part = "whole"] \in PS!Content
      BY <2>1 DEF PS!Content
    <2>3. psFile' \in [PS!Data -> PS!Content \cup {Bad}]
      BY <1>2, <2>2 DEF PS!AgentCompletes
    <2>4. QED BY <1>2, <2>3 DEF PS!AgentCompletes
  <1>3. QED BY <1>1, <1>2

LEMMA PSInvariant == Spec => []PSInv
  <1>1. PSInv /\ UNCHANGED psVars => PSInv'
    BY DEF PSInv, PS!TypeOK, psVars
  <1>2. PSInv /\ [Next]_vars => PSInv'
    BY <1>1, LoopsStep, PSWorkerStep, PSAgentStep DEF PS!Next
  <1>3. QED BY PSInitially, <1>2, PTL DEF Spec, Init

\* The node answers from the file as it is, and no worker holds anything else of it.
Settled(d) ==
    /\ psFile[d] # Bad /\ psFile[d].part = "whole"
    /\ psCache[d] = psFile[d]
    /\ \A w \in Workers : psWorker[w].got # Bad /\ PS!Pass[psWorker[w].at] = d
           => psWorker[w].got = psFile[d]

\* A step that leaves the file alone leaves what settled settled.
SettledStays == \A d \in PS!Data : Settled(d) /\ psFile'[d] = psFile[d] => Settled(d)'

LEMMA PSSettles ==
    ASSUME PSInv, [Next]_vars
    PROVE  SettledStays
  <1> SUFFICES ASSUME NEW d \in PS!Data, Settled(d), psFile'[d] = psFile[d]
               PROVE  Settled(d)'
    BY DEF SettledStays
  <1> USE DEF Settled, PSInv, PS!TypeOK
  <1>1. CASE UNCHANGED psVars
    BY <1>1 DEF psVars
  <1>2. ASSUME NEW e \in PS!Data, PS!AgentWrites(e) \/ PS!AgentCompletes(e)
        PROVE  Settled(d)'
    BY <1>2 DEF PS!AgentWrites, PS!AgentCompletes
  <1>3. ASSUME NEW w \in Workers, PS!Worker(w)
        PROVE  Settled(d)'
    <2>1. PS!Advance(w).got = Bad
      BY DEF PS!Advance, PS!Sleeping
    <2>2. CASE PS!StartPass(w) \/ PS!Skip(w)
      BY <2>1, <2>2 DEF PS!StartPass, PS!Skip
    <2>3. CASE PS!Read(w)
      BY <2>3 DEF PS!Read, PS!Parsed
    <2>4. CASE PS!Store(w)
      <3>1. psCache'[d] = psFile[d]
        BY <2>4 DEF PS!Store
      <3>2. QED BY <2>1, <2>4, <3>1 DEF PS!Store
    <2>5. QED BY <1>3, <2>2, <2>3, <2>4 DEF PS!Worker
  <1>4. QED BY <1>1, <1>2, <1>3, LoopsStep DEF PS!Next

\* server.go:296-336, what Converges needs of every single step: once the node answers from a
\* file that is whole and no worker is behind, nothing the workers do to each other and to
\* the rest undoes it before the agent writes that file again - for any number of workers.
THEOREM WhatSettledStays == Spec => [][SettledStays]_vars
  <1>1. PSInv /\ [Next]_vars => [SettledStays]_vars
    BY PSSettles
  <1>2. QED BY <1>1, PSInvariant, PTL DEF Spec
-----------------------------------------------------------------------------
(* DiscoverOnce                                                            *)

\* How long the timers of a run can still put off its end.
Patience == IF doStarted THEN doLeft ELSE doLeft + doIdleWait

\* The timer is armed a second time at the first heartbeat and never again, which puts the
\* end off no further than was allowed; what was found stays, and is final with the end.
DiscoveryNearsItsEnd ==
    /\ Patience' <= Patience
    /\ doLeft' > doLeft => ~doStarted /\ doStarted'
    /\ doActive \subseteq doActive' /\ doStale \subseteq doStale'
    /\ doDone => doDone' /\ doActive' = doActive /\ doStale' = doStale

LEMMA DOInitially == DO!Init => DO!TypeOK
  <1>1. doInitialWait \in 0..(doInitialWait + doIdleWait)
    BY LoopsAssumption DEF DO!WaitAssumption
  <1>2. QED BY <1>1 DEF DO!Init, DO!TypeOK

LEMMA DOTypeStep ==
    ASSUME DO!TypeOK, DO!Next
    PROVE  DO!TypeOK'
  <1> USE DEF DO!TypeOK
  <1>1. doInitialWait \in Nat /\ doIdleWait \in Nat
    BY LoopsAssumption DEF DO!WaitAssumption
  <1>2. CASE DO!Return
    BY <1>2 DEF DO!Return
  <1>3. CASE DO!Tick
    BY <1>1, <1>3 DEF DO!Tick
  <1>4. ASSUME NEW m \in DO!Heartbeats, DO!Drain(m) \/ DO!Arrive(m)
        PROVE  DO!TypeOK'
    BY <1>4 DEF DO!Drain, DO!Arrive
  <1>5. ASSUME NEW m \in DO!Heartbeats, DO!Read(m)
        PROVE  DO!TypeOK'
    <2>1. m.fqdn \in doHosts
      BY DEF DO!Heartbeats
    <2>2. doLeft' \in 0..(doInitialWait + doIdleWait)
      BY <1>1, <1>5 DEF DO!Read
    <2>3. doActive' \subseteq doHosts /\ doStale' \subseteq doHosts
      BY <1>5, <2>1 DEF DO!Read, DO!Add
    <2>4. QED BY <1>5, <2>2, <2>3 DEF DO!Read
  <1>6. QED BY <1>2, <1>3, <1>4, <1>5 DEF DO!Next

LEMMA DOInvariant == Spec => []DO!TypeOK
  <1>1. DO!TypeOK /\ UNCHANGED doVars => DO!TypeOK'
    BY DEF DO!TypeOK, doVars
  <1>2. DO!TypeOK /\ [Next]_vars => DO!TypeOK'
    BY <1>1, LoopsStep, DOTypeStep
  <1>3. QED BY DOInitially, <1>2, PTL DEF Spec, Init

LEMMA DONears ==
    ASSUME DO!TypeOK, [Next]_vars
    PROVE  DiscoveryNearsItsEnd
  <1> USE DEF DiscoveryNearsItsEnd, Patience
  <1>1. doLeft \in Nat /\ doIdleWait \in Nat /\ doStarted \in BOOLEAN
    BY LoopsAssumption DEF DO!WaitAssumption, DO!TypeOK
  <1>2. CASE UNCHANGED doVars \/ DO!Return
    BY <1>1, <1>2 DEF doVars, DO!Return
  <1>3. CASE DO!Tick
    BY <1>1, <1>3 DEF DO!Tick
  <1>4. ASSUME NEW m \in DO!Heartbeats, DO!Drain(m) \/ DO!Arrive(m)
        PROVE  DiscoveryNearsItsEnd
    BY <1>1, <1>4 DEF DO!Drain, DO!Arrive
  <1>5. ASSUME NEW m \in DO!Heartbeats, DO!Read(m)
        PROVE  DiscoveryNearsItsEnd
    BY <1>1, <1>5 DEF DO!Read, DO!Add
  <1>6. QED BY <1>2, <1>3, <1>4, <1>5, LoopsStep DEF DO!Next

\* discovery.go:97-122, why a discovery run ends: however many heartbeats come, they extend its
\* deadline once, to what is left plus the idle wait at most; and the goroutine that drains
\* the channel afterwards leaves the results alone - for any hosts and any waits.
THEOREM DiscoveryAlwaysNears == Spec => [][DiscoveryNearsItsEnd]_vars
  <1>1. DO!TypeOK /\ [Next]_vars => [DiscoveryNearsItsEnd]_vars
    BY DONears
  <1>2. QED BY <1>1, DOInvariant, PTL DEF Spec

-----------------------------------------------------------------------------
(* HUP                                                                     *)

\* While a process that got a HUP lives, something is on its way that ends it: the signal, the
\* minute, or, with the last resort armed, the send or the exit code in the channel.
HupIsNotLost == DM!Alive /\ dmHups > 0 =>
    \/ dmHupCh
    \/ dmHup = "minute"
    \/ dmFallback /\ (dmHup = "sending" \/ dmExitCh # <<>>)

HupInv == DM!TypeOK /\ HupIsNotLost

LEMMA HupInitially == DM!Init => HupInv
  <1> SUFFICES ASSUME DM!Init PROVE HupInv
    OBVIOUS
  <1>1. dmExitCh \in Seq({0, 1}) /\ Len(dmExitCh) <= 1
    BY EmptySeq DEF DM!Init
  <1>2. dmHups \in 0..dmMaxHups
    BY LoopsAssumption DEF DM!ConfigAssumption, DM!Init
  <1>3. dmHupCh \in BOOLEAN /\ dmFallback \in BOOLEAN /\ dmWeb \in BOOLEAN
    BY Zenon DEF DM!Init
  <1>4. DM!TypeOK
    BY <1>1, <1>2, <1>3 DEF DM!Init, DM!TypeOK
  <1>5. HupIsNotLost
    BY DEF DM!Init, HupIsNotLost
  <1>6. QED BY <1>4, <1>5 DEF HupInv

LEMMA HupMainStep ==
    ASSUME HupInv, DM!Main \/ DM!DowntimeEnds
    PROVE  HupInv'
  <1> USE DEF HupInv, HupIsNotLost, DM!TypeOK, DM!Alive, DM!Running
  <1>1. CASE DM!Connect
    BY <1>1 DEF DM!Connect
  <1>2. CASE DM!StartModules
    BY <1>2 DEF DM!StartModules
  <1>3. CASE DM!StartIcinga
    <2>1. dmIcinga \in {"off", "down", "up"}
      BY LoopsAssumption DEF DM!ConfigAssumption
    <2>2. dmHealth' \in [DM!Components -> {"none", "unknown", "ok", "critical"}]
      BY <1>3, <2>1 DEF DM!StartIcinga
    <2>3. QED BY <1>3, <2>2 DEF DM!StartIcinga
  <1>4. CASE DM!DowntimeListens \/ DM!DowntimeEnds
    BY <1>4 DEF DM!DowntimeListens, DM!DowntimeEnds
  <1>5. CASE DM!DowntimeRetries \/ DM!StartWeb
    BY <1>5 DEF DM!DowntimeRetries, DM!StartWeb
  <1>6. CASE DM!SendFailure
    <2>1. <<1>> \in Seq({0, 1}) /\ Len(<<1>>) <= 1 /\ <<1>> # <<>>
      OBVIOUS
    <2>2. QED BY <1>6, <2>1 DEF DM!SendFailure
  <1>7. CASE DM!Exit
    <2>1. Head(dmExitCh) \in {0, 1} /\ Tail(dmExitCh) \in Seq({0, 1}) /\ Len(Tail(dmExitCh)) <= 1
      BY <1>7, HeadTailProperties DEF DM!Exit
    <2>2. QED BY <1>7, <2>1 DEF DM!Exit
  <1>8. QED BY <1>1, <1>2, <1>3, <1>4, <1>5, <1>6, <1>7 DEF DM!Main

LEMMA HupHupStep ==
    ASSUME HupInv, DM!Hup \/ DM!HupLoop
    PROVE  HupInv'
  <1> USE DEF HupInv, HupIsNotLost, DM!TypeOK, DM!Alive, DM!Running
  <1>1. CASE DM!Hup
    <2>1. dmHups + 1 \in 0..dmMaxHups
      BY <1>1, LoopsAssumption DEF DM!Hup, DM!ConfigAssumption
    <2>2. QED BY <1>1, <2>1 DEF DM!Hup
  <1>2. CASE DM!HupTaken
    BY <1>2 DEF DM!HupTaken
  <1>3. CASE DM!HupElapses
    BY <1>3 DEF DM!HupElapses
  <1>4. CASE DM!Fallback
    <2>1. dmFallback' = FALSE /\ dmCode' = 0 /\ UNCHANGED <<dmMain, dmListener, dmHealth, dmWeb,
              dmExitCh, dmHups, dmHupCh, dmHup>>
      BY <1>4 DEF DM!Fallback
    <2>2. dmFallback' \in BOOLEAN
      BY <2>1, Zenon
    <2>3. QED BY <2>1, <2>2
  <1>5. CASE DM!HupSends
    <2>1. <<0>> \in Seq({0, 1}) /\ Len(<<0>>) <= 1 /\ <<0>> # <<>>
      OBVIOUS
    <2>2. QED BY <1>5, <2>1 DEF DM!HupSends
  <1>6. QED BY <1>1, <1>2, <1>3, <1>4, <1>5 DEF DM!HupLoop

LEMMA HupListenerStep ==
    ASSUME HupInv, NEW l \in DM!Listeners,
           DM!Subscribe(l) \/ DM!SubscribeFails(l) \/ DM!Disconnect(l) \/ DM!Retry(l)
    PROVE  HupInv'
  BY DEF HupInv, HupIsNotLost, DM!TypeOK, DM!Alive, DM!Running, DM!Subscribe, DM!SubscribeFails,
         DM!Disconnect, DM!Retry

\* cobra.go:70-83, what HupEndsIt rests on: however HUPs, failures of the start and the full exit
\* channel meet, no HUP is dropped without another way out of the process, and once the
\* minute is over the last resort stays armed.
THEOREM NoHupIsLost == Spec => []HupIsNotLost
  <1>1. HupInv /\ UNCHANGED dmVars => HupInv'
    BY DEF HupInv, HupIsNotLost, DM!TypeOK, DM!Alive, dmVars
  <1>2. HupInv /\ [Next]_vars => HupInv'
    BY <1>1, LoopsStep, HupMainStep, HupHupStep, HupListenerStep DEF DM!Next
  <1>3. HupInv => HupIsNotLost
    BY DEF HupInv
  <1>4. QED BY HupInitially, <1>2, <1>3, PTL DEF Spec, Init
==============================================================================
