--------------------------- MODULE PuppetRunProofs ---------------------------
(***************************************************************************)
(* Proofs about PuppetRun, for every set of requests and every delay cap.  *)
(*                                                                         *)
(* None of the safety properties is inductive on its own: that the status  *)
(* belongs to the run that owns the node needs mutual exclusion, which     *)
(* needs the relation between semaphore, listener and goroutines (LockInv) *)
(* and, for the readers, which parts of a run are alive when (PartsInv).   *)
(* RunInv conjoins them.                                                   *)
(***************************************************************************)
EXTENDS PuppetRun, TLAPS

\* The shape of the shared status after some of its flags were set.
LEMMA SetFlagsType ==
    ASSUME TypeOK, NEW S, SetFlags(S)
    PROVE  /\ runStatus' \in [Flags -> BOOLEAN]
           /\ \A f \in Flags : runStatus'[f] = (f \in S \/ runStatus[f])
  BY DEF TypeOK, SetFlags

LEMMA InitRunInv == Init => RunInv
  BY NoneAssumption DEF Init, RunInv, TypeOK, LockInv, PartsInv, StatusShowsTheRun,
     ApplyingOnlyInARun, AcceptedAnswerIsItsRun, Live, Idle, NoRun, Flags, Streams

\* Type correctness is inductive on its own.
LEMMA TypeStep == TypeOK /\ [Next]_vars => TypeOK'
  <1> SUFFICES ASSUME TypeOK, [Next]_vars PROVE TypeOK'
    OBVIOUS
  <1> USE DEF TypeOK
  <1>1. ASSUME NEW r \in Requests, Listen(r) PROVE TypeOK'
    <2>1. CASE Acquire(r)  BY <2>1 DEF Acquire, Idle
    <2>2. CASE Refuse(r)  BY <2>2 DEF Refuse, Idle
    <2>3. ASSUME NEW d \in Delays, Schedule(r, d) PROVE TypeOK'
      BY <2>3, SetFlagsType, DelayAssumption DEF Schedule
    <2>4. CASE ReadStatus(r)  BY <2>4 DEF ReadStatus, Idle
    <2>5. QED BY <1>1, <2>1, <2>2, <2>3, <2>4 DEF Listen
  <1>2. ASSUME NEW r \in Requests, RunGoroutine(r) PROVE TypeOK'
    <2>1. CASE Delay(r)
      <3>1. left' \in [Requests -> Int]
        BY <2>1, DelayAssumption DEF Delay, Sleeps, Capped
      <3>2. QED BY <2>1, <3>1, SetFlagsType DEF Delay, Goto
    <2>2. CASE NoDelay(r)  BY <2>2 DEF NoDelay, Goto
    <2>3. CASE Sleep(r)  BY <2>3 DEF Sleep
    <2>4. CASE Wake(r)  BY <2>4 DEF Wake, Goto
    <2>5. CASE PipeFails(r)  BY <2>5 DEF PipeFails, Goto
    <2>6. CASE AttachPipes(r)  BY <2>6, SetFlagsType DEF AttachPipes, Goto, Streams
    <2>7. CASE StartFails(r)  BY <2>7 DEF StartFails, Goto
    <2>8. CASE StartAgent(r)  BY <2>8 DEF StartAgent, Goto
    <2>9. CASE Reset(r)  BY <2>9 DEF Reset, Goto, NoRun
    <2>10. CASE Release(r)  BY <2>10 DEF Release, Goto
    <2>11. QED
      BY <1>2, <2>1, <2>2, <2>3, <2>4, <2>5, <2>6, <2>7, <2>8, <2>9, <2>10
         DEF RunGoroutine
  <1>3. ASSUME NEW r \in Requests, Reader(r) PROVE TypeOK'
    <2>1. CASE ScanApplying(r)  BY <2>1, SetFlagsType DEF ScanApplying
    <2>2. ASSUME NEW s \in Streams, ScanEnd(r, s) PROVE TypeOK'
      BY <2>2 DEF ScanEnd
    <2>3. ASSUME NEW s \in Streams, ScanTooLong(r, s) PROVE TypeOK'
      BY <2>3 DEF ScanTooLong
    <2>4. QED BY <1>3, <2>1, <2>2, <2>3 DEF Reader
  <1>4. ASSUME NEW r \in Requests, Agent(r) PROVE TypeOK'
    BY <1>4 DEF Agent, AgentApplies, AgentExits, AgentSticks
  <1>5. CASE UNCHANGED vars  BY <1>5 DEF vars
  <1>6. QED BY <1>1, <1>2, <1>3, <1>4, <1>5 DEF Next

\* TypeOK holds in every state of every behaviour.
THEOREM TypeCorrect == Spec => []TypeOK
  <1>1. Init => TypeOK
    BY InitRunInv DEF RunInv
  <1>2. QED BY <1>1, TypeStep, PTL DEF Spec

-----------------------------------------------------------------------------
(* Each goroutine's steps preserve RunInv                                  *)

LEMMA ListenStep ==
    ASSUME RunInv, TypeOK', NEW r \in Requests, Listen(r)
    PROVE  RunInv'
  <1> USE NoneAssumption DEF RunInv, TypeOK, LockInv, PartsInv, StatusShowsTheRun,
          ApplyingOnlyInARun, AcceptedAnswerIsItsRun, Live, Idle
  <1>1. CASE Acquire(r)  BY <1>1 DEF Acquire
  <1>2. CASE Refuse(r)  BY <1>2 DEF Refuse
  <1>3. ASSUME NEW d \in Delays, Schedule(r, d) PROVE RunInv'
    <2>1. \A f \in Flags : runStatus'[f] = (f \in {"Scheduled"} \/ runStatus[f])
      BY <1>3, SetFlagsType DEF Schedule
    <2>2. LockInv'  BY <1>3 DEF Schedule
    <2>3. PartsInv'  BY <1>3 DEF Schedule
    <2>4. StatusShowsTheRun'  BY <1>3, <2>1 DEF Schedule, Flags
    <2>5. ApplyingOnlyInARun'  BY <1>3, <2>1 DEF Schedule, Flags
    <2>6. AcceptedAnswerIsItsRun'  BY <1>3 DEF Schedule
    <2>7. QED BY <2>2, <2>3, <2>4, <2>5, <2>6
  <1>4. CASE ReadStatus(r)
    <2>1. LockInv'  BY <1>4 DEF ReadStatus
    <2>2. AcceptedAnswerIsItsRun'  BY <1>4 DEF ReadStatus
    <2>3. QED BY <1>4, <2>1, <2>2 DEF ReadStatus
  <1>5. QED BY <1>1, <1>2, <1>3, <1>4 DEF Listen

LEMMA RunGoroutineStep ==
    ASSUME RunInv, TypeOK', NEW r \in Requests, RunGoroutine(r)
    PROVE  RunInv'
  <1> USE NoneAssumption DEF RunInv, TypeOK, LockInv, PartsInv, StatusShowsTheRun,
          ApplyingOnlyInARun, AcceptedAnswerIsItsRun, Live, Goto
  <1>1. CASE Delay(r)
    <2>1. \A f \in Flags : runStatus'[f] = (f \in {"Busy"} \/ runStatus[f])
      BY <1>1, SetFlagsType DEF Delay
    <2>2. QED BY <1>1, <2>1 DEF Delay, Flags
  <1>2. CASE NoDelay(r)  BY <1>2 DEF NoDelay
  <1>3. CASE Sleep(r)  BY <1>3 DEF Sleep
  <1>4. CASE Wake(r)  BY <1>4 DEF Wake
  <1>5. CASE PipeFails(r)  BY <1>5 DEF PipeFails
  <1>6. CASE AttachPipes(r)
    <2>1. \A f \in Flags : runStatus'[f] = (f \in {"Started", "Busy"} \/ runStatus[f])
      BY <1>6, SetFlagsType DEF AttachPipes
    <2>2. QED BY <1>6, <2>1 DEF AttachPipes, Flags
  <1>7. CASE StartFails(r)  BY <1>7 DEF StartFails
  <1>8. CASE StartAgent(r)  BY <1>8 DEF StartAgent
  <1>9. CASE Reset(r)
    \* no other run is live, so nobody relies on the flags that go
    <2>1. \A q \in Requests : q # r => ~Live(q)
      BY <1>9 DEF Reset
    <2>2. QED BY <1>9, <2>1 DEF Reset, NoRun, Flags
  <1>10. CASE Release(r)  BY <1>10 DEF Release
  <1>11. QED
    BY <1>1, <1>2, <1>3, <1>4, <1>5, <1>6, <1>7, <1>8, <1>9, <1>10 DEF RunGoroutine

LEMMA ReaderStep ==
    ASSUME RunInv, TypeOK', NEW r \in Requests, Reader(r)
    PROVE  RunInv'
  <1> USE NoneAssumption DEF RunInv, TypeOK, LockInv, PartsInv, StatusShowsTheRun,
          ApplyingOnlyInARun, AcceptedAnswerIsItsRun, Live
  <1>1. CASE ScanApplying(r)
    <2>1. \A f \in Flags : runStatus'[f] = (f \in {"Applying"} \/ runStatus[f])
      BY <1>1, SetFlagsType DEF ScanApplying
    \* there is output, so there is an agent, so run is waiting for it
    <2>2. pc[r] = "running"
      BY <1>1 DEF ScanApplying
    <2>3. QED BY <1>1, <2>1, <2>2 DEF ScanApplying, Flags
  <1>2. ASSUME NEW s \in Streams, ScanEnd(r, s) PROVE RunInv'
    BY <1>2 DEF ScanEnd
  <1>3. ASSUME NEW s \in Streams, ScanTooLong(r, s) PROVE RunInv'
    BY <1>3 DEF ScanTooLong
  <1>4. QED BY <1>1, <1>2, <1>3 DEF Reader

LEMMA AgentStep ==
    ASSUME RunInv, TypeOK', NEW r \in Requests, Agent(r)
    PROVE  RunInv'
  BY NoneAssumption DEF RunInv, TypeOK, LockInv, PartsInv, StatusShowsTheRun,
     ApplyingOnlyInARun, AcceptedAnswerIsItsRun, Live,
     Agent, AgentApplies, AgentExits, AgentSticks

\* RunInv is an inductive invariant.
THEOREM RunInvariant == Spec => []RunInv
  <1>1. RunInv /\ [Next]_vars => RunInv'
    <2> SUFFICES ASSUME RunInv, [Next]_vars PROVE RunInv'
      OBVIOUS
    <2>1. TypeOK'
      BY TypeStep DEF RunInv
    <2>2. CASE Next
      BY <2>1, <2>2, ListenStep, RunGoroutineStep, ReaderStep, AgentStep DEF Next
    <2>3. CASE UNCHANGED vars
      BY <2>3 DEF vars, RunInv, TypeOK, LockInv, PartsInv, StatusShowsTheRun,
         ApplyingOnlyInARun, AcceptedAnswerIsItsRun, Live
    <2>4. QED BY <2>2, <2>3
  <1>2. QED BY InitRunInv, <1>1, PTL DEF Spec

-----------------------------------------------------------------------------
(* What RunInv gives                                                       *)

\* At most one run goroutine and at most one agent process, for any number of requests.
THEOREM MutualExclusion == Spec => []OneRunAtATime
  <1>1. RunInv => OneRunAtATime
    BY DEF RunInv, LockInv, PartsInv, OneRunAtATime, Live
  <1>2. QED BY <1>1, RunInvariant, PTL

\* The status always tells of the run that owns the node: no earlier run's reset and no
\* late output reader can falsify it.
THEOREM StatusIsTheRuns ==
    Spec => [](StatusShowsTheRun /\ ApplyingOnlyInARun /\ AcceptedAnswerIsItsRun)
  <1>1. RunInv => StatusShowsTheRun /\ ApplyingOnlyInARun /\ AcceptedAnswerIsItsRun
    BY DEF RunInv
  <1>2. QED BY <1>1, RunInvariant, PTL

\* PuppetRun implements RunSlot.
THEOREM Refinement == Spec => ImplementsRunSlot
  <1> DEFINE over == {r \in Requests : pc[r] = "done"}
  <1>1. Init => Slot!Init
    BY DEF Init, Slot!Init
  <1>2. RunInv /\ [Next]_vars => [Slot!Next]_Slot!slotVars
    <2> SUFFICES ASSUME RunInv, [Next]_vars PROVE [Slot!Next]_Slot!slotVars
      OBVIOUS
    <2> USE DEF Slot!Next, Slot!slotVars, RunInv, TypeOK, LockInv, Live
    <2>1. ASSUME NEW r \in Requests, Listen(r) PROVE [Slot!Next]_Slot!slotVars
      <3>1. CASE Acquire(r)
        <4>1. pc[r] = "none"
          BY <3>1 , NoneAssumption DEF Acquire, Idle
        <4>2. Slot!Accept(r)
          BY <3>1, <4>1 DEF Acquire, Slot!Accept
        <4>3. QED BY <4>2
      <3>2. CASE Refuse(r) \/ ReadStatus(r)
        BY <3>2 DEF Refuse, ReadStatus
      <3>3. ASSUME NEW d \in Delays, Schedule(r, d) PROVE [Slot!Next]_Slot!slotVars
        <4>1. over' = over
          BY <3>3 DEF Schedule
        <4>2. QED BY <3>3, <4>1 DEF Schedule
      <3>4. QED BY <2>1, <3>1, <3>2, <3>3 DEF Listen
    <2>2. ASSUME NEW r \in Requests, RunGoroutine(r) PROVE [Slot!Next]_Slot!slotVars
      <3>1. CASE Release(r)
        <4>1. over' = over \cup {r}
          BY <3>1 DEF Release, Goto
        <4>2. Slot!End(r)
          BY <3>1, <4>1 DEF Release, Slot!End
        <4>3. QED BY <4>2
      <3>2. CASE ~Release(r)
        <4>1. over' = over /\ runLock' = runLock
          BY <2>2, <3>2 DEF RunGoroutine, Delay, NoDelay, Sleep, Wake, PipeFails,
             AttachPipes, StartFails, StartAgent, Reset, Goto
        <4>2. QED BY <4>1
      <3>3. QED BY <3>1, <3>2
    <2>3. ASSUME NEW r \in Requests, Reader(r) \/ Agent(r)
          PROVE  [Slot!Next]_Slot!slotVars
      BY <2>3 DEF Reader, Agent, ScanApplying, ScanEnd, ScanTooLong,
         AgentApplies, AgentExits, AgentSticks
    <2>4. CASE UNCHANGED vars
      BY <2>4 DEF vars
    <2>5. QED BY <2>1, <2>2, <2>3, <2>4 DEF Next
  <1>3. QED BY <1>1, <1>2, RunInvariant, PTL DEF Spec, ImplementsRunSlot, Slot!Spec

-----------------------------------------------------------------------------
(* Beneath the liveness: a run has a step to make, and only makes it once   *)

\* run.go:52-135: who holds the semaphore is about to get its goroutine, or that has a step it can
\* make, or sleeps for a time within the cap, or waits for an agent that exists.
HolderMoves == \A r \in Requests : runLock = r =>
    \/ listener = [req |-> r, at |-> "schedule"]
    \/ pc[r] \in {"begin", "pipes", "start", "release"}
    \/ pc[r] = "sleep" /\ left[r] \in 0..DelayCap
    \/ pc[r] = "running" /\ agent[r] \in {"running", "stuck", "exited"}

MovesInv == \A r \in Requests :
    /\ pc[r] = "sleep" => left[r] \in 0..DelayCap
    /\ pc[r] = "running" => agent[r] # "none"

LEMMA MovesStep ==
    ASSUME RunInv, MovesInv, [Next]_vars
    PROVE  MovesInv'
  <1> USE NoneAssumption, DelayAssumption DEF RunInv, TypeOK, MovesInv, Goto
  <1>1. ASSUME NEW r \in Requests, Listen(r) PROVE MovesInv'
    <2>1. CASE Acquire(r) \/ Refuse(r) \/ ReadStatus(r)
      BY <2>1 DEF Acquire, Refuse, ReadStatus
    <2>2. ASSUME NEW d \in Delays, Schedule(r, d) PROVE MovesInv'
      BY <2>2 DEF Schedule
    <2>3. QED BY <1>1, <2>1, <2>2 DEF Listen
  <1>2. ASSUME NEW r \in Requests, RunGoroutine(r) PROVE MovesInv'
    <2>1. CASE Delay(r)
      <3>1. PICK randomize \in BOOLEAN :
                \E d \in Sleeps(left[r], randomize) : left' = [left EXCEPT ![r] = d]
        BY <2>1 DEF Delay
      <3>2. PICK d \in Sleeps(left[r], randomize) : left' = [left EXCEPT ![r] = d]
        BY <3>1
      <3>3. Capped(left[r]) \in 1..DelayCap
        BY <2>1 DEF Delay, Capped
      <3>4. d \in 0..DelayCap
        BY <3>3 DEF Sleeps
      <3>5. QED BY <2>1, <3>2, <3>4 DEF Delay
    <2>2. CASE NoDelay(r) \/ Wake(r) \/ PipeFails(r) \/ AttachPipes(r)
      BY <2>2 DEF NoDelay, Wake, PipeFails, AttachPipes
    <2>3. CASE Sleep(r)
      BY <2>3 DEF Sleep
    <2>4. CASE StartFails(r) \/ StartAgent(r)
      BY <2>4 DEF StartFails, StartAgent
    <2>5. CASE Reset(r) \/ Release(r)
      BY <2>5 DEF Reset, Release
    <2>6. QED BY <1>2, <2>1, <2>2, <2>3, <2>4, <2>5 DEF RunGoroutine
  <1>3. ASSUME NEW r \in Requests, Reader(r) \/ Agent(r) PROVE MovesInv'
    BY <1>3 DEF Reader, Agent, ScanApplying, ScanEnd, ScanTooLong, AgentApplies, AgentExits,
       AgentSticks
  <1>4. CASE UNCHANGED vars  BY <1>4 DEF vars
  <1>5. QED BY <1>1, <1>2, <1>3, <1>4 DEF Next

\* What SlotComesBack rests on: no error return and no order of the steps leaves the semaphore
\* with somebody who will never give it back, for any requests and delays.
THEOREM HoldersMove == Spec => []HolderMoves
  <1>1. Init => MovesInv
    BY DEF Init, MovesInv
  <1>2. RunInv /\ MovesInv => HolderMoves
    BY DEF RunInv, TypeOK, LockInv, Live, MovesInv, HolderMoves
  <1>3. QED BY <1>1, <1>2, MovesStep, RunInvariant, PTL DEF Spec

\* The places of a run in their order.
Place == [none |-> 0, begin |-> 1, sleep |-> 2, pipes |-> 3, start |-> 4, running |-> 5,
          release |-> 6, done |-> 7]

\* A run never goes back, sleeps towards its end, gets its readers once, and an answer that was
\* given is not given again.
RunsGoForward == \A r \in Requests :
    /\ Place[pc[r]] <= Place[pc'[r]]
    /\ pc[r] = "sleep" /\ pc'[r] = "sleep" => left'[r] <= left[r]
    /\ pc[r] = "running" => readers'[r] \subseteq readers[r]
    /\ answer[r] # None => answer'[r] = answer[r]

LEMMA ForwardStep ==
    ASSUME RunInv, [Next]_vars
    PROVE  RunsGoForward
  <1> USE NoneAssumption DEF RunInv, TypeOK, LockInv, RunsGoForward, Place, Goto, Idle
  <1>1. ASSUME NEW r \in Requests, Listen(r) PROVE RunsGoForward
    <2>1. CASE Acquire(r) \/ Refuse(r)
      BY <2>1 DEF Acquire, Refuse
    <2>2. ASSUME NEW d \in Delays, Schedule(r, d) PROVE RunsGoForward
      BY <2>2 DEF Schedule
    <2>3. CASE ReadStatus(r)
      <3>1. answer[r] = None
        BY <2>3 DEF ReadStatus
      <3>2. answer' = [answer EXCEPT ![r] = runStatus] /\ UNCHANGED <<pc, left, readers>>
        BY <2>3 DEF ReadStatus
      <3>3. \A q \in Requests : answer[q] # None => answer'[q] = answer[q]
        BY <3>1, <3>2
      <3>4. \A q \in Requests : Place[pc[q]] <= Place[pc[q]]
        OBVIOUS
      <3>5. QED BY <3>2, <3>3, <3>4
    <2>4. QED BY <1>1, <2>1, <2>2, <2>3 DEF Listen
  <1>2. ASSUME NEW r \in Requests, RunGoroutine(r) PROVE RunsGoForward
    <2>1. CASE Delay(r) \/ NoDelay(r)
      BY <2>1 DEF Delay, NoDelay
    <2>2. CASE Sleep(r) \/ Wake(r)
      BY <2>2 DEF Sleep, Wake
    <2>3. CASE PipeFails(r) \/ AttachPipes(r)
      BY <2>3 DEF PipeFails, AttachPipes
    <2>4. CASE StartFails(r) \/ StartAgent(r)
      BY <2>4 DEF StartFails, StartAgent
    <2>5. CASE Reset(r) \/ Release(r)
      BY <2>5 DEF Reset, Release
    <2>6. QED BY <1>2, <2>1, <2>2, <2>3, <2>4, <2>5 DEF RunGoroutine
  <1>3. ASSUME NEW r \in Requests, Reader(r) \/ Agent(r) PROVE RunsGoForward
    BY <1>3 DEF Reader, Agent, ScanApplying, ScanEnd, ScanTooLong, AgentApplies, AgentExits,
       AgentSticks
  <1>4. CASE UNCHANGED vars  BY <1>4 DEF vars
  <1>5. QED BY <1>1, <1>2, <1>3, <1>4 DEF Next

\* run.go:52-135: with HoldersMove, why a run ends: every step of it leads on.
THEOREM RunsOnlyGoForward == Spec => [][RunsGoForward]_vars
  <1>1. RunInv /\ [Next]_vars => [RunsGoForward]_vars
    BY ForwardStep
  <1>2. QED BY <1>1, RunInvariant, PTL DEF Spec
==============================================================================
