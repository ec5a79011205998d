------------------------------ MODULE PuppetRun ------------------------------
(***************************************************************************)
(* Puppet runs on one node: plugin/puppet/run.go.                          *)
(*                                                                         *)
(* One listener goroutine hands the run requests to Puppet.Run one after   *)
(* the other.  Run takes the runLock semaphore or is refused; the holder   *)
(* is a goroutine of its own (Puppet.run) that sleeps, starts the agent,   *)
(* waits for the two goroutines that read the agent's output, clears the   *)
(* shared runStatus and, on return, releases the semaphore.  The steps of  *)
(* the listener, the runs, the readers and the agent interleave; a step is *)
(* one access to shared state.                                             *)
(***************************************************************************)
EXTENDS Integers

CONSTANTS
    Requests,      \* run requests delivered to this node, each handled once
    None,          \* neither a request nor a status
    Delays,        \* values of RunOptions.Delay a client may send, in hours
    DelayCap       \* the longest delay run accepts: 24 hours in the code

ASSUME DelayAssumption == Delays \subseteq Int /\ DelayCap \in Nat \ {0}

VARIABLES
    runLock,       \* holder of the semaphore (whose identity is a ghost), or None
    runStatus,     \* Puppet.runStatus, guarded by Puppet.lock
    listener,      \* [req, at]: the request in the listener's hands and its place in Run
    answer,        \* what Run returned for each request, None before it did
    pc,            \* where the goroutine of each request's run is
    left,          \* hours each sleeping run still has to sleep
    agent,         \* the puppet agent process of each run
    line,          \* "Applying configuration version" is in the stdout pipe
    readers        \* output readers of each run that have not returned

vars == <<runLock, runStatus, listener, answer, pc, left, agent, line, readers>>

Flags == {"Scheduled", "Busy", "Downtime", "Started", "Applying"}

ASSUME NoneAssumption == None \notin Requests /\ None \notin [Flags -> BOOLEAN]

NoRun == [f \in Flags |-> FALSE]

\* Set the flags of S, as an assignment under Puppet.lock does.
SetFlags(S) == runStatus' = [f \in Flags |-> f \in S \/ runStatus[f]]

Streams == {"stdout", "stderr"}

\* The run's goroutine exists.
Live(r) == pc[r] \notin {"none", "done"}

Goto(r, label) == pc' = [pc EXCEPT ![r] = label]

TypeOK ==
    /\ runLock \in Requests \cup {None}
    /\ runStatus \in [Flags -> BOOLEAN]
    /\ listener \in [req : Requests \cup {None}, at : {"idle", "schedule", "read"}]
    /\ answer \in [Requests -> [Flags -> BOOLEAN] \cup {None}]
    /\ pc \in [Requests ->
                 {"none", "begin", "sleep", "pipes", "start", "running", "release", "done"}]
    /\ left \in [Requests -> Int]
    /\ agent \in [Requests -> {"none", "running", "stuck", "exited"}]
    /\ line \in [Requests -> BOOLEAN]
    /\ readers \in [Requests -> SUBSET Streams]

Idle == [req |-> None, at |-> "idle"]

Init ==
    /\ runLock = None
    /\ runStatus = NoRun
    /\ listener = Idle
    /\ answer = [r \in Requests |-> None]
    /\ pc = [r \in Requests |-> "none"]
    /\ left = [r \in Requests |-> 0]
    /\ agent = [r \in Requests |-> "none"]
    /\ line = [r \in Requests |-> FALSE]
    /\ readers = [r \in Requests |-> {}]

-----------------------------------------------------------------------------
(* Plausible bugs of the actions below, put in their place to see that the *)
(* properties notice them                                                  *)

\* The semaphore is not consulted.
AcquireUnguarded(r) ==
    /\ listener = Idle
    /\ answer[r] = None
    /\ runLock' = r
    /\ listener' = [req |-> r, at |-> "schedule"]
    /\ UNCHANGED <<runStatus, answer, pc, left, agent, line, readers>>

\* cmd.Wait is not preceded by wg.Wait.
ResetWithoutWait(r) ==
    /\ pc[r] = "running"
    /\ agent[r] = "exited"
    /\ runStatus' = NoRun
    /\ Goto(r, "release")
    /\ UNCHANGED <<runLock, listener, answer, left, agent, line, readers>>

\* The error return of cmd.Start misses the release (no defer).
StartFailsHolding(r) ==
    /\ pc[r] = "start"
    /\ Goto(r, "done")
    /\ readers' = [readers EXCEPT ![r] = {}]
    /\ UNCHANGED <<runLock, runStatus, listener, answer, left, agent, line>>

\* Acquire instead of TryAcquire: the listener waits for the node to be free.
ReadStatusBlocking(r) ==
    /\ listener = [req |-> r, at |-> "read"]
    /\ runLock \in {r, None}
    /\ answer' = [answer EXCEPT ![r] = runStatus]
    /\ listener' = Idle
    /\ UNCHANGED <<runLock, runStatus, pc, left, agent, line, readers>>

-----------------------------------------------------------------------------
(* Puppet.Run, on the listener goroutine                                   *)

\* TryAcquire succeeds: this request will get a run.
Acquire(r) ==
    /\ listener = Idle
    /\ answer[r] = None
    /\ runLock = None
    /\ runLock' = r
    /\ listener' = [req |-> r, at |-> "schedule"]
    /\ UNCHANGED <<runStatus, answer, pc, left, agent, line, readers>>

\* TryAcquire fails: the request only gets to read the status.
Refuse(r) ==
    /\ listener = Idle
    /\ answer[r] = None
    /\ runLock # None
    /\ listener' = [req |-> r, at |-> "read"]
    /\ UNCHANGED <<runLock, runStatus, answer, pc, left, agent, line, readers>>

\* Scheduled is set and the run's goroutine is started with the request's delay.
Schedule(r, delay) ==
    /\ listener = [req |-> r, at |-> "schedule"]
    /\ SetFlags({"Scheduled"})
    /\ pc' = [pc EXCEPT ![r] = "begin"]
    /\ left' = [left EXCEPT ![r] = delay]
    /\ listener' = [req |-> r, at |-> "read"]
    /\ UNCHANGED <<runLock, answer, agent, line, readers>>

\* The status is read under RLock, in a critical section of its own, and answered.
ReadStatus(r) ==
    /\ listener = [req |-> r, at |-> "read"]
    /\ answer' = [answer EXCEPT ![r] = runStatus]
    /\ listener' = Idle
    /\ UNCHANGED <<runLock, runStatus, pc, left, agent, line, readers>>

-----------------------------------------------------------------------------
(* Puppet.run, a goroutine per accepted request                            *)

Capped(d) == IF d > DelayCap THEN DelayCap ELSE d

\* Hours the run sleeps: rng.Int63n(n) is below n, and n is the capped delay.
Sleeps(d, randomize) == IF randomize THEN 0..(Capped(d) - 1) ELSE {Capped(d)}

\* A delayed run, RandomizeDelay set or not, reports Busy before it goes to sleep.
Delay(r) ==
    /\ pc[r] = "begin"
    /\ left[r] > 0
    /\ \E randomize \in BOOLEAN : \E d \in Sleeps(left[r], randomize) :
           left' = [left EXCEPT ![r] = d]
    /\ SetFlags({"Busy"})
    /\ Goto(r, "sleep")
    /\ UNCHANGED <<runLock, listener, answer, agent, line, readers>>

NoDelay(r) ==
    /\ pc[r] = "begin"
    /\ left[r] <= 0
    /\ left' = [left EXCEPT ![r] = 0]
    /\ Goto(r, "pipes")
    /\ UNCHANGED <<runLock, runStatus, listener, answer, agent, line, readers>>

\* time.Sleep: an hour passes, then the sleeper wakes.
Sleep(r) ==
    /\ pc[r] = "sleep"
    /\ left[r] > 0
    /\ left' = [left EXCEPT ![r] = @ - 1]
    /\ UNCHANGED <<runLock, runStatus, listener, answer, pc, agent, line, readers>>

Wake(r) ==
    /\ pc[r] = "sleep"
    /\ left[r] = 0
    /\ Goto(r, "pipes")
    /\ UNCHANGED <<runLock, runStatus, listener, answer, left, agent, line, readers>>

\* StdoutPipe or StderrPipe fails (no descriptors left): run returns at once.
PipeFails(r) ==
    /\ pc[r] = "pipes"
    /\ Goto(r, "release")
    /\ UNCHANGED <<runLock, runStatus, listener, answer, left, agent, line, readers>>

\* Both pipes are attached: Started and Busy are set and the readers are spawned.
AttachPipes(r) ==
    /\ pc[r] = "pipes"
    /\ SetFlags({"Started", "Busy"})
    /\ readers' = [readers EXCEPT ![r] = Streams]
    /\ Goto(r, "start")
    /\ UNCHANGED <<runLock, listener, answer, left, agent, line>>

\* cmd.Start fails: the pipes are closed, the readers see that, run returns.
StartFails(r) ==
    /\ pc[r] = "start"
    /\ Goto(r, "release")
    /\ readers' = [readers EXCEPT ![r] = {}]
    /\ UNCHANGED <<runLock, runStatus, listener, answer, left, agent, line>>

StartAgent(r) ==
    /\ pc[r] = "start"
    /\ agent' = [agent EXCEPT ![r] = "running"]
    /\ Goto(r, "running")
    /\ UNCHANGED <<runLock, runStatus, listener, answer, left, line, readers>>

\* The stdout reader scans the line that announces the catalog.
ScanApplying(r) ==
    /\ "stdout" \in readers[r]
    /\ line[r]
    /\ SetFlags({"Applying"})
    /\ line' = [line EXCEPT ![r] = FALSE]
    /\ UNCHANGED <<runLock, listener, answer, pc, left, agent, readers>>

\* A reader reaches the end of its stream, which the agent closes by exiting.
ScanEnd(r, s) ==
    /\ s \in readers[r]
    /\ agent[r] = "exited"
    /\ s = "stdout" => ~line[r]
    /\ readers' = [readers EXCEPT ![r] = @ \ {s}]
    /\ UNCHANGED <<runLock, runStatus, listener, answer, pc, left, agent, line>>

\* bufio.Scanner gives up on a line over 64 KiB: nobody drains the pipe any more.
ScanTooLong(r, s) ==
    /\ s \in readers[r]
    /\ agent[r] = "running"
    /\ readers' = [readers EXCEPT ![r] = @ \ {s}]
    /\ UNCHANGED <<runLock, runStatus, listener, answer, pc, left, agent, line>>

\* wg.Wait and cmd.Wait have returned, which reaps the agent and closes its pipes:
\* the whole status is cleared.
Reset(r) ==
    /\ pc[r] = "running"
    /\ readers[r] = {}
    /\ agent[r] = "exited"
    /\ runStatus' = NoRun
    /\ agent' = [agent EXCEPT ![r] = "none"]
    /\ line' = [line EXCEPT ![r] = FALSE]
    /\ Goto(r, "release")
    /\ UNCHANGED <<runLock, listener, answer, left, readers>>

\* The deferred release, on every return of run.
Release(r) ==
    /\ pc[r] = "release"
    /\ runLock' = None
    /\ Goto(r, "done")
    /\ UNCHANGED <<runStatus, listener, answer, left, agent, line, readers>>

-----------------------------------------------------------------------------
(* The puppet agent process (external)                                     *)

AgentApplies(r) ==
    /\ agent[r] = "running"
    /\ line' = [line EXCEPT ![r] = TRUE]
    /\ UNCHANGED <<runLock, runStatus, listener, answer, pc, left, agent, readers>>

AgentExits(r) ==
    /\ agent[r] = "running"
    /\ agent' = [agent EXCEPT ![r] = "exited"]
    /\ UNCHANGED <<runLock, runStatus, listener, answer, pc, left, line, readers>>

\* The agent fills a pipe nobody reads and blocks in write for good.
AgentSticks(r) ==
    /\ agent[r] = "running"
    /\ readers[r] # Streams
    /\ agent' = [agent EXCEPT ![r] = "stuck"]
    /\ UNCHANGED <<runLock, runStatus, listener, answer, pc, left, line, readers>>

-----------------------------------------------------------------------------
Listen(r) == \/ Acquire(r)
             \/ Refuse(r)
             \/ \E d \in Delays : Schedule(r, d)
             \/ ReadStatus(r)

RunGoroutine(r) == \/ Delay(r) \/ NoDelay(r) \/ Sleep(r) \/ Wake(r)
                   \/ PipeFails(r) \/ AttachPipes(r)
                   \/ StartFails(r) \/ StartAgent(r)
                   \/ Reset(r) \/ Release(r)

Reader(r) == \/ ScanApplying(r)
             \/ \E s \in Streams : ScanEnd(r, s) \/ ScanTooLong(r, s)

Agent(r) == AgentApplies(r) \/ AgentExits(r) \/ AgentSticks(r)

Next == \E r \in Requests : Listen(r) \/ RunGoroutine(r) \/ Reader(r) \/ Agent(r)

Spec == Init /\ [][Next]_vars

\* The Go scheduler runs every goroutine that can run, and an agent that nothing
\* blocks exits.  Nothing makes an agent print an over-long line or a client ask.
Fairness == \A r \in Requests :
    /\ WF_vars(RunGoroutine(r))
    /\ WF_vars(ScanApplying(r))
    /\ \A s \in Streams : WF_vars(ScanEnd(r, s))
    /\ WF_vars(AgentExits(r))
    /\ WF_vars(\E d \in Delays : Schedule(r, d))
    /\ WF_vars(ReadStatus(r))

FairSpec == Spec /\ Fairness

-----------------------------------------------------------------------------
(* Properties                                                              *)

\* How the semaphore, the listener and the goroutines relate: a live run holds the
\* semaphore, whoever holds it is a live run or the request about to get one, and a
\* request is handed to Run once.
LockInv ==
    /\ listener.at = "idle" <=> listener.req = None
    /\ \A r \in Requests :
        /\ Live(r) => runLock = r
        /\ runLock = r => Live(r) \/ listener = [req |-> r, at |-> "schedule"]
        /\ listener = [req |-> r, at |-> "schedule"] => runLock = r /\ pc[r] = "none"
        /\ pc[r] # "none" => listener.req = r \/ answer[r] # None
        /\ listener.req = r => answer[r] = None

\* Which of a run's parts exist at which place: readers from the moment the pipes are
\* attached to the reset, the agent and its output only while run waits for them.
PartsInv == \A r \in Requests :
    /\ readers[r] # {} => pc[r] \in {"start", "running"}
    /\ agent[r] # "none" => pc[r] = "running"
    /\ line[r] => agent[r] # "none"

\* README, "One run at a time per node": whatever the order of requests, runs and
\* failures, at most one run goroutine exists and at most one agent process does.
OneRunAtATime ==
    \A r, q \in Requests :
        /\ Live(r) /\ Live(q) => r = q
        /\ {agent[r], agent[q]} \subseteq {"running", "stuck"} => r = q

\* What the status says of the run that owns the node: it stays Scheduled from its
\* first step to its reset, Busy while it waits or runs, Started once the agent is
\* being started.  In particular the reset of the run before it, which happens while
\* requests keep arriving, never wipes the flags of the run that follows.
StatusShowsTheRun == \A r \in Requests :
    /\ pc[r] \in {"begin", "sleep", "pipes", "start", "running"} => runStatus["Scheduled"]
    /\ pc[r] \in {"sleep", "start", "running"} => runStatus["Busy"]
    /\ pc[r] \in {"start", "running"} => runStatus["Started"]

\* Applying is never left behind by an output reader that outlives its run: while it
\* is set the run that set it has not been reset (wg.Wait comes before the reset).
ApplyingOnlyInARun ==
    runStatus["Applying"] => \E r \in Requests : pc[r] = "running"

\* The status is read after the semaphore was taken and in another critical section,
\* so an accepted request can be answered "nothing scheduled" - but only when its own
\* run is already over, never because another run interfered.
AcceptedAnswerIsItsRun == \A r \in Requests :
    (answer[r] # None /\ pc[r] \notin {"none", "release", "done"}) => answer[r]["Scheduled"]

\* The inductive invariant of the proofs.
RunInv == /\ TypeOK /\ LockInv /\ PartsInv
          /\ StatusShowsTheRun /\ ApplyingOnlyInARun /\ AcceptedAnswerIsItsRun

\* The specification of what a node promises; the holder of the semaphore is the slot.
Slot == INSTANCE RunSlot WITH slot <- runLock,
                              ended <- {r \in Requests : pc[r] = "done"}

\* Puppet runs implement RunSlot: each accepted request holds the node exactly once and
\* gives it back exactly once, on the error returns of run too.
ImplementsRunSlot == Slot!Spec

\* The semaphore always comes back, on every path through run, unless the agent is
\* blocked for good on an output pipe that its reader abandoned.
SlotComesBack == \A r \in Requests :
    (runLock = r) ~> (runLock # r \/ agent[r] = "stuck")

\* Run never makes the listener wait for a puppet run: every request it takes is
\* answered, even while a run sleeps for a day or its agent is stuck.
ListenerNeverWaits == \A r \in Requests :
    (listener.req = r) ~> (answer[r] # None)

\* run.go:15 says of Busy: "runner is busy, either running or waiting for start time".
\* The error returns of run leave without the reset, so the flag outlives the run.
BusyMeansARun == runStatus["Busy"] => \E r \in Requests : Live(r)
==============================================================================
