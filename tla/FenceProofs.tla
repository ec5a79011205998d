----------------------------- MODULE FenceProofs -----------------------------
(***************************************************************************)
(* Proofs about Fence, for any number of agents, any requests and any      *)
(* configuration of the target: only a request the target may obey starts  *)
(* the fencing, and a success it reports is one.                           *)
(***************************************************************************)
EXTENDS Fence, SequenceTheorems, TLAPS

\* What the remount returned to HandleEvent is true.
RemountIsTrue == remount = "ok" => readonly

\* HandleEvent waits only for a fence request that is not one of the test mode, and only
\* after its goroutine was started.
HandlesAFencing == handling # Nobody =>
    /\ asks[handling[1]].cmd = "fence" /\ ~cfg.fake
    /\ self[handling[1]] # "none"

\* The inductive invariant.
FenceInv == TypeOK /\ RemountIsTrue /\ HandlesAFencing /\ NoAccident /\ SuccessMeansReadonly

Tries == Agents \X (1..2)

\* What TypeOK says of the request at the head of the queue.
LEMMA HeadOfQueue ==
    ASSUME TypeOK, queue # <<>>
    PROVE  /\ Asker \in Tries /\ Asker[1] \in Agents /\ Asker[2] \in 1..2
           /\ Asked \in Requests
           /\ Tail(queue) \in Seq(Tries)
  BY HeadTailProperties DEF TypeOK, Asker, Asked, Tries

\* A request that CheckPermissions lets through is about this node, or the target has no acl.
LEMMA PermittedIsMeant ==
    ASSUME CheckPermissions(Asked), cfg.group \/ cfg.nodeMap
    PROVE  Asked.names # "other" /\ (Asked.group \/ Asked.mapped)
  BY DEF CheckPermissions

LEMMA InitFence == Init => FenceInv
  <1> SUFFICES ASSUME Init PROVE FenceInv
    OBVIOUS
  <1>1. <<>> \in Seq(Agents \X (1..2))
    BY EmptySeq
  <1>2. asks \in [Agents -> Requests] /\ cfg \in Configs
    BY InputAssumption DEF Init
  <1>3. agent \in [Agents -> [stage : {"idle", "waiting", "done"}, try : 1..2, exit : 0..1]]
    BY DEF Init
  <1>4. TypeOK
    BY <1>1, <1>2, <1>3 DEF Init, TypeOK
  <1>5. QED
    BY <1>4 DEF Init, FenceInv, RemountIsTrue, HandlesAFencing, NoAccident,
                SuccessMeansReadonly

\* The commands change nothing the safety properties look at, except that a reply is taken.
LEMMA ClientStep ==
    ASSUME FenceInv, NEW a \in Agents,
           Request(a) \/ Unconnected(a) \/ GiveUp(a) \/ \E r \in replies : TakeReply(a, r)
    PROVE  FenceInv'
  <1> USE DEF FenceInv, RemountIsTrue, HandlesAFencing, NoAccident, SuccessMeansReadonly,
              targetVars
  <1>1. agent[a].try \in 1..2
    BY DEF TypeOK
  <1>2. ASSUME NEW exit \in 0..1, Ends(a, exit)
        PROVE  agent' \in [Agents -> [stage : {"idle", "waiting", "done"}, try : 1..2, exit : 0..1]]
    BY <1>2 DEF Ends, TypeOK
  <1>3. CASE Request(a)
    <2>1. <<a, agent[a].try>> \in Agents \X (1..2)
      BY <1>1
    <2>2. Append(queue, <<a, agent[a].try>>) \in Seq(Agents \X (1..2))
      BY <2>1, AppendProperties DEF TypeOK
    <2>3. TypeOK'
      BY <1>3, <2>2 DEF Request, TypeOK
    <2>4. QED BY <1>3, <2>3 DEF Request
  <1>4. CASE Unconnected(a)
    <2>1. TypeOK'
      BY <1>2, <1>4 DEF Unconnected, TypeOK
    <2>2. QED BY <1>4, <2>1 DEF Unconnected
  <1>5. CASE GiveUp(a)
    <2>1. (IF asks[a].cmd = "status" THEN 1 ELSE 0) \in 0..1
      OBVIOUS
    <2>2. TypeOK'
      BY <1>2, <1>5, <2>1 DEF GiveUp, TypeOK
    <2>3. QED BY <1>5, <2>2 DEF GiveUp
  <1>6. ASSUME NEW r \in replies, TakeReply(a, r)
        PROVE  FenceInv'
    <2>1. TypeOK'
      BY <1>2, <1>6 DEF TakeReply, TypeOK
    <2>2. QED BY <1>6, <2>1 DEF TakeReply
  <1>7. QED BY <1>3, <1>4, <1>5, <1>6

\* The listener: a fencing starts for an accepted request only, and its answer repeats what
\* the remount returned.
LEMMA ListenerStep ==
    ASSUME FenceInv, Listener
    PROVE  FenceInv'
  <1> USE DEF FenceInv, targetVars
  <1>1. CASE Reject
    <2>1. TypeOK'
      BY <1>1, HeadOfQueue DEF Reject, Free, Taken, TypeOK, Tries
    <2>2. QED
      BY <1>1, <2>1 DEF Reject, Taken, RemountIsTrue, HandlesAFencing, NoAccident,
                        SuccessMeansReadonly
  <1>2. CASE AnswerNow
    <2> DEFINE r == [to |-> Asker[1], try |-> Asker[2], success |-> TRUE]
    <2>1. replies' = replies \cup {r} /\ r \in [to : Agents, try : 1..2, success : BOOLEAN]
      BY <1>2, HeadOfQueue DEF AnswerNow, Free, Reply
    <2>2. TypeOK'
      BY <1>2, <2>1, HeadOfQueue DEF AnswerNow, Free, Taken, TypeOK, Tries
    <2>3. asks[r.to].cmd # "fence" \/ cfg.fake
      BY <1>2 DEF AnswerNow, Asked
    <2>4. SuccessMeansReadonly'
      BY <1>2, <2>1, <2>3 DEF AnswerNow, Taken, SuccessMeansReadonly
    <2>5. QED
      BY <1>2, <2>2, <2>4 DEF AnswerNow, Taken, RemountIsTrue, HandlesAFencing, NoAccident
  <1>3. CASE StartFencing
    <2>1. TypeOK'
      BY <1>3, HeadOfQueue DEF StartFencing, Free, Taken, TypeOK, Tries
    <2>2. self' = [self EXCEPT ![Asker[1]] = "delay"] /\ Asker[1] \in Agents
          /\ UNCHANGED <<cfg, asks>>
      BY <1>3, HeadOfQueue DEF StartFencing, Free, Taken
    <2>3. /\ asks[Asker[1]].cmd = "fence" /\ asks[Asker[1]].decodes /\ ~cfg.fake
          /\ (cfg.group \/ cfg.nodeMap) =>
                 /\ asks[Asker[1]].names # "other"
                 /\ asks[Asker[1]].group \/ asks[Asker[1]].mapped
      BY <1>3, PermittedIsMeant DEF StartFencing, Accepted, Asked
    <2>4. NoAccident'
      BY <2>2, <2>3 DEF NoAccident, TypeOK
    <2>5. HandlesAFencing'
      BY <1>3, <2>2, <2>3 DEF StartFencing, HandlesAFencing, TypeOK
    <2>6. QED
      BY <1>3, <2>1, <2>4, <2>5 DEF StartFencing, Taken, RemountIsTrue, SuccessMeansReadonly
  <1>4. CASE AnswerFence
    <2> DEFINE r == [to |-> handling[1], try |-> handling[2], success |-> remount = "ok"]
    <2>1. r \in [to : Agents, try : 1..2, success : BOOLEAN]
      BY <1>4 DEF AnswerFence, TypeOK
    <2>2. TypeOK'
      BY <1>4, <2>1 DEF AnswerFence, TypeOK
    <2>3. SuccessMeansReadonly'
      BY <1>4, <2>1 DEF AnswerFence, SuccessMeansReadonly, RemountIsTrue
    <2>4. QED
      BY <1>4, <2>2, <2>3 DEF AnswerFence, RemountIsTrue, HandlesAFencing, NoAccident
  <1>5. QED BY <1>1, <1>2, <1>3, <1>4 DEF Listener

\* The goroutine: only a remount that worked says so, and read-only is for good.
LEMMA GoroutineStep ==
    ASSUME FenceInv, NEW a \in Agents, Goroutine(a)
    PROVE  FenceInv'
  <1> USE DEF FenceInv, TypeOK, RemountIsTrue, HandlesAFencing, NoAccident,
              SuccessMeansReadonly
  <1>1. CASE Remount(a)  BY <1>1 DEF Remount
  <1>2. CASE RemountFails(a)  BY <1>2 DEF RemountFails
  <1>3. CASE Reboot(a)
    <2>1. queue' \in Seq(Agents \X (1..2))
      BY <1>3, EmptySeq DEF Reboot
    <2>2. QED BY <1>3, <2>1 DEF Reboot
  <1>4. QED BY <1>1, <1>2, <1>3 DEF Goroutine

\* FenceInv is an inductive invariant.
THEOREM FenceInvariant == Spec => []FenceInv
  <1>1. FenceInv /\ [Next]_vars => FenceInv'
    <2> SUFFICES ASSUME FenceInv, [Next]_vars PROVE FenceInv'
      OBVIOUS
    <2>1. CASE Next
      BY <2>1, ClientStep, ListenerStep, GoroutineStep DEF Next
    <2>2. CASE UNCHANGED vars
      BY <2>2 DEF vars, FenceInv, TypeOK, RemountIsTrue, HandlesAFencing, NoAccident,
                  SuccessMeansReadonly
    <2>3. QED BY <2>1, <2>2
  <1>2. QED BY InitFence, <1>1, PTL DEF Spec

\* server.go:78: with an acl, a request about another node or from somebody without group
\* and entry never starts the fencing, whoever else asks at the same time.
THEOREM NoAccidents == Spec => []NoAccident
  BY FenceInvariant, PTL DEF FenceInv

\* server.go:134: a success the target reports for a fencing means read-only filesystems.
THEOREM SuccessIsTrue == Spec => []SuccessMeansReadonly
  BY FenceInvariant, PTL DEF FenceInv

-----------------------------------------------------------------------------
(* What brings a node down                                                 *)

\* The fencing the target runs was asked for by somebody it permits, and it is not in test mode.
\* A file system that is read-only and a reboot each have such a fencing behind them.
Permitted(a) == self[a] # "none" /\ asks[a].cmd = "fence" /\ CheckPermissions(asks[a])

DownOnlyByFencing == readonly \/ rebooted => ~cfg.fake /\ \E a \in Agents : Permitted(a)

StartedIsPermitted == \A a \in Agents : self[a] # "none" => Permitted(a) /\ ~cfg.fake

LEMMA DownStep ==
    ASSUME FenceInv, StartedIsPermitted, DownOnlyByFencing, [Next]_vars
    PROVE  StartedIsPermitted' /\ DownOnlyByFencing'
  <1> USE DEF StartedIsPermitted, DownOnlyByFencing, Permitted
  <1>1. \A a \in Agents : CheckPermissions(asks[a])' <=> CheckPermissions(asks[a])
    <2>1. UNCHANGED <<cfg, asks>>
      BY DEF Next, Request, Unconnected, GiveUp, TakeReply, Goroutine, Remount, RemountFails,
             Reboot, Listener, Reject, AnswerNow, StartFencing, AnswerFence, Taken, vars
    <2>2. QED BY <2>1 DEF CheckPermissions
  <1>2. CASE UNCHANGED <<cfg, asks, self, readonly, rebooted>>
    BY <1>1, <1>2
  <1>3. ASSUME NEW a \in Agents,
               Request(a) \/ Unconnected(a) \/ GiveUp(a) \/ \E r \in replies : TakeReply(a, r)
        PROVE  UNCHANGED <<cfg, asks, self, readonly, rebooted>>
    BY <1>3 DEF Request, Unconnected, GiveUp, TakeReply, targetVars
  <1>4. CASE Reject \/ AnswerNow \/ AnswerFence
    BY <1>2, <1>4 DEF Reject, AnswerNow, AnswerFence, Taken, targetVars
  <1>5. CASE StartFencing
    <2>1. /\ self' = [self EXCEPT ![Asker[1]] = "delay"] /\ Asker[1] \in Agents
          /\ UNCHANGED <<cfg, asks, readonly, rebooted>>
          /\ CheckPermissions(asks[Asker[1]]) /\ asks[Asker[1]].cmd = "fence" /\ ~cfg.fake
      BY <1>5, HeadOfQueue DEF FenceInv, StartFencing, Free, Taken, Accepted, Asked
    <2>2. \A a \in Agents : self[a] # "none" => self'[a] # "none"
      BY <2>1 DEF FenceInv, TypeOK
    <2>3. \A a \in Agents : self'[a] # "none" => self[a] # "none" \/ a = Asker[1]
      BY <2>1 DEF FenceInv, TypeOK
    <2>4. QED BY <1>1, <2>1, <2>2, <2>3
  <1>6. ASSUME NEW a \in Agents, Goroutine(a)
        PROVE  StartedIsPermitted' /\ DownOnlyByFencing'
    <2>1. self[a] # "none" /\ UNCHANGED <<cfg, asks>>
      BY <1>6 DEF Goroutine, Remount, RemountFails, Reboot
    <2>2. \A b \in Agents : self'[b] # "none" <=> self[b] # "none"
      BY <1>6 DEF Goroutine, Remount, RemountFails, Reboot, FenceInv, TypeOK
    <2>3. QED BY <1>1, <2>1, <2>2
  <1>7. CASE UNCHANGED vars
    BY <1>2, <1>7 DEF vars
  <1>8. QED BY <1>2, <1>3, <1>4, <1>5, <1>6, <1>7 DEF Next, Listener

\* server.go:78, 126: a node in test mode never goes down, and no other does without a request
\* to fence that its permissions allow, however requests, retries and goroutines interleave.
THEOREM NodesGoDownByFencing == Spec => []DownOnlyByFencing
  <1>1. Init => StartedIsPermitted /\ DownOnlyByFencing
    BY DEF Init, StartedIsPermitted, DownOnlyByFencing
  <1>2. QED BY <1>1, DownStep, FenceInvariant, PTL DEF Spec
==============================================================================
