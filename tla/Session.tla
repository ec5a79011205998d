------------------------------- MODULE Session -------------------------------
(***************************************************************************)
(* The client's RPC session: client/session.go.                            *)
(*                                                                         *)
(* Any number of calls share one reply subscription.  The transport puts   *)
(* replies on the session's channel; the router goroutine takes them off,  *)
(* looks up the call they belong to under the lock, and hands them over    *)
(* after the unlock.  Callers register, send, consume and unregister, and  *)
(* anyone may close the session at any time.  Replies are lost, doubled,   *)
(* late or for nobody: the environment decides what arrives.               *)
(***************************************************************************)
EXTENDS Naturals, Sequences

CONSTANTS
    Calls,         \* ids of the calls made through the session (RngBlob, never reused)
    Replies,       \* replies, as records with at least the id of the call in them
    ReplyBuffer,   \* capacity of a call's reply channel: 512 in the code
    MaxReplies,    \* bound on the replies that arrive
    Nothing        \* not a message

ASSUME BoundsAssumption == ReplyBuffer \in Nat \ {0} /\ MaxReplies \in Nat

\* A reply as it arrived, and (a ghost) whether that was after Close.
Message == [reply : Replies, late : BOOLEAN]

ASSUME NothingAssumption == Nothing \notin Message

VARIABLES
    ch,            \* replies the transport has put on the session's channel
    arrived,       \* how many there have been
    router,        \* the message route has found a call for and not handed over, or Nothing
    registered,    \* keys of Session.calls
    sinks,         \* the reply channel of each call, which outlives its registration
    stage,         \* where each Call is
    expired,       \* calls whose context is done
    got,           \* what each call has passed to onReply
    closed         \* Session.closed; from then on drain competes for ch with route

sessionVars == <<ch, arrived, router, registered, sinks, stage, expired, got, closed>>

Stages == {"new", "registered", "waiting", "returned", "failed"}

TypeOK ==
    /\ ch \in Seq(Message)
    /\ arrived \in Nat
    /\ router \in Message \cup {Nothing}
    /\ registered \in SUBSET Calls
    /\ sinks \in [Calls -> Seq(Message)]
    /\ stage \in [Calls -> Stages]
    /\ expired \in SUBSET Calls
    /\ got \in [Calls -> Seq(Message)]
    /\ closed \in BOOLEAN

Init ==
    /\ ch = <<>>
    /\ arrived = 0
    /\ router = Nothing
    /\ registered = {}
    /\ sinks = [c \in Calls |-> <<>>]
    /\ stage = [c \in Calls |-> "new"]
    /\ expired = {}
    /\ got = [c \in Calls |-> <<>>]
    /\ closed = FALSE

-----------------------------------------------------------------------------
(* Plausible bugs of the actions below, put in their place to see that the *)
(* properties notice them                                                  *)

\* closed is checked before the lock is taken, so Close can come in between.
RegisterUnchecked(c) ==
    /\ stage[c] = "new"
    /\ registered' = registered \cup {c}
    /\ stage' = [stage EXCEPT ![c] = "registered"]
    /\ UNCHANGED <<ch, arrived, router, sinks, expired, got, closed>>

\* Close forgets to drop the registered calls.
CloseKeepingCalls ==
    /\ ~closed
    /\ closed' = TRUE
    /\ UNCHANGED <<ch, arrived, router, registered, sinks, stage, expired, got>>

\* The send error returns before the deferred delete is in place.
SendFailsRegistered(c) ==
    /\ stage[c] = "registered"
    /\ stage' = [stage EXCEPT ![c] = "failed"]
    /\ UNCHANGED <<ch, arrived, router, registered, sinks, expired, got, closed>>

\* The reply goes to some call that waits, not to the one it was looked up for.
HandOverToAnyone ==
    /\ router # Nothing
    /\ \E c \in Calls :
           /\ Len(sinks[c]) < ReplyBuffer
           /\ sinks' = [sinks EXCEPT ![c] = Append(@, router)]
    /\ router' = Nothing
    /\ UNCHANGED <<ch, arrived, registered, stage, expired, got, closed>>

\* The router blocks on a full sink instead of dropping the reply.
DropFullNever ==
    /\ FALSE
    /\ UNCHANGED sessionVars

\* A context without a deadline is not given one.
ContextNeverDone(c) ==
    /\ FALSE
    /\ c \in Calls
    /\ UNCHANGED sessionVars

-----------------------------------------------------------------------------
(* Session.Call                                                            *)

\* Check closed and register, in one critical section.
Register(c) ==
    /\ stage[c] = "new"
    /\ ~closed
    /\ registered' = registered \cup {c}
    /\ stage' = [stage EXCEPT ![c] = "registered"]
    /\ UNCHANGED <<ch, arrived, router, sinks, expired, got, closed>>

RefuseClosed(c) ==
    /\ stage[c] = "new"
    /\ closed
    /\ stage' = [stage EXCEPT ![c] = "failed"]
    /\ UNCHANGED <<ch, arrived, router, registered, sinks, expired, got, closed>>

Send(c) ==
    /\ stage[c] = "registered"
    /\ stage' = [stage EXCEPT ![c] = "waiting"]
    /\ UNCHANGED <<ch, arrived, router, registered, sinks, expired, got, closed>>

\* Marshalling or sending fails; the deferred delete runs.
SendFails(c) ==
    /\ stage[c] = "registered"
    /\ stage' = [stage EXCEPT ![c] = "failed"]
    /\ registered' = registered \ {c}
    /\ UNCHANGED <<ch, arrived, router, sinks, expired, got, closed>>

\* The caller's deadline (or DefaultQueryTimeout) passes, or it is cancelled.
ContextDone(c) ==
    /\ stage[c] \in {"registered", "waiting"}
    /\ c \notin expired
    /\ expired' = expired \cup {c}
    /\ UNCHANGED <<ch, arrived, router, registered, sinks, stage, got, closed>>

\* select picks the sink, also when the context is done too: onReply gets the reply and
\* says whether there should be more.  If not, Call returns and its defer unregisters.
Consume(c, more) ==
    /\ stage[c] = "waiting"
    /\ sinks[c] # <<>>
    /\ got' = [got EXCEPT ![c] = Append(@, Head(sinks[c]))]
    /\ sinks' = [sinks EXCEPT ![c] = Tail(@)]
    /\ stage' = [stage EXCEPT ![c] = IF more THEN @ ELSE "returned"]
    /\ registered' = IF more THEN registered ELSE registered \ {c}
    /\ UNCHANGED <<ch, arrived, router, expired, closed>>

\* select picks ctx.Done, also when there are replies left in the sink.
Return(c) ==
    /\ stage[c] = "waiting"
    /\ c \in expired
    /\ stage' = [stage EXCEPT ![c] = "returned"]
    /\ registered' = registered \ {c}
    /\ UNCHANGED <<ch, arrived, router, sinks, expired, got, closed>>

-----------------------------------------------------------------------------
(* Session.route                                                           *)

\* Take the next reply and look its call up under the lock.
FindCall ==
    /\ router = Nothing
    /\ ch # <<>>
    /\ ch' = Tail(ch)
    /\ router' = IF Head(ch).reply.id \in registered THEN Head(ch) ELSE Nothing
    /\ UNCHANGED <<arrived, registered, sinks, stage, expired, got, closed>>

\* The non-blocking send succeeds.  The call may be gone by now.
HandOver ==
    /\ router # Nothing
    /\ LET c == router.reply.id IN
           /\ Len(sinks[c]) < ReplyBuffer
           /\ sinks' = [sinks EXCEPT ![c] = Append(@, router)]
    /\ router' = Nothing
    /\ UNCHANGED <<ch, arrived, registered, stage, expired, got, closed>>

\* The sink is full: the reply is dropped rather than waited for.
DropFull ==
    /\ router # Nothing
    /\ Len(sinks[router.reply.id]) >= ReplyBuffer
    /\ router' = Nothing
    /\ UNCHANGED <<ch, arrived, registered, sinks, stage, expired, got, closed>>

-----------------------------------------------------------------------------
(* Session.Close                                                           *)

\* The calls are forgotten and drain is started.  A second Close changes nothing.
Close ==
    /\ ~closed
    /\ closed' = TRUE
    /\ registered' = {}
    /\ UNCHANGED <<ch, arrived, router, sinks, stage, expired, got>>

\* drain and route both read the channel from now on.
Drain ==
    /\ closed
    /\ ch # <<>>
    /\ ch' = Tail(ch)
    /\ UNCHANGED <<arrived, router, registered, sinks, stage, expired, got, closed>>

\* The transport (external) delivers a reply, of any call or of none.
Arrive(reply) ==
    /\ arrived < MaxReplies
    /\ arrived' = arrived + 1
    /\ ch' = Append(ch, [reply |-> reply, late |-> closed])
    /\ UNCHANGED <<router, registered, sinks, stage, expired, got, closed>>

-----------------------------------------------------------------------------
Call(c) == \/ Register(c) \/ RefuseClosed(c)
           \/ Send(c) \/ SendFails(c)
           \/ ContextDone(c)
           \/ \E more \in BOOLEAN : Consume(c, more)
           \/ Return(c)

Route == FindCall \/ HandOver \/ DropFull

Next == \/ \E c \in Calls : Call(c)
        \/ Route
        \/ Close
        \/ Drain
        \/ \E reply \in Replies : Arrive(reply)

Spec == Init /\ [][Next]_sessionVars

\* The goroutines run; every context has a deadline; nobody has to close or answer, and
\* nobody promises that the caller comes back from onReply to consume.
Fairness ==
    /\ WF_sessionVars(Route)
    /\ \A c \in Calls : /\ WF_sessionVars(Send(c) \/ SendFails(c))
                        /\ WF_sessionVars(ContextDone(c))
                        /\ WF_sessionVars(Return(c))

FairSpec == Spec /\ Fairness

-----------------------------------------------------------------------------
(* Properties                                                              *)

\* Calls over one subscription do not see each other's replies, whatever arrives.
Isolation == \A c \in Calls :
    \A i \in DOMAIN got[c] : got[c][i].reply.id = c

\* Close stops routing: what arrives afterwards reaches no call, not even one that was
\* being registered, or whose sink the router already held, at the time.
NothingAfterClose == \A c \in Calls :
    \A i \in DOMAIN got[c] : ~got[c][i].late

\* Session.calls holds exactly the calls that can still return: none leaks on an error
\* return, and none can get in once the session is closed.
CallsAreLive ==
    /\ registered \subseteq {c \in Calls : stage[c] \in {"registered", "waiting"}}
    /\ closed => registered = {}

\* What makes those inductive: a message the router holds, or a call's sink or history
\* holds, is that call's own and arrived before Close; before Close all of them did.
Own(c) == {m \in Message : m.reply.id = c /\ ~m.late}

SessionInv ==
    /\ TypeOK
    /\ CallsAreLive
    /\ router # Nothing => router.reply.id \in Calls /\ ~router.late
    /\ ~closed => ch \in Seq({m \in Message : ~m.late})
    /\ \A c \in Calls : sinks[c] \in Seq(Own(c)) /\ got[c] \in Seq(Own(c))

\* "The router must never block": every reply is taken off the channel, even when no
\* caller ever consumes.
RouterNeverBlocks == \A n \in 1..MaxReplies : (Len(ch) = n) ~> (Len(ch) < n)

\* A call that sent its request returns, without a single reply or with a full sink,
\* whether the session is closed under it or not.
EveryCallReturns == \A c \in Calls :
    (stage[c] = "registered") ~> (stage[c] \in {"returned", "failed"})
==============================================================================
