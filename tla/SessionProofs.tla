---------------------------- MODULE SessionProofs ----------------------------
(***************************************************************************)
(* Proofs about Session, for any number of calls, any replies and any      *)
(* buffer: calls are isolated from each other, Close is final, and the     *)
(* call table never holds a call that is over.                             *)
(***************************************************************************)
EXTENDS Session, SequenceTheorems, TLAPS

\* Every message a call has got is its own and arrived in time.
LEMMA GotIsOwn ==
    ASSUME SessionInv, NEW c \in Calls, NEW i \in DOMAIN got[c]
    PROVE  got[c][i].reply.id = c /\ ~got[c][i].late
  <1>1. got[c] \in Seq(Own(c))
    BY DEF SessionInv
  <1>2. i \in 1..Len(got[c])
    BY <1>1
  <1>3. got[c][i] \in Own(c)
    BY <1>1, <1>2, ElementOfSeq
  <1>4. QED BY <1>3 DEF Own

LEMMA InitSession == Init => SessionInv
  <1> SUFFICES ASSUME Init PROVE SessionInv
    OBVIOUS
  <1>1. /\ <<>> \in Seq(Message) /\ <<>> \in Seq({m \in Message : ~m.late})
        /\ \A c \in Calls : <<>> \in Seq(Own(c))
    BY EmptySeq
  <1>2. TypeOK
    BY <1>1 DEF Init, TypeOK, Stages
  <1>3. CallsAreLive
    BY DEF Init, CallsAreLive
  <1>4. QED BY <1>1, <1>2, <1>3 DEF Init, SessionInv

LEMMA CallStep ==
    ASSUME SessionInv, NEW c \in Calls, Call(c)
    PROVE  SessionInv'
  <1> USE DEF SessionInv, TypeOK, CallsAreLive, Stages
  <1>1. CASE Register(c)  BY <1>1 DEF Register
  <1>2. CASE RefuseClosed(c)  BY <1>2 DEF RefuseClosed
  <1>3. CASE Send(c)  BY <1>3 DEF Send
  <1>4. CASE SendFails(c)  BY <1>4 DEF SendFails
  <1>5. CASE ContextDone(c)  BY <1>5 DEF ContextDone
  <1>6. ASSUME NEW more \in BOOLEAN, Consume(c, more) PROVE SessionInv'
    <2>1. /\ Head(sinks[c]) \in Own(c)
          /\ Tail(sinks[c]) \in Seq(Own(c))
      BY <1>6, HeadTailProperties DEF Consume
    <2>2. Append(got[c], Head(sinks[c])) \in Seq(Own(c))
      BY <2>1, AppendProperties
    <2>3. Own(c) \subseteq Message
      BY DEF Own
    <2>4. \A q \in Seq(Own(c)) : q \in Seq(Message)
      BY <2>3
    <2>5. QED BY <1>6, <2>1, <2>2, <2>4 DEF Consume
  <1>7. CASE Return(c)  BY <1>7 DEF Return
  <1>8. QED BY <1>1, <1>2, <1>3, <1>4, <1>5, <1>6, <1>7 DEF Call

LEMMA RouteStep ==
    ASSUME SessionInv, Route
    PROVE  SessionInv'
  <1> USE DEF SessionInv, TypeOK, CallsAreLive
  <1>1. CASE FindCall
    <2>1. Head(ch) \in Message /\ Tail(ch) \in Seq(Message)
      BY <1>1, HeadTailProperties DEF FindCall
    <2>2. ~closed => /\ Head(ch) \in {m \in Message : ~m.late}
                     /\ Tail(ch) \in Seq({m \in Message : ~m.late})
      BY <1>1, HeadTailProperties DEF FindCall
    \* a call is registered, so the session is open, so nothing in ch is late
    <2>3. Head(ch).reply.id \in registered => ~Head(ch).late
      BY <2>2
    <2>4. QED BY <1>1, <2>1, <2>2, <2>3 DEF FindCall
  <1>2. CASE HandOver
    <2> DEFINE d == router.reply.id
    <2>1. d \in Calls /\ router \in Own(d)
      BY <1>2 DEF HandOver, Own
    <2>2. Append(sinks[d], router) \in Seq(Own(d))
      BY <2>1, AppendProperties
    <2>3. Append(sinks[d], router) \in Seq(Message)
      BY <2>1, AppendProperties DEF Own
    <2>4. QED BY <1>2, <2>1, <2>2, <2>3 DEF HandOver
  <1>3. CASE DropFull  BY <1>3 DEF DropFull
  <1>4. QED BY <1>1, <1>2, <1>3 DEF Route

LEMMA CloseStep ==
    ASSUME SessionInv, Close \/ Drain
    PROVE  SessionInv'
  <1> USE DEF SessionInv, TypeOK, CallsAreLive
  <1>1. CASE Close  BY <1>1 DEF Close
  <1>2. CASE Drain
    <2>1. Tail(ch) \in Seq(Message)
      BY <1>2, HeadTailProperties DEF Drain
    <2>2. QED BY <1>2, <2>1 DEF Drain
  <1>3. QED BY <1>1, <1>2

LEMMA ArriveStep ==
    ASSUME SessionInv, NEW reply \in Replies, Arrive(reply)
    PROVE  SessionInv'
  <1> USE DEF SessionInv, TypeOK, CallsAreLive
  <1> DEFINE m == [reply |-> reply, late |-> closed]
  <1>1. m \in Message
    BY DEF Message
  <1>2. Append(ch, m) \in Seq(Message)
    BY <1>1, AppendProperties
  <1>3. ~closed => Append(ch, m) \in Seq({x \in Message : ~x.late})
    <2> SUFFICES ASSUME ~closed PROVE Append(ch, m) \in Seq({x \in Message : ~x.late})
      OBVIOUS
    <2>1. m \in {x \in Message : ~x.late}
      BY <1>1
    <2>2. QED BY <2>1, AppendProperties
  <1>4. QED BY <1>2, <1>3 DEF Arrive

\* SessionInv is an inductive invariant.
THEOREM SessionInvariant == Spec => []SessionInv
  <1>1. SessionInv /\ [Next]_sessionVars => SessionInv'
    <2> SUFFICES ASSUME SessionInv, [Next]_sessionVars PROVE SessionInv'
      OBVIOUS
    <2>1. CASE Next
      BY <2>1, CallStep, RouteStep, CloseStep, ArriveStep DEF Next
    <2>2. CASE UNCHANGED sessionVars
      BY <2>2 DEF sessionVars, SessionInv, TypeOK, CallsAreLive
    <2>3. QED BY <2>1, <2>2
  <1>2. QED BY InitSession, <1>1, PTL DEF Spec

\* Concurrent calls over one subscription never see each other's replies.
THEOREM CallsAreIsolated == Spec => []Isolation
  <1>1. SessionInv => Isolation
    BY GotIsOwn DEF Isolation
  <1>2. QED BY <1>1, SessionInvariant, PTL

\* No reply that arrives after Close reaches a call, and the call table only ever holds
\* calls that are in progress.
THEOREM CloseIsFinal == Spec => [](NothingAfterClose /\ CallsAreLive)
  <1>1. SessionInv => NothingAfterClose /\ CallsAreLive
    BY GotIsOwn DEF SessionInv, NothingAfterClose
  <1>2. QED BY <1>1, SessionInvariant, PTL
-----------------------------------------------------------------------------
(* What becomes of the replies                                             *)

Held(c) == IF router # Nothing /\ router.reply.id = c THEN 1 ELSE 0

\* A reply is handed on, never copied: what a call got, has waiting in its channel, is about to
\* get and may still find on the session's channel is no more than what arrived; and a
\* channel is never filled beyond its capacity, which would make the router wait.
RepliesAddUp == \A c \in Calls :
    /\ Len(got[c]) + Len(sinks[c]) + Held(c) + Len(ch) <= arrived
    /\ Len(sinks[c]) <= ReplyBuffer

\* A call that is over is over: it is not in the table, is never put there again, and its
\* onReply gets nothing more.  What any call got stays as it was.
OverIsOver == \A c \in Calls :
    /\ stage[c] \in {"returned", "failed"} =>
           stage'[c] = stage[c] /\ got'[c] = got[c] /\ c \notin registered'
    /\ got'[c] = got[c] \/ \E m \in Message : got'[c] = Append(got[c], m)

\* One step moves one reply.
LEMMA AddUpStep ==
    ASSUME SessionInv, RepliesAddUp, Next, NEW c \in Calls
    PROVE  /\ Len(got'[c]) + Len(sinks'[c]) + Held(c)' + Len(ch') <= arrived'
           /\ Len(sinks'[c]) <= ReplyBuffer
  <1>1. /\ got[c] \in Seq(Message) /\ sinks[c] \in Seq(Message) /\ ch \in Seq(Message)
        /\ DOMAIN got = Calls /\ DOMAIN sinks = Calls
    BY DEF SessionInv, TypeOK
  <1>2. PICK g, s, h, n, a \in Nat :
            /\ Len(got[c]) = g /\ Len(sinks[c]) = s /\ Held(c) = h /\ Len(ch) = n /\ arrived = a
    BY <1>1, LenProperties DEF SessionInv, TypeOK, Held
  <1>3. g + s + h + n <= a /\ s <= ReplyBuffer /\ ReplyBuffer \in Nat
    BY <1>2, BoundsAssumption DEF RepliesAddUp
  <1>4. h \in {0, 1}
    BY <1>2 DEF Held
  <1> DEFINE Now(g1, s1, h1, n1, a1) ==
                 /\ Len(got'[c]) = g1 /\ Len(sinks'[c]) = s1 /\ Held(c)' = h1 /\ Len(ch') = n1
                 /\ arrived' = a1
  <1>5. \/ Now(g, s, h, n, a)
        \/ s > 0 /\ Now(g + 1, s - 1, h, n, a)
        \/ n > 0 /\ h = 0 /\ (Now(g, s, 0, n - 1, a) \/ Now(g, s, 1, n - 1, a))
        \/ n > 0 /\ Now(g, s, h, n - 1, a)
        \/ s < ReplyBuffer /\ h = 1 /\ Now(g, s + 1, 0, n, a)
        \/ Now(g, s, 0, n, a)
        \/ Now(g, s, h, n + 1, a + 1)
    <2>1. CASE UNCHANGED <<got, sinks, router, ch, arrived>>
      BY <1>2, <2>1 DEF Held
    <2>2. ASSUME NEW d \in Calls,
                 Register(d) \/ RefuseClosed(d) \/ Send(d) \/ SendFails(d) \/ ContextDone(d)
                     \/ Return(d)
          PROVE  UNCHANGED <<got, sinks, router, ch, arrived>>
      BY <2>2 DEF Register, RefuseClosed, Send, SendFails, ContextDone, Return
    <2>3. ASSUME NEW d \in Calls, NEW more \in BOOLEAN, Consume(d, more)
          PROVE  Now(g, s, h, n, a) \/ (s > 0 /\ Now(g + 1, s - 1, h, n, a))
      <3>1. Held(c)' = h /\ Len(ch') = n /\ arrived' = a
        BY <1>2, <2>3 DEF Consume, Held
      <3>2. CASE d # c
        BY <1>1, <1>2, <2>3, <3>1, <3>2 DEF Consume
      <3>3. CASE d = c
        <4>1. sinks[c] # <<>> /\ sinks'[c] = Tail(sinks[c])
              /\ got'[c] = Append(got[c], Head(sinks[c]))
          BY <1>1, <2>3, <3>3 DEF Consume
        <4>2. Len(sinks'[c]) = s - 1 /\ s > 0 /\ Head(sinks[c]) \in Message
          BY <1>1, <1>2, <4>1, HeadTailProperties, EmptySeq
        <4>3. Len(got'[c]) = g + 1
          BY <1>1, <1>2, <4>1, <4>2, AppendProperties
        <4>4. QED BY <3>1, <4>2, <4>3
      <3>4. QED BY <3>2, <3>3
    <2>4. CASE FindCall
      <3>1. Len(ch') = n - 1 /\ n > 0
        BY <1>1, <1>2, <2>4, HeadTailProperties, EmptySeq DEF FindCall
      <3>2. h = 0 /\ Held(c)' \in {0, 1} /\ UNCHANGED <<got, sinks, arrived>>
        BY <1>2, <2>4 DEF FindCall, Held
      <3>3. QED BY <1>2, <3>1, <3>2
    <2>5. CASE Drain
      <3>1. Len(ch') = n - 1 /\ n > 0
        BY <1>1, <1>2, <2>5, HeadTailProperties, EmptySeq DEF Drain
      <3>2. Held(c)' = h /\ UNCHANGED <<got, sinks, arrived>>
        BY <1>2, <2>5 DEF Drain, Held
      <3>3. QED BY <1>2, <3>1, <3>2
    <2>6. CASE HandOver
      <3>1. Held(c)' = 0 /\ Len(ch') = n /\ Len(got'[c]) = g /\ arrived' = a
        BY <1>2, <2>6 DEF HandOver, Held
      <3>2. CASE router.reply.id = c
        <4>1. sinks'[c] = Append(sinks[c], router) /\ Len(sinks[c]) < ReplyBuffer
              /\ router \in Message
          BY <1>1, <2>6, <3>2 DEF HandOver, SessionInv, TypeOK
        <4>2. Len(sinks'[c]) = s + 1
          BY <1>1, <1>2, <4>1, AppendProperties
        <4>3. h = 1
          BY <1>2, <2>6, <3>2 DEF HandOver, Held
        <4>4. QED BY <1>2, <3>1, <4>1, <4>2, <4>3
      <3>3. CASE router.reply.id # c
        <4>1. sinks'[c] = sinks[c]
          BY <1>1, <2>6, <3>3 DEF HandOver
        <4>2. QED BY <1>2, <3>1, <4>1
      <3>4. QED BY <3>2, <3>3
    <2>7. CASE DropFull
      BY <1>2, <2>7 DEF DropFull, Held
    <2>8. ASSUME NEW reply \in Replies, Arrive(reply)
          PROVE  Now(g, s, h, n + 1, a + 1)
      <3>1. [reply |-> reply, late |-> closed] \in Message
        BY DEF Message, SessionInv, TypeOK
      <3>2. Len(ch') = n + 1
        BY <1>1, <1>2, <2>8, <3>1, AppendProperties DEF Arrive
      <3>3. QED BY <1>2, <2>8, <3>2 DEF Arrive, Held
    <2>9. CASE Close
      BY <2>1, <2>9 DEF Close
    <2> HIDE DEF Now
    <2>10. QED BY <2>1, <2>2, <2>3, <2>4, <2>5, <2>6, <2>7, <2>8, <2>9 DEF Next, Call, Route
  <1>6. ASSUME NEW g1 \in Nat, NEW s1 \in Nat, NEW h1 \in Nat, NEW n1 \in Nat, NEW a1 \in Nat,
               Now(g1, s1, h1, n1, a1), g1 + s1 + h1 + n1 <= a1, s1 <= ReplyBuffer
        PROVE  /\ Len(got'[c]) + Len(sinks'[c]) + Held(c)' + Len(ch') <= arrived'
               /\ Len(sinks'[c]) <= ReplyBuffer
    BY <1>6
  <1> HIDE DEF Now
  <1>7. \E g1, s1, h1, n1, a1 \in Nat :
            Now(g1, s1, h1, n1, a1) /\ g1 + s1 + h1 + n1 <= a1 /\ s1 <= ReplyBuffer
    <2>1. CASE s > 0 /\ Now(g + 1, s - 1, h, n, a)
      BY <1>3, <2>1
    <2>2. CASE n > 0 /\ h = 0 /\ (Now(g, s, 0, n - 1, a) \/ Now(g, s, 1, n - 1, a))
      BY <1>3, <2>2
    <2>3. CASE n > 0 /\ Now(g, s, h, n - 1, a)
      BY <1>3, <2>3
    <2>4. CASE s < ReplyBuffer /\ h = 1 /\ Now(g, s + 1, 0, n, a)
      BY <1>3, <2>4
    <2>5. CASE Now(g, s, h, n, a) \/ Now(g, s, 0, n, a)
      BY <1>3, <2>5
    <2>6. CASE Now(g, s, h, n + 1, a + 1)
      BY <1>3, <2>6
    <2>7. QED BY <1>5, <2>1, <2>2, <2>3, <2>4, <2>5, <2>6
  <1>8. QED BY <1>6, <1>7

\* session.go:87-105: the hand-over neither doubles a reply nor fills a call's channel
\* beyond its capacity, for any number of calls, replies and any buffer.
THEOREM RepliesAlwaysAddUp == Spec => []RepliesAddUp
  <1>1. Init => RepliesAddUp
    <2> SUFFICES ASSUME Init, NEW c \in Calls
                 PROVE  /\ Len(got[c]) + Len(sinks[c]) + Held(c) + Len(ch) <= arrived
                        /\ Len(sinks[c]) <= ReplyBuffer
      BY DEF RepliesAddUp
    <2>1. Len(got[c]) = 0 /\ Len(sinks[c]) = 0 /\ Held(c) = 0 /\ Len(ch) = 0 /\ arrived = 0
      BY DEF Init, Held
    <2>2. QED BY <2>1, BoundsAssumption
  <1>2. SessionInv /\ RepliesAddUp /\ [Next]_sessionVars => RepliesAddUp'
    <2>1. RepliesAddUp /\ UNCHANGED sessionVars => RepliesAddUp'
      BY DEF sessionVars, RepliesAddUp, Held
    <2>2. SessionInv /\ RepliesAddUp /\ Next => RepliesAddUp'
      BY AddUpStep DEF RepliesAddUp
    <2>3. QED BY <2>1, <2>2
  <1>3. QED BY <1>1, <1>2, SessionInvariant, PTL DEF Spec

\* A step of a call, of the router or of the environment keeps the promise.
LEMMA StepEndsForGood == SessionInv /\ [Next]_sessionVars => [OverIsOver]_sessionVars
  <1>1. ASSUME SessionInv, Next, NEW c \in Calls
        PROVE  /\ stage[c] \in {"returned", "failed"} =>
                      stage'[c] = stage[c] /\ got'[c] = got[c] /\ c \notin registered'
               /\ got'[c] = got[c] \/ \E m \in Message : got'[c] = Append(got[c], m)
    <2> DEFINE Over == stage[c] \in {"returned", "failed"} =>
                           stage'[c] = stage[c] /\ c \notin registered'
               Kept == got'[c] = got[c]
    <2>1. /\ DOMAIN stage = Calls /\ DOMAIN got = Calls
          /\ stage[c] \in {"returned", "failed"} => c \notin registered
      BY <1>1 DEF SessionInv, TypeOK, CallsAreLive
    <2>2. ASSUME NEW d \in Calls,
                 Register(d) \/ RefuseClosed(d) \/ Send(d) \/ SendFails(d) \/ ContextDone(d)
                     \/ Return(d)
          PROVE  Over /\ Kept
      BY <2>1, <2>2 DEF Register, RefuseClosed, Send, SendFails, ContextDone, Return
    <2>3. ASSUME NEW d \in Calls, NEW more \in BOOLEAN, Consume(d, more)
          PROVE  Over /\ (Kept \/ (stage[c] = "waiting"
                                   /\ \E m \in Message : got'[c] = Append(got[c], m)))
      <3>1. Head(sinks[d]) \in Message
        BY <1>1, <2>3, HeadTailProperties DEF Consume, SessionInv, TypeOK
      <3>2. stage[d] = "waiting" /\ stage' = [stage EXCEPT ![d] = IF more THEN @ ELSE "returned"]
            /\ registered' \subseteq registered
            /\ got' = [got EXCEPT ![d] = Append(@, Head(sinks[d]))]
        BY <2>3 DEF Consume
      <3>3. QED BY <2>1, <3>1, <3>2
    <2>4. CASE Route
      BY <2>1, <2>4 DEF Route, FindCall, HandOver, DropFull
    <2>5. CASE Close \/ Drain
      BY <2>1, <2>5 DEF Close, Drain
    <2>6. ASSUME NEW reply \in Replies, Arrive(reply)
          PROVE  Over /\ Kept
      BY <2>1, <2>6 DEF Arrive
    <2>7. QED BY <1>1, <2>2, <2>3, <2>4, <2>5, <2>6 DEF Next, Call
  <1>2. QED BY <1>1 DEF OverIsOver

\* session.go:110-158: Call returns once, and after it returned nothing of it is left behind in
\* the session.
THEOREM CallsEndForGood == Spec => [][OverIsOver]_sessionVars
  BY StepEndsForGood, SessionInvariant, PTL DEF Spec
==============================================================================
