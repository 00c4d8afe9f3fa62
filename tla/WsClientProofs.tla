--------------------------- MODULE WsClientProofs ---------------------------
(***************************************************************************)
(* Proofs about WsClient for every set of sender threads, every countdown  *)
(* and every bound: the inductive invariant Inv, the action property       *)
(* ExitDrains, and that the client implements MessageChannel.              *)
(***************************************************************************)
EXTENDS WsClient, SequenceTheorems, TLAPS

(***************************************************************************)
(* What the queue operations do to a sequence of messages.                 *)
(***************************************************************************)

\* A sequence is empty exactly when its length is 0.
LEMMA EmptyFacts ==
    ASSUME NEW S, NEW q \in Seq(S)
    PROVE  /\ Len(q) \in Nat
           /\ q = << >> <=> Len(q) = 0
  BY EmptySeq, LenProperties

\* Appending makes a sequence one longer, and so not empty.
LEMMA AppendFacts ==
    ASSUME NEW S, NEW q \in Seq(S), NEW x \in S
    PROVE  /\ Append(q, x) \in Seq(S)
           /\ Len(Append(q, x)) = Len(q) + 1
           /\ Append(q, x) # << >>
<1>1. Append(q, x) \in Seq(S) /\ Len(Append(q, x)) = Len(q) + 1
  BY AppendProperties
<1>2. Len(q) + 1 # 0
  BY EmptyFacts
<1> QED BY <1>1, <1>2, EmptyFacts

\* Dropping the head shifts the remaining positions by one.
LEMMA TailFacts ==
    ASSUME NEW S, NEW q \in Seq(S), q # << >>
    PROVE  /\ Head(q) \in S
           /\ Head(q) = q[1]
           /\ Tail(q) \in Seq(S)
           /\ Len(q) \in Nat \ {0}
           /\ Len(Tail(q)) = Len(q) - 1
           /\ \A i \in 1..Len(Tail(q)) : Tail(q)[i] = q[i + 1]
           /\ Tail(q) = << >> <=> Len(q) = 1
<1>1. Head(q) = q[1]
  OBVIOUS
<1>2. Len(q) \in Nat \ {0}
  BY EmptySeq
<1>3. /\ Head(q) \in S
      /\ Tail(q) \in Seq(S)
      /\ Len(Tail(q)) = Len(q) - 1
      /\ \A i \in 1..Len(Tail(q)) : Tail(q)[i] = q[i + 1]
  BY HeadTailProperties
<1>4. Tail(q) = << >> <=> Len(Tail(q)) = 0
  BY <1>3, EmptyFacts
<1> QED BY <1>1, <1>2, <1>3, <1>4

-----------------------------------------------------------------------------
(***************************************************************************)
(* The initial state.                                                      *)
(***************************************************************************)
LEMMA InitInv == Init => Inv
<1> SUFFICES ASSUME Init PROVE Inv
  OBVIOUS
<1> USE SendersAssumption, CountdownAssumption, BoundsAssumption
<1>1. AppType /\ ObsType
  <2>1. AppType
    BY DEF Init, AppType
  <2>2. 0 \in 0..MaxMsgs
    OBVIOUS
  <2> QED BY <2>1, <2>2 DEF Init, ObsType
<1>7. WsiType
  <2>1. 0 \in 0..MaxConn
    OBVIOUS
  <2> QED BY <2>1 DEF Init, WsiType
<1>2. QueueType
  <2>1. << >> \in Seq(1..MaxMsgs)
    BY EmptySeq
  <2> QED BY <2>1 DEF Init, QueueType
<1>3. SendType
  BY DEF Init, SendType
<1>4. TaskType
  BY DEF Init, TaskType, Positions
<1>5. SendInProgress /\ ThreadCreated /\ NoMsgAccurate /\ PointerIsLive
  BY DEF Init, SendInProgress, ThreadCreated, NoMsgAccurate, PointerIsLive
<1>6. InOrderOnce
  <2>1. Len(message_queue_) = 0 /\ Len(wire) = 0 /\ accepted = 0
    BY DEF Init
  <2>2. 1..0 = {}
    OBVIOUS
  <2> QED BY <2>1, <2>2 DEF Init, InOrderOnce
<1> QED BY <1>1, <1>2, <1>3, <1>4, <1>5, <1>6, <1>7 DEF Inv, TypeOK

-----------------------------------------------------------------------------
(***************************************************************************)
(* Frames: which actions touch a group of variables.                       *)
(***************************************************************************)

\* Only start(), stop() and the join touch the application's variables.
LEMMA AppSteps == [Next]_vars => UNCHANGED appVars \/ Start \/ Stop \/ Join
<1> SUFFICES ASSUME [Next]_vars PROVE UNCHANGED appVars \/ Start \/ Stop \/ Join
  OBVIOUS
<1>1. ASSUME NEW s \in Senders, SendStep(s) PROVE UNCHANGED appVars
  BY <1>1 DEF SendStep, Push, ClearNoMsg, TestClient, RequestWritable, appVars
<1>2. CASE TaskStep
  BY <1>2 DEF TaskStep, CreateContextFails, CreateContext, FirstConnect, EvalWhile,
     Connected, GiveUp, CountDown, Reconnect, ServiceReturns, DestroyContext, appVars
<1>3. CASE CallbackStep
  BY <1>3 DEF CallbackStep, Established, ConnectionError, SessionEnds, ReceiveAndSend,
     Writeable, DrainMessageQueue, appVars
<1>4. CASE Finished \/ UNCHANGED vars
  BY <1>4 DEF Finished, vars
<1> QED BY <1>1, <1>2, <1>3, <1>4 DEF Next

\* Only sendMessage(), on whatever thread, and the drain touch the queue and
\* what is recorded of it.
LEMMA QueueSteps ==
    [Next]_vars => \/ UNCHANGED queueVars
                   \/ \E s \in Senders : SendStep(s)
                   \/ ReceiveAndSend
                   \/ DrainMessageQueue
<1> SUFFICES ASSUME [Next]_vars
             PROVE \/ UNCHANGED queueVars
                   \/ \E s \in Senders : SendStep(s)
                   \/ ReceiveAndSend
                   \/ DrainMessageQueue
  OBVIOUS
<1>1. CASE Start \/ Stop \/ Join
  BY <1>1 DEF Start, Stop, Join, queueVars
<1>2. CASE TaskStep
  BY <1>2 DEF TaskStep, CreateContextFails, CreateContext, FirstConnect, EvalWhile,
     Connected, GiveUp, CountDown, Reconnect, ServiceReturns, DestroyContext, queueVars
<1>3. CASE CallbackStep
  BY <1>3 DEF CallbackStep, Established, ConnectionError, SessionEnds, Writeable, queueVars
<1>4. CASE Finished \/ UNCHANGED vars
  BY <1>4 DEF Finished, vars
<1> QED BY <1>1, <1>2, <1>3, <1>4 DEF Next

\* Only sendMessage() moves a sender.
LEMMA SendSteps == [Next]_vars => UNCHANGED sendVars \/ \E s \in Senders : SendStep(s)
<1> SUFFICES ASSUME [Next]_vars
             PROVE UNCHANGED sendVars \/ \E s \in Senders : SendStep(s)
  OBVIOUS
<1>1. CASE Start \/ Stop \/ Join
  BY <1>1 DEF Start, Stop, Join, sendVars
<1>2. CASE TaskStep
  BY <1>2 DEF TaskStep, CreateContextFails, CreateContext, FirstConnect, EvalWhile,
     Connected, GiveUp, CountDown, Reconnect, ServiceReturns, DestroyContext, sendVars
<1>3. CASE CallbackStep
  BY <1>3 DEF CallbackStep, Established, ConnectionError, SessionEnds, ReceiveAndSend,
     Writeable, DrainMessageQueue, sendVars
<1>4. CASE Finished \/ UNCHANGED vars
  BY <1>4 DEF Finished, vars
<1> QED BY <1>1, <1>2, <1>3, <1>4 DEF Next

\* settled is stop()'s; sessions end in a callback or with the context.
LEMMA ObsSteps == [Next]_vars => UNCHANGED obsVars \/ Stop \/ SessionEnds \/ DestroyContext
<1> SUFFICES ASSUME [Next]_vars
             PROVE UNCHANGED obsVars \/ Stop \/ SessionEnds \/ DestroyContext
  OBVIOUS
<1>1. CASE Start \/ Stop \/ Join
  BY <1>1 DEF Start, Join, obsVars
<1>2. ASSUME NEW s \in Senders, SendStep(s) PROVE UNCHANGED obsVars
  BY <1>2 DEF SendStep, Push, ClearNoMsg, TestClient, RequestWritable, obsVars
<1>3. CASE TaskStep
  BY <1>3 DEF TaskStep, CreateContextFails, CreateContext, FirstConnect, EvalWhile,
     Connected, GiveUp, CountDown, Reconnect, ServiceReturns, obsVars
<1>4. CASE CallbackStep
  BY <1>4 DEF CallbackStep, Established, ConnectionError, ReceiveAndSend,
     Writeable, DrainMessageQueue, obsVars
<1>5. CASE Finished \/ UNCHANGED vars
  BY <1>5 DEF Finished, vars
<1> QED BY <1>1, <1>2, <1>3, <1>4, <1>5 DEF Next

-----------------------------------------------------------------------------
(***************************************************************************)
(* Types are preserved.                                                    *)
(***************************************************************************)
LEMMA AppTypeNext == AppType /\ [Next]_vars => AppType'
  BY AppSteps DEF AppType, appVars, Start, Stop, Join

\* Pushes and the drain keep the queue, and what is recorded of it, a queue of messages.
LEMMA QueueTypeNext == QueueType /\ [Next]_vars => QueueType'
<1> SUFFICES ASSUME QueueType, [Next]_vars PROVE QueueType'
  OBVIOUS
<1> USE BoundsAssumption
<1>1. CASE UNCHANGED queueVars
  BY <1>1 DEF QueueType, queueVars
<1>2. ASSUME NEW s \in Senders, Push(s) PROVE QueueType'
  <2>1. accepted' \in 0..MaxMsgs /\ accepted' \in 1..MaxMsgs
    BY <1>2 DEF Push, QueueType
  <2>2. message_queue_' \in Seq(1..MaxMsgs)
    BY <1>2, <2>1, AppendProperties DEF Push, QueueType
  <2> QED BY <1>2, <2>1, <2>2 DEF Push, QueueType
<1>3. ASSUME NEW s \in Senders, ClearNoMsg(s) \/ TestClient(s) \/ RequestWritable(s)
      PROVE  QueueType'
  BY <1>3 DEF ClearNoMsg, TestClient, RequestWritable, QueueType
<1>4. CASE ReceiveAndSend
  <2>1. accepted' \in 0..MaxMsgs /\ accepted' \in 1..MaxMsgs
    BY <1>4 DEF ReceiveAndSend, QueueType
  <2>2. message_queue_' \in Seq(1..MaxMsgs)
    BY <1>4, <2>1, AppendProperties DEF ReceiveAndSend, QueueType
  <2> QED BY <1>4, <2>1, <2>2 DEF ReceiveAndSend, QueueType
<1>5. CASE DrainMessageQueue
  <2>1. CASE DrainNothing
    BY <1>5, <2>1 DEF DrainMessageQueue, DrainNothing, QueueType
  <2>2. CASE DrainOne
    <3>1. Head(message_queue_) \in 1..MaxMsgs /\ message_queue_' \in Seq(1..MaxMsgs)
      BY <2>2, TailFacts DEF DrainOne, Pop, QueueType
    <3>2. wire' \in Seq(1..MaxMsgs)
      <4>1. Append(wire, Head(message_queue_)) \in Seq(1..MaxMsgs)
        BY <3>1, AppendProperties DEF QueueType
      <4> QED BY <2>2, <4>1 DEF DrainOne, QueueType
    <3>4. dropped' \in SUBSET (1..MaxMsgs)
      BY <2>2, <3>1 DEF DrainOne, QueueType
    <3>3. no_msg_' \in BOOLEAN
      BY <2>2 DEF DrainOne, NoMsgAfter
    <3> QED BY <1>5, <3>1, <3>2, <3>3, <3>4 DEF DrainMessageQueue, QueueType
  <2> QED BY <1>5, <2>1, <2>2 DEF DrainMessageQueue
<1> QED BY <1>1, <1>2, <1>3, <1>4, <1>5, QueueSteps DEF SendStep

\* A sender's position and the connection it read keep their types.
LEMMA SendTypeNext == SendType /\ WsiType /\ [Next]_vars => SendType'
<1> SUFFICES ASSUME SendType, WsiType, [Next]_vars PROVE SendType'
  OBVIOUS
<1>1. CASE UNCHANGED sendVars
  BY <1>1 DEF SendType, sendVars
<1>2. ASSUME NEW s \in Senders, SendStep(s) PROVE SendType'
  BY <1>2 DEF SendStep, Push, ClearNoMsg, TestClient, RequestWritable, SendType, WsiType
<1> QED BY <1>1, <1>2, SendSteps

\* Together with its type, lws_client_ keeps naming the live connection.
LEMMA WsiNext == WsiType /\ PointerIsLive /\ [Next]_vars => WsiType' /\ PointerIsLive'
<1> SUFFICES ASSUME WsiType, PointerIsLive, [Next]_vars PROVE WsiType' /\ PointerIsLive'
  OBVIOUS
<1> USE BoundsAssumption
<1>1. CASE UNCHANGED wsiVars
  BY <1>1 DEF WsiType, PointerIsLive, wsiVars
<1>2. CASE Start \/ Stop \/ Join
  BY <1>1, <1>2 DEF Start, Stop, Join
<1>3. ASSUME NEW s \in Senders, SendStep(s) PROVE WsiType' /\ PointerIsLive'
  <2>1. CASE RequestWritable(s)
    BY <2>1 DEF RequestWritable, WsiType, PointerIsLive
  <2>2. CASE Push(s) \/ ClearNoMsg(s) \/ TestClient(s)
    BY <1>1, <2>2 DEF Push, ClearNoMsg, TestClient
  <2> QED BY <1>3, <2>1, <2>2 DEF SendStep
<1>4. CASE TaskStep
  <2>1. CASE Connects
    <3>1. conns' \in 0..MaxConn /\ lws_client_' \in 0..MaxConn
      BY <2>1 DEF Connects, WsiType
    <3>2. WsiType'
      BY <2>1, <3>1 DEF Connects, WsiType
    <3>3. PointerIsLive'
      BY <2>1 DEF Connects, PointerIsLive
    <3> QED BY <3>2, <3>3
  <2>2. CASE FirstConnect \/ Reconnect
    BY <1>1, <2>1, <2>2 DEF FirstConnect, Reconnect, ConnectFails
  <2>3. CASE DestroyContext
    <3>1. WsiType'
      BY <2>3, 0 \in 0..MaxConn DEF DestroyContext, WsiType
    <3>2. PointerIsLive'
      BY <2>3 DEF DestroyContext, PointerIsLive
    <3> QED BY <3>1, <3>2
  <2>4. CASE \/ CreateContextFails \/ CreateContext \/ EvalWhile \/ Connected
             \/ GiveUp \/ CountDown \/ ServiceReturns
    BY <1>1, <2>4 DEF CreateContextFails, CreateContext, EvalWhile, Connected,
       GiveUp, CountDown, ServiceReturns
  <2> QED BY <1>4, <2>2, <2>3, <2>4 DEF TaskStep
<1>5. CASE CallbackStep
  <2>1. CASE Destroyed /\ UNCHANGED conns
    <3>1. WsiType'
      BY <2>1, 0 \in 0..MaxConn DEF Destroyed, WsiType
    <3>2. PointerIsLive'
      BY <2>1 DEF Destroyed, PointerIsLive
    <3> QED BY <3>1, <3>2
  <2>2. CASE ConnectionError \/ SessionEnds
    BY <2>1, <2>2 DEF ConnectionError, SessionEnds
  <2>3. CASE Established \/ ReceiveAndSend \/ Writeable
    BY <2>3 DEF Established, ReceiveAndSend, Writeable, WsiType, PointerIsLive
  <2>4. CASE DrainMessageQueue
    BY <1>1, <2>4 DEF DrainMessageQueue
  <2> QED BY <1>5, <2>2, <2>3, <2>4 DEF CallbackStep
<1>6. CASE Finished \/ UNCHANGED vars
  BY <1>1, <1>6 DEF Finished, vars
<1> QED BY <1>2, <1>3, <1>4, <1>5, <1>6 DEF Next

\* countdown stays positive: it is reset before it could reach 0.
LEMMA TaskTypeNext == TaskType /\ [Next]_vars => TaskType'
<1> SUFFICES ASSUME TaskType, [Next]_vars PROVE TaskType'
  OBVIOUS
<1> USE CountdownAssumption DEF TaskType, Positions
<1>1. CASE UNCHANGED taskVars
  BY <1>1 DEF taskVars
<1>2. CASE Start \/ Stop \/ Join
  BY <1>1, <1>2 DEF Start, Stop, Join, taskVars
<1>3. ASSUME NEW s \in Senders, SendStep(s) PROVE TaskType'
  BY <1>1, <1>3 DEF SendStep, Push, ClearNoMsg, TestClient, RequestWritable
<1>4. CASE TaskStep
  <2>1. CASE CountDown
    BY <2>1 DEF CountDown, KeepsWaiting
  <2>2. CASE FirstConnect \/ Reconnect
    BY <2>2 DEF FirstConnect, Reconnect
  <2>3. CASE \/ CreateContextFails \/ CreateContext \/ EvalWhile \/ Connected
             \/ GiveUp \/ ServiceReturns \/ DestroyContext
    BY <2>3 DEF CreateContextFails, CreateContext, EvalWhile, Connected,
       GiveUp, ServiceReturns, DestroyContext
  <2> QED BY <1>4, <2>1, <2>2, <2>3 DEF TaskStep
<1>5. CASE CallbackStep
  <2>1. CASE Writeable \/ DrainMessageQueue
    BY <2>1 DEF Writeable, DrainMessageQueue
  <2>2. CASE Established \/ ConnectionError \/ SessionEnds \/ ReceiveAndSend
    BY <1>1, <2>2 DEF Established, ConnectionError, SessionEnds, ReceiveAndSend
  <2> QED BY <1>5, <2>1, <2>2 DEF CallbackStep
<1>6. CASE Finished \/ UNCHANGED vars
  BY <1>1, <1>6 DEF Finished, vars
<1> QED BY <1>2, <1>3, <1>4, <1>5, <1>6 DEF Next

\* stop() records accepted - 1 only while a pushed message exists.
LEMMA ObsTypeNext == Inv /\ [Next]_vars => ObsType'
<1> SUFFICES ASSUME Inv, [Next]_vars PROVE ObsType'
  OBVIOUS
<1> USE BoundsAssumption DEF Inv, TypeOK
<1>1. CASE UNCHANGED obsVars
  BY <1>1 DEF ObsType, obsVars
<1>2. CASE Stop
  <2>1. ASSUME NEW s \in Senders, at[s] = "flag" PROVE accepted - 1 \in 0..MaxMsgs
    BY <2>1 DEF SendInProgress, QueueType, ObsType
  <2>2. settled' \in 0..MaxMsgs
    BY <1>2, <2>1 DEF Stop, QueueType
  <2> QED BY <1>2, <2>2 DEF Stop, ObsType
<1>3. CASE SessionEnds \/ DestroyContext
  BY <1>3 DEF SessionEnds, DestroyContext, ObsType
<1> QED BY <1>1, <1>2, <1>3, ObsSteps

-----------------------------------------------------------------------------
(***************************************************************************)
(* The conjuncts about a sendMessage() under way and about no_msg_.        *)
(***************************************************************************)

\* The thread that holds lock_ is the only one inside sendMessage().
LEMMA OneInside ==
    ASSUME SendInProgress, NEW s \in Senders, at[s] # "idle"
    PROVE  lock_ = s /\ \A t \in Senders : t # s => at[t] = "idle"
  BY DEF SendInProgress

\* Between its push and its store a sender holds lock_, and no_msg_ is still
\* right about the queue without the new message.
LEMMA SendInProgressNext == Inv /\ [Next]_vars => SendInProgress'
<1> SUFFICES ASSUME Inv, [Next]_vars PROVE SendInProgress'
  OBVIOUS
<1> USE SendersAssumption, BoundsAssumption DEF Inv, TypeOK
<1>0. /\ accepted \in Nat /\ settled \in Nat
      /\ Len(message_queue_) \in Nat
      /\ message_queue_ = << >> <=> Len(message_queue_) = 0
  BY EmptyFacts DEF QueueType, ObsType
<1>1. CASE UNCHANGED <<queueVars, sendVars, settled>>
  BY <1>1 DEF SendInProgress, queueVars, sendVars
<1>2. CASE Stop
  <2>1. settled' =< accepted
    BY <1>0, <1>2 DEF Stop
  <2>2. ASSUME NEW s \in Senders, at[s] = "flag" PROVE settled' < accepted
    BY <1>0, <1>2, <2>2 DEF Stop
  <2> QED BY <1>2, <2>1, <2>2 DEF Stop, SendInProgress, queueVars, sendVars
<1>3. ASSUME NEW s \in Senders, Push(s) PROVE SendInProgress'
  <2>1. at[s] = "idle" /\ lock_ = None /\ \A t \in Senders : at[t] = "idle"
    BY <1>3 DEF Push, SendInProgress
  <2>2. at' = [at EXCEPT ![s] = "flag"] /\ lock_' = s /\ settled' = settled
        /\ accepted' = accepted + 1 /\ no_msg_' = no_msg_
    BY <1>3 DEF Push, obsVars
  <2>3. message_queue_' # << >> /\ Len(message_queue_') = Len(message_queue_) + 1
    <3>1. message_queue_' = Append(message_queue_, accepted')
      BY <1>3 DEF Push
    <3>2. accepted' \in 1..MaxMsgs
      BY <1>3 DEF Push, QueueType
    <3>3. message_queue_ \in Seq(1..MaxMsgs)
      BY DEF QueueType
    <3> QED BY ONLY <3>1, <3>2, <3>3, AppendFacts
  <2>4. no_msg_ <=> Len(message_queue_) = 0
    BY <1>0, <2>1 DEF NoMsgAccurate
  <2>5. \A t \in Senders : at'[t] # "idle" <=> t = s
    BY <2>1, <2>2 DEF SendType
  <2>6. settled' < accepted' /\ settled' =< accepted'
    BY <1>0, <2>2 DEF SendInProgress
  <2>7. no_msg_' <=> Len(message_queue_') = 1
    BY <1>0, <2>2, <2>3, <2>4
  <2> QED BY <2>2, <2>3, <2>5, <2>6, <2>7 DEF SendInProgress
<1>4. ASSUME NEW s \in Senders, ClearNoMsg(s) \/ TestClient(s) \/ RequestWritable(s)
      PROVE SendInProgress'
  <2>1. at[s] # "idle" /\ settled' = settled /\ accepted' = accepted
    BY <1>4 DEF ClearNoMsg, TestClient, RequestWritable, obsVars
  <2>2. lock_ = s /\ \A t \in Senders : t # s => at[t] = "idle"
    BY <2>1, OneInside
  <2>3. \/ at' = [at EXCEPT ![s] = "test"] /\ lock_' = lock_
        \/ at' = [at EXCEPT ![s] = "request"] /\ lock_' = lock_
        \/ at' = [at EXCEPT ![s] = "idle"] /\ lock_' = None
    BY <1>4 DEF ClearNoMsg, TestClient, RequestWritable
  <2>4. \A t \in Senders : at'[t] # "flag" /\ (at'[t] # "idle" <=> lock_' = t)
    BY <2>2, <2>3 DEF SendType
  <2> QED BY <2>1, <2>4 DEF SendInProgress
<1>5. CASE ReceiveAndSend \/ DrainMessageQueue
  <2>1. lock_ = None /\ UNCHANGED <<lock_, sendVars, settled>>
    BY <1>5 DEF ReceiveAndSend, DrainMessageQueue, obsVars
  <2>2. \A t \in Senders : at[t] = "idle"
    BY <2>1 DEF SendInProgress
  <2>3. accepted' \in {accepted, accepted + 1}
    BY <1>5 DEF ReceiveAndSend, DrainMessageQueue
  <2>4. settled' =< accepted'
    BY <1>0, <2>1, <2>3 DEF SendInProgress
  <2> QED BY <2>1, <2>2, <2>4 DEF SendInProgress, sendVars
<1>6. CASE UNCHANGED <<queueVars, sendVars>> /\ (SessionEnds \/ DestroyContext \/ UNCHANGED obsVars)
  BY <1>1, <1>6 DEF SessionEnds, DestroyContext, obsVars
<1>7. \/ Stop \/ ReceiveAndSend \/ DrainMessageQueue
      \/ \E s \in Senders : SendStep(s)
      \/ UNCHANGED <<queueVars, sendVars>> /\ (SessionEnds \/ DestroyContext \/ UNCHANGED obsVars)
  BY QueueSteps, SendSteps, ObsSteps
<1> QED BY <1>2, <1>3, <1>4, <1>5, <1>6, <1>7 DEF SendStep

\* Before start() has created the thread, lwsTask() does not run.
LEMMA ThreadCreatedNext == ThreadCreated /\ [Next]_vars => ThreadCreated'
<1> SUFFICES ASSUME ThreadCreated, [Next]_vars PROVE ThreadCreated'
  OBVIOUS
<1>1. CASE Start \/ Stop \/ Join
  BY <1>1 DEF Start, Stop, Join, ThreadCreated, taskVars
<1>2. ASSUME NEW s \in Senders, SendStep(s) PROVE ThreadCreated'
  BY <1>2 DEF SendStep, Push, ClearNoMsg, TestClient, RequestWritable, ThreadCreated,
     appVars, taskVars
<1>3. CASE TaskStep \/ CallbackStep
  <2>1. pc # "off" /\ UNCHANGED lws_thread_
    BY <1>3 DEF TaskStep, CreateContextFails, CreateContext, FirstConnect, EvalWhile,
       Connected, GiveUp, CountDown, Reconnect, ServiceReturns, DestroyContext,
       CallbackStep, Established, ConnectionError, SessionEnds, ReceiveAndSend,
       Writeable, DrainMessageQueue, appVars
  <2> QED BY <2>1 DEF ThreadCreated
<1>4. CASE Finished \/ UNCHANGED vars
  BY <1>4 DEF Finished, vars, appVars, taskVars, ThreadCreated
<1> QED BY <1>1, <1>2, <1>3, <1>4 DEF Next

\* no_msg_ stays right about the queue: the store of sendMessage() and the
\* drain write it under lock_.
LEMMA NoMsgAccurateNext == Inv /\ [Next]_vars => NoMsgAccurate'
<1> SUFFICES ASSUME Inv, [Next]_vars PROVE NoMsgAccurate'
  OBVIOUS
<1> USE DEF Inv, TypeOK
<1>1. CASE UNCHANGED <<queueVars, sendVars>>
  BY <1>1 DEF NoMsgAccurate, queueVars, sendVars
<1>2. ASSUME NEW s \in Senders, Push(s) PROVE NoMsgAccurate'
  BY <1>2 DEF Push, NoMsgAccurate, SendType
<1>3. ASSUME NEW s \in Senders, ClearNoMsg(s) PROVE NoMsgAccurate'
  <2>1. message_queue_' # << >> /\ no_msg_' = FALSE
    BY <1>3 DEF ClearNoMsg, SendInProgress
  <2> QED BY <2>1 DEF NoMsgAccurate
<1>4. ASSUME NEW s \in Senders, TestClient(s) \/ RequestWritable(s) PROVE NoMsgAccurate'
  <2>1. at[s] \in {"test", "request"}
    BY <1>4 DEF TestClient, RequestWritable
  <2>2. \A t \in Senders : at[t] # "flag"
    BY <2>1, OneInside
  <2> QED BY <1>4, <2>2 DEF TestClient, RequestWritable, NoMsgAccurate
<1>5. CASE ReceiveAndSend
  <2>1. message_queue_' # << >>
    <3>1. message_queue_' = Append(message_queue_, accepted')
      BY <1>5 DEF ReceiveAndSend
    <3>2. accepted' \in 1..MaxMsgs
      BY <1>5, BoundsAssumption DEF ReceiveAndSend, QueueType
    <3>3. message_queue_ \in Seq(1..MaxMsgs)
      BY DEF QueueType
    <3> QED BY ONLY <3>1, <3>2, <3>3, AppendFacts
  <2> QED BY <1>5, <2>1 DEF ReceiveAndSend, NoMsgAccurate
<1>6. CASE DrainMessageQueue
  <2>1. CASE DrainOne
    BY <2>1 DEF DrainOne, NoMsgAfter, NoMsgAccurate
  <2>2. CASE DrainNothing
    BY <1>6, <2>2 DEF DrainMessageQueue, DrainNothing, NoMsgAccurate, sendVars
  <2> QED BY <1>6, <2>1, <2>2 DEF DrainMessageQueue
<1> QED BY <1>1, <1>2, <1>3, <1>4, <1>5, <1>6, QueueSteps, SendSteps DEF SendStep

-----------------------------------------------------------------------------
(***************************************************************************)
(* Order and conservation of the messages.                                 *)
(***************************************************************************)

\* Accepting the next message, on any thread.
LEMMA AcceptKeepsOrder ==
    ASSUME QueueType, InOrderOnce, accepted < MaxMsgs,
           accepted' = accepted + 1,
           message_queue_' = Append(message_queue_, accepted'),
           UNCHANGED <<wire, dropped>>
    PROVE  InOrderOnce'
<1> USE BoundsAssumption DEF QueueType
<1>1. accepted' \in 1..MaxMsgs
  OBVIOUS
<1>2. /\ Len(message_queue_') = Len(message_queue_) + 1
      /\ \A i \in 1..Len(message_queue_) : message_queue_'[i] = message_queue_[i]
      /\ message_queue_'[Len(message_queue_) + 1] = accepted + 1
  BY <1>1, AppendProperties
<1>3. Len(message_queue_) \in Nat
  BY EmptyFacts
<1>4. accepted' - Len(message_queue_') = accepted - Len(message_queue_)
  BY <1>2, <1>3
<1>5. \A i \in 1..Len(message_queue_') :
          message_queue_'[i] = accepted - Len(message_queue_) + i
  BY <1>2, <1>3 DEF InOrderOnce
<1> QED BY <1>4, <1>5 DEF InOrderOnce

\* Popping the head takes the smallest queued number, which is larger than
\* everything written or dropped before.
LEMMA DrainKeepsOrder ==
    ASSUME QueueType, InOrderOnce, DrainOne, UNCHANGED accepted
    PROVE  InOrderOnce'
<1> USE BoundsAssumption DEF QueueType
<1> DEFINE popped == accepted - Len(message_queue_)
           h == Head(message_queue_)
           Written(w) == {w[i] : i \in 1..Len(w)}
<1>1. message_queue_ # << >>
  BY DEF DrainOne
<1>2. /\ h = message_queue_[1]
      /\ h \in 1..MaxMsgs
      /\ Len(message_queue_) \in Nat \ {0}
      /\ message_queue_' = Tail(message_queue_)
      /\ Len(message_queue_') = Len(message_queue_) - 1
      /\ \A i \in 1..Len(message_queue_') : message_queue_'[i] = message_queue_[i + 1]
  BY <1>1, TailFacts DEF DrainOne, Pop
<1>3. popped \in Int /\ h = popped + 1 /\ (accepted - Len(message_queue_'))  = popped + 1
  BY <1>2 DEF InOrderOnce
<1>4. \A i \in 1..Len(message_queue_') : message_queue_'[i] = popped + 1 + i
  BY <1>2, <1>3 DEF InOrderOnce
<1>5. /\ \A i, j \in 1..Len(wire) : i < j => wire[i] < wire[j]
      /\ Written(wire) \cap dropped = {}
      /\ Written(wire) \cup dropped = 1..popped
  BY DEF InOrderOnce
<1>6. h \notin Written(wire) /\ h \notin dropped
  <2>1. h \notin 1..popped
    BY <1>3
  <2> QED BY <1>5, <2>1
<1>7. (1..popped) \cup {h} = 1..(popped + 1)
  <2>1. popped + 1 >= 1
    BY <1>2, <1>3
  <2> QED BY <1>3, <2>1
<1>8. CASE wire' = wire /\ dropped' = dropped \cup {h}
  <2>1. Written(wire') \cap dropped' = {}
    BY <1>5, <1>6, <1>8
  <2>2. Written(wire') \cup dropped' = 1..(popped + 1)
    BY <1>5, <1>7, <1>8
  <2> QED BY <1>3, <1>4, <1>5, <1>8, <2>1, <2>2 DEF InOrderOnce
<1>9. CASE wire' = Append(wire, h) /\ dropped' = dropped
  <2>1. /\ Len(wire') = Len(wire) + 1
        /\ \A i \in 1..Len(wire) : wire'[i] = wire[i]
        /\ wire'[Len(wire) + 1] = h
        /\ Len(wire) \in Nat
    BY <1>2, <1>9, AppendProperties, EmptyFacts
  <2>2. Written(wire') = Written(wire) \cup {h}
    <3>1. 1..Len(wire') = (1..Len(wire)) \cup {Len(wire) + 1}
      BY <2>1
    <3> QED BY <2>1, <3>1
  <2>3. Written(wire') \cap dropped' = {}
    BY <1>5, <1>6, <1>9, <2>2
  <2>4. Written(wire') \cup dropped' = 1..(popped + 1)
    BY <1>5, <1>7, <1>9, <2>2
  <2>5. \A i \in 1..Len(wire) : wire[i] \in 1..popped
    BY <1>5
  <2>6. \A i, j \in 1..Len(wire') : i < j => wire'[i] < wire'[j]
    <3> SUFFICES ASSUME NEW i \in 1..Len(wire'), NEW j \in 1..Len(wire'), i < j
                 PROVE  wire'[i] < wire'[j]
      OBVIOUS
    <3>1. i \in 1..Len(wire) /\ wire'[i] = wire[i] /\ wire[i] \in 1..popped
      BY <2>1, <2>5
    <3>2. CASE j = Len(wire) + 1
      BY <1>3, <2>1, <3>1, <3>2
    <3>3. CASE j # Len(wire) + 1
      <4>1. j \in 1..Len(wire)
        <5>1. j \in 1..(Len(wire) + 1)
          BY <2>1
        <5> HIDE DEF QueueType
        <5> QED BY <2>1, <3>3, <5>1
      <4>2. wire'[j] = wire[j]
        BY <2>1, <4>1
      <4> QED BY <1>5, <3>1, <4>1, <4>2
    <3> QED BY <3>2, <3>3
  <2> QED BY <1>3, <1>4, <2>3, <2>4, <2>6 DEF InOrderOnce
<1> QED BY <1>8, <1>9 DEF DrainOne

\* A message is queued, written or dropped, once and in order, after every step.
LEMMA InOrderOnceNext == QueueType /\ InOrderOnce /\ [Next]_vars => InOrderOnce'
<1> SUFFICES ASSUME QueueType, InOrderOnce, [Next]_vars PROVE InOrderOnce'
  OBVIOUS
<1>1. CASE UNCHANGED <<message_queue_, accepted, wire, dropped>>
  BY <1>1 DEF InOrderOnce
<1>2. ASSUME NEW s \in Senders, SendStep(s) PROVE InOrderOnce'
  <2>1. CASE Push(s)
    BY <2>1, AcceptKeepsOrder DEF Push
  <2>2. CASE ClearNoMsg(s) \/ TestClient(s) \/ RequestWritable(s)
    BY <1>1, <2>2 DEF ClearNoMsg, TestClient, RequestWritable
  <2> QED BY <1>2, <2>1, <2>2 DEF SendStep
<1>3. CASE ReceiveAndSend
  BY <1>3, AcceptKeepsOrder DEF ReceiveAndSend
<1>4. CASE DrainMessageQueue
  BY <1>1, <1>4, DrainKeepsOrder DEF DrainMessageQueue, DrainNothing
<1>5. CASE UNCHANGED queueVars
  BY <1>1, <1>5 DEF queueVars
<1> QED BY <1>2, <1>3, <1>4, <1>5, QueueSteps

-----------------------------------------------------------------------------
(***************************************************************************)
(* The theorems.                                                           *)
(***************************************************************************)

\* The conjunction Inv is an invariant of the client: types, the state of a
\* sendMessage() under way, the truth of no_msg_, order and conservation of
\* the messages, and the connection pointer.
THEOREM Invariance == Spec => []Inv
<1>1. Inv /\ [Next]_vars => Inv'
  BY AppTypeNext, QueueTypeNext, SendTypeNext, WsiNext, TaskTypeNext, ObsTypeNext,
     SendInProgressNext, ThreadCreatedNext, NoMsgAccurateNext, InOrderOnceNext DEF Inv, TypeOK
<1> QED BY InitInv, <1>1, PTL DEF Spec

\* Every variable of the client keeps its type.
THEOREM TypeCorrect == Spec => []TypeOK
  BY Invariance, PTL DEF Inv

\* no_msg_ is right about message_queue_ outside sendMessage()'s window.
THEOREM NoMsgIsAccurate == Spec => []NoMsgAccurate
  BY Invariance, PTL DEF Inv

\* Messages are written in order and at most once, and none vanishes: each
\* accepted message is queued, written, or dropped by a failed lws_write().
THEOREM MessagesInOrderOnce == Spec => []InOrderOnce
  BY Invariance, PTL DEF Inv

\* lws_client_ is null exactly when lws has no connection of this client, so
\* that lwsTask() reconnects when and only when there is none.
THEOREM PointerFollowsConnection == Spec => []PointerIsLive
  BY Invariance, PTL DEF Inv

\* The lws thread leaves its loop with a message queued that sendMessage()
\* had announced before stop() only if it has no connection.
THEOREM ThreadExitDrains == Spec => ExitDrains
<1> DEFINE A == pc # "destroy" /\ pc' = "destroy" =>
                    \/ lws_client_ = 0
                    \/ \A i \in 1..Len(message_queue_) : message_queue_[i] > settled
<1>1. Inv /\ [Next]_vars => [A]_vars
  <2> SUFFICES ASSUME Inv, Next, pc # "destroy", pc' = "destroy", lws_client_ # 0
               PROVE  \A i \in 1..Len(message_queue_) : message_queue_[i] > settled
    OBVIOUS
  <2> USE DEF Inv, TypeOK
  <2>1. EvalWhile \/ GiveUp
    <3>1. ~(Start \/ Stop \/ Join)
      BY DEF Start, Stop, Join, taskVars
    <3>2. \A s \in Senders : ~SendStep(s)
      BY DEF SendStep, Push, ClearNoMsg, TestClient, RequestWritable, taskVars
    <3>3. ~CallbackStep
      BY DEF CallbackStep, Established, ConnectionError, SessionEnds, ReceiveAndSend,
         Writeable, DrainMessageQueue, taskVars
    <3>4. ~Finished
      BY DEF Finished, vars, taskVars
    <3>5. TaskStep
      BY <3>1, <3>2, <3>3, <3>4 DEF Next
    <3> QED BY <3>5 DEF TaskStep, CreateContextFails, CreateContext, FirstConnect,
          Connected, CountDown, Reconnect, ServiceReturns, DestroyContext
  <2>2. no_msg_
    BY <2>1 DEF EvalWhile, GiveUp, LoopOn
  <2>3. CASE \A s \in Senders : at[s] # "flag"
    <3>1. message_queue_ = << >>
      BY <2>2, <2>3 DEF NoMsgAccurate
    <3>2. Len(message_queue_) = 0
      BY <3>1
    <3> QED BY <3>2
  <2>4. ASSUME NEW s \in Senders, at[s] = "flag"
        PROVE  \A i \in 1..Len(message_queue_) : message_queue_[i] > settled
    <3>1. Len(message_queue_) = 1 /\ settled < accepted
      BY <2>2, <2>4 DEF SendInProgress
    <3>2. \A i \in 1..Len(message_queue_) : message_queue_[i] = accepted
      BY <3>1 DEF InOrderOnce, QueueType
    <3> QED BY <3>1, <3>2 DEF QueueType, ObsType
  <2> QED BY <2>3, <2>4
<1> QED BY Invariance, <1>1, PTL DEF Spec, ExitDrains

\* The threads, the lock, the flags and the reconnecting connection together
\* implement a first-in first-out, at-most-once channel that transmits
\* nothing once the thread has left its loop.
THEOREM Refinement == Spec => ImplementsChannel
<1>1. Init => Channel!Init
  BY DEF Init, Channel!Init
<1>2. ThreadCreated /\ [Next]_vars => [Channel!Next]_Channel!chan
  <2> SUFFICES ASSUME ThreadCreated, [Next]_vars PROVE [Channel!Next]_Channel!chan
    OBVIOUS
  <2> USE DEF Channel!Next, Channel!chan
  <2>1. CASE UNCHANGED <<pc, accepted, message_queue_, wire, dropped>>
    BY <2>1
  <2>2. CASE Start \/ Stop \/ Join
    <3>1. CASE Start
      <4>1. pc \notin {"destroy", "exit"} <=> pc' \notin {"destroy", "exit"}
        BY <3>1 DEF Start, ThreadCreated
      <4> QED BY <3>1, <4>1 DEF Start, queueVars
    <3>2. CASE Stop \/ Join
      BY <2>1, <3>2 DEF Stop, Join, queueVars, taskVars
    <3> QED BY <2>2, <3>1, <3>2
  <2>3. ASSUME NEW s \in Senders, SendStep(s) PROVE [Channel!Next]_Channel!chan
    <3>1. CASE Push(s)
      BY <3>1 DEF Push, taskVars, Channel!Accept
    <3>2. CASE ClearNoMsg(s) \/ TestClient(s) \/ RequestWritable(s)
      BY <2>1, <3>2 DEF ClearNoMsg, TestClient, RequestWritable, taskVars
    <3> QED BY <2>3, <3>1, <3>2 DEF SendStep
  <2>4. CASE TaskStep
    BY <2>4 DEF TaskStep, CreateContextFails, CreateContext, FirstConnect, EvalWhile,
       Connected, GiveUp, CountDown, Reconnect, ServiceReturns, DestroyContext,
       queueVars, Channel!Close
  <2>5. CASE CallbackStep
    <3>1. CASE ReceiveAndSend
      BY <3>1 DEF ReceiveAndSend, taskVars, Channel!Accept
    <3>2. CASE DrainMessageQueue
      BY <3>2 DEF DrainMessageQueue, DrainOne, DrainNothing, Pop,
         Channel!Transmit, Channel!Lose
    <3>3. CASE Established \/ ConnectionError \/ SessionEnds \/ Writeable
      BY <3>3 DEF Established, ConnectionError, SessionEnds, Writeable, queueVars, taskVars
    <3> QED BY <2>5, <3>1, <3>2, <3>3 DEF CallbackStep
  <2>6. CASE Finished \/ UNCHANGED vars
    BY <2>1, <2>6 DEF Finished, vars, queueVars, taskVars
  <2> QED BY <2>2, <2>3, <2>4, <2>5, <2>6 DEF Next
<1>3. Inv => ThreadCreated
  BY DEF Inv
<1> QED BY Invariance, <1>1, <1>2, <1>3, PTL DEF Spec, ImplementsChannel, Channel!Spec

=============================================================================
