------------------------------ MODULE WsClient ------------------------------
(***************************************************************************)
(* The websocket client of src/WsClient.cpp: a pending queue filled by     *)
(* sendMessage() from several threads, drained by one lws service thread   *)
(* (lwsTask), with automatic reconnection and a stop() that joins the      *)
(* thread.                                                                 *)
(*                                                                         *)
(* Three kinds of actors interleave:                                       *)
(*   - the threads in Senders, each inside sendMessage() or not.  One of   *)
(*     them, Owner, also constructs, starts and stops the client;          *)
(*   - the lws thread, at the position pc;                                 *)
(*   - libwebsockets and the network (external): they choose when a        *)
(*     connection is established, fails or ends, and when a callback runs. *)
(*                                                                         *)
(* A message is the number of its push: the n-th message pushed is n.      *)
(***************************************************************************)
EXTENDS Integers, Sequences, FiniteSets

CONSTANTS
    Senders,      \* the application threads that call sendMessage()
    Owner,        \* the one of them that calls start() and stop()
    None,         \* not a thread: lock_ is free
    Countdown,    \* loop rounds without a connection before a reconnect (5)
    MaxMsgs,      \* bound: messages pushed in one behaviour
    MaxConn       \* bound: connections lws hands out in one behaviour

ASSUME SendersAssumption == Owner \in Senders /\ None \notin Senders
ASSUME CountdownAssumption == Countdown \in Nat \ {0}
ASSUME BoundsAssumption == MaxMsgs \in Nat /\ MaxConn \in Nat

VARIABLES
    stop_,           \* thread exit flag, set once by stop()
    no_msg_,         \* the atomic "queue is empty" flag
    message_queue_,  \* pending messages
    lock_,           \* holder of the recursive mutex between two steps
    lws_client_,     \* the connection in use, 0 for nullptr
    lws_thread_,     \* "none", "started" or "joined"
    pc,              \* where the lws thread is
    countdown,       \* lwsTask's local of that name
    at,              \* at[s]: where thread s is inside sendMessage()
    seen,            \* seen[s]: lws_client_ as s read it in its null test
    wsi,             \* external: state of connection number conns
    conns,           \* external: connections handed out so far
    requested,       \* external: a WRITEABLE callback is owed to wsi
    accepted,        \* history: messages pushed so far
    wire,            \* history: messages lws_write() took, in order
    dropped,         \* history: messages popped although lws_write() failed
    settled,         \* history: messages whose no_msg_ store preceded stop()
    ended,           \* history: established sessions that have ended
    reported         \* history: calls of callback_->onDisconnected()

appVars  == <<stop_, lws_thread_>>
queueVars == <<no_msg_, message_queue_, lock_, accepted, wire, dropped>>
sendVars == <<at, seen>>
wsiVars  == <<lws_client_, wsi, conns, requested>>
taskVars == <<pc, countdown>>
obsVars  == <<settled, ended, reported>>
vars == <<appVars, queueVars, sendVars, wsiVars, taskVars, obsVars>>

Positions == {"off", "create", "connect", "while", "body", "service",
              "drain", "destroy", "exit"}

AppType   == stop_ \in BOOLEAN /\ lws_thread_ \in {"none", "started", "joined"}
QueueType == /\ no_msg_ \in BOOLEAN
             /\ message_queue_ \in Seq(1..MaxMsgs)
             /\ lock_ \in Senders \cup {None}
             /\ accepted \in 0..MaxMsgs
             /\ wire \in Seq(1..MaxMsgs)
             /\ dropped \in SUBSET (1..MaxMsgs)
SendType  == /\ at \in [Senders -> {"idle", "flag", "test", "request"}]
             /\ seen \in [Senders -> 0..MaxConn]
WsiType   == /\ lws_client_ \in 0..MaxConn
             /\ wsi \in {"none", "connecting", "established"}
             /\ conns \in 0..MaxConn
             /\ requested \in BOOLEAN
TaskType  == pc \in Positions /\ countdown \in 1..Countdown
ObsType   == settled \in 0..MaxMsgs /\ ended \in Nat /\ reported \in Nat

\* Every variable has its type; countdown never leaves 1..Countdown.
TypeOK == AppType /\ QueueType /\ SendType /\ WsiType /\ TaskType /\ ObsType

\* The constructor, before start().
Init ==
    /\ stop_ = FALSE
    /\ no_msg_ = TRUE
    /\ message_queue_ = << >>
    /\ lock_ = None
    /\ lws_client_ = 0
    /\ lws_thread_ = "none"
    /\ pc = "off"
    /\ countdown = Countdown
    /\ at = [s \in Senders |-> "idle"]
    /\ seen = [s \in Senders |-> 0]
    /\ wsi = "none"
    /\ conns = 0
    /\ requested = FALSE
    /\ accepted = 0
    /\ wire = << >>
    /\ dropped = {}
    /\ settled = 0
    /\ ended = 0
    /\ reported = 0

-----------------------------------------------------------------------------
(* The owner: start() and the two halves of stop().  A second start() only  *)
(* traces an error.                                                         *)

Start ==
    /\ at[Owner] = "idle"
    /\ lws_thread_ = "none"
    /\ ~stop_
    /\ lws_thread_' = "started"
    /\ pc' = "create"
    /\ UNCHANGED <<stop_, queueVars, sendVars, wsiVars, countdown, obsVars>>

\* stop() up to the join; with no thread to join it is finished at once.
Stop ==
    /\ at[Owner] = "idle"
    /\ ~stop_
    /\ stop_' = TRUE
    /\ lws_thread_' = IF lws_thread_ = "none" THEN "joined" ELSE lws_thread_
    /\ settled' = IF \E s \in Senders : at[s] = "flag" THEN accepted - 1 ELSE accepted
    /\ UNCHANGED <<queueVars, sendVars, wsiVars, taskVars, ended, reported>>

\* join() returns and the thread object is deleted.
Join ==
    /\ stop_
    /\ lws_thread_ = "started"
    /\ pc = "exit"
    /\ lws_thread_' = "joined"
    /\ UNCHANGED <<stop_, queueVars, sendVars, wsiVars, taskVars, obsVars>>

-----------------------------------------------------------------------------
(* sendMessage(), in the steps the lws thread can observe.  lock_ is held   *)
(* from the first to the last of them, but the lws thread reads no_msg_ and *)
(* writes lws_client_ without it.                                           *)

\* The lock is taken and the message pushed.  The owner is inside stop()
\* once stop_ is set, the client is destroyed once the thread is joined.
Push(s) ==
    /\ at[s] = "idle"
    /\ lock_ = None
    /\ lws_thread_ # "joined"
    /\ s = Owner => ~stop_
    /\ accepted < MaxMsgs
    /\ lock_' = s
    /\ accepted' = accepted + 1
    /\ message_queue_' = Append(message_queue_, accepted')
    /\ at' = [at EXCEPT ![s] = "flag"]
    /\ UNCHANGED <<appVars, no_msg_, wire, dropped, seen, wsiVars, taskVars, obsVars>>

ClearNoMsg(s) ==
    /\ at[s] = "flag"
    /\ no_msg_' = FALSE
    /\ at' = [at EXCEPT ![s] = "test"]
    /\ UNCHANGED <<appVars, message_queue_, lock_, accepted, wire, dropped, seen,
                   wsiVars, taskVars, obsVars>>

\* if (lws_client_): a null pointer ends the call without a request.
TestClient(s) ==
    /\ at[s] = "test"
    /\ seen' = [seen EXCEPT ![s] = lws_client_]
    /\ IF lws_client_ # 0
         THEN /\ at' = [at EXCEPT ![s] = "request"]
              /\ lock_' = lock_
         ELSE /\ at' = [at EXCEPT ![s] = "idle"]
              /\ lock_' = None
    /\ UNCHANGED <<appVars, no_msg_, message_queue_, accepted, wire, dropped,
                   wsiVars, taskVars, obsVars>>

\* The connection a request on pointer c reaches.  The code reads
\* lws_client_ a second time for the argument (or not, as the compiler
\* likes), and by then the lws thread may have destroyed the connection: the
\* request then reaches nothing, or a new connection at the same address.
Reached(c) ==
    IF c = lws_client_ THEN {c} ELSE {0, lws_client_}

RequestWritable(s) ==
    /\ at[s] = "request"
    /\ \E c \in Reached(seen[s]) : requested' = (requested \/ c # 0)
    /\ at' = [at EXCEPT ![s] = "idle"]
    /\ lock_' = None
    /\ UNCHANGED <<appVars, no_msg_, message_queue_, accepted, wire, dropped, seen,
                   lws_client_, wsi, conns, taskVars, obsVars>>

-----------------------------------------------------------------------------
(* lwsTask().                                                               *)

\* lws_create_context() fails: the thread returns.
CreateContextFails ==
    /\ pc = "create"
    /\ pc' = "exit"
    /\ UNCHANGED <<appVars, queueVars, sendVars, wsiVars, countdown, obsVars>>

CreateContext ==
    /\ pc = "create"
    /\ pc' = "connect"
    /\ UNCHANGED <<appVars, queueVars, sendVars, wsiVars, countdown, obsVars>>

\* External: lws_client_connect_via_info() starts a connection, or fails
\* before it returns.
Connects ==
    /\ conns < MaxConn
    /\ conns' = conns + 1
    /\ wsi' = "connecting"
    /\ lws_client_' = conns'
    /\ requested' = FALSE

ConnectFails == UNCHANGED wsiVars

\* The first connection, before the loop.
FirstConnect ==
    /\ pc = "connect"
    /\ Connects \/ ConnectFails
    /\ countdown' = Countdown
    /\ pc' = "while"
    /\ UNCHANGED <<appVars, queueVars, sendVars, obsVars>>

\* while (!stop_ || !no_msg_).  stop_ is never reset, so reading the two
\* flags in one step is reading them one after the other.
LoopOnUntilStopped == ~stop_             \* slip: the queue is not asked about
LoopOn == ~stop_ \/ ~no_msg_

EvalWhile ==
    /\ pc = "while"
    /\ pc' = IF LoopOn THEN "body" ELSE "destroy"
    /\ UNCHANGED <<appVars, queueVars, sendVars, wsiVars, countdown, obsVars>>

Connected ==
    /\ pc = "body"
    /\ lws_client_ # 0
    /\ pc' = "service"
    /\ UNCHANGED <<appVars, queueVars, sendVars, wsiVars, countdown, obsVars>>

\* Without a connection: sleep, count down, and give up if stopped.
GiveUp ==
    /\ pc = "body"
    /\ lws_client_ = 0
    /\ stop_
    /\ pc' = "destroy"
    /\ UNCHANGED <<appVars, queueVars, sendVars, wsiVars, countdown, obsVars>>

\* if (countdown == 0), after the decrement: otherwise continue.
KeepsWaitingOnceMore == countdown > 0    \* slip: tested before the decrement
KeepsWaiting == countdown > 1

CountDown ==
    /\ pc = "body"
    /\ lws_client_ = 0
    /\ ~stop_
    /\ KeepsWaiting
    /\ countdown' = countdown - 1
    /\ pc' = "while"
    /\ UNCHANGED <<appVars, queueVars, sendVars, wsiVars, obsVars>>

Reconnect ==
    /\ pc = "body"
    /\ lws_client_ = 0
    /\ ~stop_
    /\ ~KeepsWaiting
    /\ Connects \/ ConnectFails
    /\ countdown' = Countdown
    /\ pc' = "service"
    /\ UNCHANGED <<appVars, queueVars, sendVars, obsVars>>

\* lws_service() returns, with or without having run callbacks.
ServiceReturns ==
    /\ pc = "service"
    /\ pc' = "while"
    /\ UNCHANGED <<appVars, queueVars, sendVars, wsiVars, countdown, obsVars>>

\* lws_context_destroy() closes what is open.
DestroyContext ==
    /\ pc = "destroy"
    /\ wsi' = "none"
    /\ lws_client_' = 0
    /\ requested' = FALSE
    /\ ended' = ended + (IF wsi = "established" THEN 1 ELSE 0)
    /\ pc' = "exit"
    /\ UNCHANGED <<appVars, queueVars, sendVars, conns, countdown, settled, reported>>

-----------------------------------------------------------------------------
(* lwsCallback(), run by lws_service() on the lws thread.                   *)

\* CLIENT_ESTABLISHED; onConnected() only traces.
Established ==
    /\ pc = "service"
    /\ wsi = "connecting"
    /\ wsi' = "established"
    /\ UNCHANGED <<appVars, queueVars, sendVars, lws_client_, conns, requested,
                   taskVars, obsVars>>

\* The callback reasons of lws-callbacks.h that lwsCallback() answers with
\* onDisconnected().
DisconnectReasons == {"LWS_CALLBACK_CLOSED"}

\* The connection is destroyed: WSI_DESTROY clears lws_client_.
DestroyedKeepsPointer ==                 \* slip: WSI_DESTROY is not handled
    /\ wsi' = "none"
    /\ requested' = FALSE
    /\ UNCHANGED lws_client_
Destroyed ==
    /\ wsi' = "none"
    /\ lws_client_' = 0
    /\ requested' = FALSE

\* CLIENT_CONNECTION_ERROR (onConnectionError() only traces), WSI_DESTROY.
ConnectionError ==
    /\ pc = "service"
    /\ wsi = "connecting"
    /\ Destroyed
    /\ UNCHANGED <<appVars, queueVars, sendVars, conns, taskVars, obsVars>>

\* The session ends: for a client lws calls back with CLIENT_CLOSED, then
\* with WSI_DESTROY.
SessionEnds ==
    /\ pc = "service"
    /\ wsi = "established"
    /\ Destroyed
    /\ ended' = ended + 1
    /\ reported' = reported + (IF "LWS_CALLBACK_CLIENT_CLOSED" \in DisconnectReasons
                                 THEN 1 ELSE 0)
    /\ UNCHANGED <<appVars, queueVars, sendVars, conns, taskVars, settled>>

\* CLIENT_RECEIVE: the handler of the message sends one itself, on the lws
\* thread.  (Reassembly of the message is module WsReceive.)
ReceiveAndSend ==
    /\ pc = "service"
    /\ wsi = "established"
    /\ lock_ = None
    /\ accepted < MaxMsgs
    /\ accepted' = accepted + 1
    /\ message_queue_' = Append(message_queue_, accepted')
    /\ no_msg_' = FALSE
    /\ requested' = (requested \/ lws_client_ # 0)
    /\ UNCHANGED <<appVars, lock_, wire, dropped, sendVars, lws_client_, wsi, conns,
                   taskVars, obsVars>>

\* CLIENT_WRITEABLE: lws forgets the request and calls drainMessageQueue(),
\* which waits for lock_.  lws owes a callback after a request; it may also
\* make one unasked.
Writeable ==
    /\ pc = "service"
    /\ wsi = "established"
    /\ requested' = FALSE
    /\ pc' = "drain"
    /\ UNCHANGED <<appVars, queueVars, sendVars, lws_client_, wsi, conns, countdown,
                   obsVars>>

\* drainMessageQueue() under lock_: one message is popped, written or not,
\* and no_msg_ recomputed; no further callback is requested.  An empty queue
\* may send a ping.
PopNothing(q) == q                       \* slip: pop() is missing
Pop(q) == Tail(q)

NoMsgAfterAnyPop(q) == TRUE              \* slip: taken for the last message
NoMsgNever(q) == FALSE                   \* slip: the flag is not restored
NoMsgAfter(q) == q = << >>

DrainOne ==
    /\ message_queue_ # << >>
    /\ \/ /\ wire' = Append(wire, Head(message_queue_))
          /\ dropped' = dropped
       \/ /\ dropped' = dropped \cup {Head(message_queue_)}
          /\ wire' = wire
    /\ message_queue_' = Pop(message_queue_)
    /\ no_msg_' = NoMsgAfter(message_queue_')

DrainNothing ==
    /\ message_queue_ = << >>
    /\ UNCHANGED <<no_msg_, message_queue_, wire, dropped>>

DrainMessageQueue ==
    /\ pc = "drain"
    /\ lock_ = None
    /\ DrainOne \/ DrainNothing
    /\ pc' = "service"
    /\ UNCHANGED <<appVars, lock_, accepted, sendVars, wsiVars, countdown, obsVars>>

-----------------------------------------------------------------------------

SendStep(s) == Push(s) \/ ClearNoMsg(s) \/ TestClient(s) \/ RequestWritable(s)

TaskStep ==
    \/ CreateContextFails \/ CreateContext \/ FirstConnect
    \/ EvalWhile \/ Connected \/ GiveUp \/ CountDown \/ Reconnect
    \/ ServiceReturns \/ DestroyContext

CallbackStep ==
    \/ Established \/ ConnectionError \/ SessionEnds
    \/ ReceiveAndSend \/ Writeable \/ DrainMessageQueue

\* Everything is over: the client is stopped and nobody is in sendMessage().
Finished ==
    /\ lws_thread_ = "joined"
    /\ \A s \in Senders : at[s] = "idle"
    /\ UNCHANGED vars

Next ==
    \/ Start \/ Stop \/ Join
    \/ \E s \in Senders : SendStep(s)
    \/ TaskStep
    \/ CallbackStep
    \/ Finished

Spec == Init /\ [][Next]_vars

(***************************************************************************)
(* Fairness.  The threads are scheduled (a started sendMessage() finishes, *)
(* the lws thread takes its next step).  lws_service() returns (it wakes   *)
(* for its own ping timer at the latest) and a connection attempt ends     *)
(* within lws' timeout.  The WRITEABLE callback comes when it was          *)
(* requested, while the connection lasts, but never has to come unasked:   *)
(* this is what lws-callbacks.h documents.  Nothing is assumed about the   *)
(* network: connections need not succeed, sessions need not end.           *)
(***************************************************************************)
Fairness ==
    /\ WF_vars(Join)
    /\ \A s \in Senders : WF_vars(ClearNoMsg(s) \/ TestClient(s) \/ RequestWritable(s))
    /\ WF_vars(TaskStep)
    /\ SF_vars(ServiceReturns)
    /\ WF_vars(DrainMessageQueue)
    /\ SF_vars(Established \/ ConnectionError)
    /\ SF_vars(requested /\ Writeable)

FairSpec == Spec /\ Fairness

-----------------------------------------------------------------------------
(* Safety.                                                                  *)

\* The lock-free flag that ends the thread's loop (no_msg_) tells the truth
\* about message_queue_ except in the one window of sendMessage() between
\* the push and the store, whatever the drain does in between.
NoMsgAccurate ==
    (\A s \in Senders : at[s] # "flag") => (no_msg_ <=> message_queue_ = << >>)

\* Across reconnects, failed writes and concurrent senders, every message
\* sendMessage() accepted is in exactly one place: still queued, written
\* once, or dropped by a failed write; and messages are written in the order
\* in which they were accepted.
InOrderOnce ==
    LET popped == accepted - Len(message_queue_)
        written == {wire[i] : i \in 1..Len(wire)}
    IN  /\ \A i \in 1..Len(message_queue_) : message_queue_[i] = popped + i
        /\ \A i, j \in 1..Len(wire) : i < j => wire[i] < wire[j]
        /\ written \cap dropped = {}
        /\ written \cup dropped = 1..popped

\* lws_client_ names the connection lws knows about: it is null exactly when
\* there is none, so that the loop reconnects when and only when it must.
PointerIsLive == lws_client_ = IF wsi = "none" THEN 0 ELSE conns

\* The thread leaves its loop while a message whose sendMessage() had
\* stored no_msg_ before stop() is still queued only when it has no
\* connection: with one, such a message keeps the loop going.
ExitDrains ==
    [][pc # "destroy" /\ pc' = "destroy" =>
          \/ lws_client_ = 0
          \/ \A i \in 1..Len(message_queue_) : message_queue_[i] > settled]_vars

\* How a sendMessage() under way shows in the shared state: lock_ is held by
\* the thread that is inside, a pushed message is still queued, and until
\* no_msg_ is stored it is right about the queue as it was before the push.
SendInProgress ==
    /\ \A s \in Senders : at[s] # "idle" <=> lock_ = s
    /\ \A s \in Senders : at[s] = "flag" =>
          /\ message_queue_ # << >>
          /\ settled < accepted
          /\ no_msg_ <=> Len(message_queue_) = 1
    /\ settled =< accepted

\* The lws thread runs only once start() has created it.
ThreadCreated == lws_thread_ = "none" => pc = "off"

\* The conjunction of the above is inductive (module WsClientProofs).
Inv ==
    /\ TypeOK
    /\ SendInProgress
    /\ ThreadCreated
    /\ NoMsgAccurate
    /\ InOrderOnce
    /\ PointerIsLive

-----------------------------------------------------------------------------
(* Liveness, of FairSpec.                                                   *)

\* A connected client that holds messages nobody will ask to write: each
\* WRITEABLE callback writes one message and requests no other.
Stranded ==
    /\ wsi = "established"
    /\ message_queue_ # << >>
    /\ ~requested

\* stop() returns, unless the thread is caught for ever with a stranded
\* message: there is no other way for the join to hang.
StopReturnsOrStranded ==
    (stop_ ~> lws_thread_ = "joined") \/ <>[]Stranded

\* Once a WRITEABLE callback is owed to the connection, the message at the
\* head of the queue leaves it, unless the connection is lost first.
RequestedHeadLeaves ==
    \A m \in 1..MaxMsgs :
        (requested /\ message_queue_ # << >> /\ message_queue_[1] = m)
            ~> (wsi = "none" \/ \A i \in 1..Len(message_queue_) : message_queue_[i] # m)

\* Without a connection the thread keeps trying to get one until it is
\* stopped: a new attempt is made, which succeeds or leaves the thread serving
\* no connection.
RetriesUntilStopped ==
    (pc = "while" /\ wsi = "none")
        ~> (stop_ \/ wsi # "none" \/ (pc = "service" /\ lws_client_ = 0))

\* The lws thread does what it owes: the requested message leaves the queue and
\* a lost connection is retried.
WritesAndRetries == RequestedHeadLeaves /\ RetriesUntilStopped

-----------------------------------------------------------------------------
(* The channel the client implements.                                       *)

Channel == INSTANCE MessageChannel WITH
    open <- pc \notin {"destroy", "exit"},
    count <- accepted,
    pending <- message_queue_,
    sent <- wire,
    lost <- dropped

\* The client is a MessageChannel that closes when the thread leaves its
\* loop: first-in first-out, at most once, nothing written after that.
ImplementsChannel == Channel!Spec

-----------------------------------------------------------------------------
(* What comments say of the client, which the code does not keep.           *)

\* WsClient.h:54, "noMsg is used to ensure that messages leaving the room
\* are sent out before the thread exits".
MessagesSentBeforeExit ==
    (pc = "exit" /\ conns > 0) => \A i \in 1..Len(message_queue_) : message_queue_[i] > settled

\* WsClient.cpp:48, "Join operation to ensure that the thread exits".
ThreadExits == stop_ ~> lws_thread_ = "joined"

\* The client reports the end of a session through onDisconnected(), as
\* lws-callbacks.h:520 tells it of one ("when a client websocket session
\* ends").
DisconnectReported == pc = "while" => reported = ended
=============================================================================
