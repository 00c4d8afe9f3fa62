----------------------------- MODULE DialogLocks -----------------------------
(***************************************************************************)
(* Who waits for whom in CRtcWinDemoDlg: lock_, the signaling thread (every *)
(* call of a peer connection from another thread runs there while the      *)
(* caller waits), the UI thread's message loop (a control is used from     *)
(* another thread by a message the caller waits for) and the join of the   *)
(* lws thread in OnDestroy(), which waits also for the websocket's queue.  *)
(*                                                                         *)
(* A client is its uid: the one in map_of_users_, and what the lws and the *)
(* signaling thread refer to.  A reference whose client is no longer in    *)
(* the map is orphaned; the last one to go destroys the client.            *)
(***************************************************************************)
EXTENDS Integers, FiniteSets

CONSTANTS Uids, None

Threads == {"ui", "lws", "sig"}
Holders == {"lws", "sig"}

VARIABLES
    ui,           \* position of the UI thread
    lws,          \* position of the lws thread, the uid of its message, and
                  \* whether it is to create an offer
    sig,          \* position of the signaling thread, and its candidate's uid
    lock_,        \* the thread that holds lock_
    joined_room_,
    asked,        \* external: a join was sent, the server may send messages
    closing,      \* the dialog is in OnDestroy()
    queue,        \* messages in the websocket's queue: none, one, or 2 for more
    owed,         \* a WRITEABLE callback was asked for and has not come
    link,         \* the websocket's connection: "down", "connecting" or "up"
    users,        \* map_of_users_
    holds,        \* the client a thread has a shared_ptr to
    orphaned,     \* threads whose client is no longer in the map
    open,         \* clients that have a connection
    gathering     \* clients whose connection finds candidates

clientVars == <<users, holds, orphaned, open, gathering>>
wsVars == <<queue, owed, link>>
vars == <<ui, lws, sig, lock_, joined_room_, asked, closing, clientVars, wsVars>>

UiPositions == {"loop", "lock", "clear", "join", "manager", "members", "gone"}
LwsPositions == {"idle", "add", "create", "added", "find", "answer", "drop", "remove",
                 "close", "append", "box", "exited"}
SigPositions == {"idle", "find", "use", "stop", "stopped"}

\* Every variable has its type.
TypeOK ==
    /\ ui \in UiPositions
    /\ lws \in [at : LwsPositions, uid : Uids \cup {None}, offers : BOOLEAN]
    /\ sig \in [at : SigPositions, uid : Uids \cup {None}]
    /\ lock_ \in {"ui", "lws", None}
    /\ joined_room_ \in BOOLEAN /\ asked \in BOOLEAN /\ closing \in BOOLEAN
    /\ users \subseteq Uids
    /\ holds \in [Holders -> Uids \cup {None}]
    /\ orphaned \subseteq Holders
    /\ open \subseteq Uids /\ gathering \subseteq Uids
    /\ queue \in 0..2 /\ owed \in BOOLEAN /\ link \in {"down", "connecting", "up"}

Resting(at) == [at |-> at, uid |-> None, offers |-> FALSE]

Init ==
    /\ ui = "loop"
    /\ lws = Resting("idle")
    /\ sig = [at |-> "idle", uid |-> None]
    /\ lock_ = None
    /\ joined_room_ = FALSE /\ asked = FALSE /\ closing = FALSE
    /\ users = {} /\ orphaned = {} /\ open = {} /\ gathering = {}
    /\ holds = [t \in Holders |-> None]
    /\ queue = 0 /\ owed = FALSE /\ link = "down"

-----------------------------------------------------------------------------
(* The websocket, as far as stop() depends on it (module WsClient has the   *)
(* details).  WsClient's own lock is held by nobody who waits.              *)

\* sendMessage(), n times; nothing once websocket_ is null.
Send(n) ==
    IF ui \in {"loop", "lock", "clear"}
      THEN /\ queue' = IF queue + n > 2 THEN 2 ELSE queue + n
           /\ owed' = (owed \/ link # "down")
           /\ link' = link
      ELSE UNCHANGED wsVars

dialogVars == <<ui, lws, sig, lock_, joined_room_, asked, closing, clientVars>>

\* lwsTask() connects, again and again until stop_ is set.
Connect ==
    /\ lws.at = "idle" /\ link = "down"
    /\ ui \in {"loop", "lock", "clear"}
    /\ link' = "connecting"
    /\ UNCHANGED <<dialogVars, queue, owed>>

Established ==
    /\ lws.at = "idle" /\ link = "connecting"
    /\ link' = "up"
    /\ UNCHANGED <<dialogVars, queue, owed>>

\* The connection cannot be made, or ends, and with it what it owed.
ConnectionEnds ==
    /\ lws.at = "idle" /\ link # "down"
    /\ link' = "down"
    /\ owed' = FALSE
    /\ UNCHANGED <<dialogVars, queue>>

\* drainMessageQueue(): one message, however often the callback was asked
\* for; the callback may also come unasked.
DrainMessageQueue ==
    /\ lws.at = "idle" /\ link = "up"
    /\ queue # 0
    /\ queue' \in IF queue = 1 THEN {0} ELSE {1, 2}
    /\ owed' = FALSE
    /\ UNCHANGED <<dialogVars, link>>

-----------------------------------------------------------------------------
(* References.                                                              *)

\* A synchronous call from another thread is served between two callbacks.
SignalingServes == sig.at = "idle"

Sharers(u) == {t \in Holders : holds[t] = u /\ t \notin orphaned}

\* t's reference is the only one left to its client.
IsLast(t) ==
    /\ t \in orphaned
    /\ \A s \in orphaned \ {t} : holds[s] # holds[t]

\* ~RTCConnection().
Close(u) == open' = open \ {u} /\ gathering' = gathering \ {u}

\* Taking u's client out of the map destroys it and its connection.
NeedsSignaling(u) == u \in open /\ Sharers(u) = {}

\* The client of u leaves the map.  Closing a connection waits for the
\* signaling thread.
Unlist(u) ==
    /\ NeedsSignaling(u) => SignalingServes
    /\ users' = users \ {u}
    /\ orphaned' = orphaned \cup Sharers(u)
    /\ IF Sharers(u) = {} THEN Close(u) ELSE UNCHANGED <<open, gathering>>

\* t lets go of its client; the last reference destroys it.
LetGoLeaks(t) ==                        \* slip: ~RTCConnection() does not close
    /\ holds' = [holds EXCEPT ![t] = None]
    /\ orphaned' = orphaned \ {t}
    /\ UNCHANGED <<users, open, gathering>>
LetGo(t) ==
    /\ holds' = [holds EXCEPT ![t] = None]
    /\ orphaned' = orphaned \ {t}
    /\ IF IsLast(t) THEN Close(holds[t]) ELSE UNCHANGED <<open, gathering>>
    /\ users' = users

\* A client exists somewhere, and with it a reference to the RTCManager.
SomeClient == users # {} \/ orphaned # {}

-----------------------------------------------------------------------------
(* The UI thread.                                                           *)

OnBnClickedBtnJoin ==
    /\ ui = "loop"
    /\ ~joined_room_
    /\ Send(1)
    /\ joined_room_' = TRUE
    /\ asked' = TRUE
    /\ UNCHANGED <<ui, lws, sig, lock_, closing, clientVars>>

OnBnClickedBtnSend ==
    /\ ui = "loop"
    /\ joined_room_
    /\ Send(1)
    /\ UNCHANGED dialogVars

\* UnPublish(), if published, and LeaveRoom() are queued; then
\* RemoveAllClients() wants lock_.
OnBnClickedBtnLeave ==
    /\ ui = "loop"
    /\ joined_room_
    /\ \E n \in {1, 2} : Send(n)
    /\ ui' = "lock"
    /\ UNCHANGED <<lws, sig, lock_, joined_room_, asked, closing, clientVars>>

\* OnDestroy() leaves the room too, if it is in one.
OnDestroy ==
    /\ ui = "loop"
    /\ closing' = TRUE
    /\ IF joined_room_
         THEN ui' = "lock" /\ \E n \in {1, 2} : Send(n)
         ELSE ui' = "join" /\ UNCHANGED wsVars
    /\ UNCHANGED <<lws, sig, lock_, joined_room_, asked, clientVars>>

RemoveAllClients ==
    /\ ui = "lock"
    /\ lock_ = None
    /\ lock_' = "ui"
    /\ ui' = "clear"
    /\ UNCHANGED <<lws, sig, joined_room_, asked, closing, clientVars, wsVars>>

\* map_of_users_.clear(), with the lock; in the end also the destruction of
\* the dialog's members, without it.
ClearClient(u) ==
    /\ ui \in {"clear", "members"}
    /\ u \in users
    /\ Unlist(u)
    /\ UNCHANGED <<ui, lws, sig, lock_, joined_room_, asked, closing, holds, wsVars>>

AllRemovedKeepsLock ==                  \* slip: OnDestroy() joins with lock_ held
    /\ ui = "clear"
    /\ users = {}
    /\ lock_' = IF closing THEN "ui" ELSE None
    /\ joined_room_' = FALSE
    /\ ui' = IF closing THEN "join" ELSE "loop"
    /\ UNCHANGED <<lws, sig, asked, closing, clientVars, wsVars>>
AllRemoved ==
    /\ ui = "clear"
    /\ users = {}
    /\ lock_' = None
    /\ joined_room_' = FALSE
    /\ ui' = IF closing THEN "join" ELSE "loop"
    /\ UNCHANGED <<lws, sig, asked, closing, clientVars, wsVars>>

\* websocket_ = nullptr: ~WsClient() joins the lws thread.
Joined ==
    /\ ui = "join"
    /\ lws.at = "exited"
    /\ ui' = "manager"
    /\ UNCHANGED <<lws, sig, lock_, joined_room_, asked, closing, clientVars, wsVars>>

\* ~RTCManager() stops the signaling thread, after the callback it is in.
StopSignaling ==
    IF SomeClient \/ sig.at \in {"stop", "stopped"}
      THEN sig' = sig
      ELSE sig.at = "idle" /\ sig' = [at |-> "stopped", uid |-> None]

\* rtc_manager_ = nullptr: the manager goes, or waits for the last client.
DropManager ==
    /\ ui = "manager"
    /\ StopSignaling
    /\ ui' = "members"
    /\ UNCHANGED <<lws, lock_, joined_room_, asked, closing, clientVars, wsVars>>

\* DoModal() returned and the dialog is destroyed.
DialogGone ==
    /\ ui = "members"
    /\ users = {}
    /\ StopSignaling
    /\ ui' = "gone"
    /\ UNCHANGED <<lws, lock_, joined_room_, asked, closing, clientVars, wsVars>>

-----------------------------------------------------------------------------
(* The lws thread: onReceiveMessage().                                      *)

lwsRest == <<ui, sig, joined_room_, asked, closing, wsVars>>

LwsAt(at) == lws' = [lws EXCEPT !.at = at]

\* A notification without a uid is ignored.
AcceptsAny(at, u) == TRUE               \* slip: uid.empty() is not tested
Accepts(at, u) == at \in {"add", "remove"} => u # None

\* A message comes: a peer-join ("add"), a stream-add or a granted join ("add",
\* and an offer is created), an answer ("find"), a peer-leave ("remove"), a
\* chat message ("append"), a refusal ("box").
OnReceiveMessage(at, u, offers) ==
    /\ lws.at = "idle"
    /\ asked /\ link = "up"
    /\ Accepts(at, u)
    /\ ui # "gone"
    /\ lws' = [at |-> at, uid |-> u, offers |-> offers]
    /\ UNCHANGED <<lwsRest, lock_, clientVars>>

\* A stream-remove: UnSubscribe() is queued.
OnStreamRemove ==
    /\ lws.at = "idle"
    /\ asked /\ link = "up"
    /\ Send(1)
    /\ UNCHANGED dialogVars

\* AddClient(): a client that is there is returned, a new one is put into the
\* map and given a connection under the lock.
AddClient ==
    /\ lws.at = "add"
    /\ lock_ = None
    /\ IF lws.uid \in users
         THEN /\ holds' = [holds EXCEPT !["lws"] = lws.uid]
              /\ LwsAt("added")
              /\ UNCHANGED <<lock_, users>>
         ELSE /\ users' = users \cup {lws.uid}
              /\ lock_' = "lws"
              /\ LwsAt("create")
              /\ holds' = holds
    /\ UNCHANGED <<lwsRest, orphaned, open, gathering>>

\* CreatePeerConnection(), and the local media stream if it is the local user;
\* it may fail.
CreatePeerConnection(ok) ==
    /\ lws.at = "create"
    /\ SignalingServes
    /\ open' = IF ok THEN open \cup {lws.uid} ELSE open
    /\ lock_' = None
    /\ holds' = [holds EXCEPT !["lws"] = lws.uid]
    /\ LwsAt("added")
    /\ UNCHANGED <<lwsRest, users, orphaned, gathering>>

\* CreateOffer(), whose local description makes candidates come.
CreateOffer ==
    /\ lws.at = "added"
    /\ lws.offers /\ lws.uid \in open
    /\ SignalingServes
    /\ gathering' = gathering \cup {lws.uid}
    /\ LwsAt("drop")
    /\ UNCHANGED <<lwsRest, lock_, users, holds, orphaned, open>>

NoOffer ==
    /\ lws.at = "added"
    /\ ~(lws.offers /\ lws.uid \in open)
    /\ LwsAt("drop")
    /\ UNCHANGED <<lwsRest, lock_, clientVars>>

\* GetClient() for an answer: the lock is held only while the map is read.
GetClientKeepsLock ==                   \* slip: the lock is not released
    /\ lws.at = "find"
    /\ lock_ = None
    /\ lock_' = "lws"
    /\ holds' = [holds EXCEPT !["lws"] = IF lws.uid \in users THEN lws.uid ELSE None]
    /\ lws' = IF lws.uid \in users THEN [lws EXCEPT !.at = "answer"] ELSE Resting("idle")
    /\ UNCHANGED <<lwsRest, users, orphaned, open, gathering>>
GetClient ==
    /\ lws.at = "find"
    /\ lock_ = None
    /\ holds' = [holds EXCEPT !["lws"] = IF lws.uid \in users THEN lws.uid ELSE None]
    /\ lws' = IF lws.uid \in users THEN [lws EXCEPT !.at = "answer"] ELSE Resting("idle")
    /\ UNCHANGED <<lwsRest, lock_, users, orphaned, open, gathering>>

\* SetAnswer(), if there is a connection.
SetAnswer ==
    /\ lws.at = "answer"
    /\ lws.uid \in open => SignalingServes
    /\ LwsAt("drop")
    /\ UNCHANGED <<lwsRest, lock_, clientVars>>

\* The handler returns and its shared_ptr goes; the last one closes the
\* connection.
DropClient ==
    /\ lws.at = "drop"
    /\ IsLast("lws") /\ lws.uid \in open => SignalingServes
    /\ LetGo("lws")
    /\ lws' = Resting("idle")
    /\ UNCHANGED <<lwsRest, lock_>>

\* RemoveClient(), as far as it goes without waiting for another thread.
RemoveClient ==
    /\ lws.at = "remove"
    /\ lock_ = None
    /\ IF lws.uid \in users
         THEN lock_' = "lws" /\ LwsAt("close")
         ELSE lock_' = lock_ /\ lws' = Resting("idle")
    /\ UNCHANGED <<lwsRest, clientVars>>

CloseRemoved ==
    /\ lws.at = "close"
    /\ Unlist(lws.uid)
    /\ lock_' = None
    /\ lws' = Resting("idle")
    /\ UNCHANGED <<lwsRest, holds>>

\* AppendMessage(): messages to the chat control, answered by the UI thread's
\* message loop.
AppendMessage ==
    /\ lws.at = "append"
    /\ ui = "loop"
    /\ lws' = Resting("idle")
    /\ UNCHANGED <<lwsRest, lock_, clientVars>>

\* AfxMessageBox(): the user closes the box.
BoxClosed ==
    /\ lws.at = "box"
    /\ lws' = Resting("idle")
    /\ UNCHANGED <<lwsRest, lock_, clientVars>>

\* The loop of lwsTask() ends after stop() once nothing is queued, or without
\* a connection.
ThreadExitsDrained ==                   \* slip: a lost connection does not end the loop
    /\ lws.at = "idle"
    /\ ui = "join"
    /\ queue = 0
    /\ lws' = Resting("exited")
    /\ link' = "down" /\ owed' = FALSE
    /\ UNCHANGED <<ui, sig, joined_room_, asked, closing, queue, lock_, clientVars>>
ThreadExits ==
    /\ lws.at = "idle"
    /\ ui = "join"
    /\ queue = 0 \/ link = "down"
    /\ lws' = Resting("exited")
    /\ link' = "down" /\ owed' = FALSE
    /\ UNCHANGED <<ui, sig, joined_room_, asked, closing, queue, lock_, clientVars>>

-----------------------------------------------------------------------------
(* The signaling thread's own callback, OnIceCandidate().                   *)

sigRest == <<ui, lws, lock_, joined_room_, asked, closing>>

\* External: a connection found a candidate.
FindCandidate(u) ==
    /\ sig.at = "idle"
    /\ u \in gathering
    /\ sig' = [at |-> "find", uid |-> u]
    /\ UNCHANGED <<sigRest, clientVars, wsVars>>

\* GetClient() waits for lock_.
OnIceCandidate ==
    /\ sig.at = "find"
    /\ lock_ = None
    /\ IF sig.uid \in users
         THEN holds' = [holds EXCEPT !["sig"] = sig.uid] /\ sig' = [sig EXCEPT !.at = "use"]
         ELSE holds' = holds /\ sig' = [at |-> "idle", uid |-> None]
    /\ UNCHANGED <<sigRest, users, orphaned, open, gathering, wsVars>>

\* The candidate, and perhaps an offer before it, is queued, and the client is
\* let go.  If it was the last of
\* all and the dialog has dropped the manager, ~RTCManager() runs here, and
\* Stop() waits for the thread it is called on.
CandidateSent ==
    /\ sig.at = "use"
    /\ \E n \in {1, 2} : Send(n)
    /\ LetGo("sig")
    /\ sig' = IF /\ IsLast("sig") /\ ui \in {"members", "gone"}
                 /\ users = {} /\ orphaned = {"sig"}
                THEN [sig EXCEPT !.at = "stop"]
                ELSE [at |-> "idle", uid |-> None]
    /\ UNCHANGED sigRest

-----------------------------------------------------------------------------
UiSteps ==
    \/ RemoveAllClients \/ AllRemoved \/ Joined \/ DropManager \/ DialogGone
    \/ \E u \in Uids : ClearClient(u)

User ==
    OnBnClickedBtnJoin \/ OnBnClickedBtnSend \/ OnBnClickedBtnLeave \/ OnDestroy \/ BoxClosed

LwsSteps ==
    \/ AddClient \/ CreateOffer \/ NoOffer \/ GetClient \/ SetAnswer \/ DropClient
    \/ RemoveClient \/ CloseRemoved \/ AppendMessage
    \/ \E ok \in BOOLEAN : CreatePeerConnection(ok)

Network ==
    \/ \E u \in Uids \cup {None}, offers \in BOOLEAN : OnReceiveMessage("add", u, offers)
    \/ \E u \in Uids \cup {None} : OnReceiveMessage("remove", u, FALSE)
    \/ \E u \in Uids : OnReceiveMessage("find", u, FALSE)
    \/ \E at \in {"append", "box"} : OnReceiveMessage(at, None, FALSE)
    \/ OnStreamRemove
    \/ Connect \/ Established \/ ConnectionEnds
    \/ \E u \in Uids : FindCandidate(u)

SigSteps == OnIceCandidate \/ CandidateSent

Next == UiSteps \/ User \/ LwsSteps \/ DrainMessageQueue \/ ThreadExits \/ Network \/ SigSteps

Spec == Init /\ [][Next]_vars

\* A thread that is not kept waiting goes on.  Strong where it competes for
\* lock_ or waits in the signaling thread's queue, and for what lwsTask() does
\* between two messages: a callback that is owed comes, and stop_ is tested.  A
\* connection is made or fails; the user closes a message box.
Fairness ==
    /\ SF_vars(UiSteps) /\ SF_vars(LwsSteps) /\ SF_vars(SigSteps)
    /\ SF_vars(owed /\ DrainMessageQueue) /\ SF_vars(ThreadExits)
    /\ WF_vars(Established \/ (link = "connecting" /\ ConnectionEnds))
    /\ WF_vars(BoxClosed)

FairSpec == Spec /\ Fairness

-----------------------------------------------------------------------------
(* Properties.                                                              *)

\* The thread t is waiting for at the moment, if any.
WaitsFor(t) ==
    CASE t = "ui" ->
           IF ui = "lock" THEN {lock_} \ {None}
           ELSE IF ui = "join" /\ lws.at # "exited" THEN {"lws"}
           ELSE IF /\ \/ /\ ui \in {"clear", "members"}
                         /\ users # {} /\ \A u \in users : NeedsSignaling(u)
                      \/ ui = "manager" /\ ~SomeClient
                      \/ ui = "members" /\ ~SomeClient /\ sig.at # "stopped"
                   /\ sig.at # "idle" THEN {"sig"}
           ELSE {}
      [] t = "lws" ->
           IF lws.at \in {"add", "find", "remove"} THEN {lock_} \ {None}
           ELSE IF lws.at = "append" /\ ui # "loop" THEN {"ui"}
           ELSE IF /\ \/ lws.at = "create"
                      \/ lws.at = "added" /\ lws.offers /\ lws.uid \in open
                      \/ lws.at = "answer" /\ lws.uid \in open
                      \/ lws.at = "drop" /\ IsLast("lws") /\ lws.uid \in open
                      \/ lws.at = "close" /\ NeedsSignaling(lws.uid)
                   /\ sig.at # "idle" THEN {"sig"}
           ELSE {}
      [] t = "sig" ->
           IF sig.at = "find" THEN {lock_} \ {None}
           ELSE IF sig.at = "stop" THEN {"sig"} ELSE {}

\* Threads that wait only for one another.
InCircle(S) == \A t \in S : WaitsFor(t) # {} /\ WaitsFor(t) \subseteq S

\* lock_ is held by a thread that waits for the signaling thread, which waits
\* for lock_ in OnIceCandidate().
LockCircle == sig.at = "find" /\ lock_ # None /\ WaitsFor(lock_) = {"sig"}

\* The UI thread joins the lws thread, which waits for the message loop.
JoinCircle == ui = "join" /\ lws.at = "append"

\* The signaling thread waits for itself.
SelfStop == sig.at = "stop"

\* The dialog's threads can wait for one another in these three ways and in
\* no other, whatever the order of button presses, messages and candidates.
OnlyKnownCircles ==
    \A S \in SUBSET Threads : S # {} /\ InCircle(S) => LockCircle \/ JoinCircle \/ SelfStop

\* A connection is closed with its last owner: an open one belongs to a client
\* that is in the map or referred to by a thread.
OpenHasOwner ==
    \A u \in open : u \in users \/ \E t \in orphaned : holds[t] = u

\* The join waits for a thread that stays in its loop for a queued message,
\* which nobody asked to write.
Stranded == ui = "join" /\ link = "up" /\ queue # 0 /\ ~owed

\* After a leave or a close, the UI thread gets back to its loop or to the end
\* unless one of the first two circles closes, or the join of OnDestroy() waits
\* for good for a stranded message.
UiComesBack ==
    ((ui # "loop") ~> (ui \in {"loop", "gone"} \/ LockCircle \/ JoinCircle)) \/ <>[]Stranded
=============================================================================
