-------------------------------- MODULE Room --------------------------------
(***************************************************************************)
(* The room signalling of CRtcWinDemoDlg: joining, leaving, publishing the *)
(* local stream and subscribing to others, by three threads:               *)
(*   - the UI thread runs the button handlers (ui);                        *)
(*   - the lws thread runs onReceiveMessage() and what it calls (lws);     *)
(*   - WebRTC's signaling thread runs OnIceCandidate() (sig).              *)
(* A handler is split where another thread can see or change what it uses. *)
(* The websocket is the first-in first-out channel of MessageChannel with  *)
(* nothing lost; the server is external.                                   *)
(***************************************************************************)
EXTENDS Integers, Sequences

CONSTANTS
    Me,          \* user_id_
    Others,      \* uids of the other users
    MaxClients,  \* bound: RtcClient objects created
    MaxRequests, \* bound: requests sent
    MaxEvents    \* bound: notifications and ICE candidates

Uids == Others \cup {Me}
Client == 1..MaxClients
None == 0

ASSUME RoomAssumption ==
    /\ Me \notin Others
    /\ MaxClients \in Nat /\ MaxRequests \in Nat /\ MaxEvents \in Nat

VARIABLES
    joined_room_, local_published_,
    mid_,        \* the dialog's mid_ is set (by the answer to a publish)
    canSend,     \* IDC_BTN_SEND is enabled
    ui,          \* position of the UI thread in a button handler
    lws,         \* the handler the lws thread is in, and its client
    sig,         \* OnIceCandidate()'s position and its client
    users,       \* map_of_users_: the client of a uid, or None
    objs,        \* the RtcClient objects created so far, numbered
    sessions,    \* map_of_send_requests_, by id (session_id_ minus its start)
    out, in,     \* messages on their way to and from the server
    member,      \* external: what the last join or leave the server saw came to
    events,      \* external: notifications and candidates so far
    refused,     \* history: the box "you have not joined a room" was shown
    failed       \* history: the joins whose box "Join room failed" was shown, by id

uiVars == <<joined_room_, canSend, ui>>
netVars == <<sessions, out, in, member>>
vars == <<uiVars, local_published_, mid_, lws, sig, users, objs, netVars, events, refused, failed>>

Commands == {"join", "leave", "publish", "unpublish", "subscribe", "unsubscribe", "trickle"}
Notifications == {"peer-join", "peer-leave", "stream-add", "stream-remove"}

\* An RtcClient: send_offer_, whether mid_ is set, whether its connection has
\* a local description (and gathers candidates), and two counters: how often
\* send_offer_ was set, how many offers were sent.
Object == [uid : Uids, send_offer_ : BOOLEAN, mid : BOOLEAN, described : BOOLEAN,
           armed : Nat, offers : Nat]

Request == [id : 0..MaxRequests, command : Commands, uid : Uids, mid : BOOLEAN]
Message == [kind : {"response"}, to : Request, ok : BOOLEAN]
             \cup [kind : Notifications, uid : Others]

\* Every variable has its type; a thread inside a handler holds a client.
TypeOK ==
    /\ joined_room_ \in BOOLEAN /\ local_published_ \in BOOLEAN
    /\ mid_ \in BOOLEAN /\ canSend \in BOOLEAN
    /\ ui \in {"idle", "joining", "unpublished", "leaving", "left"}
    /\ \/ lws = [at |-> "idle", client |-> None]
       \/ lws \in [at : {"publish", "published", "stream", "streamed"}, client : Client]
    /\ \/ sig = [at |-> "idle", client |-> None]
       \/ sig \in [at : {"test", "clear", "trickle"}, client : Client]
    /\ users \in [Uids -> 0..MaxClients]
    /\ objs \in Seq(Object) /\ Len(objs) =< MaxClients
    /\ sessions \in Seq([command : Commands, uid : Uids]) /\ Len(sessions) =< MaxRequests
    /\ out \in Seq(Request) /\ in \in Seq(Message)
    /\ member \in {"out", "refused", "in"} /\ refused \in BOOLEAN
    /\ events \in 0..MaxEvents
    /\ failed \subseteq 0..MaxRequests

\* OnInitDialog(); the Send button is enabled in the dialog's resource.
Init ==
    /\ joined_room_ = FALSE /\ local_published_ = FALSE /\ mid_ = FALSE /\ canSend = TRUE
    /\ ui = "idle"
    /\ lws = [at |-> "idle", client |-> None]
    /\ sig = [at |-> "idle", client |-> None]
    /\ users = [u \in Uids |-> None]
    /\ objs = << >>
    /\ sessions = << >> /\ out = << >> /\ in = << >>
    /\ member = "out"
    /\ events = 0
    /\ refused = FALSE /\ failed = {}

-----------------------------------------------------------------------------
(* Requests and clients.                                                    *)

NewIdKept == Len(sessions)               \* slip: session_id_ is not incremented
NewId == Len(sessions) + 1

\* AllocateSession() and sendMessage(): the record is made before the message
\* is queued.  (Another thread may queue in between, and ids then reach the
\* server out of order; nothing below depends on the order of two threads.)
Send(command, uid, mid) ==
    /\ Len(sessions) < MaxRequests
    /\ sessions' = Append(sessions, [command |-> command, uid |-> uid])
    /\ out' = Append(out, [id |-> NewId, command |-> command, uid |-> uid, mid |-> mid])

\* A new RtcClient with its peer connection.
NewObject(uid) == [uid |-> uid, send_offer_ |-> FALSE, mid |-> FALSE,
                   described |-> FALSE, armed |-> 0, offers |-> 0]

\* What is done to a client: SetSendOffer(true), SetMid(), and CreateOffer(),
\* whose offer becomes the local description that GetOffer() returns.
Armed(o) == [o EXCEPT !.send_offer_ = TRUE, !.armed = @ + 1]
SetMid(o) == [o EXCEPT !.mid = TRUE]
CreateOffer(o) == [o EXCEPT !.described = TRUE]
GetOffer(o) == o.described

\* AddClient(): the client of uid, made if there is none.
AddClientUnlisted(uid) ==                \* slip: the client is not put in the map
    IF users[uid] # None
      THEN UNCHANGED <<users, objs>>
      ELSE Len(objs) < MaxClients /\ objs' = Append(objs, NewObject(uid)) /\ users' = users
AddClient(uid) ==
    IF users[uid] # None
      THEN UNCHANGED <<users, objs>>
      ELSE /\ Len(objs) < MaxClients
           /\ objs' = Append(objs, NewObject(uid))
           /\ users' = [users EXCEPT ![uid] = Len(objs) + 1]

\* The requests.  A publish and an unpublish are the local user's; the latter
\* names the dialog's mid_.
JoinRoom == Send("join", Me, FALSE)
LeaveRoom == Send("leave", Me, FALSE)
Publish == Send("publish", Me, FALSE)
UnPublish == Send("unpublish", Me, mid_)
Subscribe(uid, mid) == Send("subscribe", uid, mid)
UnSubscribe(uid) == Send("unsubscribe", uid, TRUE)
Trickle(uid, mid) == Send("trickle", uid, mid)

GetClient(uid) == users[uid]

RemoveClient(uid) == users' = [users EXCEPT ![uid] = None]

RemoveAllClients == users' = [u \in Uids |-> None]

-----------------------------------------------------------------------------
(* The UI thread.                                                           *)

\* OnBnClickedBtnJoin(): the request goes out first, ...
Join ==
    /\ ui = "idle"
    /\ ~joined_room_
    /\ JoinRoom
    /\ ui' = "joining"
    /\ UNCHANGED <<joined_room_, canSend, local_published_, mid_, lws, sig, users, objs, in,
                   member, events, refused, failed>>

\* ... then the flags are set, whatever was answered meanwhile.
JoinDone ==
    /\ ui = "joining"
    /\ local_published_' = FALSE
    /\ joined_room_' = TRUE
    /\ canSend' = TRUE
    /\ ui' = "idle"
    /\ UNCHANGED <<mid_, lws, sig, users, objs, netVars, events, refused, failed>>

\* OnBnClickedBtnLeave(): UnPublish() of the dialog's mid_ if published, ...
LeaveStarts ==
    /\ ui = "idle"
    /\ IF local_published_
         THEN UnPublish /\ ui' = "unpublished"
         ELSE UNCHANGED <<sessions, out>> /\ ui' = "leaving"
    /\ UNCHANGED <<joined_room_, canSend, local_published_, mid_, lws, sig, users, objs, in,
                   member, events, refused, failed>>

LeaveUnguarded == LeaveStarts            \* slip: joined_room_ is not tested
Leave == joined_room_ /\ LeaveStarts

Unpublished ==
    /\ ui = "unpublished"
    /\ local_published_' = FALSE
    /\ ui' = "leaving"
    /\ UNCHANGED <<joined_room_, canSend, mid_, lws, sig, users, objs, netVars, events,
                   refused, failed>>

\* ... LeaveRoom() ...
SendLeave ==
    /\ ui = "leaving"
    /\ LeaveRoom
    /\ ui' = "left"
    /\ UNCHANGED <<joined_room_, canSend, local_published_, mid_, lws, sig, users, objs, in,
                   member, events, refused, failed>>

\* ... RemoveAllClients(), and the buttons.
LeaveDone ==
    /\ ui = "left"
    /\ RemoveAllClients
    /\ joined_room_' = FALSE
    /\ canSend' = FALSE
    /\ ui' = "idle"
    /\ UNCHANGED <<local_published_, mid_, lws, sig, objs, netVars, events, refused, failed>>

\* OnBnClickedBtnSend(): a chat message, which is no request and gets no
\* answer, or the box.
SendChat ==
    /\ ui = "idle"
    /\ canSend
    /\ ~refused
    /\ refused' = ~joined_room_
    /\ UNCHANGED <<uiVars, local_published_, mid_, lws, sig, users, objs, netVars, events,
                   failed>>

-----------------------------------------------------------------------------
(* The lws thread: onReceiveMessage() takes the next message.               *)

Idle(thread) == thread.at = "idle"
At(position, c) == [at |-> position, client |-> c]
Received == Idle(lws) /\ in # << >> /\ in' = Tail(in)

IsResponse(m, commands) == m.kind = "response" /\ sessions[m.to.id].command \in commands

\* A join was granted and nothing is published: PublishLocalStream(true) adds
\* the local client.
OnJoined ==
    /\ Received
    /\ IsResponse(Head(in), {"join"})
    /\ Head(in).ok
    /\ ~local_published_
    /\ AddClient(Me)
    /\ lws' = At("publish", users'[Me])
    /\ UNCHANGED <<uiVars, local_published_, mid_, sig, sessions, out, member, events,
                   refused, failed>>

\* SetSendOffer(true) and CreateOffer() on the client, which a concurrent
\* RemoveAllClients() may have dropped from the map.
ArmLocal ==
    /\ lws.at = "publish"
    /\ objs' = [objs EXCEPT ![lws.client] = CreateOffer(Armed(@))]
    /\ lws' = At("published", lws.client)
    /\ UNCHANGED <<uiVars, local_published_, mid_, sig, users, netVars, events, refused, failed>>

SetLocalPublished ==
    /\ lws.at = "published"
    /\ local_published_' = TRUE
    /\ lws' = At("idle", None)
    /\ UNCHANGED <<uiVars, mid_, sig, users, objs, netVars, events, refused, failed>>

\* The answer to a publish: the mid goes to the client the uid has now.
OnPublished ==
    /\ Received
    /\ IsResponse(Head(in), {"publish"})
    /\ Head(in).ok
    /\ mid_' = TRUE
    /\ LET c == GetClient(sessions[Head(in).to.id].uid)
       IN  objs' = IF c = None THEN objs ELSE [objs EXCEPT ![c] = SetMid(@)]
    /\ UNCHANGED <<uiVars, local_published_, lws, sig, users, sessions, out, member,
                   events, refused, failed>>

JoinFailedLogged(m) == {}                \* slip: a refused join shows no box
JoinFailed(m) == IF IsResponse(m, {"join"}) /\ ~m.ok THEN {m.to.id} ELSE {}

\* Every other response changes nothing of the dialog: a refusal shows a box,
\* and joined_room_ stays; an answer to a subscribe is handed to the connection.
OnOtherResponse ==
    /\ Received
    /\ Head(in).kind = "response"
    /\ \/ IsResponse(Head(in), Commands \ {"join", "publish"})
       \/ ~Head(in).ok
       \/ IsResponse(Head(in), {"join"}) /\ local_published_
    /\ failed' = failed \cup JoinFailed(Head(in))
    /\ UNCHANGED <<uiVars, local_published_, mid_, lws, sig, users, objs, sessions, out, member,
                   events, refused>>

OnPeerNotifyEvent ==
    /\ Received
    /\ Head(in).kind \in {"peer-join", "peer-leave"}
    /\ IF Head(in).kind = "peer-join"
         THEN AddClient(Head(in).uid)
         ELSE RemoveClient(Head(in).uid) /\ objs' = objs
    /\ UNCHANGED <<uiVars, local_published_, mid_, lws, sig, sessions, out, member, events,
                   refused, failed>>

\* OnStreamNotifyEvent(): a new stream arms its client, sets the mid, and
\* only then creates the offer that makes candidates come.
OnStreamAdd ==
    /\ Received
    /\ Head(in).kind = "stream-add"
    /\ AddClient(Head(in).uid)
    /\ lws' = At("stream", users'[Head(in).uid])
    /\ UNCHANGED <<uiVars, local_published_, mid_, sig, sessions, out, member, events,
                   refused, failed>>

SetSendOfferDescribing ==                \* slip: CreateOffer() before SetMid()
    /\ lws.at = "stream"
    /\ objs' = [objs EXCEPT ![lws.client] = CreateOffer(Armed(@))]
    /\ lws' = At("streamed", lws.client)
    /\ UNCHANGED <<uiVars, local_published_, mid_, sig, users, netVars, events, refused, failed>>
SetSendOffer ==
    /\ lws.at = "stream"
    /\ objs' = [objs EXCEPT ![lws.client] = Armed(@)]
    /\ lws' = At("streamed", lws.client)
    /\ UNCHANGED <<uiVars, local_published_, mid_, sig, users, netVars, events, refused, failed>>

SetMidAndCreateOffer ==
    /\ lws.at = "streamed"
    /\ objs' = [objs EXCEPT ![lws.client] = CreateOffer(SetMid(@))]
    /\ lws' = At("idle", None)
    /\ UNCHANGED <<uiVars, local_published_, mid_, sig, users, netVars, events, refused, failed>>

OnStreamRemove ==
    /\ Received
    /\ Head(in).kind = "stream-remove"
    /\ UnSubscribe(Head(in).uid)
    /\ UNCHANGED <<uiVars, local_published_, mid_, lws, sig, users, objs, member, events,
                   refused, failed>>

-----------------------------------------------------------------------------
(* The signaling thread: OnIceCandidate().                                  *)

\* External: a connection with a local description found a candidate.  Its
\* client is in the map, or dropped from it and still held by the lws thread.
OnIceCandidate(c) ==
    /\ Idle(sig)
    /\ events < MaxEvents
    /\ objs[c].described
    /\ users[objs[c].uid] = c \/ lws.client = c
    /\ LET client == GetClient(objs[c].uid)
       IN  sig' = IF client = None THEN sig ELSE At("test", client)
    /\ events' = events + 1
    /\ UNCHANGED <<uiVars, local_published_, mid_, lws, users, objs, netVars, refused, failed>>

\* ShouldSendOffer() and GetOffer(): the offer goes out with a candidate.
SendOffer ==
    /\ sig.at = "test"
    /\ LET o == objs[sig.client]
       IN  IF o.send_offer_ /\ GetOffer(o)
             THEN /\ IF o.uid = Me THEN Publish ELSE Subscribe(o.uid, o.mid)
                  /\ objs' = [objs EXCEPT ![sig.client].offers = @ + 1]
                  /\ sig' = [sig EXCEPT !.at = "clear"]
             ELSE /\ UNCHANGED <<sessions, out, objs>>
                  /\ sig' = [sig EXCEPT !.at = "trickle"]
    /\ UNCHANGED <<uiVars, local_published_, mid_, lws, users, in, member, events, refused, failed>>

SentKept(o) == o                         \* slip: SetSendOffer(false) is missing
Sent(o) == [o EXCEPT !.send_offer_ = FALSE]

ClearSendOffer ==
    /\ sig.at = "clear"
    /\ objs' = [objs EXCEPT ![sig.client] = Sent(@)]
    /\ sig' = [sig EXCEPT !.at = "trickle"]
    /\ UNCHANGED <<uiVars, local_published_, mid_, lws, users, netVars, events, refused, failed>>

SendTrickle ==
    /\ sig.at = "trickle"
    /\ Trickle(objs[sig.client].uid, objs[sig.client].mid)
    /\ sig' = At("idle", None)
    /\ UNCHANGED <<uiVars, local_published_, mid_, lws, users, objs, in, member, events,
                   refused, failed>>

-----------------------------------------------------------------------------
(* External: the server answers the requests in order, and tells a member   *)
(* about the others.  Only to a join or a publish does a refusal differ     *)
(* from a grant in what the client does next.                               *)

ServerAnswers ==
    /\ out # << >>
    /\ \E ok \in IF Head(out).command \in {"join", "publish"} THEN BOOLEAN ELSE {TRUE} :
          /\ in' = Append(in, [kind |-> "response", to |-> Head(out), ok |-> ok])
          /\ member' = CASE Head(out).command = "join" -> (IF ok THEN "in" ELSE "refused")
                         [] Head(out).command = "leave" -> "out"
                         [] OTHER -> member
    /\ out' = Tail(out)
    /\ UNCHANGED <<uiVars, local_published_, mid_, lws, sig, users, objs, sessions, events,
                   refused, failed>>

ServerNotifies(kind, uid) ==
    /\ member = "in"
    /\ events < MaxEvents
    /\ in' = Append(in, [kind |-> kind, uid |-> uid])
    /\ events' = events + 1
    /\ UNCHANGED <<uiVars, local_published_, mid_, lws, sig, users, objs, sessions, out, member,
                   refused, failed>>

-----------------------------------------------------------------------------
UI == Join \/ JoinDone \/ Leave \/ Unpublished \/ SendLeave \/ LeaveDone \/ SendChat

Lws ==
    \/ OnJoined \/ ArmLocal \/ SetLocalPublished \/ OnPublished \/ OnOtherResponse
    \/ OnPeerNotifyEvent \/ OnStreamAdd \/ SetSendOffer \/ SetMidAndCreateOffer
    \/ OnStreamRemove

Signaling ==
    \/ \E c \in 1..Len(objs) : OnIceCandidate(c)
    \/ SendOffer \/ ClearSendOffer \/ SendTrickle

Server ==
    \/ ServerAnswers
    \/ \E kind \in Notifications, uid \in Others : ServerNotifies(kind, uid)

Next == UI \/ Lws \/ Signaling \/ Server

Spec == Init /\ [][Next]_vars

-----------------------------------------------------------------------------
(* Properties.                                                              *)

Answers(m) == m.kind = "response"

\* Every request on its way to the server, and every answer on its way back,
\* is found in map_of_send_requests_ as the request it is: FindSession() never
\* returns the null that OnWebSocketResponse() would dereference, and no
\* answer is taken for one to another request, whichever threads sent them.
ResponseHasSession ==
    LET Recorded(r) == /\ r.id \in 1..Len(sessions)
                       /\ sessions[r.id] = [command |-> r.command, uid |-> r.uid]
    IN  /\ \A i \in 1..Len(out) : Recorded(out[i])
        /\ \A i \in 1..Len(in) : Answers(in[i]) => Recorded(in[i].to)

\* The i-th message on its way is a join or a leave, as the last one the server
\* saw, the 0th, was; and it asks to be in the room, whatever the answer.
Told(i) == i = 0 \/ out[i].command \in {"join", "leave"}
AsksIn(i) == IF i = 0 THEN member # "out" ELSE out[i].command = "join"
NothingTold(S) == \A k \in S : ~Told(k)

\* The user was told that the last join was refused, or is about to be.
LastJoin(id) ==
    /\ id \in 1..Len(sessions) /\ sessions[id].command = "join"
    /\ \A k \in id + 1..Len(sessions) : sessions[k].command # "join"
Refusal(m) == m.kind = "response" /\ m.to.command = "join" /\ ~m.ok
RefusalKnown(id) == id \in failed \/ \E i \in 1..Len(in) : Refusal(in[i]) /\ in[i].to.id = id

\* The server is asked in and out in turn.  Once it has seen all the dialog
\* told it, between two button presses, a member of the room is one whose
\* dialog says joined_room_; and a dialog that says so is in the room, or the
\* last join was refused, which only a box says ("Join room failed", shown or
\* on its way): joined_room_ stays.
MembershipAgrees ==
    /\ \A i, j \in 0..Len(out) :
          i < j /\ Told(i) /\ Told(j) /\ NothingTold(i + 1..j - 1) => AsksIn(i) # AsksIn(j)
    /\ ui = "idle" /\ NothingTold(1..Len(out)) =>
          /\ member = "in" => joined_room_
          /\ joined_room_ => member = "in" \/ \E id \in 1..Len(sessions) :
                                                 LastJoin(id) /\ RefusalKnown(id)

\* However candidates, re-published streams and answers interleave, an offer
\* is sent at most once for each time it was asked for: the candidates that
\* follow the first send no further publish or subscribe.
OfferOncePerArm == \A c \in 1..Len(objs) : objs[c].offers =< objs[c].armed

\* The server is told the stream's mid in every subscribe and every candidate
\* of a remote client: the signaling thread never gets there before the mid.
RemoteHasMid ==
    \A i \in 1..Len(out) :
        /\ out[i].command = "subscribe" => out[i].mid
        /\ out[i].command = "trickle" /\ out[i].uid # Me => out[i].mid

\* Violated.  What OnBnClickedBtnSend() says of its box "you have not joined a
\* room": "in fact, this won't happen".
SendOnlyInRoom == ~refused
=============================================================================
