------------------------------ MODULE Session ------------------------------
(***************************************************************************)
(* Joining, publishing and leaving when the websocket loses its connection *)
(* and makes a new one: the dialog's handlers over the queue of module     *)
(* WsClient, which outlives a connection.  Module Room has the             *)
(* other users and the order of the small steps; here is the local user    *)
(* only, with a network that fails.                                        *)
(*                                                                         *)
(* External: the server keeps a session per connection and forgets it, with *)
(* its membership, when the connection ends; a connection on which a write *)
(* failed ends.                                                            *)
(***************************************************************************)
EXTENDS Integers, Sequences

CONSTANTS
    MaxRequests,    \* bound: requests made
    MaxConnections  \* bound: connections made

VARIABLES
    joined_room_, local_published_,
    ui,          \* position of the UI thread in a button handler
    lws,         \* the join whose answer PublishLocalStream() handles, or 0
    client,      \* the local user's client: "none", "made", or "armed", with
                 \* send_offer_ and a local description
    joins,       \* join requests made: the number of the last one
    requests,    \* requests made
    queue,       \* message_queue_ of the websocket client
    requested,   \* a WRITEABLE callback is owed
    link,        \* "down", "up", or "broken": a write failed
    connections, \* external: number of the last connection
    wire,        \* external: requests on their way to the server
    answers,     \* external: answers on their way to the client
    member,      \* external: the session is in the room
    granted,     \* history: the connection in which the last join was granted
    late,        \* history: the last PublishLocalStream() ended after its leave
    skipped,     \* history: the last join's grant was passed over as published
    early        \* history: the last join to set the flags found the stream published

dialogVars == <<joined_room_, local_published_, ui, client, joins>>
sendVars == <<requests, queue, requested>>
netVars == <<link, connections, wire, answers, member, granted>>
histVars == <<late, skipped, early>>
vars == <<dialogVars, lws, sendVars, netVars, histVars>>

Request == [command : {"join", "leave", "publish", "unpublish"}, join : 0..MaxRequests]
Answer == [to : Request, ok : BOOLEAN]

\* Every variable has its type.
TypeOK ==
    /\ joined_room_ \in BOOLEAN /\ local_published_ \in BOOLEAN
    /\ ui \in {"idle", "joining", "unpublished", "leaving", "left"}
    /\ lws \in 0..joins
    /\ client \in {"none", "made", "armed"}
    /\ joins \in 0..requests /\ requests \in 0..MaxRequests
    /\ queue \in Seq(Request) /\ Len(queue) =< requests
    /\ requested \in BOOLEAN
    /\ link \in {"down", "up", "broken"} /\ connections \in 0..MaxConnections
    /\ wire \in Seq(Request) /\ answers \in Seq(Answer)
    /\ link = "down" => wire = << >> /\ answers = << >> /\ ~member
    /\ member \in BOOLEAN /\ granted \in 0..connections
    /\ late \in BOOLEAN /\ skipped \in BOOLEAN /\ early \in BOOLEAN

Init ==
    /\ joined_room_ = FALSE /\ local_published_ = FALSE
    /\ ui = "idle" /\ lws = 0 /\ client = "none"
    /\ joins = 0 /\ requests = 0
    /\ queue = << >> /\ requested = FALSE
    /\ link = "down" /\ connections = 0
    /\ wire = << >> /\ answers = << >>
    /\ member = FALSE /\ granted = 0
    /\ late = FALSE /\ skipped = FALSE /\ early = FALSE

-----------------------------------------------------------------------------
(* Requests: sendMessage() queues, connection or not.                       *)

SendTwice(command, join) ==             \* slip: the message is pushed twice
    /\ requests < MaxRequests
    /\ requests' = requests + 1
    /\ queue' = queue \o <<[command |-> command, join |-> join], [command |-> command, join |-> join]>>
    /\ requested' = (requested \/ link # "down")
Send(command, join) ==
    /\ requests < MaxRequests
    /\ requests' = requests + 1
    /\ queue' = Append(queue, [command |-> command, join |-> join])
    /\ requested' = (requested \/ link # "down")

-----------------------------------------------------------------------------
(* The UI thread.                                                           *)

\* OnBnClickedBtnJoin(): JoinRoom(), ...
Join ==
    /\ ui = "idle"
    /\ ~joined_room_
    /\ joins' = joins + 1
    /\ Send("join", joins')
    /\ ui' = "joining"
    /\ granted' = 0
    /\ skipped' = FALSE
    /\ UNCHANGED <<joined_room_, local_published_, client, lws, link, connections, wire,
                   answers, member, late, early>>

\* ... and the flags, also when the answer was handled before them.
JoinDone ==
    /\ ui = "joining"
    /\ local_published_' = FALSE
    /\ joined_room_' = TRUE
    /\ ui' = "idle"
    /\ early' = local_published_
    /\ UNCHANGED <<client, joins, lws, sendVars, netVars, late, skipped>>

\* OnBnClickedBtnLeave(): UnPublish() if published, ...
Leave ==
    /\ ui = "idle"
    /\ joined_room_
    /\ IF local_published_
         THEN Send("unpublish", joins) /\ ui' = "unpublished"
         ELSE UNCHANGED sendVars /\ ui' = "leaving"
    /\ UNCHANGED <<joined_room_, local_published_, client, joins, lws, netVars, histVars>>

UnpublishedKeeps ==                     \* slip: local_published_ stays set
    /\ ui = "unpublished"
    /\ ui' = "leaving"
    /\ UNCHANGED <<local_published_, joined_room_, client, joins, lws, sendVars, netVars, histVars>>
Unpublished ==
    /\ ui = "unpublished"
    /\ local_published_' = FALSE
    /\ ui' = "leaving"
    /\ UNCHANGED <<joined_room_, client, joins, lws, sendVars, netVars, histVars>>

\* ... LeaveRoom() ...
SendLeaveIfPublished ==                 \* slip: only a published stream is left
    /\ ui = "leaving"
    /\ IF client = "none" THEN UNCHANGED sendVars ELSE Send("leave", joins)
    /\ ui' = "left"
    /\ UNCHANGED <<joined_room_, local_published_, client, joins, lws, netVars, histVars>>
SendLeave ==
    /\ ui = "leaving"
    /\ Send("leave", joins)
    /\ ui' = "left"
    /\ UNCHANGED <<joined_room_, local_published_, client, joins, lws, netVars, histVars>>

\* ... and RemoveAllClients().
LeaveDoneKeeps ==                       \* slip: the clients stay in the map
    /\ ui = "left"
    /\ joined_room_' = FALSE
    /\ ui' = "idle"
    /\ UNCHANGED <<local_published_, client, joins, lws, sendVars, netVars, histVars>>
LeaveDone ==
    /\ ui = "left"
    /\ client' = "none"
    /\ joined_room_' = FALSE
    /\ ui' = "idle"
    /\ UNCHANGED <<local_published_, joins, lws, sendVars, netVars, histVars>>

-----------------------------------------------------------------------------
(* The lws thread and the signaling thread.                                 *)

Received == lws = 0 /\ answers # << >> /\ answers' = Tail(answers)

IsGrant(a) == a.to.command = "join" /\ a.ok

\* A granted join, whenever it comes: PublishLocalStream(true) makes the
\* local client if there is none, ...
OnJoined ==
    /\ Received
    /\ IsGrant(Head(answers))
    /\ IF local_published_
         THEN /\ skipped' = (skipped \/ Head(answers).to.join = joins)
              /\ UNCHANGED <<lws, client>>
         ELSE /\ lws' = Head(answers).to.join
              /\ client' = IF client = "none" THEN "made" ELSE client
              /\ UNCHANGED skipped
    /\ UNCHANGED <<joined_room_, local_published_, ui, joins, sendVars, link, connections,
                   wire, member, granted, late, early>>

\* ... has it make an offer (a client removed meanwhile is in no map, and its
\* candidates find nobody), and sets local_published_.
PublishLocalStream ==
    /\ lws # 0
    /\ client' = IF client = "none" THEN "none" ELSE "armed"
    /\ local_published_' = TRUE
    /\ late' = (lws # joins \/ ui \in {"leaving", "left"} \/ (ui = "idle" /\ ~joined_room_))
    /\ lws' = 0
    /\ UNCHANGED <<joined_room_, ui, joins, sendVars, netVars, skipped, early>>

\* The other answers change nothing here.
OnOtherAnswer ==
    /\ Received
    /\ ~IsGrant(Head(answers))
    /\ UNCHANGED <<dialogVars, lws, sendVars, link, connections, wire, member, granted, histVars>>

\* A candidate is found: the offer goes out, once.
OnIceCandidate ==
    /\ client = "armed"
    /\ Send("publish", joins)
    /\ client' = "made"
    /\ UNCHANGED <<joined_room_, local_published_, ui, joins, lws, netVars, histVars>>

-----------------------------------------------------------------------------
(* The connection.                                                          *)

\* onConnected(), onDisconnected() and onConnectionError() do nothing: the
\* dialog's state is that of the session before.
onConnected == UNCHANGED dialogVars
onDisconnected == UNCHANGED dialogVars

\* External: the server's side of a new connection knows nothing.
Connect ==
    /\ link = "down"
    /\ connections < MaxConnections
    /\ connections' = connections + 1
    /\ link' = "up"
    /\ onConnected
    /\ UNCHANGED <<lws, sendVars, wire, answers, member, granted, histVars>>

\* What is on its way is lost; what is queued stays.
Disconnect ==
    /\ link # "down"
    /\ link' = "down"
    /\ wire' = << >> /\ answers' = << >>
    /\ member' = FALSE
    /\ requested' = FALSE
    /\ onDisconnected
    /\ UNCHANGED <<lws, requests, queue, connections, granted, histVars>>

\* drainMessageQueue(): the first message is written, or popped unwritten.
\* The callback may also come unasked.
Drain ==
    /\ link # "down"
    /\ queue # << >>
    /\ requested' = FALSE
    /\ queue' = Tail(queue)
    /\ \/ link = "up" /\ wire' = Append(wire, Head(queue)) /\ UNCHANGED link
       \/ link' = "broken" /\ UNCHANGED wire
    /\ UNCHANGED <<dialogVars, lws, requests, connections, answers, member, granted, histVars>>

\* External: the server answers.
ServerAnswers ==
    /\ wire # << >>
    /\ wire' = Tail(wire)
    /\ LET r == Head(wire)
       IN \E ok \in IF r.command = "join" THEN BOOLEAN ELSE {TRUE} :
            /\ answers' = Append(answers, [to |-> r, ok |-> ok])
            /\ member' = CASE r.command = "join" -> ok
                           [] r.command = "leave" -> FALSE
                           [] OTHER -> member
            /\ granted' = IF r.command = "join" /\ r.join = joins /\ ok
                            THEN connections ELSE granted
    /\ UNCHANGED <<dialogVars, lws, sendVars, link, connections, histVars>>

-----------------------------------------------------------------------------
Dialog == Join \/ Leave \/ OnIceCandidate

UiSteps == JoinDone \/ Unpublished \/ SendLeave \/ LeaveDone

LwsSteps == OnJoined \/ PublishLocalStream \/ OnOtherAnswer

Next == Dialog \/ UiSteps \/ LwsSteps \/ Connect \/ Disconnect \/ Drain \/ ServerAnswers

Spec == Init /\ [][Next]_vars

\* A handler goes on, the lws thread takes answers and makes a connection
\* again, a broken connection ends, and the server answers; a message is
\* written if a callback is owed.
Fairness ==
    /\ WF_vars(UiSteps) /\ WF_vars(LwsSteps)
    /\ WF_vars(Connect) /\ WF_vars(link = "broken" /\ Disconnect)
    /\ WF_vars(requested /\ Drain)
    /\ WF_vars(ServerAnswers)

FairSpec == Spec /\ Fairness

-----------------------------------------------------------------------------
(* Properties.                                                              *)

Told == wire \o queue

OnItsWay(command) == \E i \in 1..Len(Told) : Told[i].command = command

\* Between two button presses, with no join or leave queued or on its way, the
\* session the server has now is in the room exactly if the user is joined and
\* this join was granted in this very connection.  So the dialog may believe
\* itself in a room that its session is not in, since nothing joins again after
\* a reconnect, but only then or after a refusal or a lost request; and the
\* server never counts in someone who left.
MemberOfThisConnection ==
    ui = "idle" /\ link = "up" /\ ~OnItsWay("join") /\ ~OnItsWay("leave") =>
        (member <=> joined_room_ /\ granted = connections)

\* A granted join goes without its publish only if a PublishLocalStream() for
\* an earlier join came to its end after that join's leave, and so left
\* local_published_ set.
PassedOverOnlyIfLate == skipped => late

\* local_published_, by which a leave decides to withdraw the stream, is set
\* exactly if the local client is there, when neither the UI thread nor
\* PublishLocalStream() is between the two; except that a join answered before
\* OnBnClickedBtnJoin() clears the flag leaves a client without it, and a
\* PublishLocalStream() that ends after its leave the flag without a client.
FlagOfClient ==
    ui = "idle" /\ lws = 0 =>
        /\ client # "none" /\ ~local_published_ => joined_room_ /\ early
        /\ local_published_ /\ client = "none" => late

\* A message is queued that nobody will ask to write.
Stranded == link = "up" /\ queue # << >> /\ ~requested

\* Someone who left does not stay in the room: the leave, wherever the
\* connection was lost, gets there or the session it was for is over, unless
\* it is stranded in the queue.
LeftForGood ==
    (member /\ ~joined_room_ /\ ui = "idle" ~> ~member \/ joined_room_) \/ <>[]Stranded
=============================================================================
