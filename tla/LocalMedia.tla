----------------------------- MODULE LocalMedia -----------------------------
(***************************************************************************)
(* The local user's media: RTCManager keeps one audio and one video track  *)
(* and their senders, made by CreateLocalMediaStream() when the local      *)
(* RtcClient is made, and given up by DestroyLocalMediaStream() when it is *)
(* destroyed.  A client is a shared_ptr: it is destroyed by whichever      *)
(* thread lets go of it last, while the next local client may be there     *)
(* already, and uses the same manager.                                     *)
(*   - the lws thread adds the client (PublishLocalStream()) and holds it; *)
(*   - the signaling thread holds it in OnIceCandidate();                  *)
(*   - the UI thread drops all clients from the map.                       *)
(* What another thread asks of the factory or a connection is done by the  *)
(* signaling thread, between two callbacks of its own.                     *)
(* Local clients are numbered as they are made; 0 is null.  External: a    *)
(* camera is open to one capturer at a time; a track, and the capturer     *)
(* behind it, is there as long as somebody refers to it.                   *)
(***************************************************************************)
EXTENDS Integers

CONSTANT MaxClients     \* bound: local clients made

ASSUME LocalMediaAssumption == MaxClients \in Nat

Client == 1..MaxClients
Kinds == {"audio", "video"}
Threads == {"ui", "lws", "sig"}

VARIABLES
    made,       \* local clients made so far
    user,       \* the client of user_id_ in map_of_users_, or 0
    thread,     \* thread[t]: its position, and the client it is at work on
    lock_,      \* who holds the dialog's lock_ between two steps
    connected,  \* clients whose rtc_connection_ is not null
    track,      \* RTCManager's audio_track_ and video_track_: whose it is, or 0
    sender,     \* audio_sender_ and video_sender_
    senders,    \* external: senders[c]: kinds the connection of c sends
    enabled,    \* <<kind, client>> of the tracks not disabled
    renders,    \* clients whose video track has a renderer
    camera,     \* clients whose video source got the camera
    created,    \* history, of the living: <<kind, client>> of the tracks created
    sending     \* history, of the living: those AddTrack() accepted

managerVars == <<track, sender, senders, enabled, renders, camera>>
histVars == <<created, sending>>
vars == <<made, user, thread, lock_, connected, managerVars, histVars>>

\* Every variable has its type; one client at a time is made, under lock_.
TypeOK ==
    /\ made \in 0..MaxClients
    /\ user \in 0..made
    /\ thread \in [Threads -> [at : {"idle", "connect", "audio", "video", "addAudio", "addVideo",
                                     "hold", "dropVideo", "dropAudio", "dropAudioSender",
                                     "dropVideoSender", "close"},
                               client : 0..made]]
    /\ lock_ \in {"none", "ui", "lws"}
    /\ connected \subseteq 1..made
    /\ track \in [Kinds -> 0..made] /\ sender \in [Kinds -> 0..made]
    /\ senders \in [Client -> SUBSET Kinds]
    /\ enabled \subseteq Kinds \X (1..made)
    /\ renders \subseteq 1..made /\ camera \subseteq 1..made
    /\ created \subseteq Kinds \X (1..made) /\ sending \subseteq created

Idle == [at |-> "idle", client |-> 0]
At(position, c) == [at |-> position, client |-> c]

Init ==
    /\ made = 0 /\ user = 0
    /\ thread = [t \in Threads |-> Idle]
    /\ lock_ = "none"
    /\ connected = {}
    /\ track = [k \in Kinds |-> 0] /\ sender = [k \in Kinds |-> 0]
    /\ senders = [c \in Client |-> {}]
    /\ enabled = {} /\ renders = {} /\ camera = {}
    /\ created = {} /\ sending = {}

-----------------------------------------------------------------------------
(* References to clients.                                                   *)

\* The signaling thread can do what t asks of it, or is t itself.
ServedAtOnce(t) == TRUE                 \* slip: the factory has no signaling thread
Served(t) == t = "sig" \/ thread["sig"] = Idle

\* t lets go of its client: the destructor runs if nobody else has it.
LastReference(t, c) == user # c /\ \A u \in Threads \ {t} : thread[u].client # c

Release(t) ==
    /\ thread[t].at = "hold"
    /\ thread' = [thread EXCEPT ![t] =
                    IF LastReference(t, @.client) THEN [@ EXCEPT !.at = "dropVideo"] ELSE Idle]
    /\ UNCHANGED <<made, user, lock_, connected, managerVars, histVars>>

\* GetClient().
GetClient(t) ==
    /\ thread[t] = Idle
    /\ lock_ = "none"
    /\ user # 0
    /\ thread' = [thread EXCEPT ![t] = At("hold", user)]
    /\ UNCHANGED <<made, user, lock_, connected, managerVars, histVars>>

\* AddClient() of the local user: the client in the map, ...
AddKnown ==
    /\ user # 0
    /\ GetClient("lws")

\* ... or a new one, put into the map under lock_, ...
AddNew ==
    /\ thread["lws"] = Idle
    /\ lock_ = "none"
    /\ user = 0
    /\ made < MaxClients
    /\ made' = made + 1
    /\ user' = made'
    /\ lock_' = "lws"
    /\ thread' = [thread EXCEPT !["lws"] = At("connect", made')]
    /\ UNCHANGED <<connected, managerVars, histVars>>

\* ... and given a connection by CreateConnection(), which may fail.
CreateConnection ==
    /\ thread["lws"].at = "connect"
    /\ Served("lws")
    /\ \/ /\ connected' = connected \cup {thread["lws"].client}
          /\ thread' = [thread EXCEPT !["lws"].at = "audio"]
          /\ UNCHANGED lock_
       \/ /\ thread' = [thread EXCEPT !["lws"].at = "hold"]
          /\ lock_' = "none"
          /\ UNCHANGED connected
    /\ UNCHANGED <<made, user, managerVars, histVars>>

\* RemoveAllClients(), under lock_ to its end: the map, then the renderers.
RemoveAllClientsUnlocked ==             \* slip: lock_ is not taken
    /\ thread["ui"] = Idle
    /\ user # 0
    /\ user' = 0
    /\ IF \A u \in Threads : thread[u].client # user
         THEN thread' = [thread EXCEPT !["ui"] = At("dropVideo", user)] /\ UNCHANGED renders
         ELSE renders' = {} /\ UNCHANGED thread
    /\ UNCHANGED <<made, lock_, connected, track, sender, senders, enabled, camera, histVars>>
RemoveAllClients ==
    /\ thread["ui"] = Idle
    /\ lock_ = "none"
    /\ user # 0
    /\ user' = 0
    /\ IF \A u \in Threads : thread[u].client # user
         THEN /\ thread' = [thread EXCEPT !["ui"] = At("dropVideo", user)]
              /\ lock_' = "ui"
              /\ UNCHANGED renders
         ELSE /\ renders' = {}
              /\ UNCHANGED <<thread, lock_>>
    /\ UNCHANGED <<made, connected, track, sender, senders, enabled, camera, histVars>>

-----------------------------------------------------------------------------
(* CreateLocalMediaStream(), on the lws thread.                             *)

\* Whose video source is in use: the manager, a sender or a renderer has the
\* track.
Capturing(c) ==
    /\ c \in camera
    /\ track["video"] = c \/ "video" \in senders[c] \/ c \in renders

\* The audio track is made, or audio_track_ becomes null.
CreateAudio ==
    /\ thread["lws"].at = "audio"
    /\ Served("lws")
    /\ LET c == thread["lws"].client
       IN \/ /\ track' = [track EXCEPT !["audio"] = c]
             /\ enabled' = enabled \cup {<<"audio", c>>}
             /\ created' = created \cup {<<"audio", c>>}
          \/ /\ track' = [track EXCEPT !["audio"] = 0]
             /\ UNCHANGED <<enabled, created>>
    /\ thread' = [thread EXCEPT !["lws"].at = "video"]
    /\ UNCHANGED <<made, user, lock_, connected, sender, senders, renders, camera, sending>>

\* CapturerTrackSource::Create() and VcmCapturer::Init(): no device, no
\* module, or a capture that does not start, as when the camera is in use.
\* The track is made even of a null source.
OpenCamera(c) ==
    \/ camera' = camera
    \/ /\ \A d \in Client : ~Capturing(d)
       /\ camera' = camera \cup {c}

\* The video track and its renderer.
CreateVideo ==
    /\ thread["lws"].at = "video"
    /\ Served("lws")
    /\ LET c == thread["lws"].client
       IN \/ /\ OpenCamera(c)
             /\ track' = [track EXCEPT !["video"] = c]
             /\ renders' = renders \cup {c}
             /\ enabled' = enabled \cup {<<"video", c>>}
             /\ created' = created \cup {<<"video", c>>}
          \/ /\ track' = [track EXCEPT !["video"] = 0]
             /\ UNCHANGED <<camera, renders, enabled, created>>
    /\ thread' = [thread EXCEPT !["lws"].at = "addAudio"]
    /\ UNCHANGED <<made, user, lock_, connected, sender, senders, sending>>

\* AddTrack() of a track the manager has; if it fails the sender is left.
AddTrackForgets(k, c) ==                \* slip: the sender is not kept
    IF track[k] = 0
      THEN UNCHANGED <<sender, senders, sending>>
      ELSE \/ /\ senders' = [senders EXCEPT ![c] = @ \cup {k}]
              /\ sending' = sending \cup {<<k, c>>}
              /\ UNCHANGED sender
           \/ UNCHANGED <<sender, senders, sending>>
AddTrackNull(k, c) ==                   \* slip: the track is not tested
    /\ senders' = [senders EXCEPT ![c] = @ \cup {k}]
    /\ sender' = [sender EXCEPT ![k] = c]
    /\ sending' = sending \cup {<<k, c>>}
AddTrack(k, c) ==
    IF track[k] = 0
      THEN UNCHANGED <<sender, senders, sending>>
      ELSE Served("lws") /\
           \/ /\ senders' = [senders EXCEPT ![c] = @ \cup {k}]
              /\ sender' = [sender EXCEPT ![k] = c]
              /\ sending' = sending \cup {<<k, c>>}
           \/ UNCHANGED <<sender, senders, sending>>

AddAudioTrack ==
    /\ thread["lws"].at = "addAudio"
    /\ AddTrack("audio", thread["lws"].client)
    /\ thread' = [thread EXCEPT !["lws"].at = "addVideo"]
    /\ UNCHANGED <<made, user, lock_, connected, track, enabled, renders, camera, created>>

\* ... after which AddClient() returns the client.
AddVideoTrack ==
    /\ thread["lws"].at = "addVideo"
    /\ AddTrack("video", thread["lws"].client)
    /\ thread' = [thread EXCEPT !["lws"].at = "hold"]
    /\ lock_' = "none"
    /\ UNCHANGED <<made, user, connected, track, enabled, renders, camera, created>>

-----------------------------------------------------------------------------
(* ~RtcClient() on thread t: DestroyLocalMediaStream(), which takes what    *)
(* the manager has now, and the connection.                                 *)

\* The step is one of the destructor of a connected client; what it takes from
\* the manager, if anything, it has the signaling thread disable or remove.
Destroying(t, position, taken) ==
    /\ thread[t].at = position
    /\ thread[t].client \in connected
    /\ taken # 0 => Served(t)

\* A track is disabled and forgotten.
DropTrackKeeps(k) ==                    \* slip: the reference is kept
    /\ enabled' = enabled \ {<<k, track[k]>>}
    /\ UNCHANGED track
DropTrack(k) ==
    /\ enabled' = enabled \ {<<k, track[k]>>}
    /\ track' = [track EXCEPT ![k] = 0]

DropVideo(t) ==
    /\ Destroying(t, "dropVideo", track["video"])
    /\ renders' = renders \ {track["video"]}
    /\ DropTrack("video")
    /\ thread' = [thread EXCEPT ![t].at = "dropAudio"]
    /\ UNCHANGED <<made, user, lock_, connected, sender, senders, camera, created, sending>>

DropAudio(t) ==
    /\ Destroying(t, "dropAudio", track["audio"])
    /\ DropTrack("audio")
    /\ thread' = [thread EXCEPT ![t].at = "dropAudioSender"]
    /\ UNCHANGED <<made, user, lock_, connected, sender, senders, renders, camera, created,
                   sending>>

\* RemoveTrack() of a sender of another connection fails; it is forgotten all
\* the same.
DropSender(k, c) ==
    /\ senders' = IF sender[k] = c THEN [senders EXCEPT ![c] = @ \ {k}] ELSE senders
    /\ sender' = [sender EXCEPT ![k] = 0]

DropAudioSender(t) ==
    /\ Destroying(t, "dropAudioSender", sender["audio"])
    /\ DropSender("audio", thread[t].client)
    /\ thread' = [thread EXCEPT ![t].at = "dropVideoSender"]
    /\ UNCHANGED <<made, user, lock_, connected, track, enabled, renders, camera, created,
                   sending>>

DropVideoSender(t) ==
    /\ Destroying(t, "dropVideoSender", sender["video"])
    /\ DropSender("video", thread[t].client)
    /\ thread' = [thread EXCEPT ![t].at = "close"]
    /\ UNCHANGED <<made, user, lock_, connected, track, enabled, renders, camera, created,
                   sending>>

\* No property asks for the tracks of a client that is gone.
Forget(c) ==
    LET Others(S) == {p \in S : p[2] # c}
    IN  /\ enabled' = Others(enabled)
        /\ created' = Others(created)
        /\ sending' = Others(sending)

\* The connection is closed, with its senders.  There is nothing before that
\* to do for a client without one.  RemoveAllClients() goes on to the
\* renderers.
Close(t) ==
    /\ \/ thread[t].at = "close" /\ Served(t)
       \/ thread[t].at = "dropVideo" /\ thread[t].client \notin connected
    /\ senders' = [senders EXCEPT ![thread[t].client] = {}]
    /\ connected' = connected \ {thread[t].client}
    /\ thread' = [thread EXCEPT ![t] = Idle]
    /\ IF t = "ui" THEN renders' = {} /\ lock_' = "none" ELSE UNCHANGED <<renders, lock_>>
    /\ Forget(thread[t].client)
    /\ UNCHANGED <<made, user, track, sender, camera>>

-----------------------------------------------------------------------------
Next ==
    \/ AddKnown \/ AddNew \/ RemoveAllClients \/ GetClient("sig")
    \/ CreateConnection \/ CreateAudio \/ CreateVideo \/ AddAudioTrack \/ AddVideoTrack
    \/ \E t \in {"lws", "sig"} : Release(t)
    \/ \E t \in Threads : \/ DropVideo(t) \/ DropAudio(t)
                          \/ DropAudioSender(t) \/ DropVideoSender(t) \/ Close(t)

Spec == Init /\ [][Next]_vars

-----------------------------------------------------------------------------
(* Properties.                                                              *)

Alive(c) == user = c \/ \E t \in Threads : thread[t].client = c

Complete(c) == c \in connected /\ lock_ # "lws"

\* The stream of the client in the map is all there, once it is made: each
\* track that could be made is in the manager and enabled, each one that was
\* accepted is sent.  The destructor of an older client, which takes what the
\* manager has, never comes to it.
StreamIntact ==
    user # 0 /\ Complete(user) =>
        \A k \in Kinds :
            /\ <<k, user>> \in created => track[k] = user /\ <<k, user>> \in enabled
            /\ <<k, user>> \in sending => sender[k] = user /\ k \in senders[user]

\* However destructors and a new client's creation overlap, neither the
\* camera nor a track or sender outlives the client it was for.
NothingOutlivesClient ==
    \A c \in 1..made : ~Alive(c) =>
        /\ ~Capturing(c)
        /\ \A k \in Kinds : track[k] # c /\ sender[k] # c

Drops == {"dropVideo", "dropAudio", "dropAudioSender", "dropVideoSender", "close"}

\* A destructor runs while no local client is in the map, or else while the
\* next one, in the map already, waits for its connection: in the destructor on
\* the signaling thread nobody makes a stream, since that thread would have to.
DestroyedBefore ==
    \A t \in Threads : thread[t].at \in Drops =>
        user = 0 \/ (t = "sig" /\ thread["lws"].at = "connect")
=============================================================================
