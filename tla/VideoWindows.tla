---------------------------- MODULE VideoWindows ----------------------------
(***************************************************************************)
(* Which remote video is shown in which window: the dialog's three maps    *)
(* (map_of_video_renders_, map_of_video_wins_, win_spare_) and what feeds  *)
(* them, the PeerConnectionObserver of every connection and the local      *)
(* media stream of RTCManager.                                             *)
(*                                                                         *)
(* AddTrack() runs on WebRTC's signaling thread, RemoveTrack() on that     *)
(* thread or on whatever thread drops the last reference to a client, and  *)
(* RemoveAllClients() on the UI thread; the maps have no lock of their     *)
(* own.  A single call is atomic here, the calls interleave freely.        *)
(***************************************************************************)
EXTENDS Integers, Sequences

CONSTANTS
    Peers,         \* connections to other users (client, connection, observer)
    RemoteTracks,  \* ids of remote video tracks; two connections may share one
    LocalTracks,   \* ids of the local video track, new for every stream
    Windows,       \* the remote windows, three in the dialog
    Pool,          \* the order in which OnInitDialog() pushes them
    LocalWin,      \* the window of the local video
    NULL,          \* no window, no track
    Absent         \* no entry in a map

Tracks == RemoteTracks \cup LocalTracks

ASSUME NamesAssumption ==
    /\ RemoteTracks \cap LocalTracks = {}
    /\ NULL \notin Tracks
    /\ {LocalWin, NULL, Absent} \cap Windows = {}
    /\ NULL \notin Peers
    /\ LocalWin # NULL /\ LocalWin # Absent /\ NULL # Absent

ASSUME PoolAssumption ==
    /\ Pool \in Seq(Windows)
    /\ \A i, j \in 1..Len(Pool) : i # j => Pool[i] # Pool[j]
    /\ \A w \in Windows : \E i \in 1..Len(Pool) : Pool[i] = w

VARIABLES
    renders,       \* map_of_video_renders_: the window each renderer draws in
    wins,          \* map_of_video_wins_: the window id recorded for a track
    spare,         \* win_spare_
    video_tracks_, \* video_tracks_[p]: tracks registered with p's observer
    mode,          \* mode[p]: where connection p is in its life
    clearing,      \* the connection whose loss of ICE is being handled
    video_track_,  \* RTCManager: the current local track
    local,         \* the local client: in the map, or dropped and not yet gone
    ui             \* "removing" inside RemoveAllClients(), which holds lock_

mapVars == <<renders, wins, spare>>
peerVars == <<video_tracks_, mode, clearing>>
localVars == <<video_track_, local>>
vars == <<mapVars, peerVars, localVars, ui>>

Modes == {"none",       \* not in use
          "live",       \* in map_of_users_
          "held",       \* out of the map, another thread still refers to it
          "dying",      \* being destroyed by RemoveAllClients()
          "releasing"}  \* being destroyed by the last thread that held it

LocalModes == {"none", "live", "held", "dying"}

MapType ==
    /\ renders \in [Tracks -> Windows \cup {LocalWin, NULL, Absent}]
    /\ wins \in [Tracks -> Windows \cup {Absent}]
    /\ spare \in Seq(Windows)

\* Every variable has its type; only windows ever enter the pool.
TypeOK ==
    /\ MapType
    /\ video_tracks_ \in [Peers -> SUBSET RemoteTracks]
    /\ mode \in [Peers -> Modes]
    /\ clearing \in Peers \cup {NULL}
    /\ video_track_ \in LocalTracks \cup {NULL}
    /\ local \in LocalModes
    /\ ui \in {"idle", "removing"}

\* OnInitDialog() fills the pool.
Init ==
    /\ renders = [t \in Tracks |-> Absent]
    /\ wins = [t \in Tracks |-> Absent]
    /\ spare = Pool
    /\ video_tracks_ = [p \in Peers |-> {}]
    /\ mode = [p \in Peers |-> "none"]
    /\ clearing = NULL
    /\ video_track_ = NULL
    /\ local = "none"
    /\ ui = "idle"

-----------------------------------------------------------------------------
(* The dialog's side: AddTrack() with AllocateWindow(), RemoveTrack().      *)

\* AllocateWindow()'s test: a renderer already draws in w.
IsShown(w) == \E t \in Tracks : renders[t] = w

\* A renderer for a new track; win_spare_ empty leaves it without a window.
AddTrackUnseen(t) ==
    /\ renders[t] = Absent
    /\ spare = << >>
    /\ renders' = [renders EXCEPT ![t] = NULL]
    /\ UNCHANGED <<wins, spare>>

\* A window is popped and recorded, unless some renderer draws in it.
AddTrackFirstWindow(t) ==           \* slip: neither pop() nor the test
    /\ renders[t] = Absent
    /\ spare # << >>
    /\ renders' = [renders EXCEPT ![t] = Head(spare)]
    /\ wins' = [wins EXCEPT ![t] = Head(spare)]
    /\ spare' = spare
AddTrackShown(t) ==
    /\ renders[t] = Absent
    /\ spare # << >>
    /\ spare' = Tail(spare)
    /\ IF IsShown(Head(spare))
         THEN /\ renders' = [renders EXCEPT ![t] = NULL]
              /\ wins' = wins
         ELSE /\ renders' = [renders EXCEPT ![t] = Head(spare)]
              /\ wins' = [wins EXCEPT ![t] = Head(spare)]

\* The id has a renderer: it switches to the new track object.
AddTrackAgain(t) == renders[t] # Absent /\ UNCHANGED mapVars

AddTrack(t) == AddTrackUnseen(t) \/ AddTrackShown(t) \/ AddTrackAgain(t)

RemoveTrackKeepsRecord(t) ==        \* slip: map_of_video_wins_ is not erased
    /\ renders' = [renders EXCEPT ![t] = Absent]
    /\ wins' = wins
    /\ spare' = IF wins[t] # Absent THEN Append(spare, wins[t]) ELSE spare
RemoveTrackKeepsRenderer(t) ==      \* slip: the renderer is not erased
    /\ renders' = renders
    /\ wins' = [wins EXCEPT ![t] = Absent]
    /\ spare' = IF wins[t] # Absent THEN Append(spare, wins[t]) ELSE spare
RemoveTrackKeepsWindow(t) ==        \* slip: the window is not given back
    /\ renders' = [renders EXCEPT ![t] = Absent]
    /\ wins' = [wins EXCEPT ![t] = Absent]
    /\ spare' = spare
RemoveTrackUnchecked(t) ==          \* slip: the find() result is not tested
    /\ renders' = [renders EXCEPT ![t] = Absent]
    /\ wins' = [wins EXCEPT ![t] = Absent]
    /\ spare' = Append(spare, wins[t])
RemoveTrack(t) ==
    /\ renders' = [renders EXCEPT ![t] = Absent]
    /\ wins' = [wins EXCEPT ![t] = Absent]
    /\ spare' = IF wins[t] # Absent THEN Append(spare, wins[t]) ELSE spare

-----------------------------------------------------------------------------
(* A connection's observer.  Its callbacks run on the signaling thread.     *)

SignalingThreadFree == clearing = NULL

IsOpen(p) == mode[p] \in {"live", "held"}

\* OnTrack(), while the peer connection is open.
OnTrack(p, t) ==
    /\ SignalingThreadFree
    /\ IsOpen(p)
    /\ video_tracks_' = [video_tracks_ EXCEPT ![p] = @ \cup {t}]
    /\ AddTrack(t)
    /\ UNCHANGED <<mode, clearing, localVars, ui>>

\* OnRemoveTrack(), of a track that may have been cleared before.
OnRemoveTrack(p, t) ==
    /\ SignalingThreadFree
    /\ IsOpen(p)
    /\ video_tracks_' = [video_tracks_ EXCEPT ![p] = @ \ {t}]
    /\ RemoveTrack(t)
    /\ UNCHANGED <<mode, clearing, localVars, ui>>

\* OnStandardizedIceConnectionChange(Disconnected) clears the tracks.
IceDisconnected(p) ==
    /\ SignalingThreadFree
    /\ IsOpen(p)
    /\ clearing' = p
    /\ UNCHANGED <<mapVars, video_tracks_, mode, localVars, ui>>

\* ClearAllRegisteredTracks(), one RemoveTrack() after the other: after an
\* ICE disconnect, or in the observer's destructor.
IsClearing(p) == clearing = p \/ mode[p] \in {"dying", "releasing"}

ClearOneTrack(p, t) ==
    /\ IsClearing(p)
    /\ t \in video_tracks_[p]
    /\ video_tracks_' = [video_tracks_ EXCEPT ![p] = @ \ {t}]
    /\ RemoveTrack(t)
    /\ UNCHANGED <<mode, clearing, localVars, ui>>

AllCleared(p) ==
    /\ IsClearing(p)
    /\ video_tracks_[p] = {}
    /\ IF clearing = p
         THEN clearing' = NULL /\ mode' = mode
         ELSE mode' = [mode EXCEPT ![p] = "none"] /\ clearing' = clearing
    /\ UNCHANGED <<mapVars, video_tracks_, localVars, ui>>

-----------------------------------------------------------------------------
(* Clients come and go.  lock_ excludes RemoveAllClients() from AddClient() *)
(* and RemoveClient().                                                      *)

\* AddClient() of another user creates a connection with its observer.
AddClient(p) ==
    /\ ui = "idle"
    /\ mode[p] = "none"
    /\ mode' = [mode EXCEPT ![p] = "live"]
    /\ UNCHANGED <<mapVars, video_tracks_, clearing, localVars, ui>>

\* RemoveClient() on a peer-leave; the client dies with its last reference.
RemoveClient(p) ==
    /\ ui = "idle"
    /\ mode[p] = "live"
    /\ mode' = [mode EXCEPT ![p] = "held"]
    /\ UNCHANGED <<mapVars, video_tracks_, clearing, localVars, ui>>

\* The last reference is dropped: ~RTCConnection() closes the connection,
\* which waits for the signaling thread, and ~PeerConnectionObserver() clears
\* the tracks.
Release(p) ==
    /\ SignalingThreadFree
    /\ mode[p] = "held"
    /\ mode' = [mode EXCEPT ![p] = "releasing"]
    /\ UNCHANGED <<mapVars, video_tracks_, clearing, localVars, ui>>

\* AddClient() of the local user: CreateLocalMediaStream() with show_me.  An
\* earlier local client is gone by then: only OnIceCandidate() can still hold
\* one, on the signaling thread, for which the new connection waits.
CreateLocalMediaStream(t) ==
    /\ ui = "idle"
    /\ local = "none"
    /\ renders[t] = Absent
    /\ local' = "live"
    /\ video_track_' = t
    /\ renders' = [renders EXCEPT ![t] = LocalWin]
    /\ UNCHANGED <<wins, spare, peerVars, ui>>

\* ~RtcClient() of the local user: DestroyLocalMediaStream().
DestroyLocalMediaStream ==
    /\ local \in {"held", "dying"}
    /\ local' = "none"
    /\ video_track_' = NULL
    /\ RemoveTrack(video_track_)
    /\ UNCHANGED <<peerVars, ui>>

\* RemoveAllClients(): map_of_users_.clear() destroys every client no other
\* thread (OnIceCandidate(), a response handler) refers to at the moment.
RemoveAllClients ==
    /\ ui = "idle"
    /\ SignalingThreadFree
    /\ mode' \in {m \in [Peers -> Modes] : \A p \in Peers :
                     m[p] \in IF mode[p] = "live" THEN {"held", "dying"} ELSE {mode[p]}}
    /\ local' \in IF local = "live" THEN {"held", "dying"} ELSE {local}
    /\ ui' = "removing"
    /\ UNCHANGED <<mapVars, video_tracks_, clearing, video_track_>>

\* ... and then map_of_video_renders_.clear(), but not the other two maps.
ClearRenders ==
    /\ ui = "removing"
    /\ \A p \in Peers : mode[p] # "dying"
    /\ local # "dying"
    /\ renders' = [t \in Tracks |-> Absent]
    /\ ui' = "idle"
    /\ UNCHANGED <<wins, spare, peerVars, localVars>>

-----------------------------------------------------------------------------

Next ==
    \/ \E p \in Peers :
          \/ \E t \in RemoteTracks :
                OnTrack(p, t) \/ OnRemoveTrack(p, t) \/ ClearOneTrack(p, t)
          \/ IceDisconnected(p) \/ AllCleared(p)
          \/ AddClient(p) \/ RemoveClient(p) \/ Release(p)
    \/ \E t \in LocalTracks : CreateLocalMediaStream(t)
    \/ DestroyLocalMediaStream
    \/ RemoveAllClients \/ ClearRenders

Spec == Init /\ [][Next]_vars

-----------------------------------------------------------------------------
(* Properties.                                                              *)

Spare == {spare[i] : i \in 1..Len(spare)}

\* However AddTrack(), RemoveTrack() and RemoveAllClients() interleave, a
\* window is never in two places: the pool holds it once, map_of_video_wins_
\* gives it to one track, and never both.  A renderer draws in no pool window
\* but the one recorded for its track.
OneOwnerPerWindow ==
    /\ \A i, j \in 1..Len(spare) : i # j => spare[i] # spare[j]
    /\ \A t \in Tracks : wins[t] \notin Spare
    /\ \A t, u \in Tracks : wins[t] = wins[u] /\ wins[t] # Absent => t = u
    /\ \A t \in Tracks : renders[t] \in Windows => wins[t] = renders[t]

\* README: "Show video in different windows".  Two tracks are never drawn in
\* the same remote window.
DifferentWindows ==
    \A t, u \in Tracks : renders[t] = renders[u] /\ renders[t] \in Windows => t = u

\* A renderer always has a track behind it, registered with some observer or
\* the local one: it is erased before the last connection that registered
\* its track lets go of it, so that it is never left drawing a dead track.
RendererHasTrack ==
    \A t \in Tracks : renders[t] # Absent =>
        \/ t = video_track_
        \/ \E p \in Peers : t \in video_tracks_[p]

\* The local client, wherever it is, has the manager's local track.
LocalTrackKept == local # "none" <=> video_track_ # NULL

\* The conjunction of the above is inductive (module VideoWindowsProofs).
Inv == TypeOK /\ OneOwnerPerWindow /\ RendererHasTrack /\ LocalTrackKept

\* A window is in the pool or recorded for a track; a window that is in
\* neither any more is lost to the application.
Lost == {w \in Windows : w \notin Spare /\ \A t \in Tracks : wins[t] # w}

\* The only way to lose a window is to show again a track whose record
\* outlived its renderer, as RemoveAllClients() leaves it for a client that
\* another thread still holds; in particular the duplicate test of
\* AllocateWindow() never throws a window away.
LostOnlyByShowingAgain ==
    [][Lost' # Lost =>
          \E t \in RemoteTracks : /\ wins[t] # Absent
                                  /\ renders[t] = Absent
                                  /\ Lost' = Lost \cup {wins[t]}]_vars

=============================================================================
