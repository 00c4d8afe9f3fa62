------------------------- MODULE VideoWindowsProofs -------------------------
(***************************************************************************)
(* Proofs about VideoWindows for any number of connections, tracks and     *)
(* windows: the inductive invariant Inv, that two tracks are never drawn   *)
(* in the same window, and how a window is lost.                           *)
(***************************************************************************)
EXTENDS VideoWindows, SequenceTheorems, TLAPS

\* The full pool and the empty maps satisfy the invariant.
LEMMA InitInv == Init => Inv
<1> SUFFICES ASSUME Init PROVE Inv
  OBVIOUS
<1> USE NamesAssumption, PoolAssumption
<1>1. TypeOK
  BY DEF Init, TypeOK, MapType, Modes, LocalModes
<1>2. OneOwnerPerWindow
  BY DEF Init, OneOwnerPerWindow, Spare
<1>3. RendererHasTrack /\ LocalTrackKept
  BY DEF Init, RendererHasTrack, LocalTrackKept
<1> QED BY <1>1, <1>2, <1>3 DEF Inv

-----------------------------------------------------------------------------
(***************************************************************************)
(* What the dialog's operations do to the three maps.                      *)
(***************************************************************************)

\* AllocateWindow() with an empty pool, and the local renderer: a renderer
\* outside the pool's windows.
LEMMA OutsidePool ==
    ASSUME MapType, OneOwnerPerWindow, NEW t \in Tracks, NEW w \in {NULL, LocalWin},
           renders' = [renders EXCEPT ![t] = w], UNCHANGED <<wins, spare>>
    PROVE  MapType' /\ OneOwnerPerWindow'
<1> USE NamesAssumption DEF MapType
<1>1. MapType'
  OBVIOUS
<1>2. OneOwnerPerWindow'
  BY DEF OneOwnerPerWindow, Spare
<1> QED BY <1>1, <1>2

\* Popping the pool and recording the window keeps one owner per window.
LEMMA PopWindow ==
    ASSUME MapType, OneOwnerPerWindow, NEW t \in Tracks, AddTrackShown(t)
    PROVE  MapType' /\ OneOwnerPerWindow'
<1> USE NamesAssumption DEF MapType
<1> DEFINE w == Head(spare)
<1>1. /\ spare' = Tail(spare)
      /\ spare # << >>
  BY DEF AddTrackShown
<1>2. /\ w \in Windows
      /\ spare' \in Seq(Windows)
      /\ Len(spare) \in Nat \ {0}
      /\ Len(spare') = Len(spare) - 1
      /\ \A i \in 1..Len(spare') : spare'[i] = spare[i + 1]
  BY <1>1, HeadTailProperties, EmptySeq
<1>3. w = spare[1]
  BY <1>1
<1>4. \A i, j \in 1..Len(spare') : i # j => spare'[i] # spare'[j]
  BY <1>2 DEF OneOwnerPerWindow
<1>5. \A v \in Spare' : v \in Spare /\ v # w
  BY <1>2, <1>3 DEF OneOwnerPerWindow, Spare
<1>6. w \in Spare
  BY <1>2, <1>3 DEF Spare
<1>7. \A u \in Tracks : wins[u] # w
  BY <1>6 DEF OneOwnerPerWindow
<1>8. CASE renders' = [renders EXCEPT ![t] = NULL] /\ wins' = wins
  <2>1. MapType'
    BY <1>2, <1>8
  <2>2. \A u \in Tracks : wins'[u] \notin Spare'
    BY <1>5, <1>8 DEF OneOwnerPerWindow
  <2>3. \A u \in Tracks : renders'[u] \in Windows => wins'[u] = renders'[u]
    BY <1>8 DEF OneOwnerPerWindow
  <2> QED BY <1>4, <1>8, <2>1, <2>2, <2>3 DEF OneOwnerPerWindow
<1>9. CASE renders' = [renders EXCEPT ![t] = w] /\ wins' = [wins EXCEPT ![t] = w]
  <2>1. MapType'
    BY <1>2, <1>9
  <2>2. \A u \in Tracks : wins'[u] \notin Spare'
    BY <1>5, <1>9 DEF OneOwnerPerWindow
  <2>3. \A u \in Tracks : renders'[u] \in Windows => wins'[u] = renders'[u]
    BY <1>9 DEF OneOwnerPerWindow
  <2>4. \A u, v \in Tracks : wins'[u] = wins'[v] /\ wins'[u] # Absent => u = v
    BY <1>7, <1>9 DEF OneOwnerPerWindow
  <2> QED BY <1>4, <2>1, <2>2, <2>3, <2>4 DEF OneOwnerPerWindow
<1> QED BY <1>8, <1>9 DEF AddTrackShown

\* Giving the window back keeps one owner per window.
LEMMA PushWindow ==
    ASSUME MapType, OneOwnerPerWindow, NEW t \in Tracks, RemoveTrack(t)
    PROVE  MapType' /\ OneOwnerPerWindow'
<1> USE NamesAssumption DEF MapType
<1>1. /\ renders' = [renders EXCEPT ![t] = Absent]
      /\ wins' = [wins EXCEPT ![t] = Absent]
  BY DEF RemoveTrack
<1>2. /\ \A u, v \in Tracks : wins'[u] = wins'[v] /\ wins'[u] # Absent => u = v
      /\ \A u \in Tracks : renders'[u] \in Windows => wins'[u] = renders'[u]
  BY <1>1 DEF OneOwnerPerWindow
<1>3. CASE wins[t] = Absent
  <2>1. spare' = spare
    BY <1>3 DEF RemoveTrack
  <2>2. MapType'
    BY <1>1, <2>1
  <2>3. \A u \in Tracks : wins'[u] \notin Spare'
    BY <1>1, <1>3, <2>1 DEF OneOwnerPerWindow, Spare
  <2> QED BY <1>2, <2>1, <2>2, <2>3 DEF OneOwnerPerWindow
<1>4. CASE wins[t] # Absent
  <2> DEFINE w == wins[t]
  <2>1. w \in Windows /\ spare' = Append(spare, w)
    BY <1>4 DEF RemoveTrack
  <2>2. /\ spare' \in Seq(Windows)
        /\ Len(spare) \in Nat
        /\ Len(spare') = Len(spare) + 1
        /\ \A i \in 1..Len(spare) : spare'[i] = spare[i]
        /\ spare'[Len(spare) + 1] = w
    BY <2>1, AppendProperties, LenProperties
  <2>3. MapType'
    BY <1>1, <2>2
  <2>4. \A i \in 1..Len(spare) : spare[i] # w
    BY DEF OneOwnerPerWindow, Spare
  <2>5. \A i \in 1..Len(spare') : i \in 1..Len(spare) \/ i = Len(spare) + 1
    BY <2>2
  <2>6. \A i, j \in 1..Len(spare') : i # j => spare'[i] # spare'[j]
    BY <2>2, <2>4, <2>5 DEF OneOwnerPerWindow
  <2>7. \A v \in Spare' : v \in Spare \/ v = w
    BY <2>2, <2>5 DEF Spare
  <2>8. \A u \in Tracks : wins'[u] \notin Spare'
    <3>1. Absent \notin Spare'
      BY <2>2, ElementOfSeq DEF Spare
    <3>2. ASSUME NEW u \in Tracks, u # t PROVE wins'[u] \notin Spare'
      BY <1>1, <1>4, <2>7, <3>2 DEF OneOwnerPerWindow
    <3> QED BY <1>1, <3>1, <3>2
  <2> QED BY <1>2, <2>3, <2>6, <2>8 DEF OneOwnerPerWindow
<1> QED BY <1>3, <1>4

\* Every step leaves the three maps as they are or applies one operation.
LEMMA MapSteps ==
    ASSUME Inv, [Next]_vars
    PROVE  \/ UNCHANGED mapVars
           \/ \E t \in RemoteTracks : AddTrackUnseen(t) \/ AddTrackShown(t)
           \/ \E t \in Tracks : RemoveTrack(t)
           \/ \E t \in LocalTracks : CreateLocalMediaStream(t)
           \/ ClearRenders
<1> USE NamesAssumption DEF Tracks
<1>1. ASSUME NEW p \in Peers, NEW t \in RemoteTracks,
             OnTrack(p, t) \/ OnRemoveTrack(p, t) \/ ClearOneTrack(p, t)
      PROVE  \/ UNCHANGED mapVars
             \/ \E u \in RemoteTracks : AddTrackUnseen(u) \/ AddTrackShown(u)
             \/ \E u \in Tracks : RemoveTrack(u)
  BY <1>1 DEF OnTrack, OnRemoveTrack, ClearOneTrack, AddTrack, AddTrackAgain
<1>2. ASSUME NEW p \in Peers, \/ IceDisconnected(p) \/ AllCleared(p) \/ AddClient(p)
                              \/ RemoveClient(p) \/ Release(p)
      PROVE  UNCHANGED mapVars
  BY <1>2 DEF IceDisconnected, AllCleared, AddClient, RemoveClient, Release
<1>3. CASE DestroyLocalMediaStream
  <2>1. video_track_ \in Tracks
    BY <1>3 DEF DestroyLocalMediaStream, Inv, LocalTrackKept, TypeOK
  <2> QED BY <1>3, <2>1 DEF DestroyLocalMediaStream
<1>4. CASE RemoveAllClients
  BY <1>4 DEF RemoveAllClients
<1>5. CASE UNCHANGED vars
  BY <1>5 DEF vars
<1> QED BY <1>1, <1>2, <1>3, <1>4, <1>5 DEF Next

\* Every step keeps one owner per window.
LEMMA MapNext == Inv /\ [Next]_vars => MapType' /\ OneOwnerPerWindow'
<1> SUFFICES ASSUME Inv, [Next]_vars PROVE MapType' /\ OneOwnerPerWindow'
  OBVIOUS
<1> USE NamesAssumption DEF Inv, TypeOK
<1>1. CASE UNCHANGED mapVars
  BY <1>1 DEF mapVars, MapType, OneOwnerPerWindow, Spare
<1>2. ASSUME NEW t \in Tracks, AddTrackUnseen(t) PROVE MapType' /\ OneOwnerPerWindow'
  BY <1>2, OutsidePool DEF AddTrackUnseen
<1>3. ASSUME NEW t \in LocalTracks, CreateLocalMediaStream(t)
      PROVE  MapType' /\ OneOwnerPerWindow'
  <2>1. t \in Tracks
    BY DEF Tracks
  <2> QED BY <1>3, <2>1, OutsidePool DEF CreateLocalMediaStream
<1>4. CASE ClearRenders
  BY <1>4 DEF ClearRenders, MapType, OneOwnerPerWindow, Spare
<1>5. RemoteTracks \subseteq Tracks
  BY DEF Tracks
<1> QED BY <1>1, <1>2, <1>3, <1>4, <1>5, PopWindow, PushWindow, MapSteps

-----------------------------------------------------------------------------
(***************************************************************************)
(* Connections, the local stream and the tracks behind the renderers.      *)
(***************************************************************************)

\* Every step keeps the types, and the manager's track with the local client.
LEMMA PeerTypeNext == Inv /\ [Next]_vars => TypeOK' /\ LocalTrackKept'
<1> SUFFICES ASSUME Inv, [Next]_vars PROVE TypeOK' /\ LocalTrackKept'
  OBVIOUS
<1> USE NamesAssumption
<1>0. MapType'
  BY MapNext
<1> USE DEF Inv, TypeOK, Modes, LocalModes, Tracks
<1>1. ASSUME NEW p \in Peers, NEW t \in RemoteTracks,
             OnTrack(p, t) \/ OnRemoveTrack(p, t) \/ ClearOneTrack(p, t)
      PROVE  TypeOK' /\ LocalTrackKept'
  <2>1. UNCHANGED <<mode, clearing, localVars, ui>>
    BY <1>1 DEF OnTrack, OnRemoveTrack, ClearOneTrack
  <2>2. video_tracks_' \in [Peers -> SUBSET RemoteTracks]
    BY <1>1 DEF OnTrack, OnRemoveTrack, ClearOneTrack
  <2> QED BY <1>0, <2>1, <2>2 DEF localVars, LocalTrackKept
<1>2. ASSUME NEW p \in Peers, \/ IceDisconnected(p) \/ AllCleared(p) \/ AddClient(p)
                              \/ RemoveClient(p) \/ Release(p)
      PROVE  TypeOK' /\ LocalTrackKept'
  <2>1. UNCHANGED <<video_tracks_, localVars, ui>>
    BY <1>2 DEF IceDisconnected, AllCleared, AddClient, RemoveClient, Release
  <2>2. mode' \in [Peers -> Modes] /\ clearing' \in Peers \cup {NULL}
    BY <1>2 DEF IceDisconnected, AllCleared, AddClient, RemoveClient, Release
  <2> QED BY <1>0, <2>1, <2>2 DEF localVars, LocalTrackKept
<1>3. ASSUME NEW t \in LocalTracks, CreateLocalMediaStream(t)
      PROVE  TypeOK' /\ LocalTrackKept'
  BY <1>0, <1>3 DEF CreateLocalMediaStream, peerVars, LocalTrackKept
<1>4. CASE DestroyLocalMediaStream
  BY <1>0, <1>4 DEF DestroyLocalMediaStream, peerVars, LocalTrackKept
<1>5. CASE RemoveAllClients
  <2>1. mode' \in [Peers -> Modes] /\ local' \in LocalModes
    BY <1>5 DEF RemoveAllClients
  <2>2. local' = "none" <=> local = "none"
    BY <1>5 DEF RemoveAllClients
  <2> QED BY <1>0, <1>5, <2>1, <2>2 DEF RemoveAllClients, LocalTrackKept
<1>6. CASE ClearRenders
  BY <1>0, <1>6 DEF ClearRenders, peerVars, localVars, LocalTrackKept
<1>7. CASE UNCHANGED vars
  BY <1>0, <1>7 DEF vars, peerVars, localVars, LocalTrackKept
<1> QED BY <1>1, <1>2, <1>3, <1>4, <1>5, <1>6, <1>7 DEF Next

\* Every step keeps a registered track behind every renderer.
LEMMA RendererHasTrackNext == Inv /\ [Next]_vars => RendererHasTrack'
<1> SUFFICES ASSUME Inv, [Next]_vars PROVE RendererHasTrack'
  OBVIOUS
<1> USE NamesAssumption DEF Inv, TypeOK, MapType
<1>1. ASSUME NEW p \in Peers, NEW t \in RemoteTracks, OnTrack(p, t)
      PROVE  RendererHasTrack'
  <2>1. t \in video_tracks_'[p] /\ \A q \in Peers : video_tracks_[q] \subseteq video_tracks_'[q]
    BY <1>1 DEF OnTrack
  <2>2. \A u \in Tracks : renders'[u] # Absent => u = t \/ renders[u] # Absent
    BY <1>1 DEF OnTrack, AddTrack, AddTrackUnseen, AddTrackShown, AddTrackAgain, mapVars
  <2>3. video_track_' = video_track_
    BY <1>1 DEF OnTrack, localVars
  <2> QED BY <2>1, <2>2, <2>3 DEF RendererHasTrack
<1>2. ASSUME NEW p \in Peers, NEW t \in RemoteTracks, OnRemoveTrack(p, t) \/ ClearOneTrack(p, t)
      PROVE  RendererHasTrack'
  <2>1. \A q \in Peers : \A u \in video_tracks_[q] : u # t => u \in video_tracks_'[q]
    BY <1>2 DEF OnRemoveTrack, ClearOneTrack
  <2>2. \A u \in Tracks : renders'[u] # Absent => u # t /\ renders[u] # Absent
    BY <1>2 DEF OnRemoveTrack, ClearOneTrack, RemoveTrack
  <2>3. video_track_' = video_track_
    BY <1>2 DEF OnRemoveTrack, ClearOneTrack, localVars
  <2> QED BY <2>1, <2>2, <2>3 DEF RendererHasTrack
<1>3. CASE UNCHANGED <<renders, video_tracks_, video_track_>>
  BY <1>3 DEF RendererHasTrack
<1>4. ASSUME NEW p \in Peers, \/ IceDisconnected(p) \/ AllCleared(p) \/ AddClient(p)
                              \/ RemoveClient(p) \/ Release(p)
      PROVE  RendererHasTrack'
  BY <1>3, <1>4 DEF IceDisconnected, AllCleared, AddClient, RemoveClient, Release,
     mapVars, localVars
<1>5. ASSUME NEW t \in LocalTracks, CreateLocalMediaStream(t) PROVE RendererHasTrack'
  <2>1. video_track_ \notin Tracks
    BY <1>5 DEF CreateLocalMediaStream, LocalTrackKept
  <2> QED BY <1>5, <2>1 DEF CreateLocalMediaStream, peerVars, RendererHasTrack
<1>6. CASE DestroyLocalMediaStream
  <2>1. \A u \in Tracks : renders'[u] # Absent => u # video_track_ /\ renders[u] # Absent
    BY <1>6 DEF DestroyLocalMediaStream, RemoveTrack
  <2> QED BY <1>6, <2>1 DEF DestroyLocalMediaStream, peerVars, RendererHasTrack
<1>7. CASE RemoveAllClients \/ UNCHANGED vars
  BY <1>3, <1>7 DEF RemoveAllClients, mapVars, vars, peerVars, localVars
<1>8. CASE ClearRenders
  BY <1>8 DEF ClearRenders, RendererHasTrack
<1> QED BY <1>1, <1>2, <1>4, <1>5, <1>6, <1>7, <1>8 DEF Next

-----------------------------------------------------------------------------
(***************************************************************************)
(* Windows that are lost.                                                  *)
(***************************************************************************)

\* AddTrack() of a new renderer loses the window its track still had on
\* record, if there is one, and no other.
LEMMA PopLoses ==
    ASSUME MapType, OneOwnerPerWindow, NEW t \in Tracks, AddTrackShown(t)
    PROVE  /\ renders[t] = Absent
           /\ wins[t] = Absent => Lost' = Lost
           /\ wins[t] # Absent => Lost' = Lost \cup {wins[t]}
<1> USE NamesAssumption DEF MapType
<1>1. PICK w \in Windows : w = Head(spare)
  BY HeadTailProperties DEF AddTrackShown
<1>2. /\ spare' = Tail(spare) /\ spare # << >> /\ renders[t] = Absent
  BY DEF AddTrackShown
<1>3. /\ Len(spare) \in Nat \ {0}
      /\ Len(spare') = Len(spare) - 1
      /\ \A i \in 1..Len(spare') : spare'[i] = spare[i + 1]
      /\ w = spare[1]
  BY <1>1, <1>2, HeadTailProperties, EmptySeq
<1>4. w \in Spare /\ Spare' \subseteq Spare
  BY <1>3 DEF Spare
<1>5. Spare \subseteq Spare' \cup {w}
  <2> SUFFICES ASSUME NEW i \in 1..Len(spare) PROVE spare[i] \in Spare' \cup {w}
    BY DEF Spare
  <2>1. CASE i = 1
    BY <1>3, <2>1
  <2>2. CASE i # 1
    <3>1. i - 1 \in 1..Len(spare') /\ spare'[i - 1] = spare[i]
      BY <1>3, <2>2
    <3> QED BY <3>1 DEF Spare
  <2> QED BY <2>1, <2>2
<1>6. \A u \in Tracks : wins[u] # w /\ renders[u] # w
  BY <1>1, <1>4 DEF OneOwnerPerWindow
<1>7. wins' = [wins EXCEPT ![t] = w]
  BY <1>1, <1>6 DEF AddTrackShown, IsShown
<1>8. wins'[t] = w /\ \A u \in Tracks \ {t} : wins'[u] = wins[u]
  BY <1>7
<1>9. wins[t] # Absent => wins[t] \in Windows /\ wins[t] \notin Spare
                          /\ \A u \in Tracks \ {t} : wins[u] # wins[t]
  BY DEF OneOwnerPerWindow
<1>10. \A v \in Windows : v \in Lost' <=> v \in Lost \/ v = wins[t]
  BY <1>4, <1>5, <1>6, <1>8, <1>9 DEF Lost
<1>11. Lost \subseteq Windows /\ Lost' \subseteq Windows
  BY DEF Lost
<1> QED BY <1>2, <1>9, <1>10, <1>11

\* RemoveTrack() loses no window and finds none again.
LEMMA PushLoses ==
    ASSUME MapType, OneOwnerPerWindow, NEW t \in Tracks, RemoveTrack(t)
    PROVE  Lost' = Lost
<1> USE NamesAssumption DEF MapType
<1>1. wins'[t] = Absent /\ \A u \in Tracks \ {t} : wins'[u] = wins[u]
  BY DEF RemoveTrack
<1>2. Spare' = Spare \cup ({wins[t]} \ {Absent})
  <2>1. CASE wins[t] = Absent
    BY <2>1 DEF RemoveTrack, Spare
  <2>2. CASE wins[t] # Absent
    <3>1. PICK w \in Windows : w = wins[t]
      BY <2>2
    <3>2. spare' = Append(spare, w)
      BY <2>2, <3>1 DEF RemoveTrack
    <3>3. /\ Len(spare) \in Nat /\ Len(spare') = Len(spare) + 1
          /\ \A i \in 1..Len(spare) : spare'[i] = spare[i]
          /\ spare'[Len(spare) + 1] = w
      BY <3>2, AppendProperties, LenProperties
    <3>4. \A i \in 1..Len(spare') : i \in 1..Len(spare) \/ i = Len(spare) + 1
      BY <3>3
    <3>5. Spare' \subseteq Spare \cup {w}
      BY <3>3, <3>4 DEF Spare
    <3>6. Spare \subseteq Spare' /\ w \in Spare'
      BY <3>3 DEF Spare
    <3> QED BY <2>2, <3>1, <3>5, <3>6
  <2> QED BY <2>1, <2>2
<1>3. \A v \in Windows : v \in Lost' <=> v \in Lost
  BY <1>1, <1>2 DEF Lost
<1> QED BY <1>3 DEF Lost

-----------------------------------------------------------------------------
(***************************************************************************)
(* The theorems.                                                           *)
(***************************************************************************)

\* Inv is an invariant, for any number of connections, tracks and windows.
THEOREM Invariance == Spec => []Inv
<1>1. Inv /\ [Next]_vars => Inv'
  BY MapNext, PeerTypeNext, RendererHasTrackNext DEF Inv
<1> QED BY InitInv, <1>1, PTL DEF Spec

\* A window of the pool has at most one owner at any time.
THEOREM WindowsHaveOneOwner == Spec => []OneOwnerPerWindow
  BY Invariance, PTL DEF Inv

\* Two tracks are never drawn in the same remote window.
THEOREM VideosInDifferentWindows == Spec => []DifferentWindows
<1>1. Inv => DifferentWindows
  <2> SUFFICES ASSUME Inv, NEW t \in Tracks, NEW u \in Tracks,
                      renders[t] = renders[u], renders[t] \in Windows
               PROVE  t = u
    BY DEF DifferentWindows
  <2>1. wins[t] = renders[t] /\ wins[u] = renders[t]
    BY DEF Inv, OneOwnerPerWindow
  <2>2. wins[t] # Absent
    BY <2>1, NamesAssumption
  <2> QED BY <2>1, <2>2 DEF Inv, OneOwnerPerWindow
<1> QED BY Invariance, <1>1, PTL

\* A renderer never outlives the registration of its track.
THEOREM RenderersHaveTracks == Spec => []RendererHasTrack
  BY Invariance, PTL DEF Inv

\* The variables have their types: only windows ever enter the pool.
THEOREM TypesHold == Spec => []TypeOK
  BY Invariance, PTL DEF Inv

\* For any number of connections, tracks and windows: no step loses a window
\* but AddTrack() of a track whose record outlived its renderer.
THEOREM LostOnlyWhenShownAgain == Spec => LostOnlyByShowingAgain
<1>1. Inv /\ [Next]_vars =>
        [Lost' # Lost =>
          \E t \in RemoteTracks : /\ wins[t] # Absent
                                  /\ renders[t] = Absent
                                  /\ Lost' = Lost \cup {wins[t]}]_vars
  <2> SUFFICES ASSUME Inv, [Next]_vars, Lost' # Lost
               PROVE  \E t \in RemoteTracks : /\ wins[t] # Absent
                                              /\ renders[t] = Absent
                                              /\ Lost' = Lost \cup {wins[t]}
    OBVIOUS
  <2>1. MapType /\ OneOwnerPerWindow /\ RemoteTracks \subseteq Tracks
    BY DEF Inv, TypeOK, Tracks
  <2>2. ~UNCHANGED <<wins, spare>>
    BY DEF Lost, Spare
  <2>3. \/ \E t \in RemoteTracks : AddTrackShown(t)
        \/ \E t \in Tracks : RemoveTrack(t)
    BY <2>2, MapSteps DEF mapVars, AddTrackUnseen, CreateLocalMediaStream, ClearRenders
  <2>4. PICK t \in RemoteTracks : AddTrackShown(t)
    BY <2>1, <2>3, PushLoses
  <2> QED BY <2>1, <2>4, PopLoses
<1> QED BY Invariance, <1>1, PTL DEF Spec, LostOnlyByShowingAgain

=============================================================================
