---------------------------- MODULE MediaProofs ----------------------------
(***************************************************************************)
(* The local user's media and the renderer of a track, for any number of   *)
(* clients, tracks and frame sizes: what MCMedia checks on a small         *)
(* instance, liveness excepted.  The two parts share no variable, so each  *)
(* has an inductive invariant of its own, which holds in every behaviour   *)
(* of both.                                                                *)
(***************************************************************************)
EXTENDS MCMedia, TLAPS

-----------------------------------------------------------------------------
(* The renderer.                                                            *)

\* Who is in the renderer is who is at a step that holds its lock, and the
\* renderer is there as long as anybody is.
LockInv ==
    /\ inUse = "owner" <=> owner.at \in {"remove", "add"}
    /\ \A t \in Tracks : inUse = t <=> frame[t].at \in {"convert", "paint"}
    /\ inUse # None => life = "alive"
    /\ owner.at # "idle" => life = "alive"

\* The renderer is registered with its track and no other, except between
\* the two steps of SetTrack(); only a track it is registered with delivers.
SinksInv ==
    /\ sinks = IF owner.at = "add" THEN {} ELSE {track_} \ {None}
    /\ \A t \in Tracks : Render!Delivering(t) => t \in sinks
    /\ owner.at = "add" => track_ = owner.track
    /\ owner.at \in {"lock", "remove", "add"} /\ owner.next = "erase" => owner.track = None
    /\ owner.at = "erase" => track_ = None
    /\ life \in {"none", "erased"} => track_ = None

\* The buffers of a renderer that is there have its size, and what is painted
\* is in them.
BuffersInv ==
    /\ life \in {"none", "alive"} =>
         bytes = [i420 |-> Render!I420Bytes(video_size_), rgb |-> Render!RgbBytes(video_size_)]
    /\ Render!PaintsItsFrame

RenderInv == Render!TypeOK /\ LockInv /\ SinksInv /\ BuffersInv

-----------------------------------------------------------------------------
(* The local media.                                                         *)

\* Where the lws thread makes a stream, and where it has lock_.
Creating == {"audio", "video", "addAudio", "addVideo"}
Making == Creating \cup {"connect"}

\* Steps of the destructor after the track, or the sender, was taken.
PastTrack(k) ==
    IF k = "video" THEN Drops \ {"dropVideo"} ELSE {"dropAudioSender", "dropVideoSender", "close"}
PastSender(k) == IF k = "audio" THEN {"dropVideoSender", "close"} ELSE {"close"}

\* Where the threads can be, who of them has lock_, and who refers to the
\* client a destructor is at work on: nobody else.  The signaling thread has an
\* older client than that in the map only as long as the new one waits for its
\* connection.
ThreadsInv ==
    /\ \A t \in Threads : thread[t].at = "idle" <=> thread[t].client = 0
    /\ thread["ui"].at \in {"idle"} \cup Drops
    /\ thread["sig"].at \in {"idle", "hold"} \cup Drops
    /\ lock_ = "lws" <=> thread["lws"].at \in Making
    /\ lock_ = "ui" <=> thread["ui"].at \in Drops
    /\ thread["lws"].at \in Creating =>
         user = thread["lws"].client /\ user \in connected
    /\ thread["lws"].at = "connect" => user = thread["lws"].client
    /\ thread["lws"].at # "idle" => user \in {0, thread["lws"].client}
    /\ thread["sig"].at # "idle" =>
         user \in {0, thread["sig"].client} \/ thread["lws"].at = "connect"
    /\ \A t \in {"ui", "lws"} : thread[t].at \in Drops => user = 0
    /\ \A t \in Threads : thread[t].at \in Drops =>
         user # thread[t].client
         /\ \A u \in Threads \ {t} : thread[u].client # thread[t].client

\* The manager's tracks and senders are those of a client that is there, with
\* its connection, and whose destructor has not come to them.
TracksInv ==
    \A k \in Kinds :
        /\ track[k] # 0 =>
             /\ Alive(track[k]) /\ track[k] \in connected /\ <<k, track[k]>> \in created
             /\ \A t \in Threads : thread[t].client = track[k] => thread[t].at \notin PastTrack(k)
        /\ sender[k] # 0 =>
             /\ Alive(sender[k]) /\ sender[k] \in connected
             /\ \A t \in Threads : thread[t].client = sender[k] => thread[t].at \notin PastSender(k)

\* While a stream is created, what is created already is its own, and what
\* is not created yet has never been.
CreatedInv ==
    /\ thread["lws"].at \in {"connect", "audio"} => <<"audio", user>> \notin created
    /\ thread["lws"].at \in {"connect", "audio", "video"} => <<"video", user>> \notin created
    /\ thread["lws"].at \in {"video", "addAudio", "addVideo"} => track["audio"] \in {0, user}
    /\ thread["lws"].at \in {"addAudio", "addVideo"} => track["video"] \in {0, user}

\* Only the manager's video track has a renderer, and only until the client
\* is dropped from the map, or that drop's destructor begins.
RendersInv ==
    /\ \A c \in renders : c = track["video"] /\ (c = user \/ thread["ui"] = At("dropVideo", c))
    /\ thread["lws"].at \in {"connect", "audio", "video"} => renders = {}

\* A connection with senders is that of a client that is there.
SendersInv == \A c \in Client : senders[c] # {} => Alive(c)

\* The stream of the client in the map is intact from the start of its
\* creation on.
IntactInv ==
    user # 0 =>
        \A k \in Kinds :
            /\ <<k, user>> \in created => track[k] = user /\ <<k, user>> \in enabled
            /\ <<k, user>> \in sending => sender[k] = user /\ k \in senders[user]

LocalInv ==
    /\ TypeOK /\ ThreadsInv /\ TracksInv /\ CreatedInv /\ RendersInv /\ SendersInv /\ IntactInv

MediaInv == LocalInv /\ RenderInv

-----------------------------------------------------------------------------
(* The sizes of frames and buffers.                                         *)

\* A product of naturals is one.
LEMMA ProductNat == \A a, b \in Nat : a * b \in Nat
  OBVIOUS

\* A size is a pair of naturals, also that of a renderer without a frame; the
\* sides of a frame are not zero.
LEMMA SizePair ==
    /\ \A s \in Render!Dimensions : s[1] \in Nat \ {0} /\ s[2] \in Nat \ {0}
    /\ \A s \in Render!Dimensions \cup {Render!NoSize} : s[1] \in Nat /\ s[2] \in Nat
  <1>1. ASSUME NEW r \in Sizes  PROVE r[1] \in Nat \ {0} /\ r[2] \in Nat \ {0}
    BY RendererAssumption DEF Sizes
  <1>2. ASSUME NEW s \in Render!Dimensions  PROVE s[1] \in Nat \ {0} /\ s[2] \in Nat \ {0}
    <2>1. CASE s \in Sizes  BY <1>1, <2>1
    <2>2. CASE \E r \in Sizes : s = <<r[2], r[1]>>
      <3>1. PICK r \in Sizes : s = <<r[2], r[1]>>  BY <2>2
      <3>2. r[1] \in Nat \ {0} /\ r[2] \in Nat \ {0}  BY <1>1
      <3> QED  BY <3>1, <3>2
    <2> QED  BY <2>1, <2>2 DEF Render!Dimensions
  <1>3. Render!NoSize[1] \in Nat /\ Render!NoSize[2] \in Nat  BY DEF Render!NoSize
  <1> QED  BY <1>2, <1>3

\* The lengths of the buffers are naturals.
LEMMA BytesNat ==
    ASSUME NEW s \in Render!Dimensions \cup {Render!NoSize}
    PROVE  Render!I420Bytes(s) \in Nat /\ Render!RgbBytes(s) \in Nat
  <1>1. s[1] \in Nat /\ s[2] \in Nat  BY SizePair
  <1>2. PICK p \in Nat : p = s[1] * s[2]  BY <1>1, ProductNat
  <1>3. (p * 3) \div 2 \in Nat /\ p * 4 \in Nat  OBVIOUS
  <1> QED  BY <1>2, <1>3 DEF Render!I420Bytes, Render!RgbBytes

\* An upright frame has a size too, and natural strides.
LEMMA TargetSize ==
    ASSUME NEW f \in Render!Frame
    PROVE  /\ Render!Target(f) \in Render!Dimensions
           /\ Render!ReadStrides(Render!Target(f)) \in Nat \X Nat
           /\ Render!StoredStrides(f) \in Nat \X Nat
  <1>1. f.size \in Sizes  BY DEF Render!Frame
  <1>2. /\ f.size \in Render!Dimensions
        /\ <<f.size[2], f.size[1]>> \in Render!Dimensions
    BY <1>1 DEF Render!Dimensions
  <1>3. Render!Target(f) \in Render!Dimensions  BY <1>2 DEF Render!Target
  <1>4. Render!Target(f)[1] \in Nat /\ f.size[1] \in Nat /\ f.size[2] \in Nat
    BY <1>2, <1>3, SizePair
  <1>5. \A n \in Nat : n \div 2 \in Nat /\ (n + 1) \div 2 \in Nat  OBVIOUS
  <1>6. Render!ReadStrides(Render!Target(f)) \in Nat \X Nat
    BY <1>4, <1>5 DEF Render!ReadStrides
  <1>7. ASSUME NEW padding \in {0, 1}
        PROVE  <<f.size[1] + padding, Render!ChromaSize(f.size)[1] + padding>> \in Nat \X Nat
    BY <1>4, <1>5 DEF Render!ChromaSize
  <1>8. Render!StoredStrides(f) \in Nat \X Nat
    BY <1>6, <1>7 DEF Render!StoredStrides
  <1> QED  BY <1>3, <1>6, <1>8

\* A frame is read as it is stored exactly if its upright width is even and it
\* is packed or was turned.
LEMMA ReadIfEven ==
    ASSUME NEW f \in Render!Frame
    PROVE  Render!ReadAsStored(Render!StoredStrides(f), Render!Target(f)) <=>
             Render!Even(Render!Target(f)[1]) /\ (f.packed \/ f.rotation # 0)
  <1>1. f.size \in Sizes /\ f.packed \in BOOLEAN  BY DEF Render!Frame
  <1>2. PICK s \in Render!Dimensions : s = Render!Target(f)  BY TargetSize
  <1>3. s[1] \in Nat  BY SizePair
  <1>4. PICK n \in Nat : n = s[1]  BY <1>3
  <1>5. /\ Render!ReadStrides(s) = <<n, n \div 2>>
        /\ Render!ChromaSize(s)[1] = (n + 1) \div 2
        /\ Render!Even(s[1]) <=> n % 2 = 0
    BY <1>4 DEF Render!ReadStrides, Render!ChromaSize, Render!Even
  <1>6. (n + 1) \div 2 =< n \div 2 <=> n % 2 = 0  OBVIOUS
  <1>7. CASE f.rotation # 0
    <2>1. Render!StoredStrides(f) = <<n, n \div 2>>  BY <1>2, <1>5, <1>7 DEF Render!StoredStrides
    <2>2. Render!ReadAsStored(Render!StoredStrides(f), s) <=> (n + 1) \div 2 =< n \div 2
      BY <1>5, <2>1 DEF Render!ReadAsStored
    <2> QED  BY <1>2, <1>5, <1>6, <1>7, <2>2
  <1>8. CASE f.rotation = 0
    <2>1. s = f.size  BY <1>2, <1>8 DEF Render!Target, Render!Swapped
    <2>2. CASE f.packed
      <3>1. Render!StoredStrides(f) = <<n + 0, ((n + 1) \div 2) + 0>>
        BY <1>4, <1>5, <1>8, <2>1, <2>2 DEF Render!StoredStrides
      <3>2. Render!StoredStrides(f) = <<n, (n + 1) \div 2>>  BY <3>1
      <3>3. (n + 1) \div 2 = n \div 2 <=> n % 2 = 0  OBVIOUS
      <3>4. Render!ReadAsStored(Render!StoredStrides(f), s) <=> (n + 1) \div 2 = n \div 2
        BY <1>5, <3>2 DEF Render!ReadAsStored
      <3> QED  BY <1>2, <1>5, <2>2, <3>3, <3>4
    <2>3. CASE ~f.packed
      <3>1. Render!StoredStrides(f) = <<n + 1, ((n + 1) \div 2) + 1>>
        BY <1>4, <1>5, <1>8, <2>1, <2>3 DEF Render!StoredStrides
      <3>2. ~Render!ReadAsStored(Render!StoredStrides(f), s)
        BY <1>5, <3>1 DEF Render!ReadAsStored
      <3> QED  BY <1>2, <1>8, <2>3, <3>2
    <2> QED  BY <2>2, <2>3
  <1> QED  BY <1>7, <1>8

\* Where the planes of a picture end in its I420 buffer.
LEMMA PlanesAndBytes ==
    ASSUME NEW s, s[1] \in Nat \ {0}, s[2] \in Nat \ {0}
    PROVE  /\ Render!Even(s[2]) => Render!PlanesEnd(s) =< Render!I420Bytes(s)
           /\ Render!Even(s[1]) =>
                Render!PlanesEnd(s) =
                  Render!I420Bytes(s) + (IF Render!Even(s[2]) THEN 0 ELSE s[1] \div 4)
  <1>0. ASSUME NEW n \in Nat \ {0}
        PROVE  \E h \in Nat : n = 2 * h \/ n = 2 * h + 1
    <2>1. n \div 2 \in Nat /\ (n = 2 * (n \div 2) \/ n = 2 * (n \div 2) + 1)  OBVIOUS
    <2> QED  BY <2>1
  <1>1. PICK a \in Nat : s[1] = 2 * a \/ s[1] = 2 * a + 1  BY <1>0
  <1>2. PICK b \in Nat : s[2] = 2 * b \/ s[2] = 2 * b + 1  BY <1>0
  <1>3. PICK p \in Nat : p = a * b  BY ProductNat
  <1>4. s[1] \div 2 = a  BY <1>1
  <1>5. ASSUME NEW size, NEW uv, NEW before,
               s[1] * s[2] = size, Render!ChromaSize(s) = uv, (uv[2] - 1) * a = before
        PROVE  Render!PlanesEnd(s) = size + size \div 4 + before + uv[1]
    <2>1. Render!ReadStrides(s)[2] = a  BY <1>4 DEF Render!ReadStrides
    <2> QED  BY <1>5, <2>1, Zenon DEF Render!PlanesEnd
  <1>6. CASE s[1] = 2 * a /\ s[2] = 2 * b
    <2>1. (2 * a) * (2 * b) = 4 * (a * b)  OBVIOUS
    <2>2. s[1] * s[2] = 4 * p  BY <1>3, <1>6, <2>1
    <2>3. Render!ChromaSize(s) = <<a, b>>
      BY <1>6 DEF Render!ChromaSize
    <2>4. (<<a, b>>[2] - 1) * a = p - a /\ <<a, b>>[1] = a  BY <1>3
    <2>5. Render!PlanesEnd(s) = 4 * p + (4 * p) \div 4 + (p - a) + <<a, b>>[1]
      BY <1>5, <2>2, <2>3, <2>4, Zenon
    <2>6. Render!I420Bytes(s) = (4 * p * 3) \div 2  BY <2>2 DEF Render!I420Bytes
    <2>7. 4 * p + (4 * p) \div 4 + (p - a) + a = 6 * p /\ (4 * p * 3) \div 2 = 6 * p  OBVIOUS
    <2>8. Render!Even(s[2])  BY <1>6 DEF Render!Even
    <2> QED  BY <2>4, <2>5, <2>6, <2>7, <2>8
  <1>7. CASE s[1] = 2 * a /\ s[2] = 2 * b + 1
    <2>1. (2 * a) * (2 * b + 1) = 4 * (a * b) + 2 * a  OBVIOUS
    <2>2. s[1] * s[2] = 4 * p + 2 * a  BY <1>3, <1>7, <2>1
    <2>3. Render!ChromaSize(s) = <<a, b + 1>>
      BY <1>7 DEF Render!ChromaSize
    <2>4. (<<a, b + 1>>[2] - 1) * a = p /\ <<a, b + 1>>[1] = a  BY <1>3
    <2>5. Render!PlanesEnd(s) = (4 * p + 2 * a) + (4 * p + 2 * a) \div 4 + p + <<a, b + 1>>[1]
      BY <1>5, <2>2, <2>3, <2>4, Zenon
    <2>6. Render!I420Bytes(s) = ((4 * p + 2 * a) * 3) \div 2  BY <2>2 DEF Render!I420Bytes
    <2>7. /\ (4 * p + 2 * a) \div 4 = p + (2 * a) \div 4
          /\ ((4 * p + 2 * a) * 3) \div 2 = 6 * p + 3 * a
      OBVIOUS
    <2>8. ~Render!Even(s[2])  BY <1>7 DEF Render!Even
    <2> QED  BY <1>7, <2>4, <2>5, <2>6, <2>7, <2>8
  <1>8. CASE s[1] = 2 * a + 1 /\ s[2] = 2 * b
    <2>1. (2 * a + 1) * (2 * b) = 4 * (a * b) + 2 * b  OBVIOUS
    <2>2. s[1] * s[2] = 4 * p + 2 * b  BY <1>3, <1>8, <2>1
    <2>3. Render!ChromaSize(s) = <<a + 1, b>>
      BY <1>8 DEF Render!ChromaSize
    <2>4. (<<a + 1, b>>[2] - 1) * a = p - a /\ <<a + 1, b>>[1] = a + 1  BY <1>3
    <2>5. Render!PlanesEnd(s) = (4 * p + 2 * b) + (4 * p + 2 * b) \div 4 + (p - a) + <<a + 1, b>>[1]
      BY <1>5, <2>2, <2>3, <2>4, Zenon
    <2>6. Render!I420Bytes(s) = ((4 * p + 2 * b) * 3) \div 2  BY <2>2 DEF Render!I420Bytes
    <2>7. /\ (4 * p + 2 * b) \div 4 = p + (2 * b) \div 4
          /\ ((4 * p + 2 * b) * 3) \div 2 = 6 * p + 3 * b
          /\ b # 0 => (2 * b) \div 4 + 1 =< b
      OBVIOUS
    <2>8. b # 0  BY <1>8
    <2>9. ~Render!Even(s[1])  BY <1>8 DEF Render!Even
    <2>10. (4 * p + 2 * b) + (p + (2 * b) \div 4) + (p - a) + (a + 1) =< 6 * p + 3 * b
      BY <2>7, <2>8
    <2> QED  BY <2>4, <2>5, <2>6, <2>7, <2>9, <2>10
  <1>9. CASE s[1] = 2 * a + 1 /\ s[2] = 2 * b + 1
    <2>1. ~Render!Even(s[1]) /\ ~Render!Even(s[2])  BY <1>9 DEF Render!Even
    <2> QED  BY <2>1
  <1> QED  BY <1>1, <1>2, <1>6, <1>7, <1>8, <1>9

-----------------------------------------------------------------------------
(* The steps of the renderer.                                               *)

\* A thread that delivers has a frame.
LEMMA FrameOf ==
    ASSUME Render!TypeOK, NEW t \in Tracks, Render!Delivering(t)
    PROVE  /\ frame[t].frame \in Render!Frame
           /\ frame[t].at \in {"deliver", "convert", "paint"}
           /\ frame[t] = [at |-> frame[t].at, frame |-> frame[t].frame]
  <1>1. frame[t] \in {Render!NoFrame} \cup
          [at : {"deliver", "convert", "paint"}, frame : Render!Frame]
    BY DEF Render!TypeOK
  <1> QED  BY <1>1 DEF Render!Delivering, Render!NoFrame

\* Initially there is no renderer.
LEMMA RenderInit == Render!Init => RenderInv
  <1> SUFFICES ASSUME Render!Init PROVE RenderInv  OBVIOUS
  <1> USE DEF Render!Init
  <1>1. Render!TypeOK
    <2>1. owner \in [at : {"idle", "lock", "remove", "add", "erase", "destroy"},
                     track : Tracks \cup {None}, next : {"idle", "erase"}]
      BY DEF Render!Resting
    <2>2. bytes \in [i420 : Nat, rgb : Nat]  OBVIOUS
    <2>3. picture \in [of : SUBSET Render!Frame, strides : Nat \X Nat]
      BY DEF Render!Stale, Render!NoSize
    <2>4. video_window_ \in BOOLEAN  OBVIOUS
    <2>5. frame \in [Tracks -> {Render!NoFrame} \cup
                       [at : {"deliver", "convert", "paint"}, frame : Render!Frame]]
      OBVIOUS
    <2> QED  BY <2>1, <2>2, <2>3, <2>4, <2>5 DEF Render!TypeOK
  <1>2. LockInv
    BY RendererAssumption DEF LockInv, Render!Resting, Render!NoFrame
  <1>3. SinksInv
    BY DEF SinksInv, Render!Resting, Render!NoFrame, Render!Delivering
  <1>4. BuffersInv
    <2>1. Render!I420Bytes(video_size_) = 0 /\ Render!RgbBytes(video_size_) = 0
      BY DEF Render!I420Bytes, Render!RgbBytes, Render!NoSize
    <2>2. Render!PaintsItsFrame
      BY DEF Render!PaintsItsFrame, Render!Painting, Render!NoFrame
    <2> QED  BY <2>1, <2>2 DEF BuffersInv
  <1> QED  BY <1>1, <1>2, <1>3, <1>4 DEF RenderInv

\* A step that leaves the frames and the buffers alone, of a renderer that
\* lives on, keeps what is said of them.
LEMMA BuffersKept ==
    ASSUME BuffersInv, UNCHANGED <<frame, video_size_, bytes, picture>>,
           life' \in {"none", "alive"} => life \in {"none", "alive"}
    PROVE  BuffersInv'
  BY DEF BuffersInv, Render!PaintsItsFrame, Render!Painting, Render!Target, Render!Swapped,
         Render!RgbBytes, Render!I420Bytes

\* The owner's calls up to their first step: AddTrack(), RemoveTrack(),
\* RemoveAllClients().
LEMMA OwnerCalls ==
    ASSUME RenderInv,
           \/ \E t \in Tracks : Render!Create(t) \/ Render!SetTrack(t)
           \/ Render!RemoveTrack \/ Render!ClearRenders
    PROVE  RenderInv'
  <1> USE DEF Render!Create, Render!SetTrack, Render!RemoveTrack, Render!ClearRenders,
              Render!bufferVars
  <1>1. /\ owner' \in [at : {"lock", "destroy"}, track : Tracks \cup {None},
                       next : {"idle", "erase"}]
        /\ owner'.next = "erase" => owner'.track = None
        /\ life' = "alive" /\ life \in {"none", "alive"}
        /\ owner.at = "idle"
        /\ UNCHANGED <<track_, sinks, video_window_, inUse, frame, video_size_, bytes, picture>>
    BY DEF RenderInv, LockInv
  <1> HIDE DEF Render!Create, Render!SetTrack, Render!RemoveTrack, Render!ClearRenders,
               Render!bufferVars
  <1>2. Render!TypeOK'  BY <1>1 DEF RenderInv, Render!TypeOK
  <1>3. LockInv'  BY <1>1 DEF RenderInv, LockInv
  <1>4. SinksInv'  BY <1>1 DEF RenderInv, SinksInv, Render!Delivering
  <1>5. BuffersInv'  BY <1>1, BuffersKept DEF RenderInv
  <1> QED  BY <1>2, <1>3, <1>4, <1>5 DEF RenderInv

\* SetTrack() takes lock_, takes the renderer off its track and puts it on
\* the new one.
LEMMA SetTrackSteps ==
    ASSUME RenderInv, Render!LockForTrack \/ Render!RemoveSink \/ Render!AddSink
    PROVE  RenderInv'
  <1> USE DEF Render!bufferVars
  <1>0. owner \in [at : {"idle", "lock", "remove", "add", "erase", "destroy"},
                   track : Tracks \cup {None}, next : {"idle", "erase"}]
    BY DEF RenderInv, Render!TypeOK
  <1>1. life = "alive" /\ life' = "alive"
    BY DEF RenderInv, LockInv, Render!LockForTrack, Render!RemoveSink, Render!AddSink
  <1>2. BuffersInv'
    BY <1>1, BuffersKept DEF RenderInv, Render!LockForTrack, Render!RemoveSink, Render!AddSink
  <1>3. CASE Render!LockForTrack
    <2>1. /\ owner.at = "lock" /\ inUse = None
          /\ UNCHANGED <<life, track_, sinks, video_window_, frame, video_size_, bytes, picture>>
      BY <1>3 DEF Render!LockForTrack
    <2>2. CASE owner.track = track_
      <3>1. /\ inUse' = None /\ owner'.at = owner.next
            /\ owner' \in [at : {"idle", "erase"}, track : Tracks \cup {None},
                           next : {"idle", "erase"}]
            /\ owner'.next = "idle"
        BY <1>0, <1>3, <2>2 DEF Render!LockForTrack, Render!Resting
      <3>2. Render!TypeOK'  BY <2>1, <3>1 DEF RenderInv, Render!TypeOK
      <3>3. LockInv'  BY <1>1, <2>1, <3>1, RendererAssumption DEF RenderInv, LockInv
      <3>4. SinksInv'
        BY <1>1, <2>1, <2>2, <3>1 DEF RenderInv, SinksInv, Render!Delivering
      <3> QED  BY <1>2, <3>2, <3>3, <3>4 DEF RenderInv
    <2>3. CASE owner.track # track_
      <3>1. /\ inUse' = "owner" /\ owner'.at = "remove"
            /\ owner'.track = owner.track /\ owner'.next = owner.next
            /\ owner' \in [at : {"remove"}, track : Tracks \cup {None}, next : {"idle", "erase"}]
        BY <1>0, <1>3, <2>3 DEF Render!LockForTrack
      <3>2. Render!TypeOK'  BY <2>1, <3>1 DEF RenderInv, Render!TypeOK
      <3>3. LockInv'  BY <1>1, <2>1, <3>1, RendererAssumption DEF RenderInv, LockInv
      <3>4. SinksInv'
        BY <1>1, <2>1, <3>1 DEF RenderInv, SinksInv, Render!Delivering
      <3> QED  BY <1>2, <3>2, <3>3, <3>4 DEF RenderInv
    <2> QED  BY <2>2, <2>3
  <1>4. CASE Render!RemoveSink
    <2>1. /\ owner.at = "remove"
          /\ track_ # None => ~Render!Delivering(track_)
          /\ sinks' = sinks \ {track_} /\ track_' = owner.track
          /\ owner'.at = "add" /\ owner'.track = owner.track /\ owner'.next = owner.next
          /\ owner' \in [at : {"add"}, track : Tracks \cup {None}, next : {"idle", "erase"}]
          /\ UNCHANGED <<life, inUse, video_window_, frame, video_size_, bytes, picture>>
      BY <1>0, <1>4 DEF Render!RemoveSink
    <2>2. Render!TypeOK'  BY <1>0, <2>1 DEF RenderInv, Render!TypeOK
    <2>3. LockInv'  BY <1>1, <2>1 DEF RenderInv, LockInv
    <2>4. SinksInv'
      BY <1>1, <2>1 DEF RenderInv, SinksInv, Render!Delivering
    <2> QED  BY <1>2, <2>2, <2>3, <2>4 DEF RenderInv
  <1>5. CASE Render!AddSink
    <2>1. /\ owner.at = "add"
          /\ sinks' = IF track_ = None THEN sinks ELSE sinks \cup {track_}
          /\ inUse' = None
          /\ owner'.at = owner.next /\ owner'.next = "idle"
          /\ owner' \in [at : {"idle", "erase"}, track : Tracks \cup {None},
                         next : {"idle", "erase"}]
          /\ UNCHANGED <<life, track_, video_window_, frame, video_size_, bytes, picture>>
      BY <1>0, <1>5 DEF Render!AddSink, Render!Resting
    <2>2. Render!TypeOK'  BY <1>0, <2>1 DEF RenderInv, Render!TypeOK
    <2>3. LockInv'  BY <1>1, <2>1, RendererAssumption DEF RenderInv, LockInv
    <2>4. SinksInv'
      BY <1>1, <2>1 DEF RenderInv, SinksInv, Render!Delivering
    <2> QED  BY <1>2, <2>2, <2>3, <2>4 DEF RenderInv
  <1> QED  BY <1>3, <1>4, <1>5

\* SetWindow() touches nothing the invariant is about.
LEMMA SetWindowStep == ASSUME RenderInv, Render!SetWindow  PROVE RenderInv'
  <1>1. /\ video_window_' \in BOOLEAN
        /\ UNCHANGED <<life, track_, sinks, owner, inUse, frame, video_size_, bytes, picture>>
    BY DEF Render!SetWindow, Render!bufferVars
  <1>2. Render!TypeOK'  BY <1>1 DEF RenderInv, Render!TypeOK
  <1>3. LockInv'  BY <1>1 DEF RenderInv, LockInv
  <1>4. SinksInv'  BY <1>1 DEF RenderInv, SinksInv, Render!Delivering
  <1>5. BuffersInv'  BY <1>1, BuffersKept DEF RenderInv
  <1> QED  BY <1>2, <1>3, <1>4, <1>5 DEF RenderInv

\* The destructor: nobody is in the renderer, so nothing is being painted.
LEMMA DestroyStep == ASSUME RenderInv, Render!Destroy  PROVE RenderInv'
  <1>1. /\ owner.at \in {"erase", "destroy"} /\ inUse = None
        /\ life' = IF owner.at = "erase" THEN "erased" ELSE "cleared"
        /\ owner' = Render!Resting
        /\ bytes' = [i420 |-> 0, rgb |-> 0]
        /\ UNCHANGED <<track_, sinks, video_window_, inUse, frame, video_size_, picture>>
    BY DEF Render!Destroy
  <1>2. /\ owner'.at = "idle" /\ owner'.next = "idle"
        /\ owner' \in [at : {"idle"}, track : {None}, next : {"idle"}]
    BY <1>1 DEF Render!Resting
  <1>3. Render!TypeOK'
    <2>1. bytes' \in [i420 : Nat, rgb : Nat]  BY <1>1
    <2>2. life' \in {"none", "alive", "erased", "cleared"}  BY <1>1
    <2> QED  BY <1>1, <1>2, <2>1, <2>2 DEF RenderInv, Render!TypeOK
  <1>4. LockInv'  BY <1>1, <1>2 DEF RenderInv, LockInv
  <1>5. SinksInv'  BY <1>1, <1>2 DEF RenderInv, SinksInv, Render!Delivering
  <1>6. \A t \in Tracks : frame[t].at # "paint"
    BY <1>1, RendererAssumption DEF RenderInv, LockInv
  <1>7. BuffersInv'  BY <1>1, <1>6 DEF BuffersInv, Render!PaintsItsFrame, Render!Painting
  <1> QED  BY <1>3, <1>4, <1>5, <1>7 DEF RenderInv

\* What a step of the thread of one track does to the frames: that thread
\* has a new position, which may not be "paint", and the others have theirs.
LEMMA FramesMoved ==
    ASSUME RenderInv, NEW t \in Tracks, NEW r,
           r \in {Render!NoFrame} \cup [at : {"deliver", "convert"}, frame : Render!Frame],
           frame' = [frame EXCEPT ![t] = r],
           UNCHANGED <<life, track_, sinks, video_window_, owner, video_size_, bytes, picture>>,
           inUse' \in Tracks \cup {None, "owner"},
           r.at # "idle" => t \in sinks,
           LockInv'
    PROVE  RenderInv'
  <1>1. r.at \in {"idle", "deliver", "convert"}  BY DEF Render!NoFrame
  <1>2. Render!TypeOK'
    <2>1. frame' \in [Tracks -> {Render!NoFrame} \cup
                        [at : {"deliver", "convert", "paint"}, frame : Render!Frame]]
      BY DEF RenderInv, Render!TypeOK
    <2> QED  BY <2>1 DEF RenderInv, Render!TypeOK
  <1>3. /\ frame'[t] = r
        /\ \A u \in Tracks \ {t} : frame'[u] = frame[u]
    BY DEF RenderInv, Render!TypeOK
  <1>4. SinksInv'  BY <1>3 DEF RenderInv, SinksInv, Render!Delivering
  <1>5. BuffersInv'
    <2>1. Render!PaintsItsFrame'
      <3> SUFFICES ASSUME NEW u \in Tracks, frame'[u].at = "paint"
                   PROVE  /\ video_size_' = Render!Target(frame'[u].frame)
                          /\ bytes'.rgb = Render!RgbBytes(Render!Target(frame'[u].frame))
                          /\ frame'[u].frame.i420 =>
                               /\ picture'.of = {frame'[u].frame}
                               /\ Render!ReadAsStored(picture'.strides, Render!Target(frame'[u].frame)) <=>
                                    /\ Render!Even(Render!Target(frame'[u].frame)[1])
                                    /\ frame'[u].frame.packed \/ frame'[u].frame.rotation # 0
        BY DEF Render!PaintsItsFrame, Render!Painting
      <3>1. u # t /\ frame'[u] = frame[u]  BY <1>1, <1>3
      <3> QED  BY <3>1 DEF RenderInv, BuffersInv, Render!PaintsItsFrame, Render!Painting
    <2> QED  BY <2>1 DEF RenderInv, BuffersInv
  <1> QED  BY <1>2, <1>4, <1>5 DEF RenderInv

\* A frame comes in, only to a renderer registered with the track; it goes
\* on to the conversion, or is given up because the renderer is in use or gone.
LEMMA DeliverSteps ==
    ASSUME RenderInv, NEW t \in Tracks,
           \/ \E f \in Render!Frame : Render!Deliver(t, f)
           \/ Render!TryLock(t) \/ Render!FrameOfDead(t)
    PROVE  RenderInv'
  <1> USE DEF Render!ownerVars, Render!bufferVars
  <1>0. frame \in [Tracks -> {Render!NoFrame} \cup
                     [at : {"deliver", "convert", "paint"}, frame : Render!Frame]]
    BY DEF RenderInv, Render!TypeOK
  <1>n. Render!NoFrame.at = "idle"  BY DEF Render!NoFrame
  <1>1. CASE \E f \in Render!Frame : Render!Deliver(t, f)
    <2>1. PICK f \in Render!Frame : Render!Deliver(t, f)  BY <1>1
    <2> DEFINE r == [at |-> "deliver", frame |-> f]
    <2>2. /\ frame[t].at = "idle" /\ t \in sinks
          /\ frame' = [frame EXCEPT ![t] = r]
          /\ UNCHANGED <<life, track_, sinks, video_window_, owner, inUse, video_size_, bytes,
                         picture>>
      BY <2>1 DEF Render!Deliver
    <2>3. r.at = "deliver" /\ r \in [at : {"deliver", "convert"}, frame : Render!Frame]
      OBVIOUS
    <2> HIDE DEF r
    <2>4. LockInv'  BY <1>0, <2>2, <2>3 DEF RenderInv, LockInv
    <2>5. inUse' \in Tracks \cup {None, "owner"}  BY <2>2 DEF RenderInv, Render!TypeOK
    <2> QED  BY <2>2, <2>3, <2>4, <2>5, FramesMoved
  <1>2. ASSUME frame[t].at = "deliver", frame' = [frame EXCEPT ![t] = Render!NoFrame],
               UNCHANGED <<life, track_, sinks, video_window_, owner, inUse, video_size_, bytes,
                           picture>>
        PROVE  RenderInv'
    <2>1. LockInv'  BY <1>0, <1>2, <1>n DEF RenderInv, LockInv
    <2>2. inUse' \in Tracks \cup {None, "owner"}  BY <1>2 DEF RenderInv, Render!TypeOK
    <2> QED  BY <1>2, <1>n, <2>1, <2>2, FramesMoved
  <1>3. CASE Render!TryLock(t)
    <2>1. /\ frame[t].at = "deliver" /\ life = "alive"
          /\ UNCHANGED <<life, track_, sinks, video_window_, owner, video_size_, bytes, picture>>
      BY <1>3 DEF Render!TryLock
    <2>2. CASE inUse = None
      <3> DEFINE r == [frame[t] EXCEPT !.at = "convert"]
      <3>1. inUse' = t /\ frame' = [frame EXCEPT ![t] = r]
        BY <1>3, <2>2 DEF Render!TryLock
      <3>2. Render!Delivering(t)  BY <2>1 DEF Render!Delivering
      <3>3. /\ r.at = "convert"
            /\ r \in [at : {"deliver", "convert"}, frame : Render!Frame]
        <4>1. PICK f \in Render!Frame : frame[t] = [at |-> "deliver", frame |-> f]
          BY <2>1, <3>2, FrameOf DEF RenderInv
        <4>2. r = [at |-> "convert", frame |-> f]  BY <4>1
        <4> QED  BY <4>2
      <3> HIDE DEF r
      <3>4. LockInv'
        BY <1>0, <2>1, <2>2, <3>1, <3>3, RendererAssumption DEF RenderInv, LockInv
      <3>5. t \in sinks  BY <3>2 DEF RenderInv, SinksInv
      <3> QED  BY <2>1, <3>1, <3>3, <3>4, <3>5, FramesMoved
    <2>3. CASE inUse # None
      BY <1>2, <1>3, <2>1, <2>3 DEF Render!TryLock, Render!Return
    <2> QED  BY <2>2, <2>3
  <1>4. CASE Render!FrameOfDead(t)
    BY <1>2, <1>4 DEF Render!FrameOfDead, Render!Return
  <1> QED  BY <1>1, <1>3, <1>4

\* The frame is painted and the lock released.
LEMMA PaintStep == ASSUME RenderInv, NEW t \in Tracks, Render!Paint(t)  PROVE RenderInv'
  <1>1. /\ frame[t].at = "paint"
        /\ frame' = [frame EXCEPT ![t] = Render!NoFrame]
        /\ inUse' = IF inUse = t THEN None ELSE inUse
        /\ UNCHANGED <<life, track_, sinks, video_window_, owner, video_size_, bytes, picture>>
    BY DEF Render!Paint, Render!Return, Render!ownerVars, Render!bufferVars
  <1>2. inUse = t /\ inUse' = None  BY <1>1 DEF RenderInv, LockInv
  <1>3. Render!NoFrame.at = "idle"  BY DEF Render!NoFrame
  <1>4. frame \in [Tracks -> {Render!NoFrame} \cup
                     [at : {"deliver", "convert", "paint"}, frame : Render!Frame]]
    BY DEF RenderInv, Render!TypeOK
  <1>5. LockInv'  BY <1>1, <1>2, <1>3, <1>4, RendererAssumption DEF RenderInv, LockInv
  <1> QED  BY <1>1, <1>2, <1>3, <1>5, FramesMoved

\* The buffers are made to fit the frame and hold it: no other thread paints
\* now, since this one has the lock.
LEMMA ConvertStep == ASSUME RenderInv, NEW t \in Tracks, Render!Convert(t)  PROVE RenderInv'
  <1>1. frame[t].at = "convert" /\ Render!Delivering(t)
    BY DEF Render!Convert, Render!Delivering
  <1>2. PICK f \in Render!Frame : f = frame[t].frame  BY <1>1, FrameOf DEF RenderInv
  <1>3. PICK s \in Render!Dimensions : s = Render!Target(f)  BY TargetSize
  <1>4. /\ video_size_' = IF Render!Fits(s) THEN video_size_ ELSE s
        /\ bytes' = IF Render!Fits(s) THEN bytes
                      ELSE [i420 |-> Render!I420Bytes(s), rgb |-> Render!RgbBytes(s)]
        /\ picture' = IF f.i420 THEN [of |-> {f}, strides |-> Render!StoredStrides(f)]
                                ELSE [of |-> Render!Stale, strides |-> Render!ReadStrides(s)]
        /\ frame' = [frame EXCEPT ![t].at = "paint"]
        /\ UNCHANGED <<life, track_, sinks, video_window_, owner, inUse>>
    BY <1>2, <1>3 DEF Render!Convert, Render!ownerVars
  <1>5. inUse = t /\ life = "alive"
    BY <1>1, RendererAssumption DEF RenderInv, LockInv
  <1>6. /\ video_size_' = s
        /\ bytes' = [i420 |-> Render!I420Bytes(s), rgb |-> Render!RgbBytes(s)]
    BY <1>4, <1>5 DEF RenderInv, BuffersInv, Render!Fits
  <1>7. frame \in [Tracks -> {Render!NoFrame} \cup
                     [at : {"deliver", "convert", "paint"}, frame : Render!Frame]]
    BY DEF RenderInv, Render!TypeOK
  <1>8. frame[t] = [at |-> "convert", frame |-> f]  BY <1>1, <1>2, FrameOf DEF RenderInv
  <1>9. frame' = [frame EXCEPT ![t] = [at |-> "paint", frame |-> f]]
    <2>1. [frame[t] EXCEPT !.at = "paint"] = [at |-> "paint", frame |-> f]  BY <1>8
    <2>2. frame' = [frame EXCEPT ![t] = [frame[t] EXCEPT !.at = "paint"]]  BY <1>4
    <2> QED  BY <2>1, <2>2
  <1>10. /\ frame'[t].at = "paint" /\ frame'[t].frame = f
         /\ \A u \in Tracks \ {t} : frame'[u] = frame[u]
    BY <1>7, <1>9
  <1>11. LockInv'  BY <1>1, <1>4, <1>5, <1>10 DEF RenderInv, LockInv
  <1>12. SinksInv'  BY <1>1, <1>4, <1>10 DEF RenderInv, SinksInv, Render!Delivering
  <1>13. Render!TypeOK'
    <2>1. bytes' \in [i420 : Nat, rgb : Nat]  BY <1>6, BytesNat
    <2>2. picture' \in [of : SUBSET Render!Frame, strides : Nat \X Nat]
      <3>1. Render!ReadStrides(s) \in Nat \X Nat /\ Render!StoredStrides(f) \in Nat \X Nat
        BY <1>3, TargetSize
      <3>2. Render!Stale \in SUBSET Render!Frame  BY DEF Render!Stale
      <3> QED  BY <1>4, <3>1, <3>2
    <2>3. frame' \in [Tracks -> {Render!NoFrame} \cup
                        [at : {"deliver", "convert", "paint"}, frame : Render!Frame]]
      BY <1>7, <1>9
    <2> QED  BY <1>4, <1>6, <2>1, <2>2, <2>3 DEF RenderInv, Render!TypeOK
  <1>14. Render!PaintsItsFrame'
    <2> SUFFICES ASSUME NEW u \in Tracks, frame'[u].at = "paint"
                 PROVE  /\ video_size_' = Render!Target(frame'[u].frame)
                        /\ bytes'.rgb = Render!RgbBytes(Render!Target(frame'[u].frame))
                        /\ frame'[u].frame.i420 =>
                             /\ picture'.of = {frame'[u].frame}
                             /\ Render!ReadAsStored(picture'.strides, Render!Target(frame'[u].frame)) <=>
                                  /\ Render!Even(Render!Target(frame'[u].frame)[1])
                                  /\ frame'[u].frame.packed \/ frame'[u].frame.rotation # 0
      BY DEF Render!PaintsItsFrame, Render!Painting
    <2>1. u = t /\ frame'[u].frame = f
      BY <1>5, <1>10, RendererAssumption DEF RenderInv, LockInv
    <2>2. bytes'.rgb = Render!RgbBytes(s)  BY <1>6
    <2>3. f.i420 => picture'.of = {f} /\ picture'.strides = Render!StoredStrides(f)  BY <1>4
    <2>4. f.i420 => (Render!ReadAsStored(picture'.strides, s) <=>
                       Render!Even(s[1]) /\ (f.packed \/ f.rotation # 0))
      BY <1>3, <2>3, ReadIfEven
    <2> QED  BY <1>3, <1>6, <2>1, <2>2, <2>3, <2>4
  <1>15. BuffersInv'  BY <1>6, <1>14 DEF BuffersInv
  <1> QED  BY <1>11, <1>12, <1>13, <1>15 DEF RenderInv

\* The renderer's invariant is kept by each of its steps, and by a step of
\* the other part.
LEMMA RenderStep ==
    ASSUME RenderInv, Render!Next \/ UNCHANGED rendererVars
    PROVE  RenderInv'
  <1>1. CASE Render!Next
    BY <1>1, OwnerCalls, SetTrackSteps, SetWindowStep, DestroyStep, DeliverSteps, ConvertStep,
       PaintStep
    DEF Render!Next, Render!OwnerSteps, Render!FrameSteps
  <1>2. CASE UNCHANGED rendererVars
    <2> USE <1>2 DEF rendererVars
    <2>1. Render!TypeOK'  BY DEF RenderInv, Render!TypeOK
    <2>2. LockInv'  BY DEF RenderInv, LockInv
    <2>3. SinksInv'  BY DEF RenderInv, SinksInv, Render!Delivering
    <2>4. BuffersInv'  BY BuffersKept DEF RenderInv
    <2> QED  BY <2>1, <2>2, <2>3, <2>4 DEF RenderInv
  <1> QED  BY <1>1, <1>2

-----------------------------------------------------------------------------
(* The threads of the local media.                                          *)

Positions == {"idle", "hold"} \cup Making \cup Drops

\* Thread t comes to a position, at work on client c; the others stay.
Placed(t, position, c) ==
    /\ thread' \in [Threads -> [at : Positions, client : 0..made']]
    /\ thread'[t].at = position /\ thread'[t].client = c
    /\ \A u \in Threads \ {t} : thread'[u] = thread[u]

\* The two ways the model moves a thread: with a client given to it ...
LEMMA PlacedAt ==
    ASSUME TypeOK, made' \in Nat, made' >= made,
           NEW t \in Threads, NEW position \in Positions, NEW c \in 0..made',
           thread' = [thread EXCEPT ![t] = At(position, c)]
    PROVE  Placed(t, position, c)
  <1>1. made \in Nat /\ 0..made \subseteq 0..made'  BY LocalMediaAssumption DEF TypeOK
  <1>2. thread \in [Threads -> [at : Positions, client : 0..made]]
    BY DEF TypeOK, Positions, Making, Creating, Drops
  <1>3. thread \in [Threads -> [at : Positions, client : 0..made']]  BY <1>1, <1>2
  <1>4. At(position, c) \in [at : Positions, client : 0..made']  BY DEF At
  <1>5. At(position, c).at = position /\ At(position, c).client = c  BY DEF At
  <1> QED  BY <1>3, <1>4, <1>5 DEF Placed

\* ... or with the one it has.
LEMMA MovedTo ==
    ASSUME TypeOK, made' = made,
           NEW t \in Threads, NEW position \in Positions,
           thread' = [thread EXCEPT ![t].at = position]
    PROVE  Placed(t, position, thread[t].client)
  <1>1. made \in Nat  BY LocalMediaAssumption DEF TypeOK
  <1>2. thread \in [Threads -> [at : Positions, client : 0..made]]
    BY DEF TypeOK, Positions, Making, Creating, Drops
  <1>3. thread[t] \in [at : Positions, client : 0..made]  BY <1>2
  <1>4. [thread[t] EXCEPT !.at = position] = At(position, thread[t].client)  BY <1>3 DEF At
  <1>5. thread' = [thread EXCEPT ![t] = At(position, thread[t].client)]  BY <1>4
  <1>6. thread[t].client \in 0..made' /\ made' \in Nat /\ made' >= made  BY <1>1, <1>3
  <1> QED  BY <1>5, <1>6, PlacedAt

\* What the type invariant says of a thread.
LEMMA ThreadTypes ==
    ASSUME TypeOK
    PROVE  /\ made \in Nat /\ user \in Nat /\ user =< made /\ made =< MaxClients
           /\ \A t \in Threads : /\ thread[t] \in [at : Positions, client : 0..made]
                                 /\ thread[t].at \in Positions
                                 /\ thread[t].client \in 0..made
                                 /\ thread[t] = At(thread[t].at, thread[t].client)
           /\ \A c \in 1..made : c \in Client /\ c # 0
           /\ \A t \in Threads : thread[t].client # 0 =>
                thread[t].client \in 1..made /\ thread[t].client \in Client
  <1>1. made \in Nat /\ user \in Nat /\ user =< made /\ made =< MaxClients
    BY LocalMediaAssumption DEF TypeOK
  <1>2. thread \in [Threads -> [at : Positions, client : 0..made]]
    BY DEF TypeOK, Positions, Making, Creating, Drops
  <1>3. \A c \in 1..made : c \in Client /\ c # 0  BY <1>1, LocalMediaAssumption DEF Client
  <1>4. \A t \in Threads : /\ thread[t] \in [at : Positions, client : 0..made]
                           /\ thread[t].at \in Positions
                           /\ thread[t].client \in 0..made
                           /\ thread[t] = At(thread[t].at, thread[t].client)
    BY <1>2 DEF At
  <1> QED  BY <1>1, <1>3, <1>4

\* Initially there is no client and no stream.
LEMMA LocalInit == Init => LocalInv
  <1> SUFFICES ASSUME Init PROVE LocalInv  OBVIOUS
  <1> USE DEF Init
  <1>1. \A t \in Threads : thread[t].at = "idle" /\ thread[t].client = 0  BY DEF Idle
  <1>2. TypeOK
    <2>1. made \in 0..MaxClients /\ user \in 0..made  BY LocalMediaAssumption
    <2>2. thread \in [Threads -> [at : {"idle", "connect", "audio", "video",
                                        "addAudio", "addVideo", "hold", "dropVideo",
                                        "dropAudio", "dropAudioSender",
                                        "dropVideoSender", "close"},
                                  client : 0..made]]
      BY DEF Idle
    <2>3. track \in [Kinds -> 0..made] /\ sender \in [Kinds -> 0..made]  OBVIOUS
    <2>4. senders \in [Client -> SUBSET Kinds]  OBVIOUS
    <2> QED  BY <2>1, <2>2, <2>3, <2>4 DEF TypeOK
  <1>3. ThreadsInv  BY <1>1 DEF ThreadsInv, Threads, Drops, Making, Creating
  <1>4. TracksInv
    <2> \A k \in Kinds : track[k] = 0 /\ sender[k] = 0  OBVIOUS
    <2> QED  BY DEF TracksInv
  <1>5. CreatedInv  BY <1>1 DEF CreatedInv, Threads
  <1>6. RendersInv  BY DEF RendersInv
  <1>7. SendersInv  BY DEF SendersInv
  <1>8. IntactInv  BY DEF IntactInv
  <1> QED  BY <1>2, <1>3, <1>4, <1>5, <1>6, <1>7, <1>8 DEF LocalInv

\* A thread that moves leaves the threads in their type.
LEMMA PlacedTyped ==
    ASSUME NEW t, NEW position, NEW c, Placed(t, position, c)
    PROVE  thread' \in [Threads -> [at : {"idle", "connect", "audio", "video",
                                          "addAudio", "addVideo", "hold", "dropVideo",
                                          "dropAudio", "dropAudioSender",
                                          "dropVideoSender", "close"},
                                    client : 0..made']]
  BY DEF Placed, Positions, Making, Creating, Drops

-----------------------------------------------------------------------------
(* Steps that take or release a reference.                                  *)

\* GetClient(), on the lws or the signaling thread.
LEMMA GetClientStep ==
    ASSUME LocalInv, NEW t \in {"lws", "sig"}, GetClient(t)
    PROVE  LocalInv'
  <1> USE DEF managerVars, histVars
  <1>1. /\ thread[t].at = "idle" /\ thread[t].client = 0
        /\ lock_ = "none" /\ user # 0
        /\ UNCHANGED <<made, user, lock_, connected, track, sender, senders, enabled, renders,
                       camera, created, sending>>
    BY DEF GetClient, Idle
  <1>2. Placed(t, "hold", user)
    <2>1. user \in 0..made' /\ made' \in Nat /\ made' >= made /\ "hold" \in Positions /\ t \in Threads
      BY <1>1, ThreadTypes DEF LocalInv, Positions, Threads
    <2> QED  BY <2>1, PlacedAt DEF GetClient, LocalInv
  <1>3. TypeOK'  BY <1>1, <1>2, PlacedTyped DEF LocalInv, TypeOK
  <1>4. ThreadsInv'
    BY <1>1, <1>2 DEF LocalInv, ThreadsInv, Placed, Threads, Drops, Making, Creating
  <1>5. \A c : c # 0 /\ Alive(c) => Alive(c)'
    BY <1>1, <1>2 DEF Alive, Placed
  <1>6. TracksInv'
    BY <1>1, <1>2, <1>5 DEF LocalInv, TracksInv, Placed, PastTrack, PastSender, Drops
  <1>7. CreatedInv'  BY <1>1, <1>2 DEF LocalInv, CreatedInv, Placed, Threads
  <1>8. RendersInv'  BY <1>1, <1>2 DEF LocalInv, RendersInv, Placed, Threads
  <1>9. SendersInv'
    BY <1>1, <1>5, LocalMediaAssumption DEF LocalInv, SendersInv, Client
  <1>10. IntactInv'  BY <1>1 DEF LocalInv, IntactInv
  <1> QED  BY <1>3, <1>4, <1>6, <1>7, <1>8, <1>9, <1>10 DEF LocalInv

\* The client is let go of: its destructor begins if nobody else has it.
LEMMA ReleaseStep ==
    ASSUME LocalInv, NEW t \in {"lws", "sig"}, Release(t)
    PROVE  LocalInv'
  <1> USE DEF managerVars, histVars
  <1>1. /\ thread[t].at = "hold" /\ t \in Threads
        /\ UNCHANGED <<made, user, lock_, connected, track, sender, senders, enabled, renders,
                       camera, created, sending>>
    BY DEF Release, Threads
  <1>2. thread[t].client # 0  BY <1>1 DEF LocalInv, ThreadsInv
  <1>3. \/ LastReference(t, thread[t].client) /\ Placed(t, "dropVideo", thread[t].client)
        \/ ~LastReference(t, thread[t].client) /\ Placed(t, "idle", 0)
    <2>1. CASE LastReference(t, thread[t].client)
      <3>1. thread' = [thread EXCEPT ![t].at = "dropVideo"]  BY <2>1 DEF Release
      <3>2. "dropVideo" \in Positions  BY DEF Positions, Drops
      <3> QED  BY <1>1, <2>1, <3>1, <3>2, MovedTo DEF LocalInv
    <2>2. CASE ~LastReference(t, thread[t].client)
      <3>1. thread' = [thread EXCEPT ![t] = At("idle", 0)]  BY <2>2 DEF Release, Idle, At
      <3>2. "idle" \in Positions /\ 0 \in 0..made' /\ made' \in Nat /\ made' >= made
        BY <1>1, ThreadTypes DEF Positions, LocalInv
      <3> QED  BY <1>1, <2>2, <3>1, <3>2, PlacedAt DEF LocalInv
    <2> QED  BY <2>1, <2>2
  <1>4. TypeOK'  BY <1>1, <1>3, PlacedTyped DEF LocalInv, TypeOK
  <1>5. ThreadsInv'
    BY <1>1, <1>2, <1>3
    DEF LocalInv, ThreadsInv, Placed, Threads, Drops, Making, Creating, LastReference
  <1>6. \A c : c # 0 /\ Alive(c) => Alive(c)'
    BY <1>1, <1>2, <1>3 DEF Alive, Placed, LastReference
  <1>7. TracksInv'
    BY <1>1, <1>3, <1>6 DEF LocalInv, TracksInv, Placed, PastTrack, PastSender, Drops
  <1>8. CreatedInv'  BY <1>1, <1>3 DEF LocalInv, CreatedInv, Placed, Threads
  <1>9. RendersInv'  BY <1>1, <1>3 DEF LocalInv, RendersInv, Placed, Threads
  <1>10. SendersInv'
    BY <1>1, <1>6, LocalMediaAssumption DEF LocalInv, SendersInv, Client
  <1>11. IntactInv'  BY <1>1 DEF LocalInv, IntactInv
  <1> QED  BY <1>4, <1>5, <1>7, <1>8, <1>9, <1>10, <1>11 DEF LocalInv

\* A new client: nobody else refers to it and it has no stream yet, and no
\* renderer is left; the signaling thread may have an older client still.
LEMMA AddNewStep == ASSUME LocalInv, AddNew  PROVE LocalInv'
  <1> USE DEF managerVars, histVars
  <1>1. /\ thread["lws"].at = "idle" /\ thread["lws"].client = 0
        /\ lock_ = "none" /\ user = 0 /\ made < MaxClients
        /\ made' = made + 1 /\ user' = made'
        /\ UNCHANGED <<track, sender, senders, enabled, renders, camera, created, sending>>
    BY DEF AddNew, Idle
  <1>2. /\ made \in Nat /\ made' \in Nat /\ made' >= made /\ made' # 0
        /\ made' \in 0..made' /\ made' \in 1..made' /\ made' \in 0..MaxClients
        /\ 0..made \subseteq 0..made' /\ 1..made \subseteq 1..made'
        /\ made' \notin 0..made /\ made' \notin 1..made
    BY <1>1, ThreadTypes, LocalMediaAssumption DEF LocalInv
  <1>3. lock_' = "lws" /\ connected' = connected /\ Placed("lws", "connect", made')
    <2>1. "connect" \in Positions /\ "lws" \in Threads  BY DEF Positions, Making, Threads
    <2>2. /\ lock_' = "lws" /\ connected' = connected
          /\ thread' = [thread EXCEPT !["lws"] = At("connect", made')]
      BY DEF AddNew
    <2> QED  BY <1>2, <2>1, <2>2, PlacedAt DEF LocalInv
  <1>4. TypeOK'
    <2>1. thread' \in [Threads -> [at : {"idle", "connect", "audio", "video",
                                         "addAudio", "addVideo", "hold", "dropVideo",
                                         "dropAudio", "dropAudioSender",
                                         "dropVideoSender", "close"},
                                   client : 0..made']]
      BY <1>3, PlacedTyped
    <2>2. made' \in 0..MaxClients /\ user' \in 0..made'  BY <1>1, <1>2
    <2>3. lock_' \in {"none", "ui", "lws"}  BY <1>3 DEF LocalInv, TypeOK
    <2>4. connected' \subseteq 1..made'  BY <1>2, <1>3 DEF LocalInv, TypeOK
    <2>5. track' \in [Kinds -> 0..made'] /\ sender' \in [Kinds -> 0..made']
      BY <1>1, <1>2 DEF LocalInv, TypeOK
    <2>6. /\ enabled' \subseteq Kinds \X (1..made') /\ renders' \subseteq 1..made'
          /\ camera' \subseteq 1..made'
          /\ created' \subseteq Kinds \X (1..made') /\ sending' \subseteq created'
          /\ senders' \in [Client -> SUBSET Kinds]
      BY <1>1, <1>2 DEF LocalInv, TypeOK
    <2> QED  BY <2>1, <2>2, <2>3, <2>4, <2>5, <2>6 DEF TypeOK
  <1>5. \A t \in Threads : thread[t].client # made'
    BY <1>2, ThreadTypes DEF LocalInv
  <1>6. ThreadsInv'
    BY <1>1, <1>2, <1>3, <1>5 DEF LocalInv, ThreadsInv, Placed, Threads, Drops, Making, Creating
  <1>7. \A c : c # 0 /\ Alive(c) => Alive(c)'
    BY <1>1, <1>3 DEF Alive, Placed
  <1>8. TracksInv'
    <2>1. "connect" \notin Drops  BY DEF Drops
    <2>2. \A k \in Kinds : PastTrack(k) \subseteq Drops /\ PastSender(k) \subseteq Drops
      BY DEF PastTrack, PastSender, Drops
    <2>3. \A k \in Kinds : track[k] # made' /\ sender[k] # made'
      BY <1>2 DEF LocalInv, TypeOK
    <2> QED  BY <1>1, <1>3, <1>7, <2>1, <2>2, <2>3 DEF LocalInv, TracksInv, Placed
  <1>9. created = created \cap (Kinds \X (1..made)) /\ sending \subseteq created
    BY DEF LocalInv, TypeOK
  <1>10. \A k : <<k, user'>> \notin created'  BY <1>1, <1>2, <1>9
  <1>11. CreatedInv'  BY <1>3, <1>10 DEF CreatedInv, Placed
  <1>12. renders = {}
    <2>1. thread["ui"].at \notin Drops  BY <1>1 DEF LocalInv, ThreadsInv
    <2>2. ASSUME NEW c \in renders PROVE FALSE
      <3>1. c # 0  BY DEF LocalInv, TypeOK
      <3>2. thread["ui"] = At("dropVideo", c)  BY <1>1, <3>1 DEF LocalInv, RendersInv
      <3> QED  BY <2>1, <3>2 DEF At, Drops
    <2> QED  BY <2>2
  <1>13. RendersInv'  BY <1>1, <1>12 DEF RendersInv
  <1>14. SendersInv'
    BY <1>1, <1>7, LocalMediaAssumption DEF LocalInv, SendersInv, Client
  <1>15. IntactInv'  BY <1>1, <1>9, <1>10 DEF IntactInv
  <1> QED  BY <1>4, <1>6, <1>8, <1>11, <1>13, <1>14, <1>15 DEF LocalInv

\* The connection is made, when the signaling thread is done with whatever it
\* was at, the end of an older client too; without one the client is held, with
\* no stream.
LEMMA CreateConnectionStep == ASSUME LocalInv, CreateConnection  PROVE LocalInv'
  <1> USE DEF managerVars, histVars
  <1>1. /\ thread["lws"].at = "connect" /\ "lws" \in Threads
        /\ thread["sig"].at = "idle" /\ thread["sig"].client = 0
        /\ UNCHANGED <<made, user, track, sender, senders, enabled, renders, camera, created,
                       sending>>
    BY DEF CreateConnection, Served, Idle, Threads
  <1>2. /\ thread["lws"].client = user /\ lock_ = "lws"
        /\ thread["ui"].at = "idle" /\ thread["ui"].client = 0
        /\ user # 0 /\ user \in 1..made
    <2>1. thread["lws"].client = user /\ lock_ = "lws" /\ user # 0
      BY <1>1 DEF LocalInv, ThreadsInv, Making
    <2>2. thread["ui"].at \notin Drops  BY <2>1 DEF LocalInv, ThreadsInv
    <2>3. thread["ui"].at = "idle" /\ thread["ui"].client = 0
      BY <2>2 DEF LocalInv, ThreadsInv, Threads
    <2> QED  BY <1>1, <2>1, <2>3, ThreadTypes DEF LocalInv
  <1>3. \/ /\ connected' = connected \cup {user} /\ lock_' = "lws"
           /\ Placed("lws", "audio", user)
        \/ /\ connected' = connected /\ lock_' = "none"
           /\ Placed("lws", "hold", user)
    <2>1. "audio" \in Positions /\ "hold" \in Positions
      BY DEF Positions, Making, Creating
    <2>2. \/ /\ connected' = connected \cup {user} /\ lock_' = lock_
             /\ thread' = [thread EXCEPT !["lws"].at = "audio"]
          \/ /\ connected' = connected /\ lock_' = "none"
             /\ thread' = [thread EXCEPT !["lws"].at = "hold"]
      BY <1>2 DEF CreateConnection
    <2>3. made' = made  BY <1>1
    <2>4. CASE thread' = [thread EXCEPT !["lws"].at = "audio"]
      <3>1. Placed("lws", "audio", user)
        BY <1>1, <1>2, <2>1, <2>3, <2>4, MovedTo DEF LocalInv
      <3>2. thread'["lws"].at # "hold"  BY <3>1 DEF Placed
      <3>3. thread' # [thread EXCEPT !["lws"].at = "hold"]
        <4>1. ASSUME thread' = [thread EXCEPT !["lws"].at = "hold"]  PROVE FALSE
          <5>1. Placed("lws", "hold", thread["lws"].client)
            BY <1>1, <2>1, <2>3, <4>1, MovedTo DEF LocalInv
          <5> QED  BY <3>2, <5>1 DEF Placed
        <4> QED  BY <4>1
      <3> QED  BY <1>2, <2>2, <3>1, <3>3
    <2>5. CASE connected' = connected /\ lock_' = "none"
               /\ thread' = [thread EXCEPT !["lws"].at = "hold"]
      <3>1. Placed("lws", "hold", user)
        BY <1>1, <1>2, <2>1, <2>3, <2>5, MovedTo DEF LocalInv
      <3> QED  BY <2>5, <3>1
    <2> QED  BY <2>2, <2>4, <2>5
  <1>4. TypeOK'
    <2>1. thread' \in [Threads -> [at : {"idle", "connect", "audio", "video",
                                         "addAudio", "addVideo", "hold", "dropVideo",
                                         "dropAudio", "dropAudioSender",
                                         "dropVideoSender", "close"},
                                   client : 0..made']]
      BY <1>3, PlacedTyped
    <2>2. lock_' \in {"none", "ui", "lws"} /\ connected' \subseteq 1..made'
      BY <1>1, <1>2, <1>3 DEF LocalInv, TypeOK
    <2> QED  BY <1>1, <2>1, <2>2 DEF LocalInv, TypeOK
  <1>5. ThreadsInv'
    BY <1>1, <1>2, <1>3 DEF LocalInv, ThreadsInv, Placed, Threads, Drops, Making, Creating
  <1>6. \A c : Alive(c)' <=> Alive(c)  BY <1>1, <1>2, <1>3 DEF Alive, Placed
  <1>7. TracksInv'
    <2>1. "audio" \notin Drops /\ "hold" \notin Drops  BY DEF Drops
    <2>2. \A k \in Kinds : PastTrack(k) \subseteq Drops /\ PastSender(k) \subseteq Drops
      BY DEF PastTrack, PastSender, Drops
    <2>3. connected \subseteq connected'  BY <1>3
    <2>4. \A t \in Threads : /\ thread'[t].client = thread[t].client
                             /\ thread'[t].at = thread[t].at \/ thread'[t].at \notin Drops
      BY <1>2, <1>3, <2>1 DEF Placed
    <2> QED  BY <1>1, <1>6, <2>2, <2>3, <2>4 DEF LocalInv, TracksInv
  <1>8. \A k \in Kinds : <<k, user>> \notin created
    BY <1>1 DEF LocalInv, CreatedInv, Kinds
  <1>9. CreatedInv'  BY <1>1, <1>3, <1>8 DEF CreatedInv, Placed, Kinds
  <1>10. renders = {}  BY <1>1 DEF LocalInv, RendersInv
  <1>11. RendersInv'  BY <1>1, <1>10 DEF RendersInv
  <1>12. SendersInv'  BY <1>1, <1>6 DEF LocalInv, SendersInv
  <1>13. IntactInv'  BY <1>1 DEF LocalInv, IntactInv
  <1> QED  BY <1>4, <1>5, <1>7, <1>9, <1>11, <1>12, <1>13 DEF LocalInv

\* The client is dropped from the map, with the renderers; its destructor
\* begins on the UI thread if no other thread has it.
LEMMA RemoveAllClientsStep == ASSUME LocalInv, RemoveAllClients  PROVE LocalInv'
  <1> USE DEF histVars
  <1>1. /\ thread["ui"].at = "idle" /\ thread["ui"].client = 0 /\ thread["ui"] = Idle
        /\ lock_ = "none" /\ user # 0 /\ user' = 0
        /\ UNCHANGED <<made, connected, track, sender, senders, enabled, camera, created,
                       sending>>
    BY DEF RemoveAllClients, Idle
  <1>2. made \in Nat /\ made' \in Nat /\ made' >= made /\ user \in 0..made' /\ 0 \in 0..made'
    BY <1>1, ThreadTypes DEF LocalInv
  <1>3. \/ /\ \A u \in Threads : thread[u].client # user
           /\ lock_' = "ui" /\ renders' = renders
           /\ Placed("ui", "dropVideo", user)
           /\ thread'["ui"] = At("dropVideo", user)
        \/ /\ \E u \in Threads : thread[u].client = user
           /\ lock_' = lock_ /\ renders' = {} /\ thread' = thread
    <2>1. CASE \A u \in Threads : thread[u].client # user
      <3>1. thread' = [thread EXCEPT !["ui"] = At("dropVideo", user)] /\ lock_' = "ui"
            /\ renders' = renders
        BY <2>1 DEF RemoveAllClients
      <3>2. "dropVideo" \in Positions /\ "ui" \in Threads  BY DEF Positions, Drops, Threads
      <3>3. Placed("ui", "dropVideo", user)  BY <1>2, <3>1, <3>2, PlacedAt DEF LocalInv
      <3>4. thread'["ui"] = At("dropVideo", user)  BY <3>1, <3>2 DEF LocalInv, TypeOK
      <3> QED  BY <2>1, <3>1, <3>3, <3>4
    <2>2. CASE ~ \A u \in Threads : thread[u].client # user
      BY <2>2 DEF RemoveAllClients
    <2> QED  BY <2>1, <2>2
  <1>4. TypeOK'
    <2>1. thread' \in [Threads -> [at : {"idle", "connect", "audio", "video",
                                         "addAudio", "addVideo", "hold", "dropVideo",
                                         "dropAudio", "dropAudioSender",
                                         "dropVideoSender", "close"},
                                   client : 0..made']]
      BY <1>1, <1>3, PlacedTyped DEF LocalInv, TypeOK
    <2>2. lock_' \in {"none", "ui", "lws"} /\ renders' \subseteq 1..made'
      BY <1>1, <1>3 DEF LocalInv, TypeOK
    <2>3. user' \in 0..made'  BY <1>1, <1>2
    <2> QED  BY <1>1, <2>1, <2>2, <2>3 DEF LocalInv, TypeOK
  <1>5. ThreadsInv'
    BY <1>1, <1>3 DEF LocalInv, ThreadsInv, Placed, Threads, Drops, Making, Creating
  <1>6. \A c : c # 0 /\ Alive(c) => Alive(c)'
    BY <1>1, <1>3 DEF Alive, Placed, Threads
  <1>7. TracksInv'
    BY <1>1, <1>3, <1>6 DEF LocalInv, TracksInv, Placed, PastTrack, PastSender, Drops
  <1>8. thread'["lws"] = thread["lws"] /\ thread["lws"].at \notin Making
    BY <1>1, <1>3 DEF LocalInv, ThreadsInv, Placed, Threads
  <1>9. CreatedInv'  BY <1>8 DEF CreatedInv, Making, Creating
  <1>10. RendersInv'
    <2>1. ASSUME NEW c \in renders', renders' = renders  PROVE c = track["video"] /\ c = user
      <3>1. thread["ui"] # At("dropVideo", c)  BY <1>1 DEF At, Idle
      <3> QED  BY <2>1, <3>1 DEF LocalInv, RendersInv
    <2> QED  BY <1>1, <1>3, <1>8, <2>1 DEF RendersInv, Making, Creating
  <1>11. SendersInv'
    BY <1>1, <1>6, LocalMediaAssumption DEF LocalInv, SendersInv, Client
  <1>12. IntactInv'  BY <1>1 DEF IntactInv
  <1> QED  BY <1>4, <1>5, <1>7, <1>9, <1>10, <1>11, <1>12 DEF LocalInv

-----------------------------------------------------------------------------
(* CreateLocalMediaStream().                                                *)

\* The client whose stream is created is the one in the map; no destructor is
\* at work on it.
LEMMA CreatingUser ==
    ASSUME LocalInv, thread["lws"].at \in Creating
    PROVE  /\ thread["lws"].client = user /\ user \in connected /\ user # 0
           /\ user \in 0..made /\ user \in 1..made /\ user \in Client
           /\ \A t \in Threads : thread[t].client = user => thread[t].at \notin Drops
           /\ lock_ = "lws" /\ thread["ui"].at \notin Drops
           /\ "lws" \in Threads
  <1>1. "lws" \in Threads /\ thread["lws"].at # "idle"  BY DEF Threads, Creating
  <1>2. thread["lws"].client = user /\ user \in connected  BY DEF LocalInv, ThreadsInv
  <1>3. user # 0  BY <1>1, <1>2 DEF LocalInv, ThreadsInv
  <1>4. user \in 1..made /\ user \in 0..made /\ user \in Client
    BY <1>3, ThreadTypes, LocalMediaAssumption DEF LocalInv, Client
  <1>5. \A t \in Threads : thread[t].client = user => thread[t].at \notin Drops
    BY DEF LocalInv, ThreadsInv
  <1>6. lock_ = "lws" /\ lock_ # "ui"  BY DEF LocalInv, ThreadsInv, Making
  <1> QED  BY <1>1, <1>2, <1>3, <1>4, <1>5, <1>6 DEF LocalInv, ThreadsInv

\* A step of the creation but the last: the lws thread goes on with its client
\* under lock_.
LEMMA CreatingThreads ==
    ASSUME LocalInv, thread["lws"].at \in Creating, NEW position \in Creating,
           thread' = [thread EXCEPT !["lws"].at = position],
           UNCHANGED <<made, user, lock_, connected>>
    PROVE  /\ Placed("lws", position, user)
           /\ ThreadsInv'
           /\ \A c : Alive(c)' <=> Alive(c)
  <1>1. Placed("lws", position, user)
    <2>1. position \in Positions /\ "lws" \in Threads  BY DEF Positions, Making, Threads
    <2> QED  BY <2>1, MovedTo, CreatingUser DEF LocalInv
  <1>2. ThreadsInv'
    BY <1>1, CreatingUser DEF LocalInv, ThreadsInv, Placed, Threads, Drops, Making, Creating
  <1>3. \A c : Alive(c)' <=> Alive(c)
    BY <1>1, CreatingUser DEF Alive, Placed
  <1> QED  BY <1>1, <1>2, <1>3

\* The audio track.
LEMMA CreateAudioStep == ASSUME LocalInv, CreateAudio  PROVE LocalInv'
  <1>0. /\ thread["lws"].at = "audio" /\ thread["lws"].at \in Creating
        /\ "video" \in Creating
    BY DEF CreateAudio, Creating
  <1>1. /\ thread["lws"].client = user /\ user \in connected /\ user # 0
        /\ user \in 0..made /\ user \in 1..made /\ user \in Client
        /\ \A t \in Threads : thread[t].client = user => thread[t].at \notin Drops
    BY <1>0, CreatingUser
  <1>2. /\ \/ /\ track' = [track EXCEPT !["audio"] = user]
              /\ enabled' = enabled \cup {<<"audio", user>>}
              /\ created' = created \cup {<<"audio", user>>}
           \/ track' = [track EXCEPT !["audio"] = 0] /\ UNCHANGED <<enabled, created>>
        /\ thread' = [thread EXCEPT !["lws"].at = "video"]
        /\ UNCHANGED <<made, user, lock_, connected, sender, senders, renders, camera, sending>>
    BY <1>1 DEF CreateAudio
  <1>3. Placed("lws", "video", user) /\ ThreadsInv' /\ \A c : Alive(c)' <=> Alive(c)
    BY <1>0, <1>2, CreatingThreads
  <1>4. track'["video"] = track["video"] /\ track'["audio"] \in {0, user}
    BY <1>2 DEF LocalInv, TypeOK, Kinds
  <1>5. TypeOK'
    <2>1. track' \in [Kinds -> 0..made']  BY <1>1, <1>2 DEF LocalInv, TypeOK
    <2>2. /\ enabled' \subseteq Kinds \X (1..made')
          /\ created' \subseteq Kinds \X (1..made') /\ sending' \subseteq created'
      BY <1>1, <1>2 DEF LocalInv, TypeOK, Kinds
    <2> QED  BY <1>2, <1>3, <2>1, <2>2, PlacedTyped DEF LocalInv, TypeOK
  <1>6. TracksInv'
    <2>1. Alive(user) /\ created \subseteq created'  BY <1>2 DEF Alive
    <2>2. track'["audio"] # 0 => <<"audio", track'["audio"]>> \in created'
      BY <1>2, <1>4 DEF LocalInv, TypeOK, Kinds
    <2>3. \A t \in Threads : /\ thread'[t].client = thread[t].client
                             /\ thread'[t].at = thread[t].at \/ thread'[t].at = "video"
      BY <1>1, <1>3 DEF Placed
    <2> QED  BY <1>1, <1>2, <1>3, <1>4, <2>1, <2>2, <2>3
             DEF LocalInv, TracksInv, Kinds, PastTrack, PastSender, Drops
  <1>7. <<"video", user>> \notin created'  BY <1>0, <1>2 DEF LocalInv, CreatedInv
  <1>8. CreatedInv'  BY <1>2, <1>3, <1>4, <1>7 DEF CreatedInv, Placed
  <1>9. renders = {}  BY <1>0 DEF LocalInv, RendersInv
  <1>10. RendersInv'  BY <1>2, <1>9 DEF RendersInv
  <1>11. SendersInv'  BY <1>2, <1>3 DEF LocalInv, SendersInv
  <1>12. IntactInv'
    <2>1. <<"audio", user>> \notin created  BY <1>0 DEF LocalInv, CreatedInv
    <2>2. track \in [Kinds -> 0..made]  BY DEF LocalInv, TypeOK
    <2> QED  BY <1>2, <1>7, <2>1, <2>2 DEF LocalInv, IntactInv, Kinds
  <1> QED  BY <1>3, <1>5, <1>6, <1>8, <1>10, <1>11, <1>12 DEF LocalInv

\* The video track and its renderer.
LEMMA CreateVideoStep == ASSUME LocalInv, CreateVideo  PROVE LocalInv'
  <1>0. /\ thread["lws"].at = "video" /\ thread["lws"].at \in Creating
        /\ "addAudio" \in Creating
    BY DEF CreateVideo, Creating
  <1>1. /\ thread["lws"].client = user /\ user \in connected /\ user # 0
        /\ user \in 0..made /\ user \in 1..made /\ user \in Client
        /\ \A t \in Threads : thread[t].client = user => thread[t].at \notin Drops
    BY <1>0, CreatingUser
  <1>2. /\ \/ /\ track' = [track EXCEPT !["video"] = user]
              /\ renders' = renders \cup {user}
              /\ enabled' = enabled \cup {<<"video", user>>}
              /\ created' = created \cup {<<"video", user>>}
           \/ track' = [track EXCEPT !["video"] = 0] /\ UNCHANGED <<renders, enabled, created>>
        /\ camera' = camera \/ camera' = camera \cup {user}
        /\ thread' = [thread EXCEPT !["lws"].at = "addAudio"]
        /\ UNCHANGED <<made, user, lock_, connected, sender, senders, sending>>
    BY <1>1 DEF CreateVideo, OpenCamera
  <1>3. Placed("lws", "addAudio", user) /\ ThreadsInv' /\ \A c : Alive(c)' <=> Alive(c)
    BY <1>0, <1>2, CreatingThreads
  <1>4. track'["audio"] = track["audio"] /\ track'["video"] \in {0, user}
    BY <1>2 DEF LocalInv, TypeOK, Kinds
  <1>5. TypeOK'
    <2>1. track' \in [Kinds -> 0..made']  BY <1>1, <1>2 DEF LocalInv, TypeOK
    <2>2. /\ enabled' \subseteq Kinds \X (1..made')
          /\ created' \subseteq Kinds \X (1..made') /\ sending' \subseteq created'
          /\ renders' \subseteq 1..made' /\ camera' \subseteq 1..made'
      BY <1>1, <1>2 DEF LocalInv, TypeOK, Kinds
    <2> QED  BY <1>2, <1>3, <2>1, <2>2, PlacedTyped DEF LocalInv, TypeOK
  <1>6. TracksInv'
    <2>1. Alive(user) /\ created \subseteq created'  BY <1>2 DEF Alive
    <2>2. track'["video"] # 0 => <<"video", track'["video"]>> \in created'
      BY <1>2, <1>4 DEF LocalInv, TypeOK, Kinds
    <2>3. \A t \in Threads : /\ thread'[t].client = thread[t].client
                             /\ thread'[t].at = thread[t].at \/ thread'[t].at = "addAudio"
      BY <1>1, <1>3 DEF Placed
    <2> QED  BY <1>1, <1>2, <1>3, <1>4, <2>1, <2>2, <2>3
             DEF LocalInv, TracksInv, Kinds, PastTrack, PastSender, Drops
  <1>7. track["audio"] \in {0, user}  BY <1>0 DEF LocalInv, CreatedInv
  <1>8. CreatedInv'  BY <1>2, <1>3, <1>4, <1>7 DEF CreatedInv, Placed
  <1>9. renders = {}  BY <1>0 DEF LocalInv, RendersInv
  <1>10. RendersInv'
    <2>1. track \in [Kinds -> 0..made]  BY DEF LocalInv, TypeOK
    <2> QED  BY <1>2, <1>3, <1>9, <2>1 DEF RendersInv, Placed, Kinds
  <1>11. SendersInv'  BY <1>2, <1>3 DEF LocalInv, SendersInv
  <1>12. IntactInv'
    <2>1. <<"video", user>> \notin created  BY <1>0 DEF LocalInv, CreatedInv
    <2>2. track \in [Kinds -> 0..made]  BY DEF LocalInv, TypeOK
    <2> QED  BY <1>2, <2>1, <2>2 DEF LocalInv, IntactInv, Kinds
  <1> QED  BY <1>3, <1>5, <1>6, <1>8, <1>10, <1>11, <1>12 DEF LocalInv

\* AddTrack() of one kind: the sender is that of the track's client, which is
\* the one in the map.
LEMMA AddTrackKeeps ==
    ASSUME LocalInv, NEW k \in Kinds, AddTrack(k, user),
           thread["lws"].at \in Creating, track[k] \in {0, user},
           UNCHANGED <<made, user, connected, track, enabled, renders, camera, created>>,
           \A c : Alive(c)' <=> Alive(c),
           NEW position, position \notin Drops,
           Placed("lws", position, user)
    PROVE  /\ sender' \in [Kinds -> 0..made'] /\ senders' \in [Client -> SUBSET Kinds]
           /\ sending' \subseteq created'
           /\ TracksInv' /\ SendersInv' /\ IntactInv'
  <1>1. /\ thread["lws"].client = user /\ user \in connected /\ user # 0
        /\ user \in 0..made /\ user \in 1..made /\ user \in Client
        /\ \A t \in Threads : thread[t].client = user => thread[t].at \notin Drops
    BY CreatingUser
  <1>2. /\ sender \in [Kinds -> 0..made] /\ senders \in [Client -> SUBSET Kinds]
        /\ sending \subseteq created
    BY DEF LocalInv, TypeOK
  <1>3. \/ UNCHANGED <<sender, senders, sending>>
        \/ /\ track[k] # 0 /\ <<k, user>> \in created
           /\ senders' = [senders EXCEPT ![user] = @ \cup {k}]
           /\ sender' = [sender EXCEPT ![k] = user]
           /\ sending' = sending \cup {<<k, user>>}
    BY DEF AddTrack, LocalInv, TracksInv
  <1>4. sender' \in [Kinds -> 0..made'] /\ senders' \in [Client -> SUBSET Kinds]
    BY <1>1, <1>2, <1>3
  <1>5. sending' \subseteq created'  BY <1>2, <1>3
  <1>6. \A j \in Kinds : sender'[j] = sender[j] \/ sender'[j] = user  BY <1>2, <1>3
  <1>7. Alive(user)  BY DEF Alive
  <1>8. \A t \in Threads : /\ thread'[t].client = thread[t].client
                           /\ thread'[t].at = thread[t].at \/ thread'[t].at = position
    BY <1>1 DEF Placed
  <1>9. \A j \in Kinds : PastTrack(j) \subseteq Drops /\ PastSender(j) \subseteq Drops
    BY DEF PastTrack, PastSender, Drops
  <1>10. TracksInv'
    BY <1>1, <1>6, <1>7, <1>8, <1>9 DEF LocalInv, TracksInv
  <1>11. SendersInv'
    <2>1. \A c \in Client : senders'[c] = senders[c] \/ c = user  BY <1>1, <1>2, <1>3
    <2> QED  BY <1>7, <2>1 DEF LocalInv, SendersInv
  <1>12. IntactInv'
    <2>1. \A j \in Kinds : <<j, user>> \in sending' => <<j, user>> \in sending \/ j = k
      BY <1>3
    <2>2. UNCHANGED <<sender, senders, sending>>
          \/ (sender'[k] = user /\ k \in senders'[user] /\ senders[user] \subseteq senders'[user])
      BY <1>1, <1>2, <1>3
    <2> QED  BY <1>6, <2>1, <2>2 DEF LocalInv, IntactInv
  <1> QED  BY <1>4, <1>5, <1>10, <1>11, <1>12

\* The audio sender.
LEMMA AddAudioStep == ASSUME LocalInv, AddAudioTrack  PROVE LocalInv'
  <1>0. /\ thread["lws"].at = "addAudio" /\ thread["lws"].at \in Creating
        /\ "addVideo" \in Creating /\ "addVideo" \notin Drops
    BY DEF AddAudioTrack, Creating, Drops
  <1>1. thread["lws"].client = user  BY <1>0, CreatingUser
  <1>2. /\ AddTrack("audio", user)
        /\ thread' = [thread EXCEPT !["lws"].at = "addVideo"]
        /\ UNCHANGED <<made, user, lock_, connected, track, enabled, renders, camera, created>>
    BY <1>1 DEF AddAudioTrack
  <1>3. Placed("lws", "addVideo", user) /\ ThreadsInv' /\ \A c : Alive(c)' <=> Alive(c)
    BY <1>0, <1>2, CreatingThreads
  <1>4. track["audio"] \in {0, user} /\ track["video"] \in {0, user}
    BY <1>0 DEF LocalInv, CreatedInv
  <1>5. /\ sender' \in [Kinds -> 0..made'] /\ senders' \in [Client -> SUBSET Kinds]
        /\ sending' \subseteq created'
        /\ TracksInv' /\ SendersInv' /\ IntactInv'
    <2>1. "audio" \in Kinds  BY DEF Kinds
    <2> QED  BY <1>0, <1>2, <1>3, <1>4, <2>1, AddTrackKeeps
  <1>6. TypeOK'  BY <1>2, <1>3, <1>5, PlacedTyped DEF LocalInv, TypeOK
  <1>7. CreatedInv'  BY <1>2, <1>3, <1>4 DEF CreatedInv, Placed
  <1>8. RendersInv'  BY <1>2, <1>3 DEF LocalInv, RendersInv, Placed, Threads
  <1> QED  BY <1>3, <1>5, <1>6, <1>7, <1>8 DEF LocalInv

\* The video sender: lock_ is released and the lws thread holds the client.
LEMMA AddVideoStep == ASSUME LocalInv, AddVideoTrack  PROVE LocalInv'
  <1>0. /\ thread["lws"].at = "addVideo" /\ thread["lws"].at \in Creating
        /\ "hold" \in Positions /\ "hold" \notin Drops
    BY DEF AddVideoTrack, Making, Creating, Drops, Positions
  <1>1. /\ thread["lws"].client = user /\ "lws" \in Threads /\ user # 0
        /\ \A t \in Threads : thread[t].client = user => thread[t].at \notin Drops
        /\ thread["ui"].at \notin Drops
    BY <1>0, CreatingUser
  <1>2. /\ AddTrack("video", user) /\ lock_' = "none"
        /\ thread' = [thread EXCEPT !["lws"].at = "hold"]
        /\ UNCHANGED <<made, user, connected, track, enabled, renders, camera, created>>
    BY <1>1 DEF AddVideoTrack
  <1>3. Placed("lws", "hold", user)  BY <1>0, <1>1, <1>2, MovedTo DEF LocalInv
  <1>4. ThreadsInv'
    BY <1>0, <1>1, <1>2, <1>3 DEF LocalInv, ThreadsInv, Placed, Threads, Drops, Making, Creating
  <1>5. \A c : Alive(c)' <=> Alive(c)  BY <1>1, <1>2, <1>3 DEF Alive, Placed
  <1>6. track["video"] \in {0, user}  BY <1>0 DEF LocalInv, CreatedInv
  <1>7. /\ sender' \in [Kinds -> 0..made'] /\ senders' \in [Client -> SUBSET Kinds]
        /\ sending' \subseteq created'
        /\ TracksInv' /\ SendersInv' /\ IntactInv'
    <2>1. "video" \in Kinds  BY DEF Kinds
    <2> QED  BY <1>0, <1>2, <1>3, <1>5, <1>6, <2>1, AddTrackKeeps
  <1>8. TypeOK'  BY <1>2, <1>3, <1>7, PlacedTyped DEF LocalInv, TypeOK
  <1>9. CreatedInv'  BY <1>3 DEF CreatedInv, Placed
  <1>10. RendersInv'  BY <1>2, <1>3 DEF LocalInv, RendersInv, Placed, Threads
  <1> QED  BY <1>4, <1>7, <1>8, <1>9, <1>10 DEF LocalInv

-----------------------------------------------------------------------------
(* DestroyLocalMediaStream() and the end of the client.                     *)

\* A step of the destructor but the last: the thread goes on with its client,
\* and the client in the map, if any, has no stream yet.
LEMMA DestroyingThreads ==
    ASSUME LocalInv, NEW t \in Threads, NEW position \in Drops, NEW next \in Drops,
           NEW taken, Destroying(t, position, taken),
           thread' = [thread EXCEPT ![t].at = next],
           UNCHANGED <<made, user, lock_, connected, created, sending>>
    PROVE  /\ thread[t].at = position /\ thread[t].client \in connected
           /\ Placed(t, next, thread[t].client)
           /\ thread' \in [Threads -> [at : {"idle", "connect", "audio", "video", "addAudio", "addVideo",
                                             "hold", "dropVideo", "dropAudio", "dropAudioSender",
                                             "dropVideoSender", "close"},
                                       client : 0..made']]
           /\ ThreadsInv' /\ IntactInv'
           /\ \A c : Alive(c)' <=> Alive(c)
           /\ thread'["lws"].at = thread["lws"].at \/ thread'["lws"].at \in Drops
  <1>1. thread[t].at = position /\ thread[t].client \in connected  BY DEF Destroying
  <1>2. Placed(t, next, thread[t].client)
    <2>1. next \in Positions  BY DEF Positions
    <2> QED  BY <2>1, MovedTo DEF LocalInv
  <1>3. ThreadsInv'
    BY <1>1, <1>2 DEF LocalInv, ThreadsInv, Placed, Threads, Drops, Making, Creating
  <1>4. user = 0 \/ thread["lws"].at = "connect"
    <2>1. t \in {"ui", "lws"} => user = 0  BY <1>1 DEF LocalInv, ThreadsInv
    <2>2. t = "sig" => user = 0 \/ thread["lws"].at = "connect"
      <3>1. "idle" \notin Drops  BY DEF Drops
      <3> QED  BY <1>1, <3>1 DEF LocalInv, ThreadsInv
    <2> QED  BY <2>1, <2>2 DEF Threads
  <1>5. IntactInv'
    <2>1. user # 0 => \A k \in Kinds : <<k, user>> \notin created
      BY <1>4 DEF LocalInv, CreatedInv, Kinds
    <2>2. sending \subseteq created  BY DEF LocalInv, TypeOK
    <2> QED  BY <2>1, <2>2 DEF IntactInv
  <1>7. \A c : Alive(c)' <=> Alive(c)  BY <1>2 DEF Alive, Placed
  <1> QED  BY <1>1, <1>2, <1>3, <1>5, <1>7, PlacedTyped DEF Placed, Threads

\* The video track and its renderer.
LEMMA DropVideoStep == ASSUME LocalInv, NEW t \in Threads, DropVideo(t)  PROVE LocalInv'
  <1>0. "dropVideo" \in Drops /\ "dropAudio" \in Drops  BY DEF Drops
  <1>1. /\ Destroying(t, "dropVideo", track["video"])
        /\ thread' = [thread EXCEPT ![t].at = "dropAudio"]
        /\ renders' = renders \ {track["video"]}
        /\ enabled' = enabled \ {<<"video", track["video"]>>}
        /\ track' = [track EXCEPT !["video"] = 0]
        /\ UNCHANGED <<made, user, lock_, connected, sender, senders, camera, created, sending>>
    BY DEF DropVideo, DropTrack
  <1>2. /\ Placed(t, "dropAudio", thread[t].client)
        /\ thread' \in [Threads -> [at : {"idle", "connect", "audio", "video", "addAudio", "addVideo",
                                          "hold", "dropVideo", "dropAudio", "dropAudioSender",
                                          "dropVideoSender", "close"},
                                    client : 0..made']]
        /\ ThreadsInv' /\ IntactInv'
        /\ \A c : Alive(c)' <=> Alive(c)
        /\ thread'["lws"].at = thread["lws"].at \/ thread'["lws"].at \in Drops
    BY <1>0, <1>1, DestroyingThreads
  <1>3. track \in [Kinds -> 0..made] /\ made \in Nat  BY ThreadTypes DEF LocalInv, TypeOK
  <1>4. track'["video"] = 0 /\ track'["audio"] = track["audio"]  BY <1>1, <1>3 DEF Kinds
  <1>5. TypeOK'
    <2>1. 0 \in 0..made  BY <1>3
    <2>2. track' \in [Kinds -> 0..made']  BY <1>1, <1>3, <2>1
    <2> QED  BY <1>1, <1>2, <2>2 DEF LocalInv, TypeOK
  <1>6. TracksInv'
    BY <1>1, <1>2, <1>4 DEF LocalInv, TracksInv, Kinds, Placed, PastTrack, PastSender, Drops
  <1>7. CreatedInv'  BY <1>1, <1>2, <1>4 DEF LocalInv, CreatedInv, Drops
  <1>8. renders' = {}  BY <1>1 DEF LocalInv, RendersInv
  <1>9. RendersInv'  BY <1>8 DEF RendersInv
  <1>10. SendersInv'  BY <1>1, <1>2 DEF LocalInv, SendersInv
  <1> QED  BY <1>2, <1>5, <1>6, <1>7, <1>9, <1>10 DEF LocalInv

\* The audio track.
LEMMA DropAudioStep == ASSUME LocalInv, NEW t \in Threads, DropAudio(t)  PROVE LocalInv'
  <1>0. "dropAudio" \in Drops /\ "dropAudioSender" \in Drops  BY DEF Drops
  <1>1. /\ Destroying(t, "dropAudio", track["audio"])
        /\ thread' = [thread EXCEPT ![t].at = "dropAudioSender"]
        /\ enabled' = enabled \ {<<"audio", track["audio"]>>}
        /\ track' = [track EXCEPT !["audio"] = 0]
        /\ UNCHANGED <<made, user, lock_, connected, sender, senders, renders, camera, created,
                       sending>>
    BY DEF DropAudio, DropTrack
  <1>2. /\ Placed(t, "dropAudioSender", thread[t].client) /\ thread[t].at = "dropAudio"
        /\ thread' \in [Threads -> [at : {"idle", "connect", "audio", "video", "addAudio", "addVideo",
                                          "hold", "dropVideo", "dropAudio", "dropAudioSender",
                                          "dropVideoSender", "close"},
                                    client : 0..made']]
        /\ ThreadsInv' /\ IntactInv'
        /\ \A c : Alive(c)' <=> Alive(c)
        /\ thread'["lws"].at = thread["lws"].at \/ thread'["lws"].at \in Drops
    BY <1>0, <1>1, DestroyingThreads
  <1>3. track \in [Kinds -> 0..made] /\ made \in Nat  BY ThreadTypes DEF LocalInv, TypeOK
  <1>4. track'["audio"] = 0 /\ track'["video"] = track["video"]  BY <1>1, <1>3 DEF Kinds
  <1>5. TypeOK'
    <2>1. 0 \in 0..made  BY <1>3
    <2>2. track' \in [Kinds -> 0..made']  BY <1>1, <1>3, <2>1
    <2> QED  BY <1>1, <1>2, <2>2 DEF LocalInv, TypeOK
  <1>6. TracksInv'
    BY <1>1, <1>2, <1>4 DEF LocalInv, TracksInv, Kinds, Placed, PastTrack, PastSender, Drops
  <1>7. CreatedInv'  BY <1>1, <1>2, <1>4 DEF LocalInv, CreatedInv, Drops
  <1>9. RendersInv'
    BY <1>1, <1>2, <1>4 DEF LocalInv, RendersInv, Placed, Threads, Drops, At
  <1>10. SendersInv'  BY <1>1, <1>2 DEF LocalInv, SendersInv
  <1> QED  BY <1>2, <1>5, <1>6, <1>7, <1>9, <1>10 DEF LocalInv

\* A sender: the thread goes on past it, and the manager has none of that kind.
LEMMA DropSenderStep ==
    ASSUME LocalInv, NEW t \in Threads, NEW k \in Kinds, NEW position, NEW next,
           \/ k = "audio" /\ position = "dropAudioSender" /\ next = "dropVideoSender"
           \/ k = "video" /\ position = "dropVideoSender" /\ next = "close",
           Destroying(t, position, sender[k]), DropSender(k, thread[t].client),
           thread' = [thread EXCEPT ![t].at = next],
           UNCHANGED <<made, user, lock_, connected, track, enabled, renders, camera, created,
                       sending>>
    PROVE  LocalInv'
  <1>0. position \in Drops /\ next \in Drops  BY DEF Drops
  <1>1. /\ Placed(t, next, thread[t].client) /\ thread[t].at = position
        /\ thread' \in [Threads -> [at : {"idle", "connect", "audio", "video", "addAudio", "addVideo",
                                          "hold", "dropVideo", "dropAudio", "dropAudioSender",
                                          "dropVideoSender", "close"},
                                    client : 0..made']]
        /\ ThreadsInv' /\ IntactInv'
        /\ \A c : Alive(c)' <=> Alive(c)
        /\ thread'["lws"].at = thread["lws"].at \/ thread'["lws"].at \in Drops
    BY <1>0, DestroyingThreads
  <1>2. /\ sender \in [Kinds -> 0..made] /\ 0 \in 0..made
        /\ senders \in [Client -> SUBSET Kinds]
    BY ThreadTypes DEF LocalInv, TypeOK
  <1>3. /\ sender' \in [Kinds -> 0..made'] /\ sender'[k] = 0
        /\ \A j \in Kinds \ {k} : sender'[j] = sender[j]
    BY <1>2 DEF DropSender
  <1>4. /\ senders' \in [Client -> SUBSET Kinds]
        /\ \A c \in Client : senders'[c] \subseteq senders[c]
    BY <1>2 DEF DropSender
  <1>5. TypeOK'  BY <1>1, <1>3, <1>4 DEF LocalInv, TypeOK
  <1>6. TracksInv'
    <2>1. ASSUME NEW j \in Kinds, track'[j] # 0
          PROVE  /\ Alive(track[j])' /\ track'[j] \in connected' /\ <<j, track'[j]>> \in created'
                 /\ \A u \in Threads : thread'[u].client = track'[j] =>
                                         thread'[u].at \notin PastTrack(j)
      <3>1. position \in PastTrack(j)  BY DEF PastTrack, Drops, Kinds
      <3> QED  BY <1>1, <2>1, <3>1 DEF LocalInv, TracksInv, Placed
    <2>2. ASSUME NEW j \in Kinds, sender'[j] # 0
          PROVE  /\ Alive(sender[j])' /\ sender'[j] \in connected'
                 /\ \A u \in Threads : thread'[u].client = sender'[j] =>
                                         thread'[u].at \notin PastSender(j)
      <3>1. j # k /\ sender'[j] = sender[j]  BY <1>3, <2>2
      <3>2. next \in PastSender(j) => position \in PastSender(j)
        BY <3>1 DEF PastSender, Kinds
      <3> QED  BY <1>1, <2>2, <3>1, <3>2 DEF LocalInv, TracksInv, Placed
    <2> QED  BY <2>1, <2>2 DEF TracksInv
  <1>7. CreatedInv'  BY <1>1 DEF LocalInv, CreatedInv, Drops
  <1>8. RendersInv'
    BY <1>1 DEF LocalInv, RendersInv, Placed, Threads, Drops, At
  <1>9. SendersInv'  BY <1>1, <1>4 DEF LocalInv, SendersInv
  <1> QED  BY <1>1, <1>5, <1>6, <1>7, <1>8, <1>9 DEF LocalInv

\* The connection is closed and the client gone: nothing in the manager is of
\* that client any more.
LEMMA CloseStep == ASSUME LocalInv, NEW t \in Threads, Close(t)  PROVE LocalInv'
  <1>1. PICK c : c = thread[t].client  OBVIOUS
  <1>2. /\ thread[t].at = "close" \/ (thread[t].at = "dropVideo" /\ c \notin connected)
        /\ senders' = [senders EXCEPT ![c] = {}]
        /\ connected' = connected \ {c}
        /\ thread' = [thread EXCEPT ![t] = At("idle", 0)]
        /\ IF t = "ui" THEN renders' = {} /\ lock_' = "none" ELSE UNCHANGED <<renders, lock_>>
        /\ enabled' = {p \in enabled : p[2] # c} /\ created' = {p \in created : p[2] # c}
        /\ sending' = {p \in sending : p[2] # c}
        /\ UNCHANGED <<made, user, track, sender, camera>>
    BY <1>1 DEF Close, Forget, Idle, At
  <1>3. /\ thread[t].at \in Drops /\ c # 0 /\ c # user
        /\ \A u \in Threads \ {t} : thread[u].client # c
    <2>1. thread[t].at \in Drops /\ thread[t].at # "idle"  BY <1>2 DEF Drops
    <2> QED  BY <1>1, <2>1 DEF LocalInv, ThreadsInv
  <1>4. Placed(t, "idle", 0)
    <2>1. "idle" \in Positions /\ 0 \in 0..made' /\ made' \in Nat /\ made' >= made
      BY <1>2, ThreadTypes DEF Positions, LocalInv
    <2> QED  BY <1>2, <2>1, PlacedAt DEF LocalInv
  <1>5. /\ senders \in [Client -> SUBSET Kinds] /\ c \in Client
        /\ senders' \in [Client -> SUBSET Kinds]
        /\ senders'[c] = {} /\ \A d \in Client \ {c} : senders'[d] = senders[d]
    <2>1. c \in Client  BY <1>1, <1>3, ThreadTypes DEF LocalInv
    <2> QED  BY <1>2, <2>1 DEF LocalInv, TypeOK
  <1>6. TypeOK'
    <2>1. thread' \in [Threads -> [at : {"idle", "connect", "audio", "video",
                                         "addAudio", "addVideo", "hold", "dropVideo",
                                         "dropAudio", "dropAudioSender",
                                         "dropVideoSender", "close"},
                                   client : 0..made']]
      BY <1>4, PlacedTyped
    <2>2. /\ connected' \subseteq 1..made' /\ renders' \subseteq 1..made'
          /\ enabled' \subseteq Kinds \X (1..made') /\ created' \subseteq Kinds \X (1..made')
          /\ sending' \subseteq created' /\ lock_' \in {"none", "ui", "lws"}
      BY <1>2 DEF LocalInv, TypeOK
    <2> QED  BY <1>2, <1>5, <2>1, <2>2 DEF LocalInv, TypeOK
  <1>7. ThreadsInv'
    <2>1. CASE t = "ui"
      <3>1. lock_ = "ui" /\ lock_' = "none"  BY <1>2, <1>3, <2>1 DEF LocalInv, ThreadsInv
      <3> QED  BY <1>2, <1>3, <1>4, <2>1, <3>1
               DEF LocalInv, ThreadsInv, Placed, Threads, Drops, Making, Creating
    <2>2. CASE t # "ui"
      <3>1. lock_' = lock_  BY <1>2, <2>2
      <3> QED  BY <1>2, <1>3, <1>4, <2>2, <3>1
               DEF LocalInv, ThreadsInv, Placed, Threads, Drops, Making, Creating
    <2> QED  BY <2>1, <2>2
  <1>8. \A d : d # 0 /\ d # c /\ Alive(d) => Alive(d)'
    BY <1>1, <1>2, <1>4 DEF Alive, Placed
  <1>9. \A k \in Kinds : track[k] # c /\ sender[k] # c
    <2>1. \A k \in Kinds : "close" \in PastTrack(k) /\ "close" \in PastSender(k)
      BY DEF PastTrack, PastSender, Drops
    <2> QED  BY <1>1, <1>2, <1>3, <2>1 DEF LocalInv, TracksInv
  <1>10. TracksInv'
    <2>1. \A k \in Kinds : "idle" \notin PastTrack(k) /\ "idle" \notin PastSender(k)
      BY DEF PastTrack, PastSender, Drops
    <2>2. \A p : p \in created /\ p[2] # c => p \in created'  BY <1>2
    <2>3. \A k, d : <<k, d>> \in created /\ d # c => <<k, d>> \in created'  BY <2>2
    <2> QED  BY <1>2, <1>4, <1>8, <1>9, <2>1, <2>3 DEF LocalInv, TracksInv, Placed
  <1>11. /\ created' \subseteq created /\ renders' \subseteq renders
         /\ thread'["lws"].at = thread["lws"].at \/ thread'["lws"].at = "idle"
    BY <1>2, <1>4 DEF Placed, Threads
  <1>12. CreatedInv'  BY <1>2, <1>11 DEF LocalInv, CreatedInv
  <1>13. RendersInv'
    <2>1. CASE t = "ui"  BY <1>2, <2>1 DEF RendersInv
    <2>2. CASE t # "ui"  BY <1>2, <1>4, <2>2, <1>11 DEF LocalInv, RendersInv, Placed, Threads
    <2> QED  BY <2>1, <2>2
  <1>14. SendersInv'
    BY <1>5, <1>8, LocalMediaAssumption DEF LocalInv, SendersInv, Client
  <1>15. IntactInv'
    <2> SUFFICES ASSUME user # 0, NEW k \in Kinds
                 PROVE  /\ <<k, user>> \in created' => track[k] = user /\ <<k, user>> \in enabled'
                        /\ <<k, user>> \in sending' => sender[k] = user /\ k \in senders'[user]
      BY <1>2 DEF IntactInv
    <2>1. created' \subseteq created /\ sending' \subseteq sending
      BY <1>2, <1>3
    <2>2. <<k, user>> \in enabled => <<k, user>> \in enabled'  BY <1>2, <1>3
    <2>3. senders'[user] = senders[user]
      BY <1>3, <1>5, ThreadTypes, LocalMediaAssumption DEF LocalInv, Client
    <2> QED  BY <2>1, <2>2, <2>3 DEF LocalInv, IntactInv
  <1> QED  BY <1>6, <1>7, <1>10, <1>12, <1>13, <1>14, <1>15 DEF LocalInv

\* The invariant of the local media is kept by each of its steps, and by a
\* step of the other part.
LEMMA LocalStep ==
    ASSUME LocalInv, Next \/ UNCHANGED vars
    PROVE  LocalInv'
  <1>1. CASE Next
    <2>1. ASSUME NEW t \in Threads, DropAudioSender(t)  PROVE LocalInv'
      BY <2>1, DropSenderStep DEF DropAudioSender, Kinds
    <2>2. ASSUME NEW t \in Threads, DropVideoSender(t)  PROVE LocalInv'
      BY <2>2, DropSenderStep DEF DropVideoSender, Kinds
    <2>3. CASE AddKnown  BY <2>3, GetClientStep DEF AddKnown
    <2> QED
      BY <1>1, <2>1, <2>2, <2>3, AddNewStep, CreateConnectionStep,
         RemoveAllClientsStep, GetClientStep, CreateAudioStep,
         CreateVideoStep, AddAudioStep, AddVideoStep, ReleaseStep, DropVideoStep, DropAudioStep,
         CloseStep
      DEF Next
  <1>2. CASE UNCHANGED vars
    <2> USE <1>2 DEF vars, managerVars, histVars
    <2>1. TypeOK'  BY DEF LocalInv, TypeOK
    <2>2. ThreadsInv'  BY DEF LocalInv, ThreadsInv
    <2>3. TracksInv'  BY DEF LocalInv, TracksInv, Alive
    <2>4. CreatedInv'  BY DEF LocalInv, CreatedInv
    <2>5. RendersInv'  BY DEF LocalInv, RendersInv
    <2>6. SendersInv'  BY DEF LocalInv, SendersInv, Alive
    <2>7. IntactInv'  BY DEF LocalInv, IntactInv
    <2> QED  BY <2>1, <2>2, <2>3, <2>4, <2>5, <2>6, <2>7 DEF LocalInv
  <1> QED  BY <1>1, <1>2

-----------------------------------------------------------------------------
(* Both parts.                                                              *)

\* In every behaviour of either part the invariants of both hold: the tracks,
\* senders and renderers of RTCManager are those of a client that is there,
\* and a renderer's lock, sinks and buffers go together.
THEOREM MediaInvariant == MCSpec => []MediaInv
  <1>1. MCInit => MediaInv  BY LocalInit, RenderInit DEF MCInit, MediaInv
  <1>2. MediaInv /\ [MCNext /\ UNCHANGED part]_<<part, vars, rendererVars>> => MediaInv'
    <2> SUFFICES ASSUME MediaInv, [MCNext /\ UNCHANGED part]_<<part, vars, rendererVars>>
                 PROVE  MediaInv'
      OBVIOUS
    <2>1. Next \/ UNCHANGED vars  BY DEF MCNext
    <2>2. Render!Next \/ UNCHANGED rendererVars  BY DEF MCNext
    <2> QED  BY <2>1, <2>2, LocalStep, RenderStep DEF MediaInv
  <1> QED  BY <1>1, <1>2, PTL DEF MCSpec

\* The variables of the local media and of the renderer have their types.
THEOREM MediaTypes == MCSpec => []MediaTypeOK
  <1>1. MediaInv => MediaTypeOK  BY DEF MediaInv, LocalInv, RenderInv, MediaTypeOK
  <1> QED  BY <1>1, MediaInvariant, PTL

\* For any number of clients, a stream that was created is there and sent as
\* long as its client is in the map, and a destructor, on whichever thread, has
\* ended before a new client has its connection.
THEOREM StreamsAreIntact == MCSpec => []StreamIsIntact
  <1>1. LocalInv => StreamIntact  BY DEF LocalInv, IntactInv, StreamIntact
  <1>2. LocalInv => DestroyedBefore
    <2> SUFFICES ASSUME LocalInv, NEW t \in Threads, thread[t].at \in Drops
                 PROVE  user = 0 \/ (t = "sig" /\ thread["lws"].at = "connect")
      BY DEF DestroyedBefore
    <2>1. thread[t].at # "idle" /\ user # thread[t].client
      BY DEF LocalInv, ThreadsInv, Drops
    <2> QED  BY <2>1 DEF LocalInv, ThreadsInv, Threads
  <1>3. MediaInv => StreamIsIntact  BY <1>1, <1>2 DEF MediaInv, StreamIsIntact
  <1> QED  BY <1>3, MediaInvariant, PTL

\* For any number of clients, no track, sender or open camera outlives the
\* client it was for, whichever thread runs the destructor.
THEOREM NothingOutlives == MCSpec => []NothingOutlivesClient
  <1>1. MediaInv => NothingOutlivesClient
    <2> SUFFICES ASSUME LocalInv, NEW c \in 1..made, ~Alive(c)
                 PROVE  ~Capturing(c) /\ \A k \in Kinds : track[k] # c /\ sender[k] # c
      BY DEF MediaInv, NothingOutlivesClient
    <2>1. c # 0 /\ c \in Client  BY ThreadTypes DEF LocalInv
    <2>2. \A k \in Kinds : track[k] # c /\ sender[k] # c  BY <2>1 DEF LocalInv, TracksInv
    <2>3. senders[c] = {}  BY <2>1 DEF LocalInv, SendersInv
    <2>4. c \notin renders  BY <2>2 DEF LocalInv, RendersInv, Kinds
    <2> QED  BY <2>2, <2>3, <2>4 DEF Capturing, Kinds
  <1> QED  BY <1>1, MediaInvariant, PTL

\* For any number of tracks and any sizes of frames: a thread paints its own
\* frame, at that frame's size; the frame is read as it is stored exactly if
\* its upright width is even and it is packed or was turned; and the planes end
\* where the buffer does, for even sides, or by how much they pass its end.
THEOREM FramesPaintedAreTheirOwn == MCSpec => []PaintsItsFrame
  <1>1. MediaInv => PaintsItsFrame
    <2> SUFFICES ASSUME RenderInv PROVE Render!PaintsItsFrame /\ Render!PlanesFit
      BY DEF MediaInv, PaintsItsFrame
    <2>1. Render!PaintsItsFrame  BY DEF RenderInv, BuffersInv
    <2>2. ASSUME NEW t \in Tracks, Render!Painting(t)
          PROVE  /\ video_size_[1] \in Nat \ {0} /\ video_size_[2] \in Nat \ {0}
                 /\ bytes.i420 = Render!I420Bytes(video_size_)
      <3>1. inUse = t /\ life = "alive"
        BY <2>2, RendererAssumption DEF RenderInv, LockInv, Render!Painting
      <3>2. bytes.i420 = Render!I420Bytes(video_size_)  BY <3>1 DEF RenderInv, BuffersInv
      <3>3. frame[t].frame \in Render!Frame
        BY <2>2, FrameOf DEF RenderInv, Render!Painting, Render!Delivering
      <3>4. video_size_ = Render!Target(frame[t].frame)
        BY <2>1, <2>2 DEF Render!PaintsItsFrame
      <3>5. video_size_ \in Render!Dimensions  BY <3>3, <3>4, TargetSize
      <3> QED  BY <3>2, <3>5, SizePair
    <2>3. Render!PlanesFit  BY <2>2, PlanesAndBytes DEF Render!PlanesFit
    <2> QED  BY <2>1, <2>3
  <1> QED  BY <1>1, MediaInvariant, PTL

\* For any number of tracks: a renderer erased by RemoveTrack() is registered
\* with no track, and no frame is on its way to it.
THEOREM DeadGetFramesOnlyIfCleared == MCSpec => []FrameOfDeadOnlyIfCleared
  <1>1. MediaInv => FrameOfDeadOnlyIfCleared
    <2> SUFFICES ASSUME RenderInv, NEW t \in Tracks, t \in sinks \/ Render!Delivering(t)
                 PROVE  life \in {"alive", "cleared"}
      BY DEF MediaInv, FrameOfDeadOnlyIfCleared, Render!FrameOfDeadOnlyIfCleared
    <2>1. t \in sinks /\ track_ # None
      BY RendererAssumption DEF RenderInv, SinksInv
    <2> QED  BY <2>1 DEF RenderInv, SinksInv, Render!TypeOK
  <1> QED  BY <1>1, MediaInvariant, PTL

=============================================================================
