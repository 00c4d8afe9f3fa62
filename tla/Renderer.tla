------------------------------ MODULE Renderer ------------------------------
(***************************************************************************)
(* One VideoRenderGDI: the sink of a video track.  Its owner (the dialog's *)
(* AddTrack(), RemoveTrack(), RemoveAllClients(), one call at a time here) *)
(* creates it, gives it another track or a window and destroys it; every   *)
(* track delivers frames on a thread of its own.                           *)
(*                                                                         *)
(* External: a track's broadcaster delivers under a lock of its own, which *)
(* adding and removing a sink take as well.                                *)
(***************************************************************************)
EXTENDS Integers

CONSTANTS
    Tracks,   \* track objects
    Sizes,    \* <<width, height>> of the frames
    None

Rotations == {0, 90, 180, 270}

\* A frame: its size, its rotation, whether its buffer is I420, and whether
\* its lines are stored without padding.
Frame == [size : Sizes, rotation : Rotations, i420 : BOOLEAN, packed : BOOLEAN]

VARIABLES
    life,          \* "none", "alive", or how the renderer was destroyed
    track_,
    sinks,         \* external: tracks the renderer is registered with
    video_window_, \* it has a window
    lock_,         \* the thread in the renderer: the owner, a track, or None
    owner,         \* position of the owner, the track it sets, its next step
    frame,         \* frame[t]: position of t's thread, and its frame
    video_size_,   \* video_width_, video_height_, also those of bmi_
    bytes,         \* lengths of the two buffers
    picture        \* the frame in rgb_buffer_, and the strides it was stored with

ownerVars == <<life, track_, sinks, video_window_, owner>>
bufferVars == <<video_size_, bytes, picture>>
vars == <<ownerVars, lock_, frame, bufferVars>>

NoSize == <<0, 0>>
Stale == {}         \* what i420_buffer_ happened to hold

Resting == [at |-> "idle", track |-> None, next |-> "idle"]
NoFrame == [at |-> "idle"]

Dimensions == Sizes \cup {<<s[2], s[1]>> : s \in Sizes}

\* Every variable has its type.
TypeOK ==
    /\ life \in {"none", "alive", "erased", "cleared"}
    /\ track_ \in Tracks \cup {None}
    /\ sinks \subseteq Tracks
    /\ video_window_ \in BOOLEAN
    /\ lock_ \in Tracks \cup {None, "owner"}
    /\ owner \in [at : {"idle", "lock", "remove", "add", "erase", "destroy"},
                  track : Tracks \cup {None}, next : {"idle", "erase"}]
    /\ frame \in [Tracks -> {NoFrame} \cup [at : {"deliver", "convert", "paint"}, frame : Frame]]
    /\ video_size_ \in Dimensions \cup {NoSize}
    /\ bytes \in [i420 : Nat, rgb : Nat]
    /\ picture \in [of : SUBSET Frame, strides : Nat \X Nat]

Init ==
    /\ life = "none"
    /\ track_ = None /\ sinks = {} /\ video_window_ = FALSE
    /\ lock_ = None
    /\ owner = Resting
    /\ frame = [t \in Tracks |-> NoFrame]
    /\ video_size_ = NoSize
    /\ bytes = [i420 |-> 0, rgb |-> 0]
    /\ picture = [of |-> Stale, strides |-> NoSize]

-----------------------------------------------------------------------------
(* The owner.                                                               *)

\* AddTrack() of a new id: the constructor calls SetTrack().
Create(t) ==
    /\ life = "none"
    /\ life' = "alive"
    /\ owner' = [at |-> "lock", track |-> t, next |-> "idle"]
    /\ UNCHANGED <<track_, sinks, video_window_, lock_, frame, bufferVars>>

\* AddTrack() of a known id.
SetTrack(t) ==
    /\ life = "alive"
    /\ owner.at = "idle"
    /\ owner' = [at |-> "lock", track |-> t, next |-> "idle"]
    /\ UNCHANGED <<life, track_, sinks, video_window_, lock_, frame, bufferVars>>

\* RemoveTrack(): SetTrack(nullptr), then the renderer is erased.
RemoveTrackOnly ==                      \* slip: SetTrack(nullptr) is missing
    /\ life = "alive"
    /\ owner.at = "idle"
    /\ owner' = [at |-> "erase", track |-> None, next |-> "idle"]
    /\ UNCHANGED <<life, track_, sinks, video_window_, lock_, frame, bufferVars>>
RemoveTrack ==
    /\ life = "alive"
    /\ owner.at = "idle"
    /\ owner' = [at |-> "lock", track |-> None, next |-> "erase"]
    /\ UNCHANGED <<life, track_, sinks, video_window_, lock_, frame, bufferVars>>

\* RemoveAllClients() erases it as it is.
ClearRenders ==
    /\ life = "alive"
    /\ owner.at = "idle"
    /\ owner' = [at |-> "destroy", track |-> None, next |-> "idle"]
    /\ UNCHANGED <<life, track_, sinks, video_window_, lock_, frame, bufferVars>>

\* SetTrack() takes lock_; nothing to do for the track it has.
LockForTrack ==
    /\ owner.at = "lock"
    /\ lock_ = None
    /\ IF owner.track = track_
         THEN lock_' = None /\ owner' = [Resting EXCEPT !.at = owner.next]
         ELSE lock_' = "owner" /\ owner' = [owner EXCEPT !.at = "remove"]
    /\ UNCHANGED <<life, track_, sinks, video_window_, frame, bufferVars>>

Delivering(t) == frame[t].at # "idle"

\* RemoveSink(), with lock_ held, waits for a delivery of that track.
RemoveSink ==
    /\ owner.at = "remove"
    /\ track_ # None => ~Delivering(track_)
    /\ sinks' = sinks \ {track_}
    /\ track_' = owner.track
    /\ owner' = [owner EXCEPT !.at = "add"]
    /\ UNCHANGED <<life, video_window_, lock_, frame, bufferVars>>

\* AddOrUpdateSink(), and SetTrack() returns.
AddSink ==
    /\ owner.at = "add"
    /\ track_ # None => ~Delivering(track_)
    /\ sinks' = IF track_ = None THEN sinks ELSE sinks \cup {track_}
    /\ lock_' = None
    /\ owner' = [Resting EXCEPT !.at = owner.next]
    /\ UNCHANGED <<life, track_, video_window_, frame, bufferVars>>

\* SetWindow(), after the constructor.
SetWindow ==
    /\ life = "alive"
    /\ owner.at = "idle"
    /\ lock_ = None
    /\ ~video_window_
    /\ video_window_' = TRUE
    /\ UNCHANGED <<life, track_, sinks, owner, lock_, frame, bufferVars>>

\* The destructor: DeallocateVideoBuffer() under lock_.
Destroy ==
    /\ owner.at \in {"erase", "destroy"}
    /\ lock_ = None
    /\ life' = IF owner.at = "erase" THEN "erased" ELSE "cleared"
    /\ owner' = Resting
    /\ bytes' = [i420 |-> 0, rgb |-> 0]
    /\ UNCHANGED <<track_, sinks, video_window_, lock_, frame, video_size_, picture>>

-----------------------------------------------------------------------------
(* OnFrame(), on the thread of track t.                                     *)

\* External: the broadcaster starts to deliver a frame to its sink.
Deliver(t, f) ==
    /\ frame[t].at = "idle"
    /\ t \in sinks
    /\ frame' = [frame EXCEPT ![t] = [at |-> "deliver", frame |-> f]]
    /\ UNCHANGED <<ownerVars, lock_, bufferVars>>

\* try_lock(): the frame is dropped if the renderer is in use.
Return(t) == frame' = [frame EXCEPT ![t] = NoFrame]

TryLockWaits(t) ==                      \* slip: lock() in place of try_lock()
    /\ frame[t].at = "deliver"
    /\ life = "alive"
    /\ lock_ = None
    /\ lock_' = t
    /\ frame' = [frame EXCEPT ![t].at = "convert"]
    /\ UNCHANGED <<ownerVars, bufferVars>>
TryLock(t) ==
    /\ frame[t].at = "deliver"
    /\ life = "alive"
    /\ IF lock_ = None
         THEN lock_' = t /\ frame' = [frame EXCEPT ![t].at = "convert"]
         ELSE lock_' = lock_ /\ Return(t)
    /\ UNCHANGED <<ownerVars, bufferVars>>

\* A frame for a renderer that is gone: undefined, and over.
FrameOfDead(t) ==
    /\ frame[t].at = "deliver"
    /\ life # "alive"
    /\ Return(t)
    /\ UNCHANGED <<ownerVars, lock_, bufferVars>>

Swapped(f) == f.rotation \in {90, 270}

\* dst_w and dst_h.
TargetTopDown(f) == <<f.size[1], -f.size[2]>>   \* slip: biHeight's sign
Target(f) == IF Swapped(f) THEN <<f.size[2], f.size[1]>> ELSE f.size

\* AllocatVideoBuffer().
I420BytesOfY(s) == s[1] * s[2]          \* slip: no room for the colour planes
I420Bytes(s) == (s[1] * s[2] * 3) \div 2
RgbBytes(s) == s[1] * s[2] * 4

FitsWidth(s) == s[1] = video_size_[1]   \* slip: the height is not compared
Fits(s) == s = video_size_

\* External: lines and columns of a chroma plane.
ChromaSize(s) == <<(s[1] + 1) \div 2, (s[2] + 1) \div 2>>

\* The strides, of luma and chroma, with which I420Rotate() writes to
\* i420_buffer_, and with which I420ToARGB() reads the frame from wherever it is.
ReadStridesAsLuma(s) == <<s[1], s[1]>>  \* slip: the chroma planes' is not halved
ReadStrides(s) == <<s[1], s[1] \div 2>>

\* The strides a frame is stored with, in its own buffer or in i420_buffer_.
StoredStrides(f) ==
    IF f.rotation # 0 THEN ReadStrides(Target(f))
    ELSE LET padding == IF f.packed THEN 0 ELSE 1
         IN  <<f.size[1] + padding, ChromaSize(f.size)[1] + padding>>

\* The buffers are made to fit and the frame is converted; another kind of
\* buffer leaves i420_buffer_ as it was.
Convert(t) ==
    /\ frame[t].at = "convert"
    /\ LET f == frame[t].frame
           s == Target(f)
       IN  /\ video_size_' = IF Fits(s) THEN video_size_ ELSE s
           /\ bytes' = IF Fits(s) THEN bytes
                                  ELSE [i420 |-> I420Bytes(s), rgb |-> RgbBytes(s)]
           /\ picture' = IF f.i420
                           THEN [of |-> {f}, strides |-> StoredStrides(f)]
                           ELSE [of |-> Stale, strides |-> ReadStrides(s)]
    /\ frame' = [frame EXCEPT ![t].at = "paint"]
    /\ UNCHANGED <<ownerVars, lock_>>

\* Painted if there is a window; the lock is released.
Paint(t) ==
    /\ frame[t].at = "paint"
    /\ Return(t)
    /\ lock_' = IF lock_ = t THEN None ELSE lock_
    /\ UNCHANGED <<ownerVars, bufferVars>>

-----------------------------------------------------------------------------
OwnerSteps == LockForTrack \/ RemoveSink \/ AddSink \/ Destroy

FrameSteps(t) == TryLock(t) \/ FrameOfDead(t) \/ Convert(t) \/ Paint(t)

Next ==
    \/ \E t \in Tracks : Create(t) \/ SetTrack(t)
    \/ RemoveTrack \/ ClearRenders \/ SetWindow \/ OwnerSteps
    \/ \E t \in Tracks : FrameSteps(t) \/ \E f \in Frame : Deliver(t, f)

Spec == Init /\ [][Next]_vars

\* Threads are scheduled; a lock that is free again and again is got.
Fairness == SF_vars(OwnerSteps) /\ \A t \in Tracks : WF_vars(FrameSteps(t))

FairSpec == Spec /\ Fairness

-----------------------------------------------------------------------------
(* Properties.                                                              *)

Painting(t) == frame[t].at = "paint"

\* A picture of size s with these strides is read as it is stored, and no line
\* of its chroma planes is longer than their stride.
ReadAsStored(strides, s) == strides = ReadStrides(s) /\ ChromaSize(s)[1] =< strides[2]

Even(n) == n % 2 = 0

\* What a thread paints is its own frame: whatever the other track's thread,
\* SetTrack() and the changes of size did before, the buffers have the size
\* of this frame turned upright, and hold it if it is an I420 frame.  That
\* frame is read as it is stored if its upright width is even, unless it is
\* padded and was upright from the start; with an odd width never, since a
\* chroma line has one byte more than its stride dst_w / 2.
PaintsItsFrame ==
    \A t \in Tracks : Painting(t) =>
        LET f == frame[t].frame
            s == Target(f)
        IN  /\ video_size_ = s
            /\ bytes.rgb = RgbBytes(s)
            /\ f.i420 => /\ picture.of = {f}
                         /\ ReadAsStored(picture.strides, s) <=>
                              Even(s[1]) /\ (f.packed \/ f.rotation # 0)

\* The end of the V plane in i420_buffer_, which begins a quarter of the Y
\* plane's length after that of the U plane.
PlanesEnd(s) ==
    LET uv == ChromaSize(s)
    IN  s[1] * s[2] + (s[1] * s[2]) \div 4 + (uv[2] - 1) * ReadStrides(s)[2] + uv[1]

\* The planes of a rotated frame end where i420_buffer_ does if both its sides
\* are even, and within it if its height is; those of a frame of even width and
\* odd height pass the end by a quarter of the width.
PlanesFit ==
    \A t \in Tracks : Painting(t) =>
        LET s == video_size_
        IN  /\ Even(s[2]) => PlanesEnd(s) =< bytes.i420
            /\ Even(s[1]) =>
                 PlanesEnd(s) = bytes.i420 + (IF Even(s[2]) THEN 0 ELSE s[1] \div 4)

\* A renderer that RemoveTrack() erased gets no frame any more: SetTrack(nullptr)
\* has waited for the last one.  A frame for a destroyed renderer is possible
\* only after RemoveAllClients() dropped it without taking it off its track.
FrameOfDeadOnlyIfCleared ==
    \A t \in Tracks : t \in sinks \/ Delivering(t) => life \in {"alive", "cleared"}

\* SetTrack() holds lock_ while it waits for the delivery of a frame, and the
\* delivery wants lock_: neither waits for ever, since OnFrame() only tries.
NobodyStuck ==
    /\ owner.at # "idle" ~> owner.at = "idle"
    /\ \A t \in Tracks : Delivering(t) ~> ~Delivering(t)
=============================================================================
