------------------------------ MODULE MCMedia ------------------------------
(***************************************************************************)
(* The two ends of a stream, checked side by side: the local user's tracks  *)
(* and senders (LocalMedia), and the renderer of a track (Renderer).  A     *)
(* behaviour is one of one part, fixed at the start; the other stays in its *)
(* initial state, where its properties hold.                                *)
(***************************************************************************)
EXTENDS LocalMedia

CONSTANTS
    Tracks,   \* track objects of Renderer
    None,     \* no track
    Widths,   \* of the frames
    Heights

Sizes == Widths \X Heights

ASSUME RendererAssumption ==
    /\ None \notin Tracks /\ "owner" \notin Tracks \cup {None}
    /\ Widths \subseteq Nat \ {0} /\ Heights \subseteq Nat \ {0}

VARIABLES
    part,     \* the part this behaviour is of
    life, track_, sinks, video_window_, inUse, owner, frame, video_size_, bytes, picture

rendererVars ==
    <<life, track_, sinks, video_window_, inUse, owner, frame, video_size_, bytes, picture>>

Render == INSTANCE Renderer WITH lock_ <- inUse

-----------------------------------------------------------------------------
MCInit ==
    /\ part \in {"local media", "renderer"}
    /\ Init /\ Render!Init

MCNext ==
    \/ part = "local media" /\ Next /\ UNCHANGED rendererVars
    \/ part = "renderer" /\ Render!Next /\ UNCHANGED vars

MCSpec ==
    /\ MCInit
    /\ [][MCNext /\ UNCHANGED part]_<<part, vars, rendererVars>>
    /\ Render!Fairness

-----------------------------------------------------------------------------
(* The properties, each about the behaviours of its part.                   *)

\* Every variable of the two parts has its type.
MediaTypeOK == TypeOK /\ Render!TypeOK

\* The stream of the local client in the map is all there once it is made: the
\* destructor of an older client ends before the new client has a connection,
\* on whichever thread it runs.
StreamIsIntact == StreamIntact /\ DestroyedBefore

\* What a thread paints is its own frame, at that frame's size; it is read as it
\* is stored exactly if its upright width is even and its lines are not padded or
\* it was turned; and turned with even sides, its planes end with i420_buffer_.
PaintsItsFrame == Render!PaintsItsFrame /\ Render!PlanesFit

\* A destroyed renderer gets a frame only if RemoveAllClients() dropped it.
FrameOfDeadOnlyIfCleared == Render!FrameOfDeadOnlyIfCleared

\* SetTrack() and OnFrame() do not wait for each other for ever.
NobodyStuck == Render!NobodyStuck
=============================================================================
