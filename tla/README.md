# RTCWinClient: specification and proofs

TLA+ modules for RTCWinClient, a Windows video-meeting client (MFC dialog,
libwebsockets for signalling, WebRTC for media). They model the parts of the
program that keep state across threads; TLC checks them on small instances and
TLAPS proves the most important of their properties for every instance.

## 1. Inventory

The program runs on four threads that matter here: the **UI thread** (button
handlers, `OnDestroy`), the **lws thread** (`WsClient::lwsTask` and, inside
`lws_service`, `lwsCallback` and everything `onReceiveMessage` calls),
WebRTC's **signaling thread** (the callbacks of `PeerConnectionObserver`, hence
`OnIceCandidate`, `AddTrack`, `RemoveTrack`) and the **decoder/capture
threads** (frames).

| Component | State | Operations | Talks to |
|---|---|---|---|
| Websocket client (`WsClient.cpp`) | `message_queue_`, `no_msg_`, `stop_`, `lws_client_`, `message_`, the thread | `start`, `stop`, `sendMessage`, `drainMessageQueue`, `lwsTask`, `lwsCallback` | lws (external), dialog through `WsCallback` |
| Room signalling (`RtcWinDemoDlg.cpp`, `RtcClient.h`) | `joined_room_`, `local_published_`, `mid_`, `map_of_users_`, `map_of_send_requests_`, each client's `send_offer_` and `mid_` | buttons, `OnWebSocketResponse`, `OnWebSocketNotify`, `OnIceCandidate`, the seven requests | websocket client, RTCManager |
| Video windows (`RtcWinDemoDlg.cpp`, `peer_connection_observer.cpp`) | `map_of_video_renders_`, `map_of_video_wins_`, `win_spare_`, `video_tracks_` | `AddTrack`, `AllocateWindow`, `RemoveTrack`, `RemoveAllClients`, the observer's callbacks | RTCManager, renderers |
| RTCManager | local tracks and senders, threads, factory | `CreateConnection`, `CreateLocalMediaStream`, `DestroyLocalMediaStream` | WebRTC |
| RTCConnection | peer connection and observer | `CreateOffer`, `SetAnswer`, `GetOffer`, destructor | WebRTC |
| Renderer (`video_render_gdi.cpp`) | frame buffer, window, track | `SetTrack`, `SetWindow`, `OnFrame` | decoder thread, GDI |
| Capture (`vcm_capture.cpp`, `rtc_video_capturer.cpp`) | capture device, adapter | start/stop, `OnFrame` | WebRTC |
| cJSON (`json/cJSON.c`, vendored, compiled in) | the item lists, the parse buffer, the print buffer | `cJSON_Parse`, `cJSON_Print*`, `cJSON_Minify`, the tree functions | the dialog's requests and handlers |
| Utilities, MFC shell, cJSON_Utils, lws/OpenSSL headers | none of the program's own | | |

What is hard, and what correctness means for each part:

* **Websocket client.** `no_msg_` and `lws_client_` are used without the lock
  that protects the queue. Messages are pushed by three threads and drained by
  one, across reconnects; `stop()` joins the draining thread. It is correct if
  messages go out in order and at most once, the flag that ends the loop never
  lies, a lost connection is retried and `stop()` returns.
* **Receiving.** A message comes in pieces, sessions end anywhere. Correct if
  the application gets each complete message once, whole and alone.
* **Room.** Button handlers, responses, notifications and ICE candidates run on
  three threads against the same maps and flags. Correct if every answer finds
  its request, the server and the dialog agree about membership, each offer is
  sent once, and nothing is sent before what it must contain is known.
* **Windows.** A pool of three windows shared by any number of tracks, with
  calls from three threads. Correct if no two videos share a window, no window
  is lost and no renderer outlives its track.

* **Waiting.** `lock_` is held across calls that wait for the signaling thread,
  whose own callbacks take `lock_`; the lws thread sends messages to the UI thread,
  which joins the lws thread. Correct if no circle of waiting can close; it can,
  in three ways, and the property says in no other.
* **Negotiation.** Offers are created asynchronously, clients come and go, answers
  find their client by uid. Correct if an answer meets the offer it answers.
* **Session.** The websocket reconnects by itself, the dialog does not join again.
  Correct if what the dialog believes about the room is what the server believes.
* **Local media.** One pair of tracks and senders serves every local client in
  turn, and a client is destroyed by whoever lets go of it last. Correct if the
  stream of the client in the map is not taken away by the end of an older one.
* **Renderer.** The owner's lock and the broadcaster's lock are taken in both
  orders. Correct if nobody waits for ever, each frame is painted with its own
  sizes and no frame reaches a renderer that is gone.
* **Send buffer.** A message is formatted at an offset into a buffer of fixed size.
* **cJSON.** Lists kept by pointers, buffers that are measured first and written
  later, failing allocations at any depth. Correct if the lists are sequences,
  nothing is written past what was measured, nothing leaks, and a text means what
  the grammar says.

The full list of hazards, with the line each bites at and the properties that
watch it, is in `PROJECT.json`.

## 2. Modules and the code they model

| Module | Models | Composition |
|---|---|---|
| `MessageChannel` | abstract: a first-in first-out, at-most-once, lossy channel that can be closed | implemented by `WsClient` |
| `WsClient` | `WsClient.cpp` except reassembly | `INSTANCE MessageChannel WITH ...` |
| `WsReceive` | the `CLIENT_RECEIVE` branch of `lwsCallback` | |
| `Room` | the dialog's room signalling | uses the channel as a loss-free queue |
| `VideoWindows`, `MCVideoWindows` | windows, observers, local track | |
| `DialogLocks` | who waits for whom in the dialog, with `OnDestroy` and the destructors of clients and manager | view of `MCDialog` |
| `Negotiation` | `RTCConnection` (offer, local description, answer) and the clients, with offers that have an identity | extended by `MCDialog` |
| `Session` | joining, publishing, leaving over connections that end and come back | view of `MCDialog` |
| `LocalMedia` | `RTCManager`'s tracks and senders, the capture device, the local client's life | extended by `MCMedia` |
| `Renderer` | `VideoRenderGDI` | part of `MCMedia` |
| `SendBuffer` | the buffer and the write loop of `drainMessageQueue` | |
| `JsonTree` | abstract: items in sequences | implemented by `CJsonList` |
| `CJsonList` | the tree functions of cJSON on `next`, `prev`, `child` | `INSTANCE JsonTree WITH ...`, part of `CJson` |
| `CJsonParse`, `CJsonString`, `CJsonPrint` | parsing, strings, printing | parts of `CJson` |
| `CJsonMinify` | `cJSON_Minify` | extended by `CJson` |
| `CJson`, `MCCJson` | the parts of cJSON side by side, with the properties by concern; the inputs TLC tries | `INSTANCE`s of the four modules above |
| `WsClientProofs`, `RoomProofs`, `VideoWindowsProofs` | theorems | extend their component |
| `WsTransferProofs` | theorems about `WsReceive` and `SendBuffer` | extends both |
| `CJsonTreeProofs`, `CJsonProofs` | theorems about the lists and printing; about minifying, strings and parsing, and the parts together | the first extends `CJson`, the second the first |
| `DialogProofs`, `MediaProofs` | theorems about `DialogLocks`, `Negotiation`, `Session` and about `LocalMedia`, `Renderer` | extend `MCDialog`, `MCMedia` |

`MCDialog`, `MCMedia` and `MCCJson` check several modules in one run. A variable
chosen in the initial state says which of them the behaviour is of; the others
stay where they began. So a run explores the union of their state spaces, not the
product, and a property of one is checked in all behaviours of it. The runs'
properties are conjunctions, by concern, of the properties the modules state.

**WsClient.** The variables carry the names of the members. `pc` is the
position of `lwsTask` (`while`, `body`, `service`, `drain`, `destroy`, ...),
`at[s]` that of thread `s` in `sendMessage()`. A step is what one thread does
between two accesses the other can observe: `Push`, `ClearNoMsg`, `TestClient`
and `RequestWritable` are four steps of `sendMessage()` under one hold of
`lock_`; `EvalWhile`, `GiveUp`, `CountDown`, `Reconnect` are the loop;
`Established`, `ConnectionError`, `SessionEnds`, `ReceiveAndSend` and `Writeable`
are callbacks of `lws_service`. The unsynchronised double read of `lws_client_`
(lines 162 and 163) is a choice over what it can reach (`Reached`). External, by
the lws headers: a connection attempt ends in success or an error; a requested
WRITEABLE callback comes once however often it was requested; a client's
session ends with `CLIENT_CLOSED` and `WSI_DESTROY`. A message is the number of
its push. `settled`, `ended`, `reported`, `wire`, `dropped` are history. An
unasked WRITEABLE is possible (lws may call back for its own reasons) but never
owed.

**WsReceive.** A piece is `[msg, pos]`. Pieces, last pieces, empty last
fragments and lost sessions come in any order.

**Room.** `ui`, `lws` and `sig` are the positions of the three threads. A handler
is split where another thread can see or change what it uses: the join
handler around its flags, the leave handler around its requests,
`PublishLocalStream` and `OnStreamNotifyEvent` around `send_offer_`, `mid_` and
the offer, `OnIceCandidate` around the test and the clearing of `send_offer_`.
Clients are numbered objects so that a handler can hold one that is no longer
in the map. `described` is WebRTC's local description: `CreateOffer()` leads to
it, candidates come only after it. Responses and requests carry the id; the
mid is abstracted to "known or empty". The server is external: it answers
requests in order, grants or refuses, and notifies members. The received chat
message only changes a text box and is left out. A refused request shows a box and
changes nothing else: `joined_room_` was set when the join was sent and stays. So
`MembershipAgrees` says that the server's member is one whose dialog says it joined, and
that a dialog which says so is in the room or was told "Join room failed" of its last
join (`failed` is that history), or has that answer on its way.

**VideoWindows.** `renders[t]`, `wins[t]` and `spare` are the three maps, `mode[p]`
the life of a client and its connection: in the map, dropped but held by
another thread, being destroyed. `ClearAllRegisteredTracks()` is one
`RemoveTrack()` per step, so that other threads act between them. A call of
`AddTrack`, `RemoveTrack` is one step: the maps have no lock, and a torn map
operation is outside what a model of the maps' contents can say (see section 7).

**DialogLocks.** `ui`, `lws` and `sig` are positions of the three threads in what they
can wait for: `lock_`, the signaling thread (any call of a peer connection from
another thread is served between two of its callbacks), the message loop
(`AppendMessage` uses a rich edit control from the lws thread) and the join. The
map, the `shared_ptr`s the lws and signaling threads hold and the last one to let
go decide on which thread a client, and with it a connection, and with the last
client the manager, is destroyed. `WaitsFor` reads the waits off the same guards.
The join also waits for the websocket's queue: `queue` counts its messages (none,
one, more), `owed` is a WRITEABLE callback asked for and not come, however often it
was asked for, and `link` the connection; `ThreadExits` needs an empty queue or no
connection, as the loop of `lwsTask` does. `OnDestroy` itself queues the unpublish and
the leave, so the join may wait for a stranded one. A message box (`BoxClosed`) has a
loop of its own and waits for the user only.

**Negotiation.** An offer is the number of its creation, an answer is named after the
offer it answers. `StreamAdd` arms the client (`SetSendOffer`), `CreateOffer`
asks for an offer, `OfferCreated` makes it the local description later,
`OnIceCandidate`, `SendOffer`, `ClearSendOffer` are the parts of the callback,
`OnAnswer` is `SetAnswer` of the client its uid has *now*, which WebRTC takes only
while a local offer waits.

**Session.** The handlers of the buttons and of join's answer over a queue that
survives a connection, a wire and answers that do not, and a server that keeps
its membership per connection. `onConnected` and `onDisconnected` do nothing.
`RoomAsBelieved` also says when `local_published_`, which decides whether a leave
withdraws the stream, can disagree with the local client: a join answered before
the join handler has set its flags (line 325), or a `PublishLocalStream` that comes to its end
after the leave.

**LocalMedia.** Each assignment of `CreateLocalMediaStream` and
`DestroyLocalMediaStream` is a step, on whichever thread runs it, since the
manager has no lock of its own. The connection, each track, the camera and `AddTrack`
may fail. Who may run at the same time follows from the dialog's `lock_` and from the
signaling thread, which does what others ask of the factory and of a connection
(`Served`): a new client waits in `CreateConnection` while an older one's destructor
runs there, and so keeps what it gets afterwards (`DestroyedBefore`).

**Renderer.** The owner's calls step by step with the two locks; `OnFrame` as
try_lock, conversion, painting. A frame is its size, rotation, kind of buffer and
whether its lines are padded; the buffers have byte lengths, the picture
remembers which frame it is of and the strides, of luma and chroma, it was stored
with. It is read with `dst_w` and `dst_w / 2` (line 129) whatever these are:
`PaintsItsFrame` says which frames are read as they are stored, namely those whose upright
width is even and that are packed or were turned. An odd width never is, since a chroma
line has a byte more than that stride. `PlanesFit` says where the planes of a turned
frame end: with an odd height they pass the buffer by a quarter of the width.
`SetMirrorMode` has no caller.

**SendBuffer.** `snprintf` is given the whole size although it writes behind
`LWS_PRE`; its result, the length of the message and not of what was stored, is
what is written. `FittingSentWhole` and `InsideIfFits` say for which lengths that
does no harm.

**cJSON.** `CJsonList` keeps the pointers; its refinement of `JsonTree` names the
call, so that each function must do what *it* promises. `CJsonParse` has the
recursion as a stack, every allocation may fail, and acceptance is compared with a
grammar over intervals of the text. `CJsonPrint` has the recursion as the list of
operations on the print buffer (`ensure`, write, `update_offset`) in their order,
with memory nobody wrote yet marked. Loops and references are recursive functions,
not recursive operators, so that the prover can reason about them. `CJsonString` works on bytes and compares with
the UTF-16 meaning of the escapes; `parse_hex4` turns an invalid digit into
U+0000, which the reference repeats. `CJsonMinify` is one action per turn of a
loop; minify_string() (line 2810) looks only one character ahead, so that an
escaped backslash in front of a quote puts it out of step: the property excepts it.

## 3. Runs

| Run | Shows | Instance |
|---|---|---|
| `ws` | `NoMsgAccurate`, `PointerIsLive`, `ExitDrains`, refinement of `MessageChannel`; with fairness `StopReturnsOrStranded` and `WritesAndRetries` (a requested message leaves the queue, a lost connection is retried) | 2 senders, 3 messages, 2 connections, countdown 5; 100 833 states |
| `ws_exit_loss` | **violated** `MessagesSentBeforeExit` | |
| `ws_join_hangs` | **violated** `ThreadExits` | |
| `ws_close_unreported` | **violated** `DisconnectReported` | |
| `ws_receive` | `DeliveredWhole`, `DeliveredExactlyUncut` | 5 messages of up to 3 pieces; 12 441 states |
| `send_buffer` | `FittingSentWhole`, `InsideIfFits` | buffer of 8, header of 2, messages of up to 10 bytes; 1 376 states |
| `room` | `TypeOK`, `ResponseHasSession`, `MembershipAgrees`, `OfferOncePerArm`, `RemoteHasMid` | 1 other user, 3 clients, 5 requests, 3 events; 4 886 464 states |
| `room_send_box` | **violated** `SendOnlyInRoom` | |
| `dialog` | `AnswersMeetOffers` and `ArmedUntilSent` (Negotiation); `OnlyKnownCircles`, `UiComesBack` and, in `ViewsTypeOK`, `OpenHasOwner` (DialogLocks); `RoomAsBelieved` and `LeftForGood` (Session) | 2 users, 3 clients, 3 offers, 3 requests; 5 session requests over 3 connections; 213 278 states |
| `media` | `StreamIsIntact`, `NothingOutlivesClient` (LocalMedia); `PaintsItsFrame`, `FrameOfDeadOnlyIfCleared`, `NobodyStuck` (Renderer) | 3 local clients; 2 tracks, frames 2 or 3 wide and 2 or 4 high, 4 rotations; 138 889 states |
| `video_windows` | `OneOwnerPerWindow`, `RendererHasTrack`, `LostOnlyByShowingAgain` | 2 connections, 3 remote and 1 local track, 2 windows; 763 844 states |
| `cjson` | `ListShape` and the refinement of `JsonTree`; `PrintsTheText` and `ParsesTheText` against a reference text and grammar; `StaysInside`; `NothingLeaks`; `UnreadIntact` and `MinifiedUnlessBackslashQuote` | 4 items; items 4 deep in 16 buffer sizes, `INT_MAX` 40; all texts of 4 cells and edits of longer ones, nesting limit 2; strings of 3 pieces; all texts of 6 characters; 1 675 095 states |

Why the bounds are enough. Three messages and two senders give a queue with a
message in flight, one waiting and one being pushed, and two connections give
a reconnect; the real countdown of 5 is passed through. Two
windows for three tracks empties the pool, and two connections may announce the
same track id. Five requests cover join, publish or subscribe, trickle,
unpublish and leave, and also join, leave, join, leave; three events cover a
stream, its candidate and a second candidate or stream. In `Session`, five requests
are a join with its publish, unpublish and leave and a second join, and three
connections let both be cut. In `Negotiation` three clients of
two users give one user a second client while an answer to the first one's offer
is on its way. In `LocalMedia` the third client is put into the map while the
second one's destructor may still run. In `DialogLocks` two messages suffice for one
to be stranded; widths and heights of 2, 3 and 4, turned, give odd sides
of both kinds. The send buffer is small enough for messages that fit, that
fit only without the header, and that do not fit. Four items make a list of three
in a parent, with a middle, or a tree of depth three. A print buffer starts at 4
cells and ends at 40, so that it grows, doubles, stops at `INT_MAX` and fails.
A nesting limit of 2 is exceeded by the deepest sample. The codes of the strings are the
values on both sides of each change of the encodings. The bounds are the
constants named `Max...`, `SessionRequests`, and the sets of inputs in
`MCMedia` and `MCCJson`. Deadlock is checked except where a bound, the end of a
call or of the program, or a circle of waiting ends the behaviour (`room`,
`ws_receive`, `dialog`, `media`, `cjson`).

### Fairness

`WsClient!FairSpec`. Threads are scheduled: weak fairness of a started `sendMessage()`, of the lws
thread's own steps, of the drain and of `join()`. `lws_service(ctx, 50)` returns
(strong, since callbacks may run in between) because lws wakes it at the latest for
its keepalive timer. A connection attempt ends (strong) because of lws' timeouts.
A requested WRITEABLE callback comes (strong) as long as the connection lasts:
that is what `lws_callback_on_writable` is documented to do. Nothing is assumed
about the network: connections may always fail and sessions need not end.

`DialogLocks!Fairness`. A thread that is not kept waiting goes on: strong for steps
that want `lock_` or the signaling thread, which others take in between (the
locks of Windows and WebRTC's queue serve a waiting thread in the end), and for the
test of `stop_` between two services, which ends the loop only with an empty queue or
no connection. A WRITEABLE callback that was asked for comes while the connection lasts,
an unasked one is not owed; a connection attempt succeeds or fails. The user closes a
message box. No message and no button press is owed, and no session has to end.

`Session!Fairness`. Handlers go on, answers are taken, `lwsTask` connects again
(`WritesAndRetries` of `WsClient`), a broken connection ends, the server
answers what reached it; a message is written only if a callback was requested,
which is why `LeftForGood` excepts the stranded message of finding 2.

`Renderer!Fairness`. Frame threads are scheduled (weak, they only try the lock); the
owner gets a lock that is free again and again (strong).

### Findings

1. `WsClient.h:54` says `no_msg_` ensures that messages are sent before the
   thread exits. With no connection at the moment of `stop()` the loop is left at
   line 228 with the message queued (`ws_exit_loss`). `ExitDrains`, proved, says
   that this is the only case.
2. `WsClient.cpp:48` says the join ensures that the thread exits. One message is
   written per callback and none is requested after it; two coalesced requests
   leave a message behind, `no_msg_` stays false and the join never returns
   (`ws_join_hangs`). `StopReturnsOrStranded` says that there is no other way to hang.
3. `lwsCallback` handles `LWS_CALLBACK_CLOSED`, not the `CLIENT_CLOSED` that a
   client gets when its session ends, so `onDisconnected()` is not called
   (`ws_close_unreported`).
4. `RtcWinDemoDlg.cpp:358` says the box for sending outside a room "won't happen";
   the button is enabled when the dialog opens (`room_send_box`).

Three circles of waiting are possible and excepted by `OnlyKnownCircles`: a thread that
holds `lock_` waits for the signaling thread, which waits for `lock_` in
`OnIceCandidate` (`LockCircle`); `OnDestroy` joins the lws thread, which waits in
`AppendMessage` for the UI thread (`JoinCircle`); the last client is let go on the
signaling thread after the dialog dropped the manager, and `~RTCManager` stops the
thread it runs on (`SelfStop`). `UiComesBack` excepts the first two and, besides, the
stranded message of finding 2, for which the join of `OnDestroy` waits for good.
`RoomAsBelieved` shows what a reconnect does: the dialog
stays joined, the server's new session is in no room.

## 4. Proofs

`WsClientProofs`, from `SendersAssumption`, `CountdownAssumption` (the countdown is a
positive number) and `BoundsAssumption`:

* `Invariance`: `Spec => []Inv`. None of the properties is inductive alone.
  `NoMsgAccurate` needs `SendInProgress`: while a sender is between its push and
  its store, `no_msg_` is right about the queue *without* the new message (so it is
  true exactly if the queue has length one), the queue is not empty, and `lock_`
  is held, so that no drain and no other push interferes. `InOrderOnce` gives each
  queued message the number its position implies, which makes a pop take the
  smallest. `PointerIsLive` ties `lws_client_` to the connection lws knows.
  The lemmas `AppSteps`, `QueueSteps`, `SendSteps` and `ObsSteps` say which actions can
  change which group of variables; each conjunct is then proved over the few
  actions that matter to it.
* `TypeCorrect` (the countdown keeps its range), `NoMsgIsAccurate`, `MessagesInOrderOnce`, `PointerFollowsConnection`
  follow from it.
* `ThreadExitDrains`: the action property `ExitDrains`, from the truth of `no_msg_` and
  `settled`, the number of messages announced before `stop()`.
* `Refinement`: `WsClient` implements `MessageChannel`: a push is an `Accept`, a drain
  is a `Transmit` or a `Lose`, leaving the loop is a `Close`, the rest stutters.

`VideoWindowsProofs`, from `NamesAssumption` and `PoolAssumption` (the pool holds each
window once):

* `Invariance`: `Spec => []Inv` with `OneOwnerPerWindow`, `RendererHasTrack` and
  `LocalTrackKept` (the local client exists exactly while there is a local track).
  `PopWindow` and `PushWindow` are the two facts about the pool: the head of a pool
  without duplicates is not in its tail, and a recorded window is not in the pool
  it is given back to.
* `WindowsHaveOneOwner`, `RenderersHaveTracks`, and `VideosInDifferentWindows`, which
  is the README's "Show video in different windows" for any number of windows,
  tracks and connections.

`WsTransferProofs`, the sending, from `SendBufferAssumption` (the header has at least one byte and
is smaller than the buffer):

* `BufferTypes`, `FittingMessages`, `FormattingBounds`: for every size of buffer, header
  and message. `FittingSentWhole` is not inductive: it speaks of the bytes taken,
  and those still to be taken come from the buffer, into whose front lws writes
  headers. `RestInPlace` says that what lies behind `offset` is still the message;
  a header is written into the `Pre` bytes before `offset`, so never into it.
  That is where at least one byte of header is needed: without it the cases collapse.

`CJsonTreeProofs`, lists, from `NodesAssumption` (finitely many items; `None` is none of them):

* `ListsKeepTheirShape` (`ListShape`) and `ListsImplementSequences` (`ImplementsTree`).
  The invariant, `ListInv`, is a representation invariant: `Represents(nx, pv, ch, f)`
  says that the pointers stand for the sequences `f` (each item's `next` is its
  successor, its `prev` the predecessor, the first one's `prev` the last item; no item
  is in two places; an item in no list has no links). `ListWalk` shows that then
  the walk of `get_array_item()` yields `f`, so `f` is the refinement mapping.
  `ListChanges` says what relinking one list must show; `AppendRep`, `InsertRep`,
  `DetachRep`, `ReplaceRep` and `ClearRep` show it for each function, with its cases
  for the first, last and only item. The second half of the invariant is `Acyclic`:
  what `cJSON_Delete()` visits below an item is exactly the subtree (`ChainOfChild`),
  hence a deletion frees nothing that is still in a list. The calls then map
  one by one to the steps of `JsonTree`.
* Walks and deletions are recursive functions over a finite domain. That such a
  function exists is `Iterates`, from `SetInduction`; the library's theorems for
  recursive definitions have operator parameters.

`CJsonProofs`, with the lemmas about printing in `CJsonTreeProofs`, from
`MaxLengthAssumption` and the assumptions of `CJson`: an item to print is of a known
kind or invalid, and its children are items to print (of any number, in any depth);
`HeightAssumption`: a container is higher than its children, that is, an item is a
finite tree; sizes are at most `INT_MAX` and print()'s default is not 0; texts are
sequences of cells, of any length. `PartsInv` is an invariant for each part.

* `PartsStayInside` (`StaysInside`), printing. `PrintInv` says of what is still to be
  done that it is `Sound`: every piece fits what it asks of `ensure()`, and every
  `update_offset()` comes right after a piece that ends in a zero at or behind
  the offset. It is closed under joining (`SoundJoin`), which is how the
  recursion of `print_value()` is followed without induction over the item. The
  zero is found because what is written last is not moved before it is measured.
* `PartsStayInside`, strings. `Fitting`: wherever the converting loop stands, the
  measuring loop stood there or one byte later, and what is written so far plus what
  was skipped so far is at most what was read. `CountedEscapes` is the
  arithmetic: an escape writes no more than it reads less the bytes counted for
  it, a surrogate pair's twelve bytes included, although the first loop counts
  one for each backslash and the second knows pairs. `PrintedLength` is the
  same for printing.
* `PartsLeakNothing` (`NothingLeaks`), parsing. Items are numbered in the order they
  are allocated, so links lead forward (`Numbered`) and what an item reaches
  is well defined. `Frames`: each call of `parse_array()` or `parse_object()` in
  progress holds a list that hangs nowhere yet, which is exactly the interval from
  its head to the container of the next call; so that the failure paths, each
  deleting its own head, delete everything once. `Rings`: a list is closed, its first
  item's `prev` set to the last, when and only when it is hung below its container.
* `PartsLeakNothing`, printing: the blocks allocated are what the printer's state
  says it owns, also after a failed `ensure()`, which frees the buffer itself.

* `PartsPrintTheText` (`PrintsTheText`), printing. `Text` and `Valid` are recursive
  functions on items; that they satisfy their equations is an induction over the height.
  `Prints(s, f, t, J)` says that the operations `s` of a printer add the text `t`; it is
  closed under joining, as `Sound` is, so that what `print_value()` pushes for an
  item prints its `Text`. The invariant is `SoFar(g)`: the text `g` is in the buffer,
  the operations left print the rest, and the offset is at the end of `g`, or before
  it with a zero at its end that the next `update_offset()` finds. The five bytes
  advised for `cJSON_PrintPreallocated()` follow because `ensure()` is never
  asked for more than two bytes beyond the whole text (`NeededIsBounded`).
* `PartsPrintTheText`, strings. `Laid`: a printed string lies in the text character by
  character, each in one of the four ways of `print_string_ptr()` (as it is, a
  backslash and a letter, a backslash and itself, `\uXXXX`). `ScanMeets`: the measuring
  loop, which only skips what follows a backslash, comes by the end of every
  character, so that it finds the closing quote and no other. `ReadTo`: the converting
  loop always stands at the end of a character and has written the string up to it.

The same module, for `cJSON_Minify`:

* `MinifyStaysInside` (`TypeOK`) and `MinifyInPlace` (`UnreadIntact`) need each other:
  the reader stays inside because the zero at the end is still there when it
  comes to it, and the zero is there because the writer, being inside and behind
  the reader, has not written it.
* `MinifiesAsTheReference`: for texts of any length the result is that of the
  reference `LexedUpTo`, a function defined by recursion on the position.
  `LexedAt` shows that the function satisfies its equation. It rests on
  `SetInduction`, induction over the naturals stated for a set in place of a
  predicate (from the library's well-foundedness of `<`), which the provers can
  instantiate. `KeepsInStep` says that the code has kept what the reference has
  kept, and `InStep` how the code's loops correspond to the reference's states:
  the code looks one character ahead, the reference one behind, so after a
  slash, a star or a backslash the two differ, and the next character says how.

`WsTransferProofs`, the receiving, from `ReceiveBoundsAssumption`:

* `DeliversWhole`, `DeliversExactlyUncut`: they speak of what was delivered, so the
  invariant must say what will be. `Collected`: `message_` ends with the pieces so
  far of the message being received, and what is before them is of messages cut
  off; `CutBefore`: those are all over. `PieceAdded` is the one fact about a fragment.

`RoomProofs`, from `RoomAssumption`:

* `MembershipAgreesAlways`. The property speaks of the moments between two button
  presses; `InTurn` and `LastAgrees` carry it through the handlers, where `AskedIn`
  says whether the last thing asked for was to be in the room. Then a request
  appended, or taken by the server, is a matter of positions (`AppendAt`, `TailAt`).
  For the refusals: joins asked for later are behind in the queue (`JoinsInOrder`), so
  when the last thing the server saw is a join it refused, that refusal is on its way
  back or was shown, and only joins still on their way came after it (`RefusalInv`).
* `OffersOncePerArm` needs `ArmedInv`: an armed client has an offer owed, except
  between the sending of one and the clearing of the flag, when the signaling
  thread is at `clear`. `RemotesHaveMid` needs `MidInv`: a remote client has its
  mid before WebRTC has a local description, and no candidate comes before that.
  Both need `UsersInv` and `ThreadsInv`: what a thread in a handler holds is the
  client the map has for that uid, or the map has none. `ResponsesHaveSessions`
  and `RoomTypesHold` are conjuncts of the same invariant.

`DialogProofs`, from `DialogAssumption` and `BoundsAssumption`. The three views share
no variable, so `DialogInv` is the conjunction of an invariant for each:

* `CirclesAreKnown` (DialogLocks). `LocksInv`: `lock_` is held exactly in two places,
  where the holder waits for nobody or for the signaling thread; the lws thread is
  joined before the manager is dropped; a thread refers to a client only inside
  its handler. `CirclesFromInv` is the argument: a circle with the signaling
  thread in it is `LockCircle` or `SelfStop`; without it, the holder of `lock_` is not
  in it, and what remains is the UI and the lws thread waiting for each other.
  The queue adds no circle: what it waits for is a callback, not a thread.
  `DialogTypes` has in it that an open connection always has an owner.
* `AnswersMeetTheirOffers`, `OfferStaysArmed` (Negotiation). `UsersInv`: the client in
  the map is the newest of its uid; `OffersInv`: its local description is the
  newest offer of its uid, hence an answer to an older one was overtaken;
  `OnceInv`: a client asked for one offer makes at most one, hence a first
  negotiation meets its own answer.
* `RoomIsAsBelieved` (Session). Joins and leaves are ranked in the order they are
  made. `OrderInv`: none overtakes another on queue, wire and way back; `GapsInv`: the
  queue has the last ranks without a gap, and so have wire and queue together
  unless a write just failed, which leaves the gap between the two; so `RoomInv`:
  what the server knows and what is on its way come to what
  the dialog last asked for. `PublishedInv` has the joins answered in order. `FlagInv` carries
  `FlagOfClient` through the handlers of the join and the leave and through
  `PublishLocalStream`.

`MediaProofs`, from `LocalMediaAssumption` and `RendererAssumption` (widths and heights
are positive naturals; no other bound on the sizes of frames):

* `StreamsAreIntact`, `NothingOutlives` (LocalMedia). The manager has no lock, so
  `ThreadsInv` says who can be where at the same time: a creation holds `lock_`, a
  destructor's client is referred to by nobody else. `TracksInv`: a track or sender
  belongs to a client that is there and whose destructor has not come to it yet,
  which makes each assignment of the destructor the end of what it was for;
  `CreatedInv` and `RendersInv`: what a creation has not come to is not there. `ThreadsInv`
  has that while the signaling thread is busy a new client can be in the map only at
  `connect`: hence `DestroyedBefore`.
* `FramesPaintedAreTheirOwn`, `DeadGetFramesOnlyIfCleared` (Renderer). `LockInv` ties the
  renderer's lock to the steps that hold it, `BuffersInv` the lengths of the buffers
  to the current size, `SinksInv` the registration to the track outside of
  `SetTrack()`. The arithmetic is `ReadIfEven` (strides of storing and reading agree
  exactly for even widths) and `PlanesAndBytes` (where the planes end).

Only model-checked, and why:

* `StopReturnsOrStranded`, `WritesAndRetries`, `UiComesBack`, `LeftForGood` and `NobodyStuck`:
  liveness under fairness is out of the prover's reach.
* `ParsesTheText` compares the parser with a grammar that is defined by recursion over
  the intervals of the text, and `StringMeaning` with the meaning of a literal in
  pieces. For these the induction over the text has not been carried out.

## 5. Mutants

Each property of a passing run has a mutant in the component's module, marked
`slip:` or `Mutant:` and defined just before the definition it stands in for: a missing
`pop()`, an untested `find()`, an uncleared flag, a guard that is gone. A property
that is a conjunction has a mutant for each of its important parts.

## 6. Plan

What is planned is done: every safety property that a run checks is proved for
every instance, but for `ParsesTheText`, which compares with a recursive grammar.
What could follow is the induction over texts that it needs, and the functions of
cJSON that nothing in the program calls.

## 7. Not modelled, and why

The lws and OpenSSL headers are vendored declarations, about 55 000 of the
repository's 63 500 lines of C and C++: there is no behaviour in them to model.
The program itself and cJSON are about 8 400 lines. `cJSON_Utils.c` (JSON
pointers and patches) is compiled but nothing calls it; the same holds for
`cJSON_Duplicate`, `cJSON_Compare` and references to items in cJSON, and for
`SetOffer`, `CreateAnswer`, `GetStats` and `SetEncodingParameters` of
`RTCConnection`. The value of numbers (`parse_number`, `print_number`) is `strtod`
and `sprintf`.

Message texts, SDP and ids
are abstracted to what the handlers branch on; messages are taken to have the
fields the protocol comments in `RtcWinDemoDlg.cpp` show. Data races inside one
call on `std::map`, `std::queue` or `std::string` are not modelled: a call is
atomic, calls interleave. The modules of the dialog are views of it, each with the
state its properties need: `Room` and `VideoWindows` take a call under `lock_` as
one step, `DialogLocks` has those waits, `LocalMedia` the steps inside. The
keepalive clock, GDI painting, frame scaling by WebRTC's adapter, device
enumeration, string and path utilities and the generated MFC
code have no state that other parts depend on here.
