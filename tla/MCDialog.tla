------------------------------ MODULE MCDialog ------------------------------
(***************************************************************************)
(* Three views of CRtcWinDemoDlg, checked side by side: which answer meets  *)
(* which offer (Negotiation), who waits for whom (DialogLocks), and the     *)
(* room over a network that fails (Session).  A behaviour is one of one     *)
(* view, fixed at the start; the others stay in their initial state, where  *)
(* their properties hold.                                                   *)
(***************************************************************************)
EXTENDS Negotiation

CONSTANTS
    Nobody,            \* None of DialogLocks
    SessionRequests,   \* bound: requests of Session
    MaxConnections     \* bound: connections of Session

ASSUME DialogAssumption ==
    /\ Nobody \notin Uids \cup {"ui", "lws", "sig"}
    /\ SessionRequests \in Nat /\ MaxConnections \in Nat

VARIABLES
    view,              \* the view this behaviour is of
    ui, lwsThread, sigThread, lock_, joined_room_, asked, closing, inMap, holds, orphaned,
    open, gathering, wsQueue, owed, wsLink,
    inRoom, local_published_, button, publishing, client, joins, requests, queue, requested,
    link, connections, wire, answers, member, granted, late, skipped, early

locksVars == <<ui, lwsThread, sigThread, lock_, joined_room_, asked, closing, inMap, holds,
               orphaned, open, gathering, wsQueue, owed, wsLink>>
sessionVars == <<inRoom, local_published_, button, publishing, client, joins, requests, queue,
                 requested, link, connections, wire, answers, member, granted, late, skipped,
                 early>>

Locks == INSTANCE DialogLocks WITH
    None <- Nobody, lws <- lwsThread, sig <- sigThread, users <- inMap,
    queue <- wsQueue, link <- wsLink

Net == INSTANCE Session WITH
    MaxRequests <- SessionRequests, joined_room_ <- inRoom, ui <- button, lws <- publishing

-----------------------------------------------------------------------------
MCInit ==
    /\ view \in {"negotiation", "locks", "session"}
    /\ Init /\ Locks!Init /\ Net!Init

MCNext ==
    \/ view = "negotiation" /\ Next /\ UNCHANGED <<locksVars, sessionVars>>
    \/ view = "locks" /\ Locks!Next /\ UNCHANGED <<vars, sessionVars>>
    \/ view = "session" /\ Net!Next /\ UNCHANGED <<vars, locksVars>>

MCSpec ==
    /\ MCInit
    /\ [][MCNext /\ UNCHANGED view]_<<view, vars, locksVars, sessionVars>>
    /\ Locks!Fairness
    /\ view = "session" => Net!Fairness

-----------------------------------------------------------------------------
(* The properties, each about the behaviours of its view; ArmedUntilSent is *)
(* that of Negotiation.                                                     *)

\* Every variable of the three views has its type, and an open connection
\* belongs to a client in the map or held by a thread: ~RTCConnection() has
\* closed all others.
ViewsTypeOK == TypeOK /\ Locks!TypeOK /\ Locks!OpenHasOwner /\ Net!TypeOK

\* An answer never crosses over to another user's connection; a connection
\* that settles on the answer to another offer than its own settles on one that
\* a later offer of this user overtook; and a user's first negotiation settles
\* on nothing but the answer to its offer.
AnswersMeetOffers == AnswerStaysWithUser /\ WrongAnswerIsOvertaken /\ FirstNegotiationExact

\* lock_, the signaling thread, the message loop and the join of OnDestroy()
\* close a circle of waiting threads in three known ways only.
OnlyKnownCircles == Locks!OnlyKnownCircles

\* After a leave or a close the UI thread comes back, unless a circle closed or
\* a message is stranded in the queue that the lws thread wants empty.
UiComesBack == Locks!UiComesBack

\* With nothing on its way, the server's session is in the room exactly if the
\* user is joined and the join was granted in this very connection; a granted
\* join goes unpublished only after PublishLocalStream() for an earlier one
\* ended after that join's leave; and local_published_ says whether there is a
\* local client, but for a join answered before its flags are set and for such
\* a late PublishLocalStream().
RoomAsBelieved ==
    Net!MemberOfThisConnection /\ Net!PassedOverOnlyIfLate /\ Net!FlagOfClient

\* Someone who left does not stay in the room, unless the leave is stranded in
\* the queue.
LeftForGood == Net!LeftForGood
=============================================================================
