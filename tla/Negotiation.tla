---------------------------- MODULE Negotiation ----------------------------
(***************************************************************************)
(* Which answer meets which offer.  A stream-add arms the user's client    *)
(* and asks its RTCConnection for an offer; the offer becomes the local    *)
(* description some time later; the first candidate found while the client *)
(* is armed sends whatever the local description is then; the answer goes  *)
(* to the client the uid has when it arrives.  Offers are numbered here,   *)
(* so that a stale one can be told from the right one.                     *)
(*                                                                         *)
(* The lws thread runs OnStreamNotifyEvent(), OnPeerNotifyEvent() and the  *)
(* responses, the signaling thread OnIceCandidate() and the callbacks of   *)
(* CreateOffer(), the UI thread RemoveAllClients().  Publishing the local  *)
(* stream goes the same way as subscribing and is one of the uids.         *)
(***************************************************************************)
EXTENDS Integers, Sequences, Functions

CONSTANTS
    Uids,
    MaxClients,   \* bound: clients created
    MaxArms,      \* bound: streams announced
    MaxRequests   \* bound: publishes and subscribes sent

ASSUME BoundsAssumption ==
    MaxClients \in Nat /\ MaxArms \in Nat /\ MaxRequests \in Nat

None == 0
Client == 1..MaxClients

VARIABLES
    users,    \* map_of_users_: the client of a uid, or None
    clients,  \* the clients created so far, each with its connection
    offers,   \* history: the client each offer was created for
    sent,     \* requests sent: the uid in the session record, and the offer
    answered, \* how many of them the server's answers have been handled for
    lws, sig  \* position of the two threads, and the client they refer to

vars == <<users, clients, offers, sent, answered, lws, sig>>

\* A client with its connection: creating counts the offers asked for and not
\* created yet, local and remote are the descriptions (an answer is named
\* after the offer it answers), arms counts the streams (history).
Offer == 1..Len(offers)

ClientRecord ==
    [uid : Uids, send_offer_ : BOOLEAN, creating : Nat, local : Offer \cup {None},
     remote : Offer \cup {None}, state : {"stable", "have-local-offer"}, arms : Nat]

\* Every variable has its type: in particular every request carries an offer,
\* and no description is of an offer still to come.
TypeOK ==
    /\ users \in [Uids -> Client \cup {None}]
    /\ clients \in Seq(ClientRecord) /\ Len(clients) =< MaxClients
    /\ offers \in Seq(Client)
    /\ sent \in Seq([uid : Uids, offer : Offer]) /\ Len(sent) =< MaxRequests
    /\ answered \in 0..Len(sent)
    /\ lws \in [at : {"idle", "armed"}, client : Client \cup {None}]
    /\ sig \in [at : {"idle", "test", "clear"}, client : Client \cup {None}]

Idle == [at |-> "idle", client |-> None]

Init ==
    /\ users = [u \in Uids |-> None]
    /\ clients = << >> /\ offers = << >> /\ sent = << >>
    /\ answered = 0
    /\ lws = Idle /\ sig = Idle

\* A connection lives as long as its client is in the map or a thread refers
\* to it; closed, it calls back no more.
Alive(c) == users[clients[c].uid] = c \/ lws.client = c \/ sig.client = c

-----------------------------------------------------------------------------
(* The lws thread.                                                          *)

NewClient(uid) ==
    [uid |-> uid, send_offer_ |-> FALSE, creating |-> 0, local |-> None, remote |-> None,
     state |-> "stable", arms |-> 0]

Arm(o) == [o EXCEPT !.send_offer_ = TRUE, !.arms = @ + 1]

\* Streams announced so far.
Arms == FoldFunction(+, 0, [c \in 1..Len(clients) |-> clients[c].arms])

\* OnStreamNotifyEvent(true), PublishLocalStream(true): AddClient(), then
\* SetSendOffer(true), before the offer is asked for.
StreamAdd(uid) ==
    /\ lws.at = "idle"
    /\ Arms < MaxArms
    /\ IF users[uid] # None
         THEN /\ clients' = [clients EXCEPT ![users[uid]] = Arm(@)]
              /\ lws' = [at |-> "armed", client |-> users[uid]]
              /\ users' = users
         ELSE /\ Len(clients) < MaxClients
              /\ clients' = Append(clients, Arm(NewClient(uid)))
              /\ lws' = [at |-> "armed", client |-> Len(clients) + 1]
              /\ users' = [users EXCEPT ![uid] = Len(clients) + 1]
    /\ UNCHANGED <<offers, sent, answered, sig>>

\* RTCConnection::CreateOffer() only starts the creation.
CreateOffer ==
    /\ lws.at = "armed"
    /\ clients' = [clients EXCEPT ![lws.client].creating = @ + 1]
    /\ lws' = Idle
    /\ UNCHANGED <<users, offers, sent, answered, sig>>

\* RemoveClient() on a peer-leave, or RemoveAllClients() on a leave.
RemoveClient(uid) ==
    /\ users[uid] # None
    /\ users' = [users EXCEPT ![uid] = None]
    /\ UNCHANGED <<clients, offers, sent, answered, lws, sig>>

GetClient(uid) == users[uid]

\* FindSession(): the uid recorded for the request that is answered.
SessionUidOfLast(i) == sent[Len(sent)].uid      \* slip: the last session's uid
SessionUid(i) == sent[i].uid

\* A granted request whose answer parses: the client its uid has now gets it
\* by SetAnswer().  WebRTC takes an answer
\* only while a local offer waits for one; the error goes to no callback.
OnAnswer ==
    /\ lws.at = "idle"
    /\ answered < Len(sent)
    /\ LET c == GetClient(SessionUid(answered + 1))
       IN  clients' = IF c # None /\ clients[c].state = "have-local-offer"
                        THEN [clients EXCEPT ![c].remote = sent[answered + 1].offer,
                                             ![c].state = "stable"]
                        ELSE clients
    /\ answered' = answered + 1
    /\ UNCHANGED <<users, offers, sent, lws, sig>>

\* Refused, without an answer, or with one CreateSessionDescription() rejects.
OnNoAnswer ==
    /\ lws.at = "idle"
    /\ answered < Len(sent)
    /\ answered' = answered + 1
    /\ UNCHANGED <<users, clients, offers, sent, lws, sig>>

-----------------------------------------------------------------------------
(* The signaling thread.                                                    *)

\* The observer of a creation is called once: it moves its function out.
CalledTwice(creating) == creating       \* slip: on_success_ is not moved from
Called(creating) == creating - 1

\* The offer is there: with_set_local_desc() makes it the local description.
OfferCreated(c) ==
    /\ sig.at = "idle"
    /\ Alive(c)
    /\ clients[c].creating > 0
    /\ offers' = Append(offers, c)
    /\ clients' = [clients EXCEPT ![c].creating = Called(@), ![c].local = Len(offers) + 1,
                                  ![c].state = "have-local-offer"]
    /\ UNCHANGED <<users, sent, answered, lws, sig>>

\* ... or it could not be created: OnFailure() without a callback.
OfferFailed(c) ==
    /\ sig.at = "idle"
    /\ Alive(c)
    /\ clients[c].creating > 0
    /\ clients' = [clients EXCEPT ![c].creating = @ - 1]
    /\ UNCHANGED <<users, offers, sent, answered, lws, sig>>

\* External: a candidate, of a connection with a local description.
OnIceCandidate(c) ==
    /\ sig.at = "idle"
    /\ Alive(c)
    /\ clients[c].local # None
    /\ LET client == GetClient(clients[c].uid)
       IN  client # None /\ sig' = [at |-> "test", client |-> client]
    /\ UNCHANGED <<users, clients, offers, sent, answered, lws>>

\* RTCConnection::GetOffer() returns the local description there is now.
GetOfferNewest(c) == Len(offers)        \* slip: another connection's description
GetOffer(c) == clients[c].local

\* An armed client sends its offer along with the candidate.
SendOffer ==
    /\ sig.at = "test"
    /\ clients[sig.client].send_offer_
    /\ Len(sent) < MaxRequests
    /\ sent' = Append(sent, [uid |-> clients[sig.client].uid, offer |-> GetOffer(sig.client)])
    /\ sig' = [sig EXCEPT !.at = "clear"]
    /\ UNCHANGED <<users, clients, offers, answered, lws>>

\* It is not armed, or the description has no text: the candidate goes alone.
SendNoOfferClears ==                    \* slip: the flag is cleared in any case
    /\ sig.at = "test"
    /\ sig' = [sig EXCEPT !.at = "clear"]
    /\ UNCHANGED <<users, clients, offers, sent, answered, lws>>
SendNoOffer ==
    /\ sig.at = "test"
    /\ sig' = Idle
    /\ UNCHANGED <<users, clients, offers, sent, answered, lws>>

\* SetSendOffer(false), whoever set it meanwhile.
ClearSendOffer ==
    /\ sig.at = "clear"
    /\ clients' = [clients EXCEPT ![sig.client].send_offer_ = FALSE]
    /\ sig' = Idle
    /\ UNCHANGED <<users, offers, sent, answered, lws>>

-----------------------------------------------------------------------------
Next ==
    \/ \E u \in Uids : StreamAdd(u) \/ RemoveClient(u)
    \/ CreateOffer \/ OnAnswer \/ OnNoAnswer
    \/ \E c \in 1..Len(clients) : OfferCreated(c) \/ OfferFailed(c) \/ OnIceCandidate(c)
    \/ SendOffer \/ SendNoOffer \/ ClearSendOffer

Spec == Init /\ [][Next]_vars

-----------------------------------------------------------------------------
(* Properties.                                                              *)

\* An answer never crosses over to another user's connection, whatever is
\* re-created between the offer and its answer: it is applied to a client of
\* the uid whose client made the offer.
AnswerStaysWithUser ==
    \A c \in 1..Len(clients) : clients[c].remote # None =>
        clients[offers[clients[c].remote]].uid = clients[c].uid

\* A connection that settles on the answer to another offer than its own
\* settles on one to an older offer: the wrong answer is always one that a
\* later offer of that user overtook, never one to an offer still to come.
WrongAnswerIsOvertaken ==
    \A c \in 1..Len(clients) :
        clients[c].state = "stable" => clients[c].remote =< clients[c].local

IsFirst(c) ==
    /\ clients[c].arms = 1
    /\ \A d \in 1..c - 1 : clients[d].uid # clients[c].uid

\* The ordinary case is exact: as long as a user's first client has been asked
\* for one offer only, it settles on nothing but the answer to that offer.
FirstNegotiationExact ==
    \A c \in 1..Len(clients) : IsFirst(c) => clients[c].remote \in {None, clients[c].local}

\* A client that was asked for one offer and is no longer armed has sent that
\* offer: the flag is not cleared without it.
ArmedUntilSent ==
    \A c \in 1..Len(clients) :
        clients[c].arms = 1 /\ ~clients[c].send_offer_ =>
            \E i \in 1..Len(sent) : offers[sent[i].offer] = c
=============================================================================
