---------------------------- MODULE DialogProofs ----------------------------
(***************************************************************************)
(* Proofs about the three views of the dialog of module MCDialog.           *)
(***************************************************************************)
EXTENDS MCDialog, SequenceTheorems, TLAPS

-----------------------------------------------------------------------------
(* Who waits for whom (DialogLocks).                                        *)

\* lock_ is held in the two places where the UI thread and the lws thread do
\* something under it that another thread can see.
LockHeld ==
    /\ lock_ = "ui" <=> ui = "clear"
    /\ lock_ = "lws" <=> lwsThread.at \in {"create", "close"}

\* The lws thread is joined before the manager and the members go.
JoinedFirst == ui \in {"manager", "members", "gone"} => lwsThread.at = "exited"

\* A thread refers to a client only where its handler has one, and a message
\* that is about a client has its uid.
References ==
    /\ lwsThread.at \notin {"added", "answer", "drop"} =>
          holds["lws"] = Nobody /\ "lws" \notin orphaned
    /\ sigThread.at # "use" => holds["sig"] = Nobody /\ "sig" \notin orphaned
    /\ lwsThread.at \in {"add", "create", "find", "remove", "close"} => lwsThread.uid \in Uids
    /\ lwsThread.at = "create" => lwsThread.uid \in inMap

\* The websocket's queue, its callback and its connection.
QueueTyped == wsQueue \in 0..2 /\ owed \in BOOLEAN /\ wsLink \in {"down", "connecting", "up"}

LocksInv == Locks!TypeOK /\ Locks!OpenHasOwner /\ LockHeld /\ JoinedFirst /\ References

\* Nothing is locked, waited for or referred to at the start.
LEMMA LocksInit == Locks!Init => LocksInv
<1> SUFFICES ASSUME Locks!Init PROVE LocksInv
  OBVIOUS
<1> USE DialogAssumption DEF Locks!Init, Locks!Resting
<1>1. Locks!TypeOK
  <2>1. lwsThread \in [at : Locks!LwsPositions, uid : Uids \cup {Nobody}, offers : BOOLEAN]
    BY DEF Locks!LwsPositions
  <2>2. sigThread \in [at : Locks!SigPositions, uid : Uids \cup {Nobody}]
    BY DEF Locks!SigPositions
  <2>3. /\ wsQueue = 0 /\ owed = FALSE /\ wsLink = "down"
        /\ joined_room_ = FALSE /\ asked = FALSE /\ closing = FALSE
        /\ holds \in [Locks!Holders -> Uids \cup {Nobody}]
    OBVIOUS
  <2>4. ui = "loop" /\ lock_ = Nobody /\ inMap = {} /\ orphaned = {} /\ open = {} /\ gathering = {}
    OBVIOUS
  <2> HIDE DEF Locks!Init, Locks!Resting
  <2>5. QueueTyped
    <3>1. wsQueue \in 0..2
      BY <2>3, SMT
    <3>2. owed \in BOOLEAN
      BY <2>3, Zenon
    <3> QED BY <2>3, <3>1, <3>2 DEF QueueTyped
  <2>6. joined_room_ \in BOOLEAN /\ asked \in BOOLEAN /\ closing \in BOOLEAN
    BY <2>3, Zenon
  <2> QED BY <2>1, <2>2, <2>3, <2>4, <2>5, <2>6 DEF QueueTyped, Locks!TypeOK, Locks!UiPositions
<1>2. Locks!OpenHasOwner
  BY DEF Locks!OpenHasOwner
<1>3. LockHeld
  BY DEF LockHeld
<1>4. JoinedFirst
  BY DEF JoinedFirst
<1>5. References
  BY DEF References, Locks!Holders
<1> QED BY <1>1, <1>2, <1>3, <1>4, <1>5 DEF LocksInv

\* Threads that wait for each other only: with the signaling thread among them
\* it is a lock_ circle or the thread stopping itself; without it, whoever holds
\* lock_ waits for nobody, so the UI thread and the lws thread wait for each other.
LEMMA CirclesFromInv == LocksInv => OnlyKnownCircles
<1> SUFFICES ASSUME LocksInv, NEW S \in SUBSET Locks!Threads, S # {}, Locks!InCircle(S)
             PROVE  Locks!LockCircle \/ Locks!JoinCircle \/ Locks!SelfStop
  BY DEF OnlyKnownCircles, Locks!OnlyKnownCircles
<1>1. \A t \in S : Locks!WaitsFor(t) # {} /\ Locks!WaitsFor(t) \subseteq S
  BY DEF Locks!InCircle
<1>2. lock_ \in {"ui", "lws", Nobody} /\ LockHeld
  BY DEF LocksInv, Locks!TypeOK
<1>3. lock_ # Nobody => Locks!WaitsFor(lock_) \in {{}, {"sig"}}
  BY <1>2 DEF LockHeld, Locks!WaitsFor
<1>4. CASE "sig" \in S
  BY <1>1, <1>2, <1>3, <1>4 DEF Locks!WaitsFor, Locks!LockCircle, Locks!SelfStop
<1>5. CASE "sig" \notin S
  <2>1. lock_ \notin S
    BY <1>1, <1>2, <1>3, <1>5, DialogAssumption DEF Locks!Threads
  <2>2. "lws" \in S => "ui" \in S /\ lwsThread.at = "append"
    BY <1>1, <1>2, <1>5, <2>1 DEF Locks!WaitsFor
  <2>3. "ui" \in S => "lws" \in S /\ ui = "join"
    BY <1>1, <1>2, <1>5, <2>1 DEF Locks!WaitsFor
  <2>4. "ui" \in S \/ "lws" \in S
    BY <1>5 DEF Locks!Threads
  <2> QED BY <2>2, <2>3, <2>4 DEF Locks!JoinCircle
<1> QED BY <1>4, <1>5

\* Unlist(): a connection taken out of the map is closed, or has an owner in a
\* thread that shares it.
LEMMA UnlistKeeps ==
    ASSUME LocksInv, NEW u \in Uids, Locks!Unlist(u), UNCHANGED holds
    PROVE  /\ Locks!OpenHasOwner'
           /\ inMap' = inMap \ {u}
           /\ open' \subseteq Uids /\ gathering' \subseteq Uids /\ orphaned' \subseteq Locks!Holders
           /\ \A t \in orphaned' : t \in orphaned \/ holds[t] = u
<1> USE DEF LocksInv, Locks!TypeOK, Locks!Unlist, Locks!Close
<1>1. inMap' = inMap \ {u} /\ orphaned' = orphaned \cup Locks!Sharers(u)
  OBVIOUS
<1>2. CASE Locks!Sharers(u) = {}
  BY <1>1, <1>2 DEF Locks!OpenHasOwner
<1>3. CASE Locks!Sharers(u) # {}
  <2>1. open' = open /\ gathering' = gathering
    BY <1>3
  <2>2. \E t \in orphaned' : holds'[t] = u
    BY <1>1, <1>3 DEF Locks!Sharers
  <2>3. Locks!OpenHasOwner'
    BY <1>1, <2>1, <2>2 DEF Locks!OpenHasOwner
  <2> QED BY <1>1, <2>1, <2>3 DEF Locks!Sharers
<1> QED BY <1>1, <1>2, <1>3 DEF Locks!Sharers

\* A message queued leaves the queue's variables with their types.
LEMMA SendKeeps ==
    ASSUME NEW n \in Nat, Locks!Send(n), QueueTyped  PROVE  QueueTyped'
<1> USE DEF QueueTyped, Locks!Send, Locks!wsVars
<1>1. CASE ui \in {"loop", "lock", "clear"}
  <2>1. /\ wsQueue' = IF wsQueue + n > 2 THEN 2 ELSE wsQueue + n
        /\ owed' = (owed \/ wsLink # "down")
        /\ wsLink' = wsLink
    BY <1>1
  <2>2. wsQueue' \in 0..2
    BY <2>1
  <2>3. owed' \in BOOLEAN
    BY <2>1
  <2> QED BY <2>1, <2>2, <2>3
<1>2. CASE ui \notin {"loop", "lock", "clear"}
  BY <1>2
<1> QED BY <1>1, <1>2

\* What the websocket does alone, the dialog does not see.
LEMMA DialogKept ==
    ASSUME LocksInv, UNCHANGED Locks!dialogVars, QueueTyped'
    PROVE  LocksInv'
BY DEF QueueTyped, LocksInv, Locks!TypeOK, Locks!OpenHasOwner, LockHeld, JoinedFirst, References,
       Locks!dialogVars, Locks!clientVars

\* Every step of DialogLocks keeps LocksInv.
LEMMA LocksNext == LocksInv /\ [Locks!Next]_(Locks!vars) => LocksInv'
<1> SUFFICES ASSUME LocksInv, [Locks!Next]_(Locks!vars) PROVE LocksInv'
  OBVIOUS
<1> USE DialogAssumption DEF LocksInv, Locks!TypeOK, Locks!OpenHasOwner, LockHeld, JoinedFirst,
        References, Locks!clientVars, Locks!Holders
<1> USE DEF Locks!UiPositions, Locks!LwsPositions, Locks!SigPositions, Locks!wsVars
<1>1. CASE Locks!RemoveAllClients
  BY <1>1 DEF Locks!RemoveAllClients
<1>2. CASE Locks!AllRemoved
  <2>1. LockHeld' /\ JoinedFirst' /\ Locks!OpenHasOwner'
    BY <1>2 DEF Locks!AllRemoved
  <2>2. References'
    BY <1>2 DEF Locks!AllRemoved
  <2>3. Locks!TypeOK'
    <3> HIDE DEF Locks!OpenHasOwner, LockHeld, JoinedFirst, References
    <3>1. /\ ui' \in Locks!UiPositions /\ lock_' = Nobody /\ joined_room_' = FALSE
          /\ UNCHANGED <<lwsThread, sigThread, asked, closing, Locks!clientVars, Locks!wsVars>>
      BY <1>2 DEF Locks!AllRemoved
    <3>2. QueueTyped'
      BY <3>1 DEF QueueTyped
    <3> HIDE DEF Locks!wsVars
    <3> QED BY <3>1, <3>2 DEF QueueTyped
  <2> QED BY <2>1, <2>2, <2>3
<1>3. CASE Locks!Joined
  BY <1>3 DEF Locks!Joined
<1>4. CASE Locks!DropManager
  BY <1>4 DEF Locks!DropManager, Locks!StopSignaling
<1>5. CASE Locks!DialogGone
  BY <1>5 DEF Locks!DialogGone, Locks!StopSignaling
<1>6. CASE Locks!OnBnClickedBtnJoin
  <2>1. QueueTyped'
    BY <1>6, SendKeeps DEF QueueTyped, Locks!OnBnClickedBtnJoin
  <2> QED BY <1>6, <2>1 DEF QueueTyped, Locks!OnBnClickedBtnJoin
<1>7. CASE Locks!OnBnClickedBtnLeave
  <2>1. QueueTyped'
    BY <1>7, SendKeeps DEF QueueTyped, Locks!OnBnClickedBtnLeave
  <2> QED BY <1>7, <2>1 DEF QueueTyped, Locks!OnBnClickedBtnLeave
<1>8. CASE Locks!OnDestroy
  <2>1. QueueTyped'
    BY <1>8, SendKeeps DEF QueueTyped, Locks!OnDestroy
  <2> QED BY <1>8, <2>1 DEF QueueTyped, Locks!OnDestroy
<1>9. CASE Locks!BoxClosed
  BY <1>9 DEF Locks!BoxClosed, Locks!lwsRest, Locks!LwsAt, Locks!Resting
<1>10. CASE Locks!AddClient
  BY <1>10 DEF Locks!AddClient, Locks!lwsRest, Locks!LwsAt, Locks!Resting
<1>11. CASE Locks!CreateOffer
  BY <1>11 DEF Locks!CreateOffer, Locks!lwsRest, Locks!LwsAt, Locks!Resting
<1>12. CASE Locks!NoOffer
  BY <1>12 DEF Locks!NoOffer, Locks!lwsRest, Locks!LwsAt, Locks!Resting
<1>13. CASE Locks!GetClient
  BY <1>13 DEF Locks!GetClient, Locks!lwsRest, Locks!LwsAt, Locks!Resting
<1>14. CASE Locks!SetAnswer
  BY <1>14 DEF Locks!SetAnswer, Locks!lwsRest, Locks!LwsAt, Locks!Resting
<1>15. CASE Locks!DropClient
  BY <1>15 DEF Locks!DropClient, Locks!LetGo, Locks!IsLast, Locks!Close, Locks!lwsRest, Locks!Resting
<1>16. CASE Locks!RemoveClient
  <2>1. CASE lwsThread.uid \in inMap
    BY <1>16, <2>1 DEF Locks!RemoveClient, Locks!lwsRest, Locks!LwsAt
  <2>2. CASE lwsThread.uid \notin inMap
    <3>1. /\ lwsThread' = [at |-> "idle", uid |-> Nobody, offers |-> FALSE]
          /\ lwsThread.at = "remove"
          /\ UNCHANGED <<ui, sigThread, lock_, joined_room_, asked, closing, inMap, holds,
                         orphaned, open, gathering, wsQueue, owed, wsLink>>
      BY <1>16, <2>2 DEF Locks!RemoveClient, Locks!lwsRest, Locks!Resting
    <3> QED BY <3>1
  <2> QED BY <2>1, <2>2
<1>17. CASE Locks!CloseRemoved
  BY <1>17, UnlistKeeps DEF Locks!CloseRemoved, Locks!lwsRest, Locks!Resting
<1>18. CASE Locks!AppendMessage
  BY <1>18 DEF Locks!AppendMessage, Locks!lwsRest, Locks!LwsAt, Locks!Resting
<1>19. CASE Locks!ThreadExits
  BY <1>19 DEF Locks!ThreadExits, Locks!Resting
<1>20. CASE Locks!OnIceCandidate
  BY <1>20 DEF Locks!OnIceCandidate, Locks!sigRest
<1>21. CASE Locks!CandidateSent
  <2>1. QueueTyped'
    BY <1>21, SendKeeps DEF QueueTyped, Locks!CandidateSent
  <2> QED
    BY <1>21, <2>1
    DEF QueueTyped, Locks!CandidateSent, Locks!LetGo, Locks!IsLast, Locks!Close, Locks!sigRest
<1>22. ASSUME NEW u \in Uids, Locks!ClearClient(u)
      PROVE  LocksInv'
  BY <1>22, UnlistKeeps DEF Locks!ClearClient
<1>23. ASSUME NEW ok \in BOOLEAN, Locks!CreatePeerConnection(ok)
      PROVE  LocksInv'
  BY <1>23 DEF Locks!CreatePeerConnection, Locks!lwsRest, Locks!LwsAt
<1>24. ASSUME NEW at \in {"add", "remove", "find", "append", "box"}, NEW u \in Uids \cup {Nobody},
             NEW offers_ \in BOOLEAN, Locks!OnReceiveMessage(at, u, offers_),
             at = "find" => u \in Uids
      PROVE  LocksInv'
  BY <1>24 DEF Locks!OnReceiveMessage, Locks!Accepts, Locks!lwsRest
<1>25. ASSUME NEW u \in Uids, Locks!FindCandidate(u)
      PROVE  LocksInv'
  BY <1>25 DEF Locks!FindCandidate, Locks!sigRest
<1>26. CASE Locks!OnBnClickedBtnSend \/ Locks!OnStreamRemove
  <2>1. QueueTyped'
    BY <1>26, SendKeeps DEF QueueTyped, Locks!OnBnClickedBtnSend, Locks!OnStreamRemove
  <2>2. UNCHANGED Locks!dialogVars
    BY <1>26 DEF Locks!OnBnClickedBtnSend, Locks!OnStreamRemove
  <2> QED BY <2>1, <2>2, DialogKept
<1>27. CASE Locks!Connect \/ Locks!Established \/ Locks!ConnectionEnds
  <2>1. QueueTyped'
    <3>1. CASE Locks!Connect
      BY <3>1 DEF Locks!Connect, QueueTyped
    <3>2. CASE Locks!Established
      BY <3>2 DEF Locks!Established, QueueTyped
    <3>3. CASE Locks!ConnectionEnds
      BY <3>3 DEF Locks!ConnectionEnds, QueueTyped
    <3> QED BY <1>27, <3>1, <3>2, <3>3
  <2>2. UNCHANGED Locks!dialogVars
    BY <1>27 DEF Locks!Connect, Locks!Established, Locks!ConnectionEnds
  <2> QED BY <2>1, <2>2, DialogKept
<1>28. CASE Locks!DrainMessageQueue
  <2>1. QueueTyped'
    <3>1. wsQueue' \in {0, 1, 2} /\ owed' = FALSE /\ wsLink' = wsLink
      BY <1>28 DEF Locks!DrainMessageQueue
    <3>2. wsLink \in {"down", "connecting", "up"}
      OBVIOUS
    <3>3. wsQueue' \in 0..2
      BY <3>1, SMT
    <3>4. owed' \in BOOLEAN
      BY <3>1, Zenon
    <3> QED BY <3>1, <3>2, <3>3, <3>4 DEF QueueTyped
  <2>2. UNCHANGED Locks!dialogVars
    BY <1>28 DEF Locks!DrainMessageQueue
  <2> QED BY <2>1, <2>2, DialogKept
<1>29. CASE UNCHANGED Locks!vars
  BY <1>29 DEF Locks!vars
<1> HIDE DEF LocksInv
<1> QED BY <1>1, <1>2, <1>3, <1>4, <1>5, <1>6, <1>7, <1>8, <1>9, <1>10, <1>11, <1>12, <1>13, <1>14, <1>15, <1>16, <1>17, <1>18, <1>19, <1>20, <1>21, <1>22, <1>23, <1>24, <1>25, <1>26, <1>27, <1>28, <1>29
     DEF Locks!Next, Locks!UiSteps, Locks!User, Locks!LwsSteps, Locks!Network, Locks!SigSteps

-----------------------------------------------------------------------------
(* Which answer meets which offer (Negotiation).                            *)

\* A thread in a handler refers to a client; the lws thread's is the one its
\* uid has in the map, or there is none; the signaling thread's has an offer.
ThreadsInv ==
    /\ lws.at = "idle" => lws.client = None
    /\ lws.at = "armed" =>
          /\ lws.client \in 1..Len(clients)
          /\ users[clients[lws.client].uid] \in {None, lws.client}
    /\ sig.at = "idle" => sig.client = None
    /\ sig.at # "idle" => sig.client \in 1..Len(clients) /\ clients[sig.client].local # None

\* The client in the map is the newest of its uid.
UsersInv ==
    \A u \in Uids : users[u] # None =>
        /\ users[u] \in 1..Len(clients)
        /\ clients[users[u]].uid = u
        /\ \A d \in 1..Len(clients) : d > users[u] => clients[d].uid # u

\* A local description is an offer of its own client, for the client in the
\* map the newest of its uid.
OffersInv ==
    /\ \A j \in 1..Len(offers) : offers[j] \in 1..Len(clients)
    /\ \A c \in 1..Len(clients) :
          /\ clients[c].local # None => offers[clients[c].local] = c
          /\ clients[c].local = None => clients[c].state = "stable"
    /\ \A c \in 1..Len(clients) :
          users[clients[c].uid] = c /\ clients[c].local # None =>
              \A j \in 1..Len(offers) :
                  clients[offers[j]].uid = clients[c].uid => j =< clients[c].local

\* A request carries an offer of the uid in its session record; the flag is
\* about to be cleared only for a client that has sent one.
SentInv ==
    /\ \A i \in 1..Len(sent) : clients[offers[sent[i].offer]].uid = sent[i].uid
    /\ sig.at = "clear" => \E i \in 1..Len(sent) : offers[sent[i].offer] = sig.client

\* A client asked for one offer makes at most one.
Once(c) ==
    /\ clients[c].arms >= 1
    /\ clients[c].arms = 1 =>
          /\ clients[c].creating =< 1
          /\ lws.client = c => clients[c].creating = 0
          /\ clients[c].creating > 0 \/ lws.client = c =>
                \A j \in 1..Len(offers) : offers[j] # c
          /\ \A i, j \in 1..Len(offers) : offers[i] = c /\ offers[j] = c => i = j
OnceInv == \A c \in 1..Len(clients) : Once(c)

NegotiationInv ==
    /\ TypeOK /\ ThreadsInv /\ UsersInv /\ OffersInv /\ SentInv /\ OnceInv
    /\ AnswerStaysWithUser /\ WrongAnswerIsOvertaken /\ FirstNegotiationExact /\ ArmedUntilSent

\* There is no client, offer or request at the start.
LEMMA NegotiationInit == Init => NegotiationInv
<1> SUFFICES ASSUME Init PROVE NegotiationInv
  OBVIOUS
<1> USE BoundsAssumption DEF Init, Idle, None
<1>1. TypeOK
  BY DEF TypeOK, Client
<1>2. ThreadsInv /\ UsersInv /\ OffersInv /\ SentInv /\ OnceInv
  BY DEF ThreadsInv, UsersInv, OffersInv, SentInv, OnceInv, Once
<1>3. AnswerStaysWithUser /\ WrongAnswerIsOvertaken /\ FirstNegotiationExact /\ ArmedUntilSent
  BY DEF AnswerStaysWithUser, WrongAnswerIsOvertaken, FirstNegotiationExact, ArmedUntilSent
<1> QED BY <1>1, <1>2, <1>3 DEF NegotiationInv

\* What the invariant says of the variables' values, for use without TypeOK.
LEMMA NegotiationTypes ==
    ASSUME TypeOK
    PROVE  /\ Len(clients) \in Nat /\ Len(offers) \in Nat /\ Len(sent) \in Nat
           /\ Len(clients) =< MaxClients /\ Len(sent) =< MaxRequests
           /\ \A c \in 1..Len(clients) : clients[c] \in ClientRecord
           /\ \A j \in 1..Len(offers) : offers[j] \in Client
           /\ \A i \in 1..Len(sent) : sent[i].uid \in Uids /\ sent[i].offer \in Offer
           /\ \A u \in Uids : users[u] \in Client \cup {None}
<1> USE DEF TypeOK
<1>1. /\ Len(clients) \in Nat /\ Len(offers) \in Nat /\ Len(sent) \in Nat
      /\ Len(clients) =< MaxClients /\ Len(sent) =< MaxRequests
  BY LenProperties
<1>2. /\ \A c \in 1..Len(clients) : clients[c] \in ClientRecord
      /\ \A j \in 1..Len(offers) : offers[j] \in Client
      /\ \A i \in 1..Len(sent) : sent[i] \in [uid : Uids, offer : Offer]
  BY ElementOfSeq
<1> QED BY <1>1, <1>2

\* One client's record is changed.
LEMMA UpdateClient ==
    ASSUME NEW R, clients \in Seq(R), NEW c \in 1..Len(clients), NEW r \in R,
           clients' = [clients EXCEPT ![c] = r]
    PROVE  /\ clients' \in Seq(R)
           /\ Len(clients') = Len(clients)
           /\ clients'[c] = r
           /\ \A d \in 1..Len(clients) : d # c => clients'[d] = clients[d]
BY ExceptSeq

\* A step that changes one client's record and neither its uid nor the map, the
\* offers and the requests keeps what is about those.
LEMMA SameUids ==
    ASSUME NegotiationInv, UNCHANGED <<users, offers, sent>>,
           Len(clients') = Len(clients),
           \A d \in 1..Len(clients) :
               /\ clients'[d].uid = clients[d].uid
               /\ clients'[d].local = clients[d].local
               /\ clients'[d].state \in {clients[d].state, "stable"}
    PROVE  UsersInv' /\ OffersInv' /\ (\A i \in 1..Len(sent) : clients'[offers[sent[i].offer]].uid = sent[i].uid)
<1> USE DEF NegotiationInv, Client, Offer, None
<1>1. \A u \in Uids : users[u] \in Nat
  BY NegotiationTypes, BoundsAssumption
<1>2. UsersInv'
  BY <1>1 DEF UsersInv
<1>3. OffersInv'
  <2>1. \A c \in 1..Len(clients) : clients[c].local = 0 => clients'[c].state = "stable"
    BY DEF OffersInv
  <2>2. \A j \in 1..Len(offers) : clients'[offers[j]].uid = clients[offers[j]].uid
    BY DEF OffersInv
  <2> QED BY <2>1, <2>2 DEF OffersInv
<1> QED BY <1>2, <1>3, NegotiationTypes DEF SentInv, OffersInv

\* ... nor the descriptions.
LEMMA SameDescriptions ==
    ASSUME NegotiationInv, UNCHANGED offers,
           Len(clients') = Len(clients),
           \A d \in 1..Len(clients) : /\ clients'[d].uid = clients[d].uid
                                      /\ clients'[d].local = clients[d].local
                                      /\ clients'[d].remote = clients[d].remote
                                      /\ clients'[d].state = clients[d].state
    PROVE  AnswerStaysWithUser' /\ WrongAnswerIsOvertaken'
<1> USE DEF NegotiationInv, None
<1>1. \A d \in 1..Len(clients) : clients[d].remote # 0 =>
          offers[clients[d].remote] \in 1..Len(clients)
  BY NegotiationTypes DEF OffersInv, ClientRecord, Offer
<1> QED BY <1>1 DEF AnswerStaysWithUser, WrongAnswerIsOvertaken

\* SetSendOffer(true), as Arm() has it.
LEMMA ArmRecord ==
    ASSUME NEW o \in ClientRecord
    PROVE  /\ Arm(o) \in ClientRecord
           /\ Arm(o).uid = o.uid /\ Arm(o).local = o.local /\ Arm(o).remote = o.remote
           /\ Arm(o).state = o.state /\ Arm(o).creating = o.creating
           /\ Arm(o).arms = o.arms + 1 /\ Arm(o).send_offer_ = TRUE
<1>1. [o EXCEPT !.send_offer_ = TRUE] \in ClientRecord
  BY DEF ClientRecord
<1>0. o.arms + 1 \in Nat
  BY DEF ClientRecord
<1>2. Arm(o) = [[o EXCEPT !.send_offer_ = TRUE] EXCEPT !.arms = o.arms + 1]
  BY DEF ClientRecord, Arm
<1>3. Arm(o) \in ClientRecord
  BY <1>0, <1>1, <1>2 DEF ClientRecord
<1> QED BY <1>3 DEF ClientRecord, Arm

\* The record of a client just made.
LEMMA NewClientRecord ==
    ASSUME NEW u \in Uids
    PROVE  LET r == Arm(NewClient(u))
           IN  /\ r \in ClientRecord
               /\ r.uid = u /\ r.send_offer_ = TRUE /\ r.creating = 0 /\ r.local = 0
               /\ r.remote = 0 /\ r.state = "stable" /\ r.arms = 1
<1>1. /\ NewClient(u) \in ClientRecord
      /\ NewClient(u).uid = u /\ NewClient(u).creating = 0 /\ NewClient(u).local = 0
      /\ NewClient(u).remote = 0 /\ NewClient(u).state = "stable" /\ NewClient(u).arms = 0
  BY DEF NewClient, ClientRecord, None
<1>2. \A o \in ClientRecord :
          /\ Arm(o) \in ClientRecord
          /\ Arm(o).uid = o.uid /\ Arm(o).local = o.local /\ Arm(o).remote = o.remote
          /\ Arm(o).state = o.state /\ Arm(o).creating = o.creating
          /\ Arm(o).arms = o.arms + 1 /\ Arm(o).send_offer_ = TRUE
  BY ArmRecord
<1>3. Arm(NewClient(u)).arms = 0 + 1
  BY <1>1, <1>2
<1> QED BY <1>1, <1>2, <1>3

\* A stream of a user who has a client: that client is armed once more, ...
LEMMA StreamAddKnown ==
    ASSUME NegotiationInv, NEW u \in Uids, StreamAdd(u), users[u] # None
    PROVE  NegotiationInv'
<1> DEFINE c == users[u]
           r == Arm(clients[c])
<1> USE DEF NegotiationInv, None
<1>1. c \in 1..Len(clients) /\ clients[c].uid = u
  BY DEF UsersInv
<1>2. /\ clients' = [clients EXCEPT ![c] = r]
      /\ lws' = [at |-> "armed", client |-> c]
      /\ lws.at = "idle"
      /\ UNCHANGED <<users, offers, sent, answered, sig>>
  BY DEF StreamAdd
<1>3. /\ r \in ClientRecord
      /\ r.uid = clients[c].uid /\ r.local = clients[c].local /\ r.remote = clients[c].remote
      /\ r.state = clients[c].state /\ r.creating = clients[c].creating
      /\ r.arms = clients[c].arms + 1 /\ r.send_offer_ = TRUE
  <2>1. clients[c] \in ClientRecord
    BY <1>1, NegotiationTypes
  <2> QED BY <2>1, ArmRecord
<1> HIDE DEF r
<1>4. /\ clients' \in Seq(ClientRecord)
      /\ Len(clients') = Len(clients)
      /\ clients'[c] = r
      /\ \A d \in 1..Len(clients) : d # c => clients'[d] = clients[d]
  BY <1>1, <1>2, <1>3, UpdateClient DEF TypeOK
<1>5. TypeOK'
  BY <1>1, <1>2, <1>4, NegotiationTypes DEF TypeOK, ClientRecord, Offer, Client
<1>6. /\ \A d \in 1..Len(clients) : /\ clients'[d].uid = clients[d].uid
                                    /\ clients'[d].local = clients[d].local
                                    /\ clients'[d].remote = clients[d].remote
                                    /\ clients'[d].state = clients[d].state
                                    /\ clients'[d].creating = clients[d].creating
      /\ clients'[c].arms = clients[c].arms + 1
      /\ clients'[c].send_offer_
  BY <1>1, <1>3, <1>4
<1>7. UsersInv' /\ OffersInv' /\ SentInv'
  BY <1>2, <1>4, <1>6, SameUids DEF SentInv
<1>8. ThreadsInv'
  BY <1>1, <1>2, <1>4, <1>6 DEF ThreadsInv
<1>9. clients'[c].arms > 1
  BY <1>1, <1>6, NegotiationTypes DEF OnceInv, Once, ClientRecord
<1>10. OnceInv'
  <2>1. ASSUME NEW d \in 1..Len(clients), d = c PROVE Once(d)'
    <3>1. clients'[d].arms > 1 /\ clients'[d].arms \in Nat
      BY <1>3, <1>4, <1>9, <2>1 DEF ClientRecord
    <3> QED BY <3>1 DEF Once
  <2>2. lws.client = 0
    BY <1>2 DEF ThreadsInv
  <2>3. ASSUME NEW d \in 1..Len(clients), d # c PROVE Once(d)'
    BY <1>2, <1>4, <2>2, <2>3 DEF OnceInv, Once
  <2> QED BY <1>4, <2>1, <2>3 DEF OnceInv
<1>11. AnswerStaysWithUser' /\ WrongAnswerIsOvertaken'
  BY <1>2, <1>4, <1>6, SameDescriptions
<1>12. FirstNegotiationExact'
  BY <1>2, <1>4, <1>6, <1>9 DEF FirstNegotiationExact, IsFirst
<1>13. ArmedUntilSent'
  BY <1>2, <1>4, <1>6, <1>9 DEF ArmedUntilSent
<1> QED BY <1>5, <1>7, <1>8, <1>10, <1>11, <1>12, <1>13

\* ... of a user who has none: a new client, the newest of its uid.
LEMMA StreamAddNew ==
    ASSUME NegotiationInv, NEW u \in Uids, StreamAdd(u), users[u] = None
    PROVE  NegotiationInv'
<1> DEFINE c == Len(clients) + 1
           r == Arm(NewClient(u))
<1> USE DEF NegotiationInv, None
<1>2. /\ clients' = Append(clients, r)
      /\ Len(clients) < MaxClients
      /\ lws' = [at |-> "armed", client |-> c]
      /\ lws.at = "idle"
      /\ users' = [users EXCEPT ![u] = c]
      /\ UNCHANGED <<offers, sent, answered, sig>>
  BY DEF StreamAdd
<1>3. /\ r \in ClientRecord
      /\ r.uid = u /\ r.send_offer_ = TRUE /\ r.creating = 0 /\ r.local = 0 /\ r.remote = 0
      /\ r.state = "stable" /\ r.arms = 1
  BY NewClientRecord
<1> HIDE DEF r
<1>4. /\ clients' \in Seq(ClientRecord)
      /\ Len(clients') = c
      /\ clients'[c] = r
      /\ \A d \in 1..Len(clients) : clients'[d] = clients[d]
      /\ c \in 1..MaxClients
  BY <1>2, <1>3, AppendProperties, BoundsAssumption, NegotiationTypes DEF TypeOK
<1>5. TypeOK'
  BY <1>2, <1>4, BoundsAssumption, NegotiationTypes DEF TypeOK, ClientRecord, Offer, Client
<1>6. /\ Len(clients) \in Nat
      /\ \A d \in 1..Len(clients') : d \in 1..Len(clients) \/ d = c
      /\ \A v \in Uids : v # u => users'[v] = users[v]
      /\ users'[u] = c
      /\ \A v \in Uids : users[v] \in Nat
  BY <1>2, <1>4, NegotiationTypes, BoundsAssumption DEF TypeOK, Client
<1>7. UsersInv'
  BY <1>3, <1>4, <1>6 DEF UsersInv
<1>8. /\ \A j \in 1..Len(offers) : offers[j] \in 1..Len(clients)
      /\ \A i \in 1..Len(sent) : sent[i].offer \in 1..Len(offers)
      /\ \A d \in 1..Len(clients) : /\ clients[d].uid \in Uids
                                    /\ clients[d].local \in 0..Len(offers)
                                    /\ clients[d].remote \in 0..Len(offers)
  BY NegotiationTypes DEF OffersInv, Offer, ClientRecord
<1>9. OffersInv'
  <2>1. /\ \A j \in 1..Len(offers) : offers[j] \in 1..Len(clients')
        /\ \A d \in 1..Len(clients') : clients'[d].local # 0 =>
               d \in 1..Len(clients) /\ offers[clients[d].local] = d
    BY <1>2, <1>3, <1>4, <1>6, <1>8 DEF OffersInv
  <2>2. \A d \in 1..Len(clients') :
            users'[clients'[d].uid] = d /\ clients'[d].local # 0 =>
                users[clients[d].uid] = d
    BY <1>3, <1>4, <1>6, <1>8, <2>1
  <2>3. \A j \in 1..Len(offers) : clients'[offers[j]] = clients[offers[j]]
    BY <1>4, <1>8
  <2>4. \A d \in 1..Len(clients') : clients'[d].local = 0 => clients'[d].state = "stable"
    BY <1>3, <1>4, <1>6 DEF OffersInv
  <2> QED BY <1>2, <1>4, <2>1, <2>2, <2>3, <2>4 DEF OffersInv
<1>10. SentInv'
  BY <1>2, <1>4, <1>8 DEF SentInv
<1>11. ThreadsInv'
  BY <1>2, <1>3, <1>4, <1>6, <1>8 DEF ThreadsInv
<1>12. OnceInv'
  <2>1. lws.client = 0
    BY <1>2 DEF ThreadsInv
  <2>2. \A j \in 1..Len(offers) : offers[j] # c
    BY <1>6, <1>8
  <2> QED BY <1>2, <1>3, <1>4, <1>6, <2>1, <2>2 DEF OnceInv, Once
<1>13. AnswerStaysWithUser' /\ WrongAnswerIsOvertaken'
  BY <1>2, <1>3, <1>4, <1>6, <1>8 DEF AnswerStaysWithUser, WrongAnswerIsOvertaken
<1>14. FirstNegotiationExact'
  BY <1>2, <1>3, <1>4, <1>6 DEF FirstNegotiationExact, IsFirst
<1>15. ArmedUntilSent'
  BY <1>2, <1>3, <1>4, <1>6 DEF ArmedUntilSent
<1> QED BY <1>5, <1>7, <1>9, <1>10, <1>11, <1>12, <1>13, <1>14, <1>15

\* Steps that change neither the clients nor what the threads refer to keep
\* everything; the ones below change one field or two of one client.
LEMMA CreateOfferKeeps == NegotiationInv /\ CreateOffer => NegotiationInv'
<1> SUFFICES ASSUME NegotiationInv, CreateOffer PROVE NegotiationInv'
  OBVIOUS
<1> DEFINE c == lws.client
           r == [clients[c] EXCEPT !.creating = @ + 1]
<1> USE DEF NegotiationInv, None
<1>1. c \in 1..Len(clients) /\ clients[c] \in ClientRecord
  BY NegotiationTypes DEF CreateOffer, ThreadsInv
<1>2. /\ clients' = [clients EXCEPT ![c] = r]
      /\ lws.at = "armed" /\ lws' = [at |-> "idle", client |-> 0]
      /\ UNCHANGED <<users, offers, sent, answered, sig>>
  BY DEF CreateOffer, Idle
<1>3. r \in ClientRecord
  BY <1>1 DEF ClientRecord
<1>4. /\ r.uid = clients[c].uid /\ r.local = clients[c].local /\ r.remote = clients[c].remote
      /\ r.state = clients[c].state /\ r.creating = clients[c].creating + 1
      /\ r.arms = clients[c].arms /\ r.send_offer_ = clients[c].send_offer_
  BY <1>1 DEF ClientRecord
<1> HIDE DEF r
<1>5. /\ clients' \in Seq(ClientRecord)
      /\ Len(clients') = Len(clients)
      /\ clients'[c] = r
      /\ \A d \in 1..Len(clients) : d # c => clients'[d] = clients[d]
  BY <1>1, <1>2, <1>3, UpdateClient DEF TypeOK
<1>6. TypeOK'
  BY <1>2, <1>5, NegotiationTypes DEF TypeOK, ClientRecord, Offer, Client
<1>7. \A d \in 1..Len(clients) : /\ clients'[d].uid = clients[d].uid
                                 /\ clients'[d].local = clients[d].local
                                 /\ clients'[d].remote = clients[d].remote
                                 /\ clients'[d].state = clients[d].state
                                 /\ clients'[d].arms = clients[d].arms
                                 /\ clients'[d].send_offer_ = clients[d].send_offer_
  BY <1>1, <1>4, <1>5
<1>8. UsersInv' /\ OffersInv' /\ SentInv'
  BY <1>2, <1>5, <1>7, SameUids DEF SentInv
<1>9. ThreadsInv'
  BY <1>2, <1>5, <1>7 DEF ThreadsInv
<1>10. OnceInv'
  <2>1. Once(c) /\ lws.client = c
    BY <1>1 DEF OnceInv
  <2>2. ASSUME NEW d \in 1..Len(clients), d = c PROVE Once(d)'
    <3>1. /\ clients'[d].arms = clients[c].arms /\ lws'.client = 0
          /\ clients'[d].creating = clients[c].creating + 1 /\ clients[c].creating \in Nat
      BY <1>1, <1>2, <1>4, <1>5, <2>2 DEF ClientRecord
    <3> QED BY <1>2, <2>1, <2>2, <3>1 DEF Once
  <2>3. ASSUME NEW d \in 1..Len(clients), d # c PROVE Once(d)'
    BY <1>2, <1>5, <2>3 DEF OnceInv, Once
  <2> QED BY <1>5, <2>2, <2>3 DEF OnceInv
<1>11. AnswerStaysWithUser' /\ WrongAnswerIsOvertaken'
  BY <1>2, <1>5, <1>7, SameDescriptions
<1>12. FirstNegotiationExact'
  BY <1>2, <1>5, <1>7 DEF FirstNegotiationExact, IsFirst
<1>13. ArmedUntilSent'
  BY <1>2, <1>5, <1>7 DEF ArmedUntilSent
<1> QED BY <1>6, <1>8, <1>9, <1>10, <1>11, <1>12, <1>13

\* An offer that could not be made leaves the descriptions as they were.
LEMMA OfferFailedKeeps ==
    ASSUME NegotiationInv, NEW c \in 1..Len(clients), OfferFailed(c)
    PROVE  NegotiationInv'
<1> DEFINE r == [clients[c] EXCEPT !.creating = @ - 1]
<1> USE DEF NegotiationInv, None
<1>1. clients[c] \in ClientRecord /\ clients[c].creating > 0
  BY NegotiationTypes DEF OfferFailed
<1>2. /\ clients' = [clients EXCEPT ![c] = r]
      /\ UNCHANGED <<users, offers, sent, answered, lws, sig>>
  BY DEF OfferFailed
<1>3. r \in ClientRecord
  BY <1>1 DEF ClientRecord
<1>4. /\ r.uid = clients[c].uid /\ r.local = clients[c].local /\ r.remote = clients[c].remote
      /\ r.state = clients[c].state /\ r.creating = clients[c].creating - 1
      /\ r.arms = clients[c].arms /\ r.send_offer_ = clients[c].send_offer_
  BY <1>1 DEF ClientRecord
<1> HIDE DEF r
<1>5. /\ clients' \in Seq(ClientRecord)
      /\ Len(clients') = Len(clients)
      /\ clients'[c] = r
      /\ \A d \in 1..Len(clients) : d # c => clients'[d] = clients[d]
  BY <1>1, <1>2, <1>3, UpdateClient DEF TypeOK
<1>6. TypeOK'
  BY <1>2, <1>5, NegotiationTypes DEF TypeOK, ClientRecord, Offer, Client
<1>7. \A d \in 1..Len(clients) : /\ clients'[d].uid = clients[d].uid
                                 /\ clients'[d].local = clients[d].local
                                 /\ clients'[d].remote = clients[d].remote
                                 /\ clients'[d].state = clients[d].state
                                 /\ clients'[d].arms = clients[d].arms
                                 /\ clients'[d].send_offer_ = clients[d].send_offer_
  BY <1>1, <1>4, <1>5
<1>8. UsersInv' /\ OffersInv' /\ SentInv'
  BY <1>2, <1>5, <1>7, SameUids DEF SentInv
<1>9. ThreadsInv'
  BY <1>2, <1>5, <1>7 DEF ThreadsInv
<1>10. OnceInv'
  <2>1. ASSUME NEW d \in 1..Len(clients), d = c PROVE Once(d)'
    <3>1. /\ clients'[d].arms = clients[c].arms /\ Once(c)
          /\ clients'[d].creating = clients[c].creating - 1 /\ clients[c].creating \in Nat
      BY <1>1, <1>4, <1>5, <2>1 DEF ClientRecord, OnceInv
    <3> QED BY <1>1, <1>2, <2>1, <3>1 DEF Once
  <2>2. ASSUME NEW d \in 1..Len(clients), d # c PROVE Once(d)'
    BY <1>2, <1>5, <2>2 DEF OnceInv, Once
  <2> QED BY <1>5, <2>1, <2>2 DEF OnceInv
<1>11. AnswerStaysWithUser' /\ WrongAnswerIsOvertaken'
  BY <1>2, <1>5, <1>7, SameDescriptions
<1>12. FirstNegotiationExact'
  BY <1>2, <1>5, <1>7 DEF FirstNegotiationExact, IsFirst
<1>13. ArmedUntilSent'
  BY <1>2, <1>5, <1>7 DEF ArmedUntilSent
<1> QED BY <1>6, <1>8, <1>9, <1>10, <1>11, <1>12, <1>13

\* OnIceCandidate() clears send_offer_ of the client whose offer it sent.
LEMMA ClearSendOfferKeeps == NegotiationInv /\ ClearSendOffer => NegotiationInv'
<1> SUFFICES ASSUME NegotiationInv, ClearSendOffer PROVE NegotiationInv'
  OBVIOUS
<1> DEFINE c == sig.client
           r == [clients[c] EXCEPT !.send_offer_ = FALSE]
<1> USE DEF NegotiationInv, None
<1>1. c \in 1..Len(clients) /\ clients[c] \in ClientRecord
  BY NegotiationTypes DEF ClearSendOffer, ThreadsInv
<1>2. /\ clients' = [clients EXCEPT ![c] = r]
      /\ sig.at = "clear" /\ sig' = [at |-> "idle", client |-> 0]
      /\ UNCHANGED <<users, offers, sent, answered, lws>>
  BY DEF ClearSendOffer, Idle
<1>3. r \in ClientRecord
  BY <1>1 DEF ClientRecord
<1>4. /\ r.uid = clients[c].uid /\ r.local = clients[c].local /\ r.remote = clients[c].remote
      /\ r.state = clients[c].state /\ r.creating = clients[c].creating
      /\ r.arms = clients[c].arms /\ r.send_offer_ = FALSE
  BY <1>1 DEF ClientRecord
<1> HIDE DEF r
<1>5. /\ clients' \in Seq(ClientRecord)
      /\ Len(clients') = Len(clients)
      /\ clients'[c] = r
      /\ \A d \in 1..Len(clients) : d # c => clients'[d] = clients[d]
  BY <1>1, <1>2, <1>3, UpdateClient DEF TypeOK
<1>6. TypeOK'
  BY <1>2, <1>5, NegotiationTypes DEF TypeOK, ClientRecord, Offer, Client
<1>7. \A d \in 1..Len(clients) : /\ clients'[d].uid = clients[d].uid
                                 /\ clients'[d].local = clients[d].local
                                 /\ clients'[d].remote = clients[d].remote
                                 /\ clients'[d].state = clients[d].state
                                 /\ clients'[d].arms = clients[d].arms
                                 /\ clients'[d].creating = clients[d].creating
  BY <1>1, <1>4, <1>5
<1>8. UsersInv' /\ OffersInv' /\ SentInv'
  BY <1>2, <1>5, <1>7, SameUids DEF SentInv
<1>9. ThreadsInv'
  BY <1>2, <1>5, <1>7 DEF ThreadsInv
<1>10. OnceInv'
  <2>1. ASSUME NEW d \in 1..Len(clients) PROVE Once(d)'
    BY <1>2, <1>7 DEF OnceInv, Once
  <2> QED BY <1>5, <2>1 DEF OnceInv
<1>11. AnswerStaysWithUser' /\ WrongAnswerIsOvertaken'
  BY <1>2, <1>5, <1>7, SameDescriptions
<1>12. FirstNegotiationExact'
  BY <1>2, <1>5, <1>7 DEF FirstNegotiationExact, IsFirst
<1>13. ArmedUntilSent'
  BY <1>2, <1>5, <1>7 DEF ArmedUntilSent, SentInv
<1> QED BY <1>6, <1>8, <1>9, <1>10, <1>11, <1>12, <1>13

\* The answer is applied to the client the uid has now: a client of the uid of
\* the offer, whose own offer is not older.
LEMMA OnAnswerKeeps == NegotiationInv /\ OnAnswer => NegotiationInv'
<1> SUFFICES ASSUME NegotiationInv, OnAnswer PROVE NegotiationInv'
  OBVIOUS
<1> USE DEF NegotiationInv, None
<1> DEFINE i == answered + 1
           c == users[sent[i].uid]
           o == sent[i].offer
<1>0. i \in 1..Len(sent)
  BY NegotiationTypes DEF OnAnswer, TypeOK
<1>1. /\ i \in 1..Len(sent) /\ answered' = i
      /\ o \in 1..Len(offers) /\ offers[o] \in 1..Len(clients)
      /\ sent[i].uid \in Uids /\ clients[offers[o]].uid = sent[i].uid
      /\ UNCHANGED <<users, offers, sent, lws, sig>>
  BY <1>0, NegotiationTypes DEF OnAnswer, OffersInv, SentInv, Offer
<1>2. CASE clients' = clients
  <2>1. TypeOK'
    <3>1. answered' \in 0..Len(sent')
      BY <1>1
    <3> QED BY <1>1, <1>2, <3>1 DEF TypeOK, ClientRecord, Offer
  <2>2. ThreadsInv' /\ UsersInv' /\ OffersInv' /\ SentInv'
    BY <1>1, <1>2 DEF ThreadsInv, UsersInv, OffersInv, SentInv
  <2>3. OnceInv'
    BY <1>1, <1>2 DEF OnceInv, Once
  <2>4. AnswerStaysWithUser' /\ WrongAnswerIsOvertaken' /\ FirstNegotiationExact'
    BY <1>1, <1>2 DEF AnswerStaysWithUser, WrongAnswerIsOvertaken, FirstNegotiationExact, IsFirst
  <2>5. ArmedUntilSent'
    BY <1>1, <1>2 DEF ArmedUntilSent
  <2> QED BY <2>1, <2>2, <2>3, <2>4, <2>5
<1>3. CASE clients' # clients
  <2> DEFINE s == [clients[c] EXCEPT !.remote = o]
             r == [s EXCEPT !.state = "stable"]
  <2>1. /\ c # 0 /\ clients[c].state = "have-local-offer"
        /\ clients' = [clients EXCEPT ![c].remote = o, ![c].state = "stable"]
    BY <1>3 DEF OnAnswer, GetClient, SessionUid
  <2>2. /\ c \in 1..Len(clients) /\ clients[c].uid = sent[i].uid
        /\ clients[c] \in ClientRecord
    BY <1>1, <2>1, NegotiationTypes DEF UsersInv
  <2>3. clients' = [clients EXCEPT ![c] = r]
    BY <2>1, <2>2 DEF TypeOK
  <2>4. s \in ClientRecord
    BY <1>1, <2>2 DEF ClientRecord, Offer
  <2>5. r \in ClientRecord
    BY <2>4 DEF ClientRecord
  <2>6. /\ r.uid = clients[c].uid /\ r.local = clients[c].local /\ r.remote = o
        /\ r.state = "stable" /\ r.creating = clients[c].creating
        /\ r.arms = clients[c].arms /\ r.send_offer_ = clients[c].send_offer_
    BY <2>2 DEF ClientRecord
  <2>13. users[clients[c].uid] = c /\ clients[c].local # 0
    BY <2>1, <2>2 DEF OffersInv
  <2>17. \A d \in 1..Len(clients) : d > c => clients[d].uid # clients[c].uid
    BY <1>1, <2>1, <2>2 DEF UsersInv
  <2>18. clients[offers[o]].uid = clients[c].uid
    BY <1>1, <2>2
  <2> HIDE DEF r, s, c, o, i
  <2>7. /\ clients' \in Seq(ClientRecord)
        /\ Len(clients') = Len(clients)
        /\ clients'[c] = r
        /\ \A d \in 1..Len(clients) : d # c => clients'[d] = clients[d]
    BY <2>2, <2>3, <2>5, UpdateClient DEF TypeOK
  <2>8. TypeOK'
    <3>1. answered' \in 0..Len(sent)
      BY <1>1, NegotiationTypes
    <3> QED BY <1>1, <2>7, <3>1, NegotiationTypes DEF TypeOK, ClientRecord, Offer, Client
  <2>9. \A d \in 1..Len(clients) : /\ clients'[d].uid = clients[d].uid
                                   /\ clients'[d].local = clients[d].local
                                   /\ clients'[d].state \in {clients[d].state, "stable"}
                                   /\ clients'[d].creating = clients[d].creating
                                   /\ clients'[d].arms = clients[d].arms
                                   /\ clients'[d].send_offer_ = clients[d].send_offer_
    BY <2>2, <2>6, <2>7
  <2>10. UsersInv' /\ OffersInv' /\ SentInv'
    BY <1>1, <2>7, <2>9, SameUids DEF SentInv
  <2>11. ThreadsInv' /\ OnceInv'
    <3>1. ThreadsInv'
      BY <1>1, <2>7, <2>9 DEF ThreadsInv
    <3>2. ASSUME NEW d \in 1..Len(clients) PROVE Once(d)'
      BY <1>1, <2>9 DEF OnceInv, Once
    <3> QED BY <2>7, <3>1, <3>2 DEF OnceInv
  <2>12. ArmedUntilSent'
    BY <1>1, <2>7, <2>9 DEF ArmedUntilSent
  <2>14. WrongAnswerIsOvertaken'
    BY <1>1, <2>2, <2>6, <2>7, <2>13 DEF WrongAnswerIsOvertaken, OffersInv
  <2>15. AnswerStaysWithUser'
    <3>1. \A d \in 1..Len(clients) : clients[d].remote # 0 =>
              offers[clients[d].remote] \in 1..Len(clients)
      BY NegotiationTypes DEF OffersInv, ClientRecord, Offer
    <3>2. ASSUME NEW d \in 1..Len(clients), d = c
          PROVE  clients'[offers'[clients'[d].remote]].uid = clients'[d].uid
      BY <1>1, <2>6, <2>7, <2>9, <2>18, <3>2
    <3>3. ASSUME NEW d \in 1..Len(clients), d # c, clients'[d].remote # 0
          PROVE  clients'[offers'[clients'[d].remote]].uid = clients'[d].uid
      <4>1. clients'[d] = clients[d] /\ offers' = offers
        BY <1>1, <2>7, <3>3
      <4>2. clients[offers[clients[d].remote]].uid = clients[d].uid
        BY <3>3, <4>1 DEF AnswerStaysWithUser
      <4>3. offers[clients[d].remote] \in 1..Len(clients)
        BY <3>1, <3>3, <4>1
      <4> QED BY <2>9, <4>1, <4>2, <4>3
    <3> QED BY <2>7, <3>2, <3>3 DEF AnswerStaysWithUser
  <2>16. FirstNegotiationExact'
    <3>1. ASSUME IsFirst(c) PROVE o = clients[c].local
      <4>1. offers[o] = c
        BY <1>1, <2>2, <2>17, <2>18, <3>1 DEF IsFirst
      <4>2. clients[c].local \in 1..Len(offers) /\ offers[clients[c].local] = c
        BY <2>2, <2>13, NegotiationTypes DEF OffersInv, ClientRecord, Offer
      <4> QED BY <1>1, <2>2, <3>1, <4>1, <4>2 DEF OnceInv, Once, IsFirst
    <3>2. \A d \in 1..Len(clients) : IsFirst(d)' => IsFirst(d)
      BY <2>9 DEF IsFirst
    <3> QED BY <2>2, <2>6, <2>7, <2>9, <3>1, <3>2 DEF FirstNegotiationExact
  <2> QED BY <2>8, <2>10, <2>11, <2>12, <2>14, <2>15, <2>16
<1> QED BY <1>2, <1>3

\* A new offer is the newest; the client it is for is the one its uid has in
\* the map, if there is one.
LEMMA OfferCreatedKeeps ==
    ASSUME NegotiationInv, NEW c \in 1..Len(clients), OfferCreated(c)
    PROVE  NegotiationInv'
<1> USE DEF NegotiationInv, None
<1> DEFINE n == Len(offers) + 1
           s == [clients[c] EXCEPT !.creating = clients[c].creating - 1]
           q == [s EXCEPT !.local = n]
           r == [q EXCEPT !.state = "have-local-offer"]
<1>1. /\ clients[c] \in ClientRecord /\ clients[c].creating > 0
      /\ offers' = Append(offers, c)
      /\ sig.at = "idle" /\ sig.client = 0
      /\ UNCHANGED <<users, sent, answered, lws, sig>>
  BY NegotiationTypes DEF OfferCreated, ThreadsInv
<1>2. clients' = [clients EXCEPT ![c] = r]
  BY <1>1 DEF OfferCreated, Called, TypeOK
<1>3. /\ offers' \in Seq(Client)
      /\ Len(offers') = n /\ Len(offers) \in Nat
      /\ offers'[n] = c
      /\ \A j \in 1..Len(offers) : offers'[j] = offers[j]
      /\ \A j \in 1..Len(offers') : j \in 1..Len(offers) \/ j = n
  <2>1. c \in Client
    BY NegotiationTypes, BoundsAssumption DEF Client
  <2> QED BY <1>1, <2>1, AppendProperties, NegotiationTypes DEF TypeOK
<1>4. ClientRecord \subseteq ClientRecord'
  BY <1>3 DEF ClientRecord, Offer
<1>5. s \in ClientRecord'
  BY <1>1, <1>4 DEF ClientRecord
<1>6. q \in ClientRecord'
  <2>1. n \in Offer'
    BY <1>3 DEF Offer
  <2> HIDE DEF s, n
  <2> QED BY <1>5, <2>1 DEF ClientRecord
<1>7. r \in ClientRecord'
  BY <1>6 DEF ClientRecord
<1>8. /\ r.uid = clients[c].uid /\ r.local = n /\ r.remote = clients[c].remote
      /\ r.state = "have-local-offer" /\ r.creating = clients[c].creating - 1
      /\ r.arms = clients[c].arms /\ r.send_offer_ = clients[c].send_offer_
  BY <1>1 DEF ClientRecord
<1>9. \A u \in Uids : users[u] \in Nat
  BY NegotiationTypes, BoundsAssumption DEF Client
<1>10. users[clients[c].uid] \in {0, c}
  BY <1>1, <1>9 DEF OfferCreated, Alive, ThreadsInv, TypeOK, ClientRecord
<1> HIDE DEF r, q, s, n
<1>11. /\ clients' \in Seq(ClientRecord')
       /\ Len(clients') = Len(clients)
       /\ clients'[c] = r
       /\ \A d \in 1..Len(clients) : d # c => clients'[d] = clients[d]
  <2>1. clients \in Seq(ClientRecord')
    BY <1>4, SeqMonotonic DEF TypeOK
  <2> QED BY <1>2, <1>7, <2>1, ExceptSeq
<1>12. TypeOK'
  <2>1. [uid : Uids, offer : Offer] \subseteq [uid : Uids, offer : Offer']
    BY <1>3 DEF Offer, n
  <2>2. sent' \in Seq([uid : Uids, offer : Offer'])
    BY <1>1, <2>1, SeqMonotonic DEF TypeOK
  <2> QED BY <1>1, <1>3, <1>11, <2>2 DEF TypeOK
<1>13. \A d \in 1..Len(clients) : /\ clients'[d].uid = clients[d].uid
                                  /\ clients'[d].remote = clients[d].remote
                                  /\ clients'[d].arms = clients[d].arms
                                  /\ clients'[d].send_offer_ = clients[d].send_offer_
  BY <1>8, <1>11
<1>14. UsersInv'
  BY <1>1, <1>9, <1>11, <1>13 DEF UsersInv
<1>15. ThreadsInv'
  BY <1>1, <1>11, <1>13 DEF ThreadsInv
<1>16. /\ \A d \in 1..Len(clients) : /\ clients[d].local \in 0..Len(offers)
                                     /\ clients[d].remote \in 0..Len(offers)
                                     /\ clients[d].uid \in Uids
       /\ \A j \in 1..Len(offers) : offers[j] \in 1..Len(clients)
       /\ \A i \in 1..Len(sent) : sent[i].offer \in 1..Len(offers)
  BY NegotiationTypes DEF ClientRecord, Offer, OffersInv
<1>17. OffersInv'
  <2>1. \A j \in 1..Len(offers') : offers'[j] \in 1..Len(clients')
    BY <1>3, <1>11, <1>16
  <2>2. \A d \in 1..Len(clients') :
            /\ clients'[d].local # 0 => offers'[clients'[d].local] = d
            /\ clients'[d].local = 0 => clients'[d].state = "stable"
    <3>1. ASSUME NEW d \in 1..Len(clients), d # c
          PROVE  /\ clients'[d].local # 0 => offers'[clients'[d].local] = d
                 /\ clients'[d].local = 0 => clients'[d].state = "stable"
      BY <1>3, <1>11, <1>16, <3>1 DEF OffersInv
    <3>2. clients'[c].local = n /\ offers'[n] = c /\ n # 0
      BY <1>3, <1>8, <1>11 DEF n
    <3> QED BY <1>11, <3>1, <3>2
  <2>3. ASSUME NEW d \in 1..Len(clients'), users'[clients'[d].uid] = d, clients'[d].local # 0,
               NEW j \in 1..Len(offers'), clients'[offers'[j]].uid = clients'[d].uid
        PROVE  j =< clients'[d].local
    <3>1. CASE d = c
      BY <1>3, <1>8, <1>11, <3>1 DEF n
    <3>2. CASE d # c
      <4>1. clients'[d] = clients[d] /\ users[clients[d].uid] = d
        BY <1>1, <1>11, <2>3, <3>2
      <4>2. clients[d].uid # clients[c].uid
        BY <1>10, <1>11, <3>2, <4>1
      <4>3. j \in 1..Len(offers)
        BY <1>3, <1>11, <1>13, <2>3, <4>1, <4>2
      <4>4. clients[offers[j]].uid = clients[d].uid
        BY <1>3, <1>13, <1>16, <2>3, <4>1, <4>3
      <4> QED BY <1>11, <2>3, <4>1, <4>3, <4>4 DEF OffersInv
    <3> QED BY <3>1, <3>2
  <2> QED BY <2>1, <2>2, <2>3 DEF OffersInv
<1>18. SentInv'
  BY <1>1, <1>3, <1>11, <1>13, <1>16 DEF SentInv
<1>19. OnceInv'
  <2>1. \A d \in 1..Len(clients) : d # c => clients'[d].creating = clients[d].creating
    BY <1>11
  <2>2. clients[c].arms = 1 => lws.client # c
    BY <1>1 DEF OnceInv, Once
  <2>3. clients[c].arms = 1 => clients'[c].creating = 0
    BY <1>1, <1>8, <1>11 DEF OnceInv, Once, ClientRecord
  <2>4. clients[c].arms = 1 => \A j \in 1..Len(offers) : offers[j] # c
    BY <1>1 DEF OnceInv, Once
  <2> QED BY <1>1, <1>3, <1>11, <1>13, <2>1, <2>2, <2>3, <2>4 DEF OnceInv, Once
<1>20. AnswerStaysWithUser'
  <2>1. \A d \in 1..Len(clients) : clients[d].remote # 0 =>
            /\ offers'[clients[d].remote] = offers[clients[d].remote]
            /\ offers[clients[d].remote] \in 1..Len(clients)
    BY <1>3, <1>16
  <2> QED BY <1>11, <1>13, <2>1 DEF AnswerStaysWithUser
<1>21. WrongAnswerIsOvertaken'
  BY <1>8, <1>11 DEF WrongAnswerIsOvertaken
<1>22. FirstNegotiationExact'
  <2>1. ASSUME IsFirst(c) PROVE clients[c].remote = 0
    <3>1. \A j \in 1..Len(offers) : offers[j] # c
      BY <1>1, <2>1 DEF IsFirst, OnceInv, Once
    <3>2. clients[c].local = 0
      BY <1>16, <3>1 DEF OffersInv
    <3> QED BY <2>1, <3>2 DEF FirstNegotiationExact
  <2>2. \A d \in 1..Len(clients) : IsFirst(d)' => IsFirst(d)
    BY <1>13 DEF IsFirst
  <2> QED BY <1>11, <1>13, <2>1, <2>2 DEF FirstNegotiationExact
<1>23. ArmedUntilSent'
  BY <1>1, <1>3, <1>11, <1>13, <1>16 DEF ArmedUntilSent
<1> QED BY <1>12, <1>14, <1>15, <1>17, <1>18, <1>19, <1>20, <1>21, <1>22, <1>23

\* The flag is tested and the offer sent, with the client's own description.
LEMMA SendOfferKeeps == NegotiationInv /\ SendOffer => NegotiationInv'
<1> SUFFICES ASSUME NegotiationInv, SendOffer PROVE NegotiationInv'
  OBVIOUS
<1> USE DEF NegotiationInv, None
<1> DEFINE c == sig.client
           r == [uid |-> clients[c].uid, offer |-> clients[c].local]
           n == Len(sent) + 1
<1>1. /\ c \in 1..Len(clients) /\ clients[c].local # 0
      /\ sent' = Append(sent, r) /\ Len(sent) < MaxRequests
      /\ sig' = [at |-> "clear", client |-> c]
      /\ UNCHANGED <<users, clients, offers, answered, lws>>
  BY DEF SendOffer, ThreadsInv, GetOffer, TypeOK
<1>2. clients[c].local \in 1..Len(offers) /\ clients[c].uid \in Uids
  BY <1>1, NegotiationTypes DEF ClientRecord, Offer
<1>3. /\ r \in [uid : Uids, offer : Offer]
      /\ r.uid = clients[c].uid /\ r.offer = clients[c].local
  BY <1>2 DEF Offer
<1> HIDE DEF r
<1>4. /\ sent' \in Seq([uid : Uids, offer : Offer])
      /\ Len(sent') = n /\ n =< MaxRequests /\ Len(sent) \in Nat
      /\ sent'[n] = r
      /\ \A i \in 1..Len(sent) : sent'[i] = sent[i]
      /\ \A i \in 1..Len(sent') : i \in 1..Len(sent) \/ i = n
  BY <1>1, <1>3, AppendProperties, NegotiationTypes, BoundsAssumption DEF TypeOK
<1>5. TypeOK'
  <2>1. answered' \in 0..Len(sent')
    BY <1>1, <1>4 DEF TypeOK
  <2>2. sig' \in [at : {"idle", "test", "clear"}, client : Client \cup {None}]
    BY <1>1 DEF TypeOK
  <2> QED BY <1>1, <1>4, <2>1, <2>2 DEF TypeOK, ClientRecord, Offer
<1>6. SentInv'
  <2>1. offers[r.offer] = c
    BY <1>1, <1>3 DEF OffersInv
  <2>2. \A i \in 1..Len(sent') : clients[offers[sent'[i].offer]].uid = sent'[i].uid
    BY <1>3, <1>4, <2>1 DEF SentInv
  <2>3. n \in 1..Len(sent') /\ offers[sent'[n].offer] = sig'.client
    BY <1>1, <1>4, <2>1
  <2> QED BY <1>1, <2>2, <2>3 DEF SentInv
<1>7. ThreadsInv' /\ UsersInv' /\ OffersInv' /\ OnceInv'
  BY <1>1 DEF ThreadsInv, UsersInv, OffersInv, OnceInv, Once
<1>8. AnswerStaysWithUser' /\ WrongAnswerIsOvertaken' /\ FirstNegotiationExact'
  BY <1>1 DEF AnswerStaysWithUser, WrongAnswerIsOvertaken, FirstNegotiationExact, IsFirst
<1>9. ArmedUntilSent'
  BY <1>1, <1>4 DEF ArmedUntilSent
<1> QED BY <1>5, <1>6, <1>7, <1>8, <1>9

\* Steps that leave the clients, the offers and the requests alone.
LEMMA SameClients ==
    ASSUME NegotiationInv, UNCHANGED <<clients, offers, sent>>, TypeOK', ThreadsInv', UsersInv',
           \A c \in 1..Len(clients) : users'[clients[c].uid] \in {None, users[clients[c].uid]},
           lws'.client = lws.client, sig'.at # "clear" \/ sig' = sig
    PROVE  NegotiationInv'
<1> USE DEF NegotiationInv, None
<1>1. OffersInv'
  BY DEF OffersInv
<1>2. SentInv' /\ OnceInv'
  BY DEF SentInv, OnceInv, Once
<1>3. AnswerStaysWithUser' /\ WrongAnswerIsOvertaken' /\ FirstNegotiationExact'
  BY DEF AnswerStaysWithUser, WrongAnswerIsOvertaken, FirstNegotiationExact, IsFirst
<1>4. ArmedUntilSent'
  BY DEF ArmedUntilSent
<1> QED BY <1>1, <1>2, <1>3, <1>4

\* Every step of Negotiation keeps NegotiationInv.
LEMMA NegotiationNext == NegotiationInv /\ [Next]_vars => NegotiationInv'
<1> SUFFICES ASSUME NegotiationInv, [Next]_vars PROVE NegotiationInv'
  OBVIOUS
<1>0. TypeOK /\ ThreadsInv /\ UsersInv
  BY DEF NegotiationInv
<1>1. ASSUME NEW u \in Uids, StreamAdd(u) PROVE NegotiationInv'
  BY <1>1, StreamAddKnown, StreamAddNew
<1>2. ASSUME NEW u \in Uids, RemoveClient(u) PROVE NegotiationInv'
  <2>1. /\ users' = [users EXCEPT ![u] = None]
        /\ UNCHANGED <<clients, offers, sent, answered, lws, sig>>
    BY <1>2 DEF RemoveClient
  <2>2. \A v \in Uids : users'[v] \in {None, users[v]}
    BY <1>0, <2>1 DEF TypeOK
  <2>3. \A c \in 1..Len(clients) : clients[c].uid \in Uids
    BY <1>0, NegotiationTypes DEF ClientRecord
  <2>4. TypeOK'
    BY <1>0, <2>1 DEF TypeOK, ClientRecord, Offer
  <2>5. ThreadsInv' /\ UsersInv'
    BY <1>0, <2>1, <2>2, <2>3 DEF ThreadsInv, UsersInv
  <2> QED BY <2>1, <2>2, <2>3, <2>4, <2>5, SameClients
<1>3. CASE CreateOffer
  BY <1>3, CreateOfferKeeps
<1>4. CASE OnAnswer
  BY <1>4, OnAnswerKeeps
<1>5. CASE OnNoAnswer
  <2>1. TypeOK'
    BY <1>0, <1>5, NegotiationTypes DEF OnNoAnswer, TypeOK, ClientRecord, Offer
  <2>2. ThreadsInv' /\ UsersInv'
    BY <1>0, <1>5 DEF OnNoAnswer, ThreadsInv, UsersInv
  <2> QED BY <1>5, <2>1, <2>2, SameClients DEF OnNoAnswer
<1>6. ASSUME NEW c \in 1..Len(clients), OfferCreated(c) PROVE NegotiationInv'
  BY <1>6, OfferCreatedKeeps
<1>7. ASSUME NEW c \in 1..Len(clients), OfferFailed(c) PROVE NegotiationInv'
  BY <1>7, OfferFailedKeeps
<1>8. ASSUME NEW c \in 1..Len(clients), OnIceCandidate(c) PROVE NegotiationInv'
  <2>1. /\ sig.at = "idle" /\ Alive(c) /\ clients[c].local # None
        /\ users[clients[c].uid] # None
        /\ sig' = [at |-> "test", client |-> users[clients[c].uid]]
        /\ UNCHANGED <<users, clients, offers, sent, answered, lws>>
    BY <1>8 DEF OnIceCandidate, GetClient
  <2>2. /\ clients[c].uid \in Uids
        /\ users[clients[c].uid] \in Client
    BY <1>0, <2>1, NegotiationTypes DEF ClientRecord
  <2>3. users[clients[c].uid] = c
    BY <1>0, <2>1, <2>2 DEF Alive, ThreadsInv, None, TypeOK
  <2>4. TypeOK'
    BY <1>0, <2>1, <2>2 DEF TypeOK, ClientRecord, Offer
  <2>5. ThreadsInv' /\ UsersInv'
    BY <1>0, <2>1, <2>3 DEF ThreadsInv, UsersInv
  <2> QED BY <2>1, <2>4, <2>5, SameClients
<1>9. CASE SendOffer
  BY <1>9, SendOfferKeeps
<1>10. CASE SendNoOffer
  <2>1. TypeOK'
    BY <1>0, <1>10 DEF SendNoOffer, Idle, TypeOK, ClientRecord, Offer
  <2>2. ThreadsInv' /\ UsersInv'
    BY <1>0, <1>10 DEF SendNoOffer, Idle, ThreadsInv, UsersInv
  <2> QED BY <1>10, <2>1, <2>2, SameClients DEF SendNoOffer, Idle
<1>11. CASE ClearSendOffer
  BY <1>11, ClearSendOfferKeeps
<1>12. CASE UNCHANGED vars
  <2>1. TypeOK'
    BY <1>0, <1>12 DEF vars, TypeOK, ClientRecord, Offer
  <2>2. ThreadsInv' /\ UsersInv'
    BY <1>0, <1>12 DEF vars, ThreadsInv, UsersInv
  <2> QED BY <1>12, <2>1, <2>2, SameClients DEF vars
<1> QED BY <1>1, <1>2, <1>3, <1>4, <1>5, <1>6, <1>7, <1>8, <1>9, <1>10, <1>11, <1>12 DEF Next

-----------------------------------------------------------------------------
(* The room over a network that fails (Session).                            *)

Elements(s) == {s[i] : i \in 1..Len(s)}

Told(r) == r.command \in {"join", "leave"}

\* Joins and leaves are numbered in the order they are made.
Rank(r) == IF r.command = "join" THEN 2 * r.join - 1 ELSE 2 * r.join

\* The last of them was a join, ...
AskedIn == button = "joining" \/ (inRoom /\ button # "left")

\* ... and this is its rank.
LastRank == IF AskedIn THEN 2 * joins - 1 ELSE 2 * joins

\* Requests that did not get to the server, or got there and were answered.
OnWay == Elements(wire) \cup Elements(queue)
Replied == {answers[i].to : i \in 1..Len(answers)}
Pending == OnWay \cup Replied

ButtonInv ==
    /\ button = "joining" => ~inRoom
    /\ button = "joining" \/ inRoom => joins > 0
    /\ button \in {"unpublished", "leaving", "left"} => inRoom

\* No join or leave overtakes another on the way to the server and back.
Precedes(r, q) == Told(r) /\ Told(q) => Rank(r) < Rank(q)
Sorted(s) == \A i, j \in 1..Len(s) : i < j => Precedes(s[i], s[j])
Before(S, T) == \A r \in S, q \in T : Precedes(r, q)

OrderInv ==
    /\ Sorted(queue) /\ Sorted(wire)
    /\ \A i, j \in 1..Len(answers) : i < j => Precedes(answers[i].to, answers[j].to)
    /\ Before(Elements(wire), Elements(queue))
    /\ Before(Replied, OnWay)

\* The joins and leaves in S go up to the rank last, without a gap.
Contiguous(S, last) ==
    /\ \A r \in S : Told(r) => \E q \in S : Told(q) /\ Rank(q) = last
    /\ \A r, q \in S : Told(r) /\ Told(q) /\ Rank(r) < Rank(q) =>
          \E p \in S : Told(p) /\ Rank(p) = Rank(q) - 1

\* A failed write or a lost connection leaves a gap only behind the queue.
GapsInv ==
    /\ Contiguous(Elements(queue), LastRank)
    /\ link # "broken" => Contiguous(OnWay, LastRank)

\* What the server knows, with what is on its way, comes to what the dialog
\* last asked for.
RoomInv ==
    link = "up" =>
        /\ (\A r \in OnWay : ~Told(r)) => (member <=> AskedIn /\ granted = connections)
        /\ \A r \in OnWay : r.command = "join" /\ member =>
              \E q \in OnWay : Told(q) /\ Rank(q) = Rank(r) - 1

\* The numbers of joins and leaves; the last join is not granted before it
\* gets to the server.
NumbersInv ==
    /\ \A r \in Pending : Told(r) => r.join \in 1..joins /\ Rank(r) =< LastRank
    /\ \A r \in OnWay : r.command = "join" /\ r.join = joins => granted = 0
    /\ link # "down" => connections > 0

\* A publish at this moment ends too late.
LateNow == button \in {"leaving", "left"} \/ (button = "idle" /\ ~inRoom)

\* Joins are answered in their order: the one PublishLocalStream() is at work
\* for, or that was passed over, is older than all that are pending.
PublishedInv ==
    /\ \A r \in Pending : r.command = "join" => r.join > publishing
    /\ local_published_ /\ ~late =>
          ~LateNow /\ \A r \in Pending : r.command = "join" => r.join # joins
    /\ skipped => late /\ publishing = 0 /\ \A r \in Pending : r.command # "join"

SessionInv ==
    Net!TypeOK /\ ButtonInv /\ OrderInv /\ GapsInv /\ RoomInv /\ NumbersInv /\ PublishedInv

\* Nothing was asked for and nothing is connected at the start.
LEMMA SessionInit == Net!Init => SessionInv
<1> SUFFICES ASSUME Net!Init PROVE SessionInv
  OBVIOUS
<1> USE DialogAssumption DEF Net!Init
<1>1. Net!TypeOK
  <2>1. queue \in Seq(Net!Request) /\ wire \in Seq(Net!Request) /\ answers \in Seq(Net!Answer)
    BY EmptySeq
  <2>2. Len(<< >>) = 0
    OBVIOUS
  <2>3. Len(queue) =< requests
    BY <2>2
  <2>4. /\ publishing \in 0..joins /\ joins \in 0..requests /\ requests \in 0..SessionRequests
        /\ connections \in 0..MaxConnections /\ granted \in 0..connections
    OBVIOUS
  <2>5. /\ inRoom \in BOOLEAN /\ local_published_ \in BOOLEAN /\ requested \in BOOLEAN
        /\ member \in BOOLEAN /\ late \in BOOLEAN /\ skipped \in BOOLEAN /\ early \in BOOLEAN
    OBVIOUS
  <2>6. ~member /\ button = "idle" /\ client = "none" /\ link = "down"
    OBVIOUS
  <2> QED BY <2>1, <2>3, <2>4, <2>5, <2>6 DEF Net!TypeOK
<1>2. Pending = {} /\ OnWay = {} /\ Elements(queue) = {} /\ Elements(wire) = {}
  BY DEF Pending, OnWay, Replied, Elements
<1>3. ButtonInv /\ OrderInv
  BY <1>2 DEF ButtonInv, OrderInv, Sorted, Before
<1>4. GapsInv /\ RoomInv /\ NumbersInv /\ PublishedInv
  BY <1>2 DEF GapsInv, RoomInv, NumbersInv, PublishedInv, Contiguous
<1> QED BY <1>1, <1>3, <1>4 DEF SessionInv

\* Appending to a sequence, and taking its head, as sets.
LEMMA AppendElements ==
    ASSUME NEW R, NEW s \in Seq(R), NEW r \in R
    PROVE  /\ Append(s, r) \in Seq(R)
           /\ Len(s) \in Nat /\ Len(Append(s, r)) = Len(s) + 1
           /\ Elements(Append(s, r)) = Elements(s) \cup {r}
           /\ \A i \in 1..Len(s) : Append(s, r)[i] = s[i]
           /\ Append(s, r)[Len(s) + 1] = r
<1>1. /\ Append(s, r) \in Seq(R)
      /\ Len(s) \in Nat /\ Len(Append(s, r)) = Len(s) + 1
      /\ \A i \in 1..Len(s) : Append(s, r)[i] = s[i]
      /\ Append(s, r)[Len(s) + 1] = r
  BY AppendProperties, LenProperties
<1>2. \A i \in 1..Len(s) + 1 : i \in 1..Len(s) \/ i = Len(s) + 1
  BY <1>1
<1>3. \A i \in 1..Len(s) : i \in 1..Len(s) + 1
  BY <1>1
<1>4. Len(s) + 1 \in 1..Len(s) + 1
  BY <1>1
<1>5. Elements(Append(s, r)) = Elements(s) \cup {r}
  BY <1>1, <1>2, <1>3, <1>4 DEF Elements
<1> QED BY <1>1, <1>5

\* Taking the head off a sequence, as sets.
LEMMA TailElements ==
    ASSUME NEW R, NEW s \in Seq(R), s # << >>
    PROVE  /\ Tail(s) \in Seq(R) /\ Head(s) \in R /\ Head(s) = s[1]
           /\ Len(s) \in Nat \ {0} /\ Len(Tail(s)) = Len(s) - 1
           /\ \A i \in 1..Len(Tail(s)) : Tail(s)[i] = s[i + 1]
           /\ Elements(s) = Elements(Tail(s)) \cup {Head(s)}
<1>1. /\ Tail(s) \in Seq(R) /\ Head(s) \in R /\ Head(s) = s[1]
      /\ Len(s) \in Nat \ {0} /\ Len(Tail(s)) = Len(s) - 1
      /\ \A i \in 1..Len(Tail(s)) : Tail(s)[i] = s[i + 1]
  BY HeadTailProperties, EmptySeq
<1>2. \A i \in 1..Len(s) : i = 1 \/ i - 1 \in 1..Len(Tail(s))
  BY <1>1
<1>3. \A i \in 1..Len(Tail(s)) : i + 1 \in 1..Len(s)
  BY <1>1
<1>4. 1 \in 1..Len(s)
  BY <1>1
<1>5. ASSUME NEW x \in Elements(s) PROVE x \in Elements(Tail(s)) \cup {Head(s)}
  <2>1. PICK i \in 1..Len(s) : x = s[i]
    BY DEF Elements
  <2>2. CASE i = 1
    BY <1>1, <2>1, <2>2
  <2>3. CASE i - 1 \in 1..Len(Tail(s))
    <3>1. Tail(s)[i - 1] = s[i]
      BY <1>1, <2>3
    <3> QED BY <2>1, <2>3, <3>1 DEF Elements
  <2> QED BY <1>2, <2>2, <2>3
<1>6. ASSUME NEW x \in Elements(Tail(s)) PROVE x \in Elements(s)
  BY <1>1, <1>3 DEF Elements
<1>7. Head(s) \in Elements(s)
  BY <1>1, <1>4 DEF Elements
<1> QED BY <1>1, <1>5, <1>6, <1>7

\* A sequence stays in order when what follows all of it is appended, ...
LEMMA SortedAppend ==
    ASSUME NEW R, NEW s \in Seq(R), NEW r \in R, Sorted(s), \A q \in Elements(s) : Precedes(q, r)
    PROVE  Sorted(Append(s, r))
<1>1. \A i \in 1..Len(s) : Precedes(s[i], r)
  BY DEF Elements
<1>2. SUFFICES ASSUME NEW i \in 1..Len(s) + 1, NEW j \in 1..Len(s) + 1, i < j
               PROVE  Precedes(Append(s, r)[i], Append(s, r)[j])
  BY AppendElements DEF Sorted
<1>3. i \in 1..Len(s) /\ (j \in 1..Len(s) \/ j = Len(s) + 1)
  BY <1>2, AppendElements
<1> QED BY <1>1, <1>2, <1>3, AppendElements DEF Sorted

\* ... and when its head is taken, which precedes all the rest.
LEMMA SortedTail ==
    ASSUME NEW R, NEW s \in Seq(R), s # << >>, Sorted(s)
    PROVE  /\ Sorted(Tail(s))
           /\ \A q \in Elements(Tail(s)) : Precedes(Head(s), q)
<1>1. /\ Len(s) \in Nat \ {0} /\ Len(Tail(s)) = Len(s) - 1 /\ Head(s) = s[1]
      /\ \A i \in 1..Len(Tail(s)) : Tail(s)[i] = s[i + 1]
  BY TailElements
<1>2. \A i \in 1..Len(Tail(s)) : i + 1 \in 1..Len(s) /\ 1 < i + 1
  BY <1>1
<1>3. Sorted(Tail(s))
  BY <1>1, <1>2 DEF Sorted
<1>4. \A i \in 1..Len(Tail(s)) : Precedes(s[1], s[i + 1])
  BY <1>1, <1>2 DEF Sorted
<1> QED BY <1>1, <1>3, <1>4 DEF Elements
\* Answers keep the order of the requests they are to.
LEMMA AnswersTail ==
    ASSUME SessionInv, answers # << >>, answers' = Tail(answers)
    PROVE  /\ answers' \in Seq(Net!Answer) /\ Head(answers) \in Net!Answer
           /\ \A i, j \in 1..Len(answers') : i < j => Precedes(answers'[i].to, answers'[j].to)
           /\ Replied = Replied' \cup {Head(answers).to}
           /\ \A q \in Replied' : Precedes(Head(answers).to, q)
<1>1. answers \in Seq(Net!Answer)
  BY DEF SessionInv, Net!TypeOK
<1>2. \A i, j \in 1..Len(answers) : i < j => Precedes(answers[i].to, answers[j].to)
  BY DEF SessionInv, OrderInv
<1>3. /\ answers' \in Seq(Net!Answer) /\ Head(answers) \in Net!Answer /\ Head(answers) = answers[1]
      /\ Len(answers) \in Nat \ {0} /\ Len(answers') = Len(answers) - 1
      /\ \A i \in 1..Len(answers') : answers'[i] = answers[i + 1]
  BY <1>1, TailElements
<1>4. /\ \A i \in 1..Len(answers) : i = 1 \/ i - 1 \in 1..Len(answers')
      /\ \A i \in 1..Len(answers') : i + 1 \in 1..Len(answers) /\ 1 < i + 1
      /\ 1 \in 1..Len(answers)
      /\ \A i \in 1..Len(answers) : (i - 1) + 1 = i
  BY <1>3
<1>5. \A i, j \in 1..Len(answers') : i < j => Precedes(answers'[i].to, answers'[j].to)
  BY <1>2, <1>3, <1>4
<1>6. \A i \in 1..Len(answers') : Precedes(answers[1].to, answers'[i].to)
  BY <1>2, <1>3, <1>4
<1>7. ASSUME NEW q \in Replied PROVE q \in Replied' \cup {Head(answers).to}
  <2>1. PICK i \in 1..Len(answers) : q = answers[i].to
    BY DEF Replied
  <2>2. CASE i = 1
    BY <1>3, <2>1, <2>2
  <2>3. CASE i - 1 \in 1..Len(answers')
    <3>1. answers'[i - 1] = answers[i]
      BY <1>3, <1>4, <2>3
    <3> QED BY <2>1, <2>3, <3>1 DEF Replied
  <2> QED BY <1>4, <2>2, <2>3
<1>8. ASSUME NEW q \in Replied' PROVE q \in Replied
  BY <1>3, <1>4 DEF Replied
<1>9. Head(answers).to \in Replied
  BY <1>3, <1>4 DEF Replied
<1>10. \A q \in Replied' : Precedes(Head(answers).to, q)
  BY <1>3, <1>6 DEF Replied
<1> QED BY <1>3, <1>5, <1>7, <1>8, <1>9, <1>10

\* An answer to a request that follows all those answered goes to the end.
LEMMA AnswersAppend ==
    ASSUME SessionInv, NEW a \in Net!Answer, answers' = Append(answers, a),
           \A q \in Replied : Precedes(q, a.to)
    PROVE  /\ answers' \in Seq(Net!Answer)
           /\ \A i, j \in 1..Len(answers') : i < j => Precedes(answers'[i].to, answers'[j].to)
           /\ Replied' = Replied \cup {a.to}
<1>1. answers \in Seq(Net!Answer)
  BY DEF SessionInv, Net!TypeOK
<1>2. \A i, j \in 1..Len(answers) : i < j => Precedes(answers[i].to, answers[j].to)
  BY DEF SessionInv, OrderInv
<1>3. /\ answers' \in Seq(Net!Answer)
      /\ Len(answers) \in Nat /\ Len(answers') = Len(answers) + 1
      /\ \A i \in 1..Len(answers) : answers'[i] = answers[i]
      /\ answers'[Len(answers) + 1] = a
  BY <1>1, AppendElements
<1>4. /\ \A i \in 1..Len(answers') : i \in 1..Len(answers) \/ i = Len(answers) + 1
      /\ \A i \in 1..Len(answers) : i \in 1..Len(answers')
      /\ Len(answers) + 1 \in 1..Len(answers')
      /\ \A i, j \in 1..Len(answers') : i < j => i \in 1..Len(answers)
  BY <1>3
<1>5. \A i \in 1..Len(answers) : Precedes(answers[i].to, a.to)
  BY DEF Replied
<1>6. ASSUME NEW i \in 1..Len(answers'), NEW j \in 1..Len(answers'), i < j
      PROVE  Precedes(answers'[i].to, answers'[j].to)
  BY <1>2, <1>3, <1>4, <1>5, <1>6
<1>7. Replied' = Replied \cup {a.to}
  BY <1>3, <1>4 DEF Replied
<1> QED BY <1>3, <1>6, <1>7

\* What the requests on their way, and those answered, look like.
LEMMA SessionTypes ==
    ASSUME SessionInv
    PROVE  /\ queue \in Seq(Net!Request) /\ wire \in Seq(Net!Request)
           /\ Pending \subseteq Net!Request
           /\ joins \in Nat /\ publishing \in 0..joins /\ LastRank \in Nat
           /\ connections \in Nat /\ granted \in 0..connections
           /\ \A r \in Net!Request :
                 /\ r.command \in {"join", "leave", "publish", "unpublish"}
                 /\ r.join \in Nat /\ Rank(r) \in Int
           /\ \A r \in Pending : Told(r) => Rank(r) =< LastRank
<1> USE DialogAssumption
<1>1. /\ queue \in Seq(Net!Request) /\ wire \in Seq(Net!Request) /\ answers \in Seq(Net!Answer)
      /\ joins \in 0..requests /\ requests \in 0..SessionRequests
      /\ publishing \in 0..joins /\ connections \in 0..MaxConnections /\ granted \in 0..connections
  BY DEF SessionInv, Net!TypeOK
<1>2. joins \in Nat /\ connections \in Nat
  BY <1>1
<1>3. LastRank \in Nat
  BY <1>2 DEF LastRank, SessionInv, ButtonInv, AskedIn
<1>4. Elements(queue) \subseteq Net!Request /\ Elements(wire) \subseteq Net!Request
  BY <1>1, ElementOfSeq DEF Elements
<1>5. \A i \in 1..Len(answers) : answers[i] \in Net!Answer
  BY <1>1, ElementOfSeq
<1>6. Replied \subseteq Net!Request
  BY <1>5 DEF Replied, Net!Answer
<1>7. \A r \in Net!Request :
         /\ r.command \in {"join", "leave", "publish", "unpublish"}
         /\ r.join \in Nat /\ Rank(r) \in Int
  BY DEF Net!Request, Rank
<1>8. \A r \in Pending : Told(r) => Rank(r) =< LastRank
  BY DEF SessionInv, NumbersInv
<1> QED BY <1>1, <1>2, <1>3, <1>4, <1>6, <1>7, <1>8 DEF Pending, OnWay

\* One more rank on top leaves no gap, ...
LEMMA ContiguousGrows ==
    ASSUME NEW S \in SUBSET Net!Request, NEW last \in Nat, Contiguous(S, last),
           \A q \in S : Told(q) => Rank(q) \in Int /\ Rank(q) =< last,
           NEW r, Told(r), Rank(r) = last + 1
    PROVE  Contiguous(S \cup {r}, last + 1)
<1>1. ASSUME NEW p \in S \cup {r}, NEW q \in S \cup {r}, Told(p), Told(q), Rank(p) < Rank(q)
      PROVE  \E t \in S \cup {r} : Told(t) /\ Rank(t) = Rank(q) - 1
  <2>1. p \in S
    BY <1>1
  <2>2. CASE q = r
    <3>1. \E t \in S : Told(t) /\ Rank(t) = last
      BY <1>1, <2>1 DEF Contiguous
    <3> QED BY <2>2, <3>1
  <2>3. CASE q \in S
    <3>1. \E t \in S : Told(t) /\ Rank(t) = Rank(q) - 1
      BY <1>1, <2>1, <2>3 DEF Contiguous
    <3> QED BY <3>1
  <2> QED BY <2>2, <2>3
<1> QED BY <1>1 DEF Contiguous

\* ... and neither does taking the least.
LEMMA ContiguousLoses ==
    ASSUME NEW T, NEW h, NEW last \in Nat, Contiguous(T \cup {h}, last),
           \A q \in T \cup {h} : Told(q) => Rank(q) \in Int /\ Rank(q) =< last,
           \A q \in T : Precedes(h, q)
    PROVE  Contiguous(T, last)
<1>1. ASSUME NEW p \in T, Told(p) PROVE \E q \in T : Told(q) /\ Rank(q) = last
  <2>1. PICK q \in T \cup {h} : Told(q) /\ Rank(q) = last
    BY <1>1 DEF Contiguous
  <2>2. q # h
    BY <1>1, <2>1 DEF Precedes
  <2> QED BY <2>1, <2>2
<1>2. ASSUME NEW p \in T, NEW q \in T, Told(p), Told(q), Rank(p) < Rank(q)
      PROVE  \E t \in T : Told(t) /\ Rank(t) = Rank(q) - 1
  <2>1. PICK t \in T \cup {h} : Told(t) /\ Rank(t) = Rank(q) - 1
    BY <1>2 DEF Contiguous
  <2>2. t # h
    BY <1>2, <2>1 DEF Precedes
  <2> QED BY <2>1, <2>2
<1> QED BY <1>1, <1>2 DEF Contiguous

\* A step of a handler that neither sends nor receives.
LEMMA SameNetwork ==
    ASSUME SessionInv, AskedIn' = AskedIn,
           UNCHANGED <<queue, wire, answers, link, connections, member, granted, joins>>
    PROVE  OrderInv' /\ GapsInv' /\ RoomInv' /\ NumbersInv' /\ Pending' = Pending
<1>1. /\ Pending' = Pending /\ OnWay' = OnWay /\ Replied' = Replied
      /\ Elements(queue)' = Elements(queue) /\ Elements(wire)' = Elements(wire)
  BY DEF Pending, OnWay, Replied, Elements
<1>2. LastRank' = LastRank
  BY DEF LastRank
<1>3. OrderInv'
  BY <1>1 DEF SessionInv, OrderInv, Sorted
<1>4. GapsInv'
  BY <1>1, <1>2 DEF SessionInv, GapsInv
<1>5. RoomInv'
  BY <1>1 DEF SessionInv, RoomInv
<1>6. NumbersInv'
  BY <1>1, <1>2 DEF SessionInv, NumbersInv
<1> QED BY <1>1, <1>3, <1>4, <1>5, <1>6

\* OnBnClickedBtnJoin() sets the flags of the join it sent.
LEMMA JoinDoneKeeps == SessionInv /\ Net!JoinDone => SessionInv'
<1> SUFFICES ASSUME SessionInv, Net!JoinDone PROVE SessionInv'
  OBVIOUS
<1> USE DEF Net!JoinDone, Net!sendVars, Net!netVars, Net!histVars
<1>1. AskedIn' = AskedIn
  BY DEF AskedIn
<1>2. OrderInv' /\ GapsInv' /\ RoomInv' /\ NumbersInv' /\ Pending' = Pending
  BY <1>1, SameNetwork
<1>3. Net!TypeOK'
  <2>1. early' \in BOOLEAN
    BY DEF SessionInv, Net!TypeOK
  <2> QED BY <2>1 DEF SessionInv, Net!TypeOK
<1>4. ButtonInv'
  BY DEF SessionInv, ButtonInv
<1>5. PublishedInv'
  BY <1>2 DEF SessionInv, PublishedInv
<1> QED BY <1>2, <1>3, <1>4, <1>5 DEF SessionInv

\* OnBnClickedBtnLeave() resets local_published_ after its UnPublish().
LEMMA UnpublishedKeeps == SessionInv /\ Net!Unpublished => SessionInv'
<1> SUFFICES ASSUME SessionInv, Net!Unpublished PROVE SessionInv'
  OBVIOUS
<1> USE DEF Net!Unpublished, Net!sendVars, Net!netVars, Net!histVars
<1>1. AskedIn' = AskedIn
  BY DEF AskedIn
<1>2. OrderInv' /\ GapsInv' /\ RoomInv' /\ NumbersInv' /\ Pending' = Pending
  BY <1>1, SameNetwork
<1>3. Net!TypeOK'
  BY DEF SessionInv, Net!TypeOK
<1>4. ButtonInv'
  BY DEF SessionInv, ButtonInv
<1>5. PublishedInv'
  BY <1>2 DEF SessionInv, PublishedInv
<1> QED BY <1>2, <1>3, <1>4, <1>5 DEF SessionInv

\* OnBnClickedBtnLeave() ends: the leave was sent before.
LEMMA LeaveDoneKeeps == SessionInv /\ Net!LeaveDone => SessionInv'
<1> SUFFICES ASSUME SessionInv, Net!LeaveDone PROVE SessionInv'
  OBVIOUS
<1> USE DEF Net!LeaveDone, Net!sendVars, Net!netVars, Net!histVars
<1>1. AskedIn' = AskedIn
  BY DEF AskedIn
<1>2. OrderInv' /\ GapsInv' /\ RoomInv' /\ NumbersInv' /\ Pending' = Pending
  BY <1>1, SameNetwork
<1>3. Net!TypeOK'
  BY DEF SessionInv, Net!TypeOK
<1>4. ButtonInv'
  BY DEF SessionInv, ButtonInv
<1>5. PublishedInv'
  BY <1>2 DEF SessionInv, PublishedInv, LateNow
<1> QED BY <1>2, <1>3, <1>4, <1>5 DEF SessionInv

\* PublishLocalStream() sets local_published_: unless it is late, for the last
\* join, so that no answer to that is still to come.
LEMMA PublishLocalStreamKeeps == SessionInv /\ Net!PublishLocalStream => SessionInv'
<1> SUFFICES ASSUME SessionInv, Net!PublishLocalStream PROVE SessionInv'
  OBVIOUS
<1> USE DEF Net!PublishLocalStream, Net!sendVars, Net!netVars
<1>1. AskedIn' = AskedIn
  BY DEF AskedIn
<1>2. OrderInv' /\ GapsInv' /\ RoomInv' /\ NumbersInv' /\ Pending' = Pending
  BY <1>1, SameNetwork
<1>3. Net!TypeOK'
  <2>1. client' \in {"none", "made", "armed"}
    BY DEF SessionInv, Net!TypeOK
  <2>2. late' \in BOOLEAN /\ local_published_' \in BOOLEAN
    OBVIOUS
  <2>3. publishing' \in 0..joins
    BY SessionTypes
  <2> QED BY <2>1, <2>2, <2>3 DEF SessionInv, Net!TypeOK
<1>4. ButtonInv'
  BY DEF SessionInv, ButtonInv
<1>5. PublishedInv'
  <2>1. \A r \in Pending : r.command = "join" => r.join \in 1..joins /\ r.join > publishing
    BY DEF SessionInv, NumbersInv, PublishedInv, Told
  <2>2. \A r \in Pending : r.command = "join" => r.join > publishing'
    BY <2>1, SessionTypes
  <2>3. ~skipped
    BY DEF SessionInv, PublishedInv
  <2>4. ~late' => ~LateNow' /\ publishing = joins
    BY DEF LateNow
  <2>5. ~late' => \A r \in Pending : r.command = "join" => r.join # joins
    BY <2>1, <2>4, SessionTypes
  <2> QED BY <1>2, <2>2, <2>3, <2>4, <2>5 DEF PublishedInv
<1> QED BY <1>2, <1>3, <1>4, <1>5 DEF SessionInv

\* A new connection: granted is of an earlier one, and the queue has no gap.
LEMMA ConnectKeeps == SessionInv /\ Net!Connect => SessionInv'
<1> SUFFICES ASSUME SessionInv, Net!Connect PROVE SessionInv'
  OBVIOUS
<1> USE DEF Net!Connect, Net!onConnected, Net!dialogVars, Net!sendVars, Net!histVars
<1>1. /\ Pending' = Pending /\ OnWay' = OnWay /\ Replied' = Replied
      /\ Elements(queue)' = Elements(queue) /\ Elements(wire)' = Elements(wire)
  BY DEF Pending, OnWay, Replied, Elements
<1>2. LastRank' = LastRank /\ LateNow' = LateNow
  BY DEF LastRank, AskedIn, LateNow
<1>3. wire = << >> /\ answers = << >> /\ ~member
  BY DEF SessionInv, Net!TypeOK
<1>4. connections' \in 1..MaxConnections /\ granted < connections'
  BY SessionTypes, DialogAssumption
<1>5. Net!TypeOK'
  <2>1. granted' \in 0..connections'
    BY <1>4, SessionTypes
  <2>2. connections' \in 0..MaxConnections
    BY <1>4
  <2> QED BY <2>1, <2>2 DEF SessionInv, Net!TypeOK
<1>6. ButtonInv' /\ PublishedInv'
  BY <1>1, <1>2 DEF SessionInv, ButtonInv, PublishedInv
<1>7. OrderInv'
  BY <1>1 DEF SessionInv, OrderInv, Sorted
<1>8. GapsInv'
  <2>1. OnWay = Elements(queue)
    BY <1>3 DEF OnWay, Elements
  <2> QED BY <1>1, <1>2, <2>1 DEF SessionInv, GapsInv
<1>9. RoomInv'
  BY <1>3, <1>4, SessionTypes DEF RoomInv
<1>10. NumbersInv'
  BY <1>1, <1>2, <1>4 DEF SessionInv, NumbersInv
<1> QED BY <1>5, <1>6, <1>7, <1>8, <1>9, <1>10 DEF SessionInv

\* A lost connection: only the queue is left.
LEMMA DisconnectKeeps == SessionInv /\ Net!Disconnect => SessionInv'
<1> SUFFICES ASSUME SessionInv, Net!Disconnect PROVE SessionInv'
  OBVIOUS
<1> USE DEF Net!Disconnect, Net!onDisconnected, Net!dialogVars, Net!histVars
<1>1. wire' = << >> /\ answers' = << >> /\ Len(wire') = 0 /\ Len(answers') = 0
  OBVIOUS
<1>2. /\ OnWay' = Elements(queue) /\ Replied' = {} /\ Elements(wire)' = {}
      /\ Elements(queue)' = Elements(queue)
  BY <1>1 DEF OnWay, Replied, Elements
<1>3. Pending' = Elements(queue) /\ Elements(queue) \subseteq OnWay /\ OnWay \subseteq Pending
  BY <1>2 DEF Pending, OnWay
<1>4. LastRank' = LastRank /\ LateNow' = LateNow
  BY DEF LastRank, AskedIn, LateNow
<1>5. Net!TypeOK'
  <2>1. wire' \in Seq(Net!Request) /\ answers' \in Seq(Net!Answer)
    BY <1>1
  <2>2. member' \in BOOLEAN /\ requested' \in BOOLEAN /\ ~member'
    OBVIOUS
  <2> QED BY <2>1, <2>2 DEF SessionInv, Net!TypeOK
<1>6. ButtonInv' /\ PublishedInv'
  BY <1>3, <1>4 DEF SessionInv, ButtonInv, PublishedInv
<1>7. OrderInv'
  <2>1. Sorted(queue)' /\ Sorted(wire)'
    BY <1>1 DEF SessionInv, OrderInv, Sorted
  <2> QED BY <1>1, <1>2, <2>1 DEF OrderInv, Before
<1>8. GapsInv'
  BY <1>2, <1>4 DEF SessionInv, GapsInv
<1>9. RoomInv'
  BY DEF RoomInv
<1>10. NumbersInv'
  BY <1>2, <1>3, <1>4 DEF SessionInv, NumbersInv
<1> QED BY <1>5, <1>6, <1>7, <1>8, <1>9, <1>10 DEF SessionInv

\* sendMessage(): the request is the last in the queue.  A join or a leave has
\* the next rank.
LEMMA SendQueues ==
    ASSUME SessionInv, NEW r \in Net!Request, UNCHANGED <<wire, answers>>,
           Net!Send(r.command, r.join), Told(r) => Rank(r) = LastRank + 1
    PROVE  /\ queue' \in Seq(Net!Request) /\ Len(queue') =< requests'
           /\ requests' \in 0..SessionRequests /\ requests' > requests /\ requested' \in BOOLEAN
           /\ Elements(queue)' = Elements(queue) \cup {r}
           /\ OnWay' = OnWay \cup {r} /\ Pending' = Pending \cup {r}
           /\ OrderInv'
<1> USE DialogAssumption
<1>1. /\ requests < SessionRequests /\ requests' = requests + 1
      /\ queue' = Append(queue, [command |-> r.command, join |-> r.join])
      /\ requested' = (requested \/ link # "down")
  BY DEF Net!Send
<1>2. r = [command |-> r.command, join |-> r.join]
  BY DEF Net!Request
<1>3. /\ queue \in Seq(Net!Request) /\ Len(queue) =< requests /\ requests \in 0..SessionRequests
      /\ requested \in BOOLEAN
  BY DEF SessionInv, Net!TypeOK
<1>4. queue' = Append(queue, r)
  BY <1>1, <1>2
<1>5. /\ queue' \in Seq(Net!Request) /\ Len(queue) \in Nat /\ Len(queue') = Len(queue) + 1
      /\ Elements(queue') = Elements(queue) \cup {r}
  BY <1>3, <1>4, AppendElements
<1>6. Elements(queue)' = Elements(queue) \cup {r} /\ Elements(wire)' = Elements(wire) /\ Replied' = Replied
  BY <1>5 DEF Elements, Replied
<1>7. OnWay' = OnWay \cup {r} /\ Pending' = Pending \cup {r}
  BY <1>6 DEF OnWay, Pending
<1>8. \A q \in Pending : Precedes(q, r)
  <2>1. SUFFICES ASSUME NEW q \in Pending, Told(q), Told(r) PROVE Rank(q) < Rank(r)
    BY DEF Precedes
  <2>2. Rank(q) \in Int /\ Rank(q) =< LastRank /\ LastRank \in Nat
    BY <2>1, SessionTypes
  <2> QED BY <2>1, <2>2
<1>9. Elements(queue) \subseteq Pending /\ Elements(wire) \subseteq Pending /\ Replied \subseteq Pending
  BY DEF Pending, OnWay
<1>10. Sorted(queue')
  BY <1>3, <1>4, <1>8, <1>9, SortedAppend DEF SessionInv, OrderInv
<1>11. OrderInv'
  <2>1. Before(Elements(wire), Elements(queue)') /\ Before(Replied, OnWay')
    BY <1>6, <1>7, <1>8, <1>9 DEF Before, SessionInv, OrderInv
  <2>2. Before(Elements(wire), Elements(queue))' /\ Before(Replied, OnWay)'
    BY <1>6, <2>1 DEF Before
  <2>3. Sorted(queue)' /\ Sorted(wire)'
    BY <1>10 DEF Sorted, SessionInv, OrderInv
  <2> QED BY <2>2, <2>3 DEF SessionInv, OrderInv
<1> QED BY <1>1, <1>3, <1>5, <1>6, <1>7, <1>11

\* A publish or an unpublish changes nothing about the room.
LEMMA SendOther ==
    ASSUME SessionInv, AskedIn' = AskedIn, NEW r \in Net!Request, ~Told(r),
           Net!Send(r.command, r.join),
           UNCHANGED <<wire, answers, link, connections, member, granted, joins>>
    PROVE  GapsInv' /\ RoomInv' /\ NumbersInv'
<1>1. /\ Elements(queue)' = Elements(queue) \cup {r}
      /\ OnWay' = OnWay \cup {r} /\ Pending' = Pending \cup {r}
  BY SendQueues
<1>2. LastRank' = LastRank
  BY DEF LastRank
<1>3. r.command # "join"
  BY DEF Told
<1>4. GapsInv'
  BY <1>1, <1>2 DEF SessionInv, GapsInv, Contiguous
<1>5. RoomInv'
  BY <1>1, <1>3 DEF SessionInv, RoomInv
<1>6. NumbersInv'
  BY <1>1, <1>2, <1>3 DEF SessionInv, NumbersInv
<1> QED BY <1>4, <1>5, <1>6

\* A join or a leave is the last one on its way.
LEMMA SendTold ==
    ASSUME SessionInv, NEW r \in Net!Request, Told(r), Net!Send(r.command, r.join),
           Rank(r) = LastRank + 1, LastRank' = LastRank + 1, UNCHANGED <<wire, answers, link>>
    PROVE  GapsInv'
<1>1. /\ Elements(queue)' = Elements(queue) \cup {r}
      /\ OnWay' = OnWay \cup {r}
  BY SendQueues
<1>2. LastRank \in Nat /\ Pending \subseteq Net!Request
  BY SessionTypes
<1>3. Elements(queue) \subseteq Pending /\ OnWay \subseteq Pending
  BY DEF Pending, OnWay
<1>4. \A q \in Pending : Told(q) => Rank(q) \in Int /\ Rank(q) =< LastRank
  BY SessionTypes
<1>5. Contiguous(Elements(queue) \cup {r}, LastRank + 1)
  BY <1>2, <1>3, <1>4, ContiguousGrows DEF SessionInv, GapsInv
<1>6. link # "broken" => Contiguous(OnWay \cup {r}, LastRank + 1)
  BY <1>2, <1>3, <1>4, ContiguousGrows DEF SessionInv, GapsInv
<1> QED BY <1>1, <1>5, <1>6 DEF GapsInv

\* OnBnClickedBtnJoin(): if the server still counts the user in, the leave of
\* the last join is on its way before this join.
LEMMA JoinKeeps == SessionInv /\ Net!Join => SessionInv'
<1> SUFFICES ASSUME SessionInv, Net!Join PROVE SessionInv'
  OBVIOUS
<1> DEFINE r == [command |-> "join", join |-> joins + 1]
<1> USE DialogAssumption
<1>1. /\ button = "idle" /\ ~inRoom /\ joins' = joins + 1 /\ Net!Send("join", joins + 1)
      /\ button' = "joining" /\ granted' = 0 /\ skipped' = FALSE
      /\ UNCHANGED <<inRoom, local_published_, client, publishing, link, connections, wire,
                     answers, member, late, early>>
  BY DEF Net!Join
<1>2. joins \in 0..requests /\ requests \in Nat /\ requests < SessionRequests
  BY <1>1 DEF SessionInv, Net!TypeOK, Net!Send
<1>3. r \in Net!Request
  BY <1>2 DEF Net!Request
<1>4. r.command = "join" /\ r.join = joins + 1 /\ Told(r) /\ Rank(r) = 2 * joins + 1
  BY <1>2 DEF Told, Rank
<1> HIDE DEF r
<1>5. ~AskedIn /\ AskedIn' /\ LastRank = 2 * joins /\ LastRank' = 2 * joins + 1
  BY <1>1, <1>2 DEF AskedIn, LastRank
<1>6. Net!Send(r.command, r.join)
  BY <1>1, <1>4
<1>7. /\ queue' \in Seq(Net!Request) /\ Len(queue') =< requests'
      /\ requests' \in 0..SessionRequests /\ requests' > requests /\ requested' \in BOOLEAN
      /\ OnWay' = OnWay \cup {r} /\ Pending' = Pending \cup {r} /\ OrderInv'
  BY <1>1, <1>3, <1>4, <1>5, <1>6, SendQueues
<1>8. GapsInv'
  BY <1>1, <1>3, <1>4, <1>5, <1>6, SendTold
<1>9. RoomInv'
  <2>1. SUFFICES ASSUME link = "up", member
                 PROVE  \E q \in OnWay : Told(q) /\ Rank(q) = Rank(r) - 1
    BY <1>1, <1>4, <1>7 DEF RoomInv, SessionInv
  <2>2. PICK p \in OnWay : Told(p)
    BY <1>5, <2>1 DEF SessionInv, RoomInv
  <2>3. \E q \in OnWay : Told(q) /\ Rank(q) = LastRank
    BY <2>1, <2>2 DEF SessionInv, GapsInv, Contiguous
  <2> QED BY <1>2, <1>4, <1>5, <2>3
<1>10. NumbersInv'
  <2>1. \A q \in Pending : Told(q) => q.join \in 1..joins /\ Rank(q) \in Int /\ Rank(q) =< LastRank
    BY SessionTypes DEF SessionInv, NumbersInv
  <2>2. \A q \in Pending' : Told(q) => q.join \in 1..joins' /\ Rank(q) =< LastRank'
    BY <1>1, <1>2, <1>4, <1>5, <1>7, <2>1
  <2> QED BY <1>1, <2>2 DEF SessionInv, NumbersInv
<1>11. PublishedInv'
  <2>1. \A q \in Pending' : q.command = "join" => q.join > publishing
    BY <1>2, <1>4, <1>7, SessionTypes DEF SessionInv, PublishedInv
  <2>2. local_published_ => late
    BY <1>1 DEF SessionInv, PublishedInv, LateNow
  <2> QED BY <1>1, <2>1, <2>2 DEF PublishedInv
<1>12. Net!TypeOK'
  <2>1. joins' \in 0..requests' /\ publishing' \in 0..joins' /\ granted' \in 0..connections'
    BY <1>1, <1>2, <1>7, SessionTypes DEF Net!Send
  <2>2. skipped' \in BOOLEAN /\ button' \in {"idle", "joining", "unpublished", "leaving", "left"}
    BY <1>1
  <2> QED BY <1>1, <1>7, <2>1, <2>2 DEF SessionInv, Net!TypeOK
<1>13. ButtonInv'
  BY <1>1, <1>2 DEF ButtonInv
<1> QED BY <1>7, <1>8, <1>9, <1>10, <1>11, <1>12, <1>13 DEF SessionInv

\* OnBnClickedBtnLeave() sends the leave of the last join.
LEMMA SendLeaveKeeps == SessionInv /\ Net!SendLeave => SessionInv'
<1> SUFFICES ASSUME SessionInv, Net!SendLeave PROVE SessionInv'
  OBVIOUS
<1> DEFINE r == [command |-> "leave", join |-> joins]
<1> USE DialogAssumption
<1>1. /\ button = "leaving" /\ Net!Send("leave", joins) /\ button' = "left"
      /\ UNCHANGED <<inRoom, local_published_, client, joins, publishing, link, connections, wire,
                     answers, member, granted, late, skipped, early>>
  BY DEF Net!SendLeave, Net!netVars, Net!histVars
<1>2. joins \in 0..requests /\ requests \in Nat /\ requests < SessionRequests
  BY <1>1 DEF SessionInv, Net!TypeOK, Net!Send
<1>3. r \in Net!Request
  BY <1>2 DEF Net!Request
<1>4. r.command = "leave" /\ r.join = joins /\ Told(r) /\ Rank(r) = 2 * joins
  BY <1>2 DEF Told, Rank
<1> HIDE DEF r
<1>5. inRoom /\ joins > 0
  BY <1>1 DEF SessionInv, ButtonInv
<1>6. AskedIn /\ ~AskedIn' /\ LastRank = 2 * joins - 1 /\ LastRank' = 2 * joins
  BY <1>1, <1>2, <1>5 DEF AskedIn, LastRank
<1>7. Net!Send(r.command, r.join) /\ Rank(r) = LastRank + 1 /\ LastRank' = LastRank + 1
  BY <1>1, <1>2, <1>4, <1>6
<1>8. /\ queue' \in Seq(Net!Request) /\ Len(queue') =< requests'
      /\ requests' \in 0..SessionRequests /\ requests' > requests /\ requested' \in BOOLEAN
      /\ OnWay' = OnWay \cup {r} /\ Pending' = Pending \cup {r} /\ OrderInv'
  BY <1>1, <1>3, <1>7, SendQueues
<1>9. GapsInv'
  BY <1>1, <1>3, <1>4, <1>7, SendTold
<1>10. RoomInv'
  BY <1>1, <1>4, <1>8 DEF RoomInv, SessionInv
<1>11. NumbersInv'
  <2>1. \A q \in Pending : Told(q) => q.join \in 1..joins /\ Rank(q) \in Int /\ Rank(q) =< LastRank
    BY SessionTypes DEF SessionInv, NumbersInv
  <2>2. \A q \in Pending' : Told(q) => q.join \in 1..joins' /\ Rank(q) =< LastRank'
    BY <1>1, <1>2, <1>4, <1>5, <1>6, <1>8, <2>1
  <2>3. \A q \in OnWay' : q.command = "join" /\ q.join = joins' => granted' = 0
    BY <1>1, <1>4, <1>8 DEF SessionInv, NumbersInv
  <2> QED BY <1>1, <2>2, <2>3 DEF SessionInv, NumbersInv
<1>12. PublishedInv'
  BY <1>1, <1>4, <1>8 DEF SessionInv, PublishedInv, LateNow
<1>13. Net!TypeOK'
  <2>1. joins' \in 0..requests'
    BY <1>1, <1>2, <1>8 DEF Net!Send
  <2> QED BY <1>1, <1>8, <2>1 DEF SessionInv, Net!TypeOK
<1>14. ButtonInv'
  BY <1>1, <1>5 DEF ButtonInv
<1> QED BY <1>8, <1>9, <1>10, <1>11, <1>12, <1>13, <1>14 DEF SessionInv

\* OnBnClickedBtnLeave() starts, with an unpublish if local_published_ is set.
LEMMA LeaveKeeps == SessionInv /\ Net!Leave => SessionInv'
<1> SUFFICES ASSUME SessionInv, Net!Leave PROVE SessionInv'
  OBVIOUS
<1> DEFINE r == [command |-> "unpublish", join |-> joins]
<1> USE DialogAssumption
<1>1. /\ button = "idle" /\ inRoom
      /\ UNCHANGED <<inRoom, local_published_, client, joins, publishing, link, connections, wire,
                     answers, member, granted, late, skipped, early>>
  BY DEF Net!Leave, Net!netVars, Net!histVars
<1>2. joins \in 0..requests /\ requests \in 0..SessionRequests
  BY <1>1 DEF SessionInv, Net!TypeOK
<1>3. CASE local_published_
  <2>1. Net!Send("unpublish", joins) /\ button' = "unpublished"
    BY <1>3 DEF Net!Leave
  <2>2. r \in Net!Request
    BY <1>2 DEF Net!Request
  <2>3. r.command = "unpublish" /\ r.join = joins /\ ~Told(r)
    BY DEF Told
  <2> HIDE DEF r
  <2>4. Net!Send(r.command, r.join)
    BY <2>1, <2>3
  <2>5. AskedIn' = AskedIn
    BY <1>1, <2>1 DEF AskedIn
  <2>6. /\ queue' \in Seq(Net!Request) /\ Len(queue') =< requests'
        /\ requests' \in 0..SessionRequests /\ requests' > requests /\ requested' \in BOOLEAN
        /\ Pending' = Pending \cup {r} /\ OrderInv'
    BY <1>1, <2>2, <2>3, <2>4, SendQueues
  <2>7. GapsInv' /\ RoomInv' /\ NumbersInv'
    BY <1>1, <2>2, <2>3, <2>4, <2>5, SendOther
  <2>8. Net!TypeOK'
    <3>1. joins' \in 0..requests'
      BY <1>1, <1>2, <2>1, <2>6 DEF Net!Send
    <3> QED BY <1>1, <2>1, <2>6, <3>1 DEF SessionInv, Net!TypeOK
  <2>9. ButtonInv'
    BY <1>1, <2>1 DEF SessionInv, ButtonInv
  <2>10. PublishedInv'
    BY <1>1, <2>1, <2>3, <2>6 DEF SessionInv, PublishedInv, LateNow
  <2> QED BY <2>6, <2>7, <2>8, <2>9, <2>10 DEF SessionInv
<1>4. CASE ~local_published_
  <2>1. UNCHANGED <<requests, queue, requested>> /\ button' = "leaving"
    BY <1>4 DEF Net!Leave, Net!sendVars
  <2>2. AskedIn' = AskedIn
    BY <1>1, <2>1 DEF AskedIn
  <2>3. OrderInv' /\ GapsInv' /\ RoomInv' /\ NumbersInv' /\ Pending' = Pending
    BY <1>1, <2>1, <2>2, SameNetwork
  <2>4. Net!TypeOK'
    BY <1>1, <2>1 DEF SessionInv, Net!TypeOK
  <2>5. ButtonInv'
    BY <1>1, <2>1 DEF SessionInv, ButtonInv
  <2>6. PublishedInv'
    BY <1>1, <1>4, <2>3 DEF SessionInv, PublishedInv
  <2> QED BY <2>3, <2>4, <2>5, <2>6 DEF SessionInv
<1> QED BY <1>3, <1>4

\* The signaling thread sends the publish of an armed client.
LEMMA PublishKeeps == SessionInv /\ Net!OnIceCandidate => SessionInv'
<1> SUFFICES ASSUME SessionInv, Net!OnIceCandidate PROVE SessionInv'
  OBVIOUS
<1> DEFINE r == [command |-> "publish", join |-> joins]
<1> USE DialogAssumption
<1>1. /\ Net!Send("publish", joins) /\ client' = "made"
      /\ UNCHANGED <<inRoom, local_published_, button, joins, publishing, link, connections, wire,
                     answers, member, granted, late, skipped, early>>
  BY DEF Net!OnIceCandidate, Net!netVars, Net!histVars
<1>2. joins \in 0..requests /\ requests \in 0..SessionRequests
  BY <1>1 DEF SessionInv, Net!TypeOK
<1>3. r \in Net!Request
  BY <1>2 DEF Net!Request
<1>4. r.command = "publish" /\ r.join = joins /\ ~Told(r)
  BY DEF Told
<1> HIDE DEF r
<1>5. Net!Send(r.command, r.join)
  BY <1>1, <1>4
<1>6. AskedIn' = AskedIn
  BY <1>1 DEF AskedIn
<1>7. /\ queue' \in Seq(Net!Request) /\ Len(queue') =< requests'
      /\ requests' \in 0..SessionRequests /\ requests' > requests /\ requested' \in BOOLEAN
      /\ Pending' = Pending \cup {r} /\ OrderInv'
  BY <1>1, <1>3, <1>4, <1>5, SendQueues
<1>8. GapsInv' /\ RoomInv' /\ NumbersInv'
  BY <1>1, <1>3, <1>4, <1>5, <1>6, SendOther
<1>9. Net!TypeOK'
  <2>1. joins' \in 0..requests'
    BY <1>1, <1>2, <1>7 DEF Net!Send
  <2> QED BY <1>1, <1>7, <2>1 DEF SessionInv, Net!TypeOK
<1>10. ButtonInv'
  BY <1>1 DEF SessionInv, ButtonInv
<1>11. PublishedInv'
  BY <1>1, <1>4, <1>7 DEF SessionInv, PublishedInv, LateNow
<1> QED BY <1>7, <1>8, <1>9, <1>10, <1>11 DEF SessionInv

\* The lws thread takes the first answer: all that is still pending was asked
\* for later.
LEMMA AnswerTaken ==
    ASSUME SessionInv, answers # << >>, answers' = Tail(answers), AskedIn' = AskedIn,
           UNCHANGED <<queue, wire, link, connections, member, granted, joins>>
    PROVE  /\ OrderInv' /\ GapsInv' /\ RoomInv' /\ NumbersInv'
           /\ Pending = Pending' \cup {Head(answers).to}
           /\ \A q \in Pending' : Precedes(Head(answers).to, q)
           /\ answers' \in Seq(Net!Answer) /\ Head(answers) \in Net!Answer
<1> DEFINE r == Head(answers).to
<1>1. /\ answers' \in Seq(Net!Answer) /\ Head(answers) \in Net!Answer
      /\ \A i, j \in 1..Len(answers') : i < j => Precedes(answers'[i].to, answers'[j].to)
      /\ Replied = Replied' \cup {r}
      /\ \A q \in Replied' : Precedes(r, q)
  BY AnswersTail
<1> HIDE DEF r
<1>2. /\ OnWay' = OnWay
      /\ Elements(queue)' = Elements(queue) /\ Elements(wire)' = Elements(wire)
  BY DEF OnWay, Elements
<1>3. Pending = Pending' \cup {r}
  BY <1>1, <1>2 DEF Pending
<1>4. LastRank' = LastRank
  BY DEF LastRank
<1>5. \A q \in OnWay : Precedes(r, q)
  BY <1>1 DEF SessionInv, OrderInv, Before
<1>6. \A q \in Pending' : Precedes(r, q)
  BY <1>1, <1>2, <1>5 DEF Pending
<1>7. OrderInv'
  <2>1. Before(Replied', OnWay) /\ Before(Elements(wire), Elements(queue))
    BY <1>1 DEF SessionInv, OrderInv, Before
  <2>2. Before(Replied, OnWay)' /\ Before(Elements(wire), Elements(queue))'
    BY <1>2, <2>1 DEF Before
  <2>3. Sorted(queue)' /\ Sorted(wire)'
    BY DEF SessionInv, OrderInv, Sorted
  <2> QED BY <1>1, <2>2, <2>3 DEF OrderInv
<1>8. GapsInv'
  BY <1>2, <1>4 DEF SessionInv, GapsInv
<1>9. RoomInv'
  BY <1>2 DEF SessionInv, RoomInv
<1>10. NumbersInv'
  BY <1>2, <1>3, <1>4 DEF SessionInv, NumbersInv
<1> QED BY <1>1, <1>3, <1>6, <1>7, <1>8, <1>9, <1>10 DEF r

\* The answer to a granted join: that join is older than all still pending.
LEMMA OnJoinedKeeps == SessionInv /\ Net!OnJoined => SessionInv'
<1> SUFFICES ASSUME SessionInv, Net!OnJoined PROVE SessionInv'
  OBVIOUS
<1> DEFINE r == Head(answers).to
<1>1. /\ publishing = 0 /\ answers # << >> /\ answers' = Tail(answers)
      /\ r.command = "join"
      /\ UNCHANGED <<inRoom, local_published_, button, joins, requests, queue, requested, link,
                     connections, wire, member, granted, late, early>>
  BY DEF Net!OnJoined, Net!Received, Net!IsGrant, Net!sendVars
<1>2. IF local_published_
        THEN /\ skipped' = (skipped \/ r.join = joins)
             /\ UNCHANGED <<publishing, client>>
        ELSE /\ publishing' = r.join
             /\ client' = IF client = "none" THEN "made" ELSE client
             /\ UNCHANGED skipped
  BY DEF Net!OnJoined
<1>3. AskedIn' = AskedIn /\ LateNow' = LateNow
  BY <1>1 DEF AskedIn, LateNow
<1>4. /\ OrderInv' /\ GapsInv' /\ RoomInv' /\ NumbersInv'
      /\ Pending = Pending' \cup {r}
      /\ \A q \in Pending' : Precedes(r, q)
      /\ answers' \in Seq(Net!Answer)
  BY <1>1, <1>3, AnswerTaken
<1> HIDE DEF r
<1>5. r \in Pending /\ r.join \in 1..joins /\ joins \in Nat /\ Pending \subseteq Net!Request
  BY <1>1, <1>4, SessionTypes DEF SessionInv, NumbersInv, Told
<1>6. \A q \in Pending' : q.command = "join" => q.join > r.join /\ q.join \in 1..joins
  <2>1. SUFFICES ASSUME NEW q \in Pending', q.command = "join"
                 PROVE  q.join > r.join /\ q.join \in 1..joins
    OBVIOUS
  <2>2. q \in Pending /\ q.join \in 1..joins
    BY <1>4, <2>1 DEF SessionInv, NumbersInv, Told
  <2>3. Rank(r) < Rank(q) /\ Rank(r) = 2 * r.join - 1 /\ Rank(q) = 2 * q.join - 1
    BY <1>1, <1>4, <2>1 DEF Precedes, Told, Rank
  <2> QED BY <1>5, <2>2, <2>3
<1>7. link # "down"
  BY <1>1 DEF SessionInv, Net!TypeOK
<1>8. PublishedInv'
  <2>1. CASE local_published_
    <3>1. \A q \in Pending' : q.command = "join" => q.join > publishing'
      BY <1>2, <1>4, <2>1 DEF SessionInv, PublishedInv
    <3>2. r.join = joins => late /\ \A q \in Pending' : q.command # "join"
      BY <1>1, <1>5, <1>6, <2>1 DEF SessionInv, PublishedInv
    <3>3. ~skipped
      BY <1>1, <1>5 DEF SessionInv, PublishedInv
    <3>4. local_published_' /\ ~late' =>
             ~LateNow' /\ \A q \in Pending' : q.command = "join" => q.join # joins'
      BY <1>1, <1>3, <1>4 DEF SessionInv, PublishedInv
    <3>5. skipped' => late' /\ publishing' = 0 /\ \A q \in Pending' : q.command # "join"
      BY <1>1, <1>2, <2>1, <3>2, <3>3
    <3> QED BY <3>1, <3>4, <3>5 DEF PublishedInv
  <2>2. CASE ~local_published_
    <3>1. ~skipped
      BY <1>1, <1>5 DEF SessionInv, PublishedInv
    <3> QED BY <1>1, <1>2, <1>6, <2>2, <3>1 DEF PublishedInv
  <2> QED BY <2>1, <2>2
<1>9. Net!TypeOK'
  <2>1. publishing' \in 0..joins /\ client' \in {"none", "made", "armed"}
    BY <1>1, <1>2, <1>5 DEF SessionInv, Net!TypeOK
  <2>2. skipped' \in BOOLEAN
    BY <1>2 DEF SessionInv, Net!TypeOK
  <2> QED BY <1>1, <1>4, <1>7, <2>1, <2>2 DEF SessionInv, Net!TypeOK
<1>10. ButtonInv'
  BY <1>1 DEF SessionInv, ButtonInv
<1> QED BY <1>4, <1>8, <1>9, <1>10 DEF SessionInv

\* Another answer is taken and changes nothing.
LEMMA OnOtherAnswerKeeps == SessionInv /\ Net!OnOtherAnswer => SessionInv'
<1> SUFFICES ASSUME SessionInv, Net!OnOtherAnswer PROVE SessionInv'
  OBVIOUS
<1>1. /\ publishing = 0 /\ answers # << >> /\ answers' = Tail(answers)
      /\ UNCHANGED <<inRoom, local_published_, button, client, joins, publishing, requests, queue,
                     requested, link, connections, wire, member, granted, late, skipped, early>>
  BY DEF Net!OnOtherAnswer, Net!Received, Net!dialogVars, Net!sendVars, Net!histVars
<1>2. AskedIn' = AskedIn /\ LateNow' = LateNow
  BY <1>1 DEF AskedIn, LateNow
<1>3. /\ OrderInv' /\ GapsInv' /\ RoomInv' /\ NumbersInv' /\ Pending' \subseteq Pending
      /\ answers' \in Seq(Net!Answer)
  BY <1>1, <1>2, AnswerTaken
<1>4. link # "down"
  BY <1>1 DEF SessionInv, Net!TypeOK
<1>5. Net!TypeOK'
  BY <1>1, <1>3, <1>4 DEF SessionInv, Net!TypeOK
<1>6. ButtonInv'
  BY <1>1 DEF SessionInv, ButtonInv
<1>7. PublishedInv'
  BY <1>1, <1>2, <1>3 DEF SessionInv, PublishedInv
<1> QED BY <1>3, <1>5, <1>6, <1>7 DEF SessionInv

\* drainMessageQueue(): the head of the queue goes to the end of the wire, or is
\* lost with the connection.
LEMMA DrainKeeps == SessionInv /\ Net!Drain => SessionInv'
<1> SUFFICES ASSUME SessionInv, Net!Drain PROVE SessionInv'
  OBVIOUS
<1> DEFINE r == Head(queue)
<1> USE DialogAssumption
<1>1. /\ link # "down" /\ queue # << >> /\ requested' = FALSE /\ queue' = Tail(queue)
      /\ \/ link = "up" /\ wire' = Append(wire, r) /\ link' = link
         \/ link' = "broken" /\ wire' = wire
      /\ UNCHANGED <<inRoom, local_published_, button, client, joins, publishing, requests,
                     connections, answers, member, granted, late, skipped, early>>
  BY DEF Net!Drain, Net!dialogVars, Net!histVars
<1>2. queue \in Seq(Net!Request) /\ wire \in Seq(Net!Request) /\ Sorted(queue) /\ Sorted(wire)
  BY DEF SessionInv, Net!TypeOK, OrderInv
<1>3. /\ queue' \in Seq(Net!Request) /\ r \in Net!Request
      /\ Len(queue) \in Nat \ {0} /\ Len(queue') = Len(queue) - 1
      /\ Elements(queue) = Elements(queue') \cup {r}
  BY <1>1, <1>2, TailElements
<1>4. Sorted(queue') /\ \A q \in Elements(queue') : Precedes(r, q)
  BY <1>1, <1>2, SortedTail
<1> HIDE DEF r
<1>5. Elements(queue)' = Elements(queue')
  BY DEF Elements
<1>6. \A q \in Elements(wire) : Precedes(q, r)
  BY <1>3 DEF SessionInv, OrderInv, Before
<1>7. /\ wire' \in Seq(Net!Request) /\ Sorted(wire') /\ Elements(wire') \in {Elements(wire), Elements(wire) \cup {r}}
      /\ link' # "broken" => Elements(wire') = Elements(wire) \cup {r} /\ link = "up" /\ link' = "up"
  <2>1. CASE link = "up" /\ wire' = Append(wire, r) /\ link' = link
    BY <1>2, <1>3, <1>6, <2>1, AppendElements, SortedAppend
  <2>2. CASE link' = "broken" /\ wire' = wire
    BY <1>2, <2>2
  <2> QED BY <1>1, <2>1, <2>2
<1>8. Elements(wire)' = Elements(wire') /\ Replied' = Replied
  BY <1>1 DEF Elements, Replied
<1>9. OnWay' \subseteq OnWay /\ (link' # "broken" => OnWay' = OnWay)
  BY <1>3, <1>5, <1>7, <1>8 DEF OnWay
<1>10. Pending' \subseteq Pending
  BY <1>8, <1>9 DEF Pending
<1>11. LastRank' = LastRank /\ LateNow' = LateNow /\ AskedIn' = AskedIn
  BY <1>1 DEF LastRank, AskedIn, LateNow
<1>12. OrderInv'
  <2>1. Before(Elements(wire'), Elements(queue'))
    BY <1>3, <1>4, <1>7 DEF SessionInv, OrderInv, Before
  <2>2. Before(Replied, OnWay')
    BY <1>9 DEF SessionInv, OrderInv, Before
  <2>3. Before(Elements(wire), Elements(queue))' /\ Before(Replied, OnWay)'
    BY <1>5, <1>8, <2>1, <2>2 DEF Before
  <2>4. Sorted(queue)' /\ Sorted(wire)'
    BY <1>4, <1>7 DEF Sorted
  <2> QED BY <1>1, <2>3, <2>4 DEF SessionInv, OrderInv
<1>13. GapsInv'
  <2>1. \A q \in Elements(queue) : Told(q) => Rank(q) \in Int /\ Rank(q) =< LastRank
    BY SessionTypes DEF Pending, OnWay
  <2>2. Contiguous(Elements(queue'), LastRank)
    BY <1>3, <1>4, <2>1, SessionTypes, ContiguousLoses DEF SessionInv, GapsInv
  <2>3. link' # "broken" => Contiguous(OnWay', LastRank)
    BY <1>7, <1>9 DEF SessionInv, GapsInv
  <2> QED BY <1>5, <1>11, <2>2, <2>3 DEF GapsInv
<1>14. RoomInv'
  BY <1>1, <1>7, <1>9, <1>11 DEF SessionInv, RoomInv
<1>15. NumbersInv'
  BY <1>1, <1>9, <1>10, <1>11 DEF SessionInv, NumbersInv
<1>16. Net!TypeOK'
  <2>1. link' \in {"down", "up", "broken"} /\ link' # "down"
    BY <1>1
  <2>2. requested' \in BOOLEAN
    BY <1>1
  <2>3. Len(queue) =< requests /\ requests \in Nat
    BY DEF SessionInv, Net!TypeOK
  <2>4. Len(queue') =< requests'
    BY <1>1, <1>3, <2>3
  <2> QED BY <1>1, <1>3, <1>7, <2>1, <2>2, <2>4 DEF SessionInv, Net!TypeOK
<1>17. ButtonInv' /\ PublishedInv'
  BY <1>1, <1>10, <1>11 DEF SessionInv, ButtonInv, PublishedInv
<1> QED BY <1>12, <1>13, <1>14, <1>15, <1>16, <1>17 DEF SessionInv

\* The server answers the oldest request on its way: nothing told it since
\* means that it was the last.
LEMMA ServerAnswersKeeps == SessionInv /\ Net!ServerAnswers => SessionInv'
<1> SUFFICES ASSUME SessionInv, Net!ServerAnswers PROVE SessionInv'
  OBVIOUS
<1> DEFINE r == Head(wire)
<1> USE DialogAssumption
<1>1. /\ wire # << >> /\ wire' = Tail(wire)
      /\ UNCHANGED <<inRoom, local_published_, button, client, joins, publishing, requests, queue,
                     requested, link, connections, late, skipped, early>>
  BY DEF Net!ServerAnswers, Net!dialogVars, Net!sendVars, Net!histVars
<1>2. PICK ok \in BOOLEAN :
        /\ answers' = Append(answers, [to |-> r, ok |-> ok])
        /\ member' = CASE r.command = "join" -> ok
                       [] r.command = "leave" -> FALSE
                       [] OTHER -> member
        /\ granted' = IF r.command = "join" /\ r.join = joins /\ ok
                        THEN connections ELSE granted
  BY DEF Net!ServerAnswers
<1>3. wire \in Seq(Net!Request) /\ Sorted(wire) /\ link # "down"
  BY <1>1 DEF SessionInv, Net!TypeOK, OrderInv
<1>4. /\ wire' \in Seq(Net!Request) /\ r \in Net!Request
      /\ Elements(wire) = Elements(wire') \cup {r}
  BY <1>1, <1>3, TailElements
<1>5. Sorted(wire') /\ \A q \in Elements(wire') : Precedes(r, q)
  BY <1>1, <1>3, SortedTail
<1> HIDE DEF r
<1>6. /\ Elements(queue)' = Elements(queue) /\ Elements(wire)' = Elements(wire')
      /\ OnWay = OnWay' \cup {r}
  BY <1>1, <1>4 DEF Elements, OnWay
<1>7. \A q \in OnWay' : Precedes(r, q)
  BY <1>4, <1>5, <1>6 DEF OnWay, SessionInv, OrderInv, Before
<1>8. \A q \in Replied : Precedes(q, r)
  BY <1>6 DEF SessionInv, OrderInv, Before
<1>9. [to |-> r, ok |-> ok] \in Net!Answer /\ [to |-> r, ok |-> ok].to = r
  BY <1>4 DEF Net!Answer
<1>10. /\ answers' \in Seq(Net!Answer) /\ Replied' = Replied \cup {r}
       /\ \A i, j \in 1..Len(answers') : i < j => Precedes(answers'[i].to, answers'[j].to)
  BY <1>2, <1>8, <1>9, AnswersAppend
<1>11. Pending' = Pending
  BY <1>6, <1>10 DEF Pending
<1>12. LastRank' = LastRank /\ LateNow' = LateNow /\ AskedIn' = AskedIn
  BY <1>1 DEF LastRank, AskedIn, LateNow
<1>13. OrderInv'
  <2>1. Before(Elements(wire'), Elements(queue)) /\ Before(Replied', OnWay')
    BY <1>4, <1>6, <1>7, <1>10 DEF SessionInv, OrderInv, Before
  <2>2. Before(Elements(wire), Elements(queue))' /\ Before(Replied, OnWay)'
    BY <1>6, <2>1 DEF Before
  <2>3. Sorted(queue)' /\ Sorted(wire)'
    BY <1>1, <1>5 DEF Sorted, SessionInv, OrderInv
  <2> QED BY <1>10, <2>2, <2>3 DEF OrderInv
<1>14. /\ \A q \in OnWay : Told(q) => Rank(q) \in Int /\ Rank(q) =< LastRank
       /\ LastRank \in Nat /\ joins \in Nat /\ connections \in Nat /\ r.join \in Nat
       /\ OnWay \subseteq Net!Request /\ connections > 0
  BY <1>3, <1>4, SessionTypes DEF Pending, SessionInv, NumbersInv
<1>15. GapsInv'
  <2>1. link # "broken" => Contiguous(OnWay', LastRank)
    BY <1>6, <1>7, <1>14, ContiguousLoses DEF SessionInv, GapsInv
  <2> QED BY <1>1, <1>6, <1>12, <2>1 DEF SessionInv, GapsInv
<1>16. r.command = "join" /\ r.join = joins => granted = 0
  BY <1>6 DEF SessionInv, NumbersInv
<1>17. RoomInv'
  <2> SUFFICES ASSUME link = "up"
               PROVE  /\ (\A q \in OnWay' : ~Told(q)) => (member' <=> AskedIn /\ granted' = connections)
                      /\ \A q \in OnWay' : q.command = "join" /\ member' =>
                            \E p \in OnWay' : Told(p) /\ Rank(p) = Rank(q) - 1
    BY <1>1, <1>12 DEF RoomInv
  <2>1. CASE ~Told(r)
    <3>1. member' = member /\ granted' = granted
      BY <1>2, <2>1 DEF Told
    <3> QED BY <1>6, <2>1, <3>1 DEF SessionInv, RoomInv
  <2>2. (\A q \in OnWay' : ~Told(q)) /\ Told(r) => Rank(r) = LastRank
    BY <1>6 DEF SessionInv, GapsInv, Contiguous
  <2>3. CASE r.command = "leave"
    <3>1. ~member'
      BY <1>2, <2>3
    <3>2. Told(r) /\ Rank(r) = 2 * r.join
      BY <2>3 DEF Told, Rank
    <3>3. Rank(r) = LastRank => ~AskedIn
      BY <1>14, <3>2 DEF LastRank
    <3> QED BY <2>2, <3>1, <3>2, <3>3
  <2>4. CASE r.command = "join"
    <3>1. member' = ok /\ (r.join = joins => granted' = IF ok THEN connections ELSE granted)
      BY <1>2, <2>4
    <3>2. Told(r) /\ Rank(r) = 2 * r.join - 1
      BY <2>4 DEF Told, Rank
    <3>3. Rank(r) = LastRank => AskedIn /\ r.join = joins
      BY <1>14, <3>2 DEF LastRank
    <3>4. Rank(r) = LastRank => (member' <=> AskedIn /\ granted' = connections)
      BY <1>14, <1>16, <2>4, <3>1, <3>3
    <3>5. ASSUME NEW q \in OnWay', q.command = "join"
          PROVE  \E p \in OnWay' : Told(p) /\ Rank(p) = Rank(q) - 1
      <4>1. Told(q) /\ q \in OnWay /\ r \in OnWay /\ Rank(r) < Rank(q) /\ Rank(q) = 2 * q.join - 1
        BY <1>6, <1>7, <3>2, <3>5 DEF Told, Precedes, Rank
      <4>2. PICK p \in OnWay : Told(p) /\ Rank(p) = Rank(q) - 1
        BY <3>2, <4>1 DEF SessionInv, GapsInv, Contiguous
      <4>3. q.join \in Nat
        BY <1>14, <4>1, SessionTypes
      <4>4. p # r
        BY <1>14, <3>2, <4>1, <4>2, <4>3
      <4> QED BY <1>6, <4>2, <4>4
    <3> QED BY <2>2, <3>2, <3>4, <3>5
  <2> QED BY <2>1, <2>3, <2>4 DEF Told
<1>18. NumbersInv'
  <2>1. ASSUME NEW q \in OnWay', q.command = "join", q.join = joins PROVE granted' = 0
    <3>1. granted = 0 /\ q \in OnWay
      BY <1>6, <2>1 DEF SessionInv, NumbersInv
    <3>2. ~(r.command = "join" /\ r.join = joins)
      BY <1>7, <1>14, <2>1 DEF Precedes, Told, Rank
    <3> QED BY <1>2, <3>1, <3>2
  <2> QED BY <1>1, <1>11, <1>12, <2>1 DEF SessionInv, NumbersInv
<1>19. Net!TypeOK'
  <2>1. member' \in BOOLEAN
    BY <1>2 DEF SessionInv, Net!TypeOK
  <2>2. granted' \in 0..connections
    BY <1>2, SessionTypes
  <2> QED BY <1>1, <1>3, <1>4, <1>10, <2>1, <2>2 DEF SessionInv, Net!TypeOK
<1>20. ButtonInv' /\ PublishedInv'
  BY <1>1, <1>11, <1>12 DEF SessionInv, ButtonInv, PublishedInv
<1> QED BY <1>13, <1>15, <1>17, <1>18, <1>19, <1>20 DEF SessionInv

\* Every step of Session keeps SessionInv.
LEMMA SessionNext == SessionInv /\ [Net!Next]_(Net!vars) => SessionInv'
<1> SUFFICES ASSUME SessionInv, [Net!Next]_(Net!vars) PROVE SessionInv'
  OBVIOUS
<1>1. CASE Net!Dialog
  BY <1>1, JoinKeeps, LeaveKeeps, PublishKeeps DEF Net!Dialog
<1>2. CASE Net!UiSteps
  BY <1>2, JoinDoneKeeps, UnpublishedKeeps, SendLeaveKeeps, LeaveDoneKeeps DEF Net!UiSteps
<1>3. CASE Net!LwsSteps
  BY <1>3, OnJoinedKeeps, PublishLocalStreamKeeps, OnOtherAnswerKeeps DEF Net!LwsSteps
<1>4. CASE Net!Connect \/ Net!Disconnect \/ Net!Drain \/ Net!ServerAnswers
  BY <1>4, ConnectKeeps, DisconnectKeeps, DrainKeeps, ServerAnswersKeeps
<1>5. CASE UNCHANGED (Net!vars)
  <2> USE <1>5 DEF Net!vars, Net!dialogVars, Net!sendVars, Net!netVars, Net!histVars
  <2>1. AskedIn' = AskedIn /\ LateNow' = LateNow
    BY DEF AskedIn, LateNow
  <2>2. OrderInv' /\ GapsInv' /\ RoomInv' /\ NumbersInv' /\ Pending' = Pending
    BY <2>1, SameNetwork
  <2>3. Net!TypeOK'
    BY DEF SessionInv, Net!TypeOK
  <2>4. ButtonInv' /\ PublishedInv'
    BY <2>1, <2>2 DEF SessionInv, ButtonInv, PublishedInv
  <2> QED BY <2>2, <2>3, <2>4 DEF SessionInv
<1> QED BY <1>1, <1>2, <1>3, <1>4, <1>5 DEF Net!Next

\* What is said of local_published_ and the local client at every moment.  The
\* client is there without the flag only while PublishLocalStream() makes it,
\* after JoinDone() cleared the flag, or in a leave that will remove it; the
\* flag without the client only after a late PublishLocalStream().
FlagInv ==
    /\ publishing # 0 => ~local_published_
    /\ client # "none" /\ publishing = 0 /\ ~local_published_ =>
          /\ button # "joining" /\ inRoom
          /\ button = "idle" => early
    /\ local_published_ /\ client = "none" => late
    /\ publishing # 0 /\ client = "none" => publishing # joins \/ LateNow

\* Joins are numbered from 1, so an answer to one is about a join.
LEMMA GrantedJoin ==
    ASSUME SessionInv, Net!OnJoined  PROVE Head(answers).to.join > 0
<1>1. answers # << >> /\ Net!IsGrant(Head(answers)) /\ answers \in Seq(Net!Answer)
  BY DEF SessionInv, Net!TypeOK, Net!OnJoined, Net!Received
<1>2. Head(answers) = answers[1] /\ 1 \in 1..Len(answers)
  BY <1>1
<1>3. Head(answers).to \in Pending
  BY <1>2 DEF Pending, Replied
<1>4. Head(answers).to.join \in 1..joins
  BY <1>1, <1>3 DEF SessionInv, NumbersInv, Told, Net!IsGrant
<1> QED BY <1>4, SessionTypes

LEMMA FlagInit == Net!Init => FlagInv
BY DEF Net!Init, FlagInv

\* Every step of Session keeps FlagInv.
LEMMA FlagNext == SessionInv /\ FlagInv /\ [Net!Next]_(Net!vars) => FlagInv'
<1> SUFFICES ASSUME SessionInv, FlagInv, [Net!Next]_(Net!vars) PROVE FlagInv'
  OBVIOUS
<1>1. /\ publishing \in 0..joins /\ joins \in Nat
      /\ client \in {"none", "made", "armed"}
      /\ button \in {"idle", "joining", "unpublished", "leaving", "left"}
  BY SessionTypes DEF SessionInv, Net!TypeOK
<1>2. button \in {"unpublished", "leaving", "left"} => inRoom
  BY DEF SessionInv, ButtonInv
<1>3. LateNow /\ local_published_ => late
  BY DEF SessionInv, PublishedInv
<1> USE DEF FlagInv, LateNow
<1>4. CASE Net!Join
  <2>1. publishing # joins'
    BY <1>1, <1>4 DEF Net!Join
  <2> QED BY <1>4, <2>1 DEF Net!Join
<1>5. CASE Net!JoinDone
  BY <1>5 DEF Net!JoinDone
<1>6. CASE Net!Leave
  BY <1>6 DEF Net!Leave, Net!sendVars, Net!histVars
<1>7. CASE Net!Unpublished
  BY <1>2, <1>7 DEF Net!Unpublished, Net!histVars
<1>8. CASE Net!SendLeave
  BY <1>2, <1>8 DEF Net!SendLeave, Net!histVars
<1>9. CASE Net!LeaveDone
  BY <1>3, <1>9 DEF Net!LeaveDone, Net!histVars
<1>10. CASE Net!OnJoined
  <2>1. CASE local_published_
    <3>1. /\ UNCHANGED <<inRoom, local_published_, button, joins, late, early, publishing, client>>
      BY <1>10, <2>1 DEF Net!OnJoined
    <3> QED BY <3>1
  <2>2. CASE ~local_published_
    <3>1. /\ UNCHANGED <<inRoom, local_published_, button, joins, late, early>>
          /\ publishing' = Head(answers).to.join
          /\ client' = IF client = "none" THEN "made" ELSE client
      BY <1>10, <2>2 DEF Net!OnJoined
    <3>2. Head(answers).to.join > 0
      BY <1>10, GrantedJoin
    <3>3. publishing' # 0
      BY <1>1, <3>1, <3>2
    <3>4. client' # "none"
      BY <3>1
    <3> QED BY <2>2, <3>1, <3>3, <3>4
  <2> QED BY <2>1, <2>2
<1>11. CASE Net!PublishLocalStream
  BY <1>11 DEF Net!PublishLocalStream
<1>12. CASE Net!OnIceCandidate
  BY <1>12 DEF Net!OnIceCandidate, Net!histVars
<1>13. CASE \/ Net!OnOtherAnswer \/ Net!Connect \/ Net!Disconnect \/ Net!Drain
           \/ Net!ServerAnswers \/ UNCHANGED (Net!vars)
  <2>1. UNCHANGED <<inRoom, local_published_, button, publishing, client, joins, late, early>>
    BY <1>13 DEF Net!OnOtherAnswer, Net!Connect, Net!Disconnect, Net!Drain, Net!ServerAnswers,
                 Net!onConnected, Net!onDisconnected, Net!dialogVars, Net!histVars, Net!vars
  <2> QED BY <2>1
<1> QED BY <1>4, <1>5, <1>6, <1>7, <1>8, <1>9, <1>10, <1>11, <1>12, <1>13
        DEF Net!Next, Net!Dialog, Net!UiSteps, Net!LwsSteps

\* With nothing told on its way, RoomInv says what the property says.
LEMMA RoomFromInv == SessionInv /\ FlagInv => RoomAsBelieved
<1> SUFFICES ASSUME SessionInv, FlagInv PROVE RoomAsBelieved
  OBVIOUS
<1>0. Net!FlagOfClient
  BY DEF FlagInv, Net!FlagOfClient
<1>1. Net!PassedOverOnlyIfLate
  BY DEF SessionInv, PublishedInv, Net!PassedOverOnlyIfLate
<1>2. ASSUME button = "idle", link = "up", ~Net!OnItsWay("join"), ~Net!OnItsWay("leave")
      PROVE  member <=> inRoom /\ granted = connections
  <2>1. wire \in Seq(Net!Request) /\ queue \in Seq(Net!Request)
    BY SessionTypes
  <2>2. /\ Len(wire) \in Nat /\ Len(queue) \in Nat /\ Len(Net!Told) = Len(wire) + Len(queue)
        /\ \A i \in 1..Len(wire) : Net!Told[i] = wire[i]
        /\ \A i \in 1..Len(queue) : Net!Told[Len(wire) + i] = queue[i]
    <3>1. Len(wire) \in Nat /\ Len(queue) \in Nat
      BY <2>1, LenProperties
    <3> QED BY <2>1, <3>1, ConcatProperties DEF Net!Told
  <2>3. /\ \A i \in 1..Len(wire) : i \in 1..Len(Net!Told)
        /\ \A i \in 1..Len(queue) : Len(wire) + i \in 1..Len(Net!Told)
    BY <2>2
  <2>4. \A i \in 1..Len(Net!Told) : ~Told(Net!Told[i])
    BY <1>2 DEF Net!OnItsWay, Told
  <2>5. \A r \in OnWay : ~Told(r)
    BY <2>2, <2>3, <2>4 DEF OnWay, Elements
  <2>6. AskedIn <=> inRoom
    BY <1>2 DEF AskedIn
  <2> QED BY <1>2, <2>5, <2>6 DEF SessionInv, RoomInv
<1> QED BY <1>0, <1>1, <1>2 DEF RoomAsBelieved, Net!MemberOfThisConnection

-----------------------------------------------------------------------------
(* The three views together.                                                *)

\* What is inductive about each view, together.
DialogInv == NegotiationInv /\ LocksInv /\ SessionInv /\ FlagInv

\* A step is one of a single view and leaves the other two alone.
THEOREM DialogInvariant == MCSpec => []DialogInv
<1>1. MCInit => DialogInv
  BY NegotiationInit, LocksInit, SessionInit, FlagInit DEF MCInit, DialogInv
<1>2. DialogInv /\ [MCNext /\ UNCHANGED view]_<<view, vars, locksVars, sessionVars>> => DialogInv'
  <2> SUFFICES ASSUME DialogInv, [MCNext /\ UNCHANGED view]_<<view, vars, locksVars, sessionVars>>
               PROVE  DialogInv'
    OBVIOUS
  <2>1. [Next]_vars
    BY DEF MCNext
  <2>2. [Locks!Next]_(Locks!vars)
    BY DEF MCNext, locksVars, Locks!vars, Locks!clientVars, Locks!wsVars
  <2>3. [Net!Next]_(Net!vars)
    BY DEF MCNext, sessionVars, Net!vars, Net!dialogVars, Net!sendVars, Net!netVars, Net!histVars
  <2> QED BY <2>1, <2>2, <2>3, NegotiationNext, LocksNext, SessionNext, FlagNext DEF DialogInv
<1> QED BY <1>1, <1>2, PTL DEF MCSpec

\* Every variable of the three views has its type, and an open connection has
\* an owner: for every set of users and any number of requests and connections.
THEOREM DialogTypes == MCSpec => []ViewsTypeOK
<1>1. DialogInv => ViewsTypeOK
  BY DEF DialogInv, NegotiationInv, LocksInv, SessionInv, ViewsTypeOK
<1> QED BY <1>1, DialogInvariant, PTL

\* OnMessage() never gives an answer to another user's connection; an answer to
\* another offer than the local description is one that a later offer of this
\* user overtook; a first negotiation settles on the answer to its own offer.
THEOREM AnswersMeetTheirOffers == MCSpec => []AnswersMeetOffers
<1>1. DialogInv => AnswersMeetOffers
  BY DEF DialogInv, NegotiationInv, AnswersMeetOffers
<1> QED BY <1>1, DialogInvariant, PTL

\* send_offer_ of a client with a local description stays set until OnIceCandidate()
\* has sent an offer for it.
THEOREM OfferStaysArmed == MCSpec => []ArmedUntilSent
<1>1. DialogInv => ArmedUntilSent
  BY DEF DialogInv, NegotiationInv
<1> QED BY <1>1, DialogInvariant, PTL

\* Threads of the dialog wait for each other only in the three known ways.
THEOREM CirclesAreKnown == MCSpec => []OnlyKnownCircles
<1>1. DialogInv => OnlyKnownCircles
  BY CirclesFromInv DEF DialogInv
<1> QED BY <1>1, DialogInvariant, PTL

\* Whatever the network loses, the server counts the user in exactly if the dialog
\* asked for it and the join was granted in this connection, once nothing is on
\* its way; a grant is passed over only after a late PublishLocalStream(); and
\* local_published_ goes with the local client but for a join answered before its
\* flags are set, and for such a late PublishLocalStream().
THEOREM RoomIsAsBelieved == MCSpec => []RoomAsBelieved
<1>1. DialogInv => RoomAsBelieved
  BY RoomFromInv DEF DialogInv
<1> QED BY <1>1, DialogInvariant, PTL
=============================================================================
