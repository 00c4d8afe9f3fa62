----------------------------- MODULE RoomProofs -----------------------------
(***************************************************************************)
(* Proofs about the room signalling of module Room.                         *)
(***************************************************************************)
EXTENDS Room, SequenceTheorems, TLAPS

\* The last join or leave the dialog sent was a join.
AskedIn == ui = "joining" \/ (joined_room_ /\ ui # "left")

ButtonInv ==
    /\ ui = "joining" => ~joined_room_
    /\ ui \in {"unpublished", "leaving", "left"} => joined_room_

\* MembershipAgrees, inside the button handlers as well.
InTurn ==
    \A i, j \in 0..Len(out) :
        i < j /\ Told(i) /\ Told(j) /\ NothingTold(i + 1..j - 1) => AsksIn(i) # AsksIn(j)
LastAgrees ==
    \A i \in 0..Len(out) :
        Told(i) /\ NothingTold(i + 1..Len(out)) => AsksIn(i) = AskedIn

\* A client in the map has the uid it is found by.
UsersInv ==
    \A u \in Uids : users[u] # None => users[u] \in 1..Len(objs) /\ objs[users[u]].uid = u

\* A thread in a handler refers to a client.  The lws thread's is the one its
\* uid has in the map, or there is none; PublishLocalStream()'s is the local
\* user's.
ThreadsInv ==
    /\ lws.at # "idle" =>
          /\ lws.client \in 1..Len(objs)
          /\ users[objs[lws.client].uid] \in {None, lws.client}
    /\ lws.at = "publish" => objs[lws.client].uid = Me
    /\ sig.at # "idle" => sig.client \in 1..Len(objs)

\* An armed client has an offer to send, unless it was sent just now.
ArmedInv ==
    \A c \in 1..Len(objs) :
        objs[c].send_offer_ /\ ~(sig.at = "clear" /\ sig.client = c) =>
            objs[c].offers < objs[c].armed

\* A remote client has its mid before it gathers candidates, and so before the
\* signaling thread handles one.
MidInv ==
    /\ \A c \in 1..Len(objs) : objs[c].described /\ objs[c].uid # Me => objs[c].mid
    /\ sig.at # "idle" /\ objs[sig.client].uid # Me => objs[sig.client].mid

\* The joins asked for after one on its way to the server are behind it.
JoinsInOrder ==
    \A i \in 1..Len(out), k \in 1..Len(sessions) :
        out[i].command = "join" /\ sessions[k].command = "join" /\ k > out[i].id =>
            \E j \in 1..Len(out) : j > i /\ out[j].id = k

\* A join that was refused is known to be, and only joins on their way to the
\* server were asked for after it.
LastRefused(id) ==
    /\ sessions[id].command = "join"
    /\ \A k \in id + 1..Len(sessions) :
          sessions[k].command = "join" => \E j \in 1..Len(out) : out[j].id = k
    /\ RefusalKnown(id)
RefusalInv == member = "refused" => \E id \in 1..Len(sessions) : LastRefused(id)

MessagesInv ==
    InTurn /\ LastAgrees /\ ResponseHasSession /\ RemoteHasMid /\ JoinsInOrder /\ RefusalInv
ClientsInv == UsersInv /\ ThreadsInv /\ ArmedInv /\ OfferOncePerArm /\ MidInv

RoomInv == TypeOK /\ ButtonInv /\ MessagesInv /\ ClientsInv

-----------------------------------------------------------------------------
(* Messages.                                                                *)

\* Appending to a sequence and taking its head, by position.
LEMMA AppendAt ==
    ASSUME NEW R, NEW s \in Seq(R), NEW r \in R
    PROVE  /\ Append(s, r) \in Seq(R)
           /\ Len(s) \in Nat /\ Len(Append(s, r)) = Len(s) + 1
           /\ \A i \in 1..Len(s) : Append(s, r)[i] = s[i]
           /\ Append(s, r)[Len(s) + 1] = r
  BY AppendProperties, LenProperties

\* Dropping the head shifts the remaining positions by one.
LEMMA TailAt ==
    ASSUME NEW R, NEW s \in Seq(R), s # << >>
    PROVE  /\ Tail(s) \in Seq(R) /\ Head(s) \in R /\ Head(s) = s[1]
           /\ Len(s) \in Nat \ {0} /\ Len(Tail(s)) = Len(s) - 1
           /\ \A i \in 1..Len(Tail(s)) : Tail(s)[i] = s[i + 1]
  BY HeadTailProperties, EmptySeq

\* Nothing is received, or the next message; the box of a refused join is shown.
Taken ==
    /\ failed \subseteq failed'
    /\ \/ in' = in
       \/ in # << >> /\ in' = Tail(in) /\ (Refusal(Head(in)) => Head(in).to.id \in failed')

\* What is taken from the messages is the only difference, and a refused join
\* is still known to be.
LEMMA TakenIn ==
    ASSUME in \in Seq(Message), Taken
    PROVE  /\ in' \in Seq(Message) /\ Len(in) \in Nat /\ Len(in') \in Nat
           /\ \A i \in 1..Len(in') : \E j \in 1..Len(in) : in'[i] = in[j]
           /\ \A id : RefusalKnown(id) => RefusalKnown(id)'
<1>1. CASE in' = in
  BY <1>1, LenProperties DEF Taken, RefusalKnown, Refusal
<1>2. CASE in # << >> /\ in' = Tail(in) /\ (Refusal(Head(in)) => Head(in).to.id \in failed')
  <2>1. /\ Len(in) \in Nat \ {0} /\ Len(in') = Len(in) - 1 /\ in' \in Seq(Message)
        /\ Head(in) = in[1] /\ \A i \in 1..Len(in') : in'[i] = in[i + 1]
    BY <1>2, TailAt
  <2>2. \A i \in 1..Len(in') : i + 1 \in 1..Len(in)
    BY <2>1
  <2>3. ASSUME NEW id, RefusalKnown(id) PROVE RefusalKnown(id)'
    <3>1. CASE id \in failed
      BY <3>1 DEF Taken, RefusalKnown
    <3>2. ASSUME NEW i \in 1..Len(in), Refusal(in[i]), in[i].to.id = id PROVE RefusalKnown(id)'
      <4>1. CASE i = 1
        BY <1>2, <2>1, <3>2, <4>1 DEF RefusalKnown
      <4>2. CASE i # 1
        <5>1. i - 1 \in 1..Len(in') /\ (i - 1) + 1 = i
          BY <2>1, <4>2
        <5>2. in'[i - 1] = in[i]
          BY <2>1, <5>1
        <5> QED BY <3>2, <5>1, <5>2 DEF RefusalKnown, Refusal
      <4> QED BY <4>1, <4>2
    <3> QED BY <2>3, <3>1, <3>2 DEF RefusalKnown
  <2> QED BY <2>1, <2>2, <2>3
<1> QED BY <1>1, <1>2 DEF Taken

\* What is received or sent from here on is the only difference in the
\* messages on their way to the client.
LEMMA Unsent ==
    ASSUME RoomInv, AskedIn' = AskedIn, UNCHANGED <<sessions, out, member>>, Taken
    PROVE  MessagesInv' /\ in' \in Seq(Message)
<1> USE DEF RoomInv, MessagesInv
<1>1. in \in Seq(Message)
  BY DEF TypeOK
<1>2. /\ in' \in Seq(Message) /\ \A i \in 1..Len(in') : \E j \in 1..Len(in) : in'[i] = in[j]
      /\ \A id : RefusalKnown(id) => RefusalKnown(id)'
  BY <1>1, TakenIn
<1>3. JoinsInOrder' /\ RefusalInv'
  BY <1>2 DEF JoinsInOrder, RefusalInv, LastRefused
<1>4. InTurn' /\ LastAgrees'
  BY DEF InTurn, LastAgrees, Told, AsksIn, NothingTold
<1>5. ResponseHasSession'
  BY <1>2 DEF ResponseHasSession, Answers
<1>6. RemoteHasMid'
  BY DEF RemoteHasMid
<1> QED BY <1>2, <1>3, <1>4, <1>5, <1>6

\* A request is sent: a join or a leave in turn, a subscribe and a trickle with
\* the mid.
LEMMA SendKeeps ==
    ASSUME RoomInv, NEW command \in Commands, NEW uid \in Uids, NEW mid \in BOOLEAN,
           Send(command, uid, mid), UNCHANGED member, Taken,
           command \in {"join", "leave"} =>
              AskedIn = (command # "join") /\ AskedIn' = (command = "join"),
           command \notin {"join", "leave"} => AskedIn' = AskedIn,
           command = "subscribe" => mid,
           command = "trickle" /\ uid # Me => mid
    PROVE  /\ MessagesInv' /\ in' \in Seq(Message) /\ out' \in Seq(Request)
           /\ sessions' \in Seq([command : Commands, uid : Uids]) /\ Len(sessions') =< MaxRequests
<1> USE RoomAssumption DEF RoomInv, MessagesInv
<1> DEFINE r == [id |-> NewId, command |-> command, uid |-> uid, mid |-> mid]
<1>0. PICK n \in Nat : n = Len(out)
  BY LenProperties DEF TypeOK
<1>1. /\ in \in Seq(Message) /\ out \in Seq(Request)
      /\ sessions \in Seq([command : Commands, uid : Uids])
      /\ Len(sessions) < MaxRequests
      /\ sessions' = Append(sessions, [command |-> command, uid |-> uid])
      /\ out' = Append(out, r)
  BY DEF TypeOK, Send
<1>2. /\ sessions' \in Seq([command : Commands, uid : Uids])
      /\ Len(sessions) \in Nat /\ Len(sessions') = Len(sessions) + 1
      /\ \A i \in 1..Len(sessions) : sessions'[i] = sessions[i]
      /\ sessions'[Len(sessions) + 1] = [command |-> command, uid |-> uid]
  <2>1. [command |-> command, uid |-> uid] \in [command : Commands, uid : Uids]
    OBVIOUS
  <2> QED BY <1>1, <2>1, AppendAt
<1>3. r \in Request
  BY <1>1, <1>2 DEF Request, NewId
<1>4. /\ out' \in Seq(Request) /\ n \in Nat /\ Len(out') = n + 1
      /\ \A i \in 1..n : out'[i] = out[i]
      /\ out'[n + 1] = r
  BY <1>0, <1>1, <1>3, AppendAt
<1>5. r.id = Len(sessions) + 1 /\ r.command = command /\ r.uid = uid /\ r.mid = mid
  BY DEF NewId
<1> HIDE DEF r
<1>6. /\ \A i \in 0..n : i = 0 \/ i \in 1..n
      /\ \A i \in 0..Len(out') : i \in 0..n \/ i = n + 1
      /\ \A i \in 1..Len(out') : i \in 1..n \/ i = n + 1
      /\ n + 1 # 0
  BY <1>4
<1>7. /\ \A i \in 0..n : Told(i)' = Told(i) /\ AsksIn(i)' = AsksIn(i)
      /\ Told(n + 1)' = (command \in {"join", "leave"}) /\ AsksIn(n + 1)' = (command = "join")
  BY <1>4, <1>5, <1>6 DEF Told, AsksIn
<1>8. InTurn' /\ LastAgrees'
  <2>1. CASE command \in {"join", "leave"}
    <3>1. ASSUME NEW i \in 0..Len(out'), NEW j \in 0..Len(out'),
                 i < j, Told(i)', Told(j)', NothingTold(i + 1..j - 1)'
          PROVE  AsksIn(i)' # AsksIn(j)'
      <4>1. i \in 0..n
        BY <1>4, <1>6, <3>1
      <4>2. \A k \in i + 1..j - 1 : k \in 0..n
        BY <1>4, <3>1, <4>1
      <4>3. NothingTold(i + 1..j - 1)
        BY <1>7, <3>1, <4>2 DEF NothingTold
      <4>4. CASE j \in 0..n
        BY <1>0, <1>7, <3>1, <4>1, <4>3, <4>4 DEF InTurn
      <4>5. CASE j = n + 1
        <5>1. NothingTold(i + 1..n)
          BY <1>4, <4>3, <4>5
        <5>2. AsksIn(i) = AskedIn
          BY <1>0, <1>7, <3>1, <4>1, <5>1 DEF LastAgrees
        <5> QED BY <1>7, <2>1, <4>1, <4>5, <5>2
      <4> QED BY <1>6, <4>4, <4>5
    <3>2. ASSUME NEW i \in 0..Len(out'), Told(i)', NothingTold(i + 1..Len(out))'
          PROVE  AsksIn(i)' = AskedIn'
      <4>1. i = n + 1
        <5> SUFFICES ASSUME i \in 0..n PROVE FALSE
          BY <1>6
        <5>1. n + 1 \in i + 1..Len(out')
          BY <1>4
        <5> QED BY <1>7, <2>1, <3>2, <5>1 DEF NothingTold
      <4> QED BY <1>7, <2>1, <4>1
    <3> QED BY <3>1, <3>2 DEF InTurn, LastAgrees
  <2>2. CASE command \notin {"join", "leave"}
    <3>1. ASSUME NEW i \in 0..Len(out'), NEW j \in 0..Len(out'),
                 i < j, Told(i)', Told(j)', NothingTold(i + 1..j - 1)'
          PROVE  AsksIn(i)' # AsksIn(j)'
      <4>1. i \in 0..n /\ j \in 0..n
        BY <1>6, <1>7, <2>2, <3>1
      <4>2. \A k \in i + 1..j - 1 : k \in 0..n
        BY <1>4, <3>1, <4>1
      <4>3. NothingTold(i + 1..j - 1)
        BY <1>7, <3>1, <4>2 DEF NothingTold
      <4> QED BY <1>0, <1>7, <3>1, <4>1, <4>3 DEF InTurn
    <3>2. ASSUME NEW i \in 0..Len(out'), Told(i)', NothingTold(i + 1..Len(out))'
          PROVE  AsksIn(i)' = AskedIn'
      <4>1. i \in 0..n
        BY <1>6, <1>7, <2>2, <3>2
      <4>2. \A k \in i + 1..n : k \in 0..n /\ k \in i + 1..Len(out')
        BY <1>4, <4>1
      <4>3. NothingTold(i + 1..n)
        BY <1>7, <3>2, <4>2 DEF NothingTold
      <4> QED BY <1>0, <1>7, <2>2, <3>2, <4>1, <4>3 DEF LastAgrees
    <3> QED BY <3>1, <3>2 DEF InTurn, LastAgrees
  <2> QED BY <2>1, <2>2
<1>9. /\ \A i \in 1..Len(sessions) : i \in 1..Len(sessions')
      /\ Len(sessions) + 1 \in 1..Len(sessions') /\ Len(sessions') =< MaxRequests
  BY <1>1, <1>2
<1>10. /\ in' \in Seq(Message) /\ \A i \in 1..Len(in') : \E j \in 1..Len(in) : in'[i] = in[j]
       /\ \A id : RefusalKnown(id) => RefusalKnown(id)'
  BY <1>1, TakenIn
<1>11. ResponseHasSession'
  <2>1. \A i \in 1..Len(out') : /\ out'[i].id \in 1..Len(sessions')
                                /\ sessions'[out'[i].id] = [command |-> out'[i].command, uid |-> out'[i].uid]
    BY <1>0, <1>2, <1>4, <1>5, <1>6, <1>9 DEF ResponseHasSession
  <2>2. ASSUME NEW i \in 1..Len(in'), Answers(in'[i])
        PROVE  /\ in'[i].to.id \in 1..Len(sessions')
               /\ sessions'[in'[i].to.id] = [command |-> in'[i].to.command, uid |-> in'[i].to.uid]
    <3>1. PICK j \in 1..Len(in) : in'[i] = in[j]
      BY <1>10
    <3>2. /\ in'[i].to.id \in 1..Len(sessions)
          /\ sessions[in'[i].to.id] = [command |-> in'[i].to.command, uid |-> in'[i].to.uid]
      BY <2>2, <3>1 DEF ResponseHasSession
    <3> QED BY <1>2, <1>9, <3>2
  <2> QED BY <2>1, <2>2 DEF ResponseHasSession, Answers
<1>12. RemoteHasMid'
  BY <1>0, <1>4, <1>5, <1>6 DEF RemoteHasMid
<1>13. \A k \in 1..Len(sessions') : k \in 1..Len(sessions) \/ k = Len(sessions) + 1
  BY <1>2
<1>14. Len(sessions) + 1 \in 1..Len(sessions') /\ n + 1 \in 1..Len(out')
       /\ \A i \in 1..n : i \in 1..Len(out') /\ n + 1 > i
  BY <1>2, <1>4
<1>15. JoinsInOrder'
  <2> SUFFICES ASSUME NEW i \in 1..Len(out'), NEW k \in 1..Len(sessions'),
                      out'[i].command = "join", sessions'[k].command = "join", k > out'[i].id
               PROVE  \E j \in 1..Len(out') : j > i /\ out'[j].id = k
    BY DEF JoinsInOrder
  <2>1. i \in 1..n
    <3> SUFFICES ASSUME i = n + 1 PROVE FALSE
      BY <1>6
    <3>1. k > Len(sessions) + 1
      BY <1>4, <1>5
    <3> QED BY <1>2, <3>1
  <2>2. CASE k = Len(sessions) + 1
    BY <1>4, <1>5, <1>14, <2>1, <2>2
  <2>3. CASE k \in 1..Len(sessions)
    <3>1. out[i].command = "join" /\ sessions[k].command = "join" /\ k > out[i].id
      BY <1>2, <1>4, <2>1, <2>3
    <3>2. PICK j \in 1..n : j > i /\ out[j].id = k
      BY <1>0, <2>1, <2>3, <3>1 DEF JoinsInOrder
    <3> QED BY <1>4, <1>14, <3>2
  <2> QED BY <1>13, <2>2, <2>3
<1>16. RefusalInv'
  <2> SUFFICES ASSUME member = "refused" PROVE RefusalInv'
    BY DEF RefusalInv
  <2>1. PICK id \in 1..Len(sessions) : LastRefused(id)
    BY DEF RefusalInv
  <2>2. sessions'[id].command = "join" /\ id \in 1..Len(sessions') /\ RefusalKnown(id)'
    BY <1>2, <1>9, <1>10, <2>1 DEF LastRefused
  <2>3. ASSUME NEW k \in id + 1..Len(sessions'), sessions'[k].command = "join"
        PROVE  \E j \in 1..Len(out') : out'[j].id = k
    <3>1. k \in 1..Len(sessions')
      BY <1>2
    <3>2. CASE k = Len(sessions) + 1
      BY <1>4, <1>5, <1>14, <3>2
    <3>3. CASE k \in 1..Len(sessions)
      <4>1. k \in id + 1..Len(sessions) /\ sessions[k].command = "join"
        BY <1>2, <2>3, <3>3
      <4>2. PICK j \in 1..n : out[j].id = k
        BY <1>0, <2>1, <4>1 DEF LastRefused
      <4> QED BY <1>4, <1>14, <4>2
    <3> QED BY <1>13, <3>1, <3>2, <3>3
  <2>4. LastRefused(id)'
    BY <2>2, <2>3 DEF LastRefused
  <2> QED BY <2>2, <2>4 DEF RefusalInv
<1> QED BY <1>2, <1>4, <1>8, <1>9, <1>10, <1>11, <1>12, <1>15, <1>16

\* The server takes the first request: what it told is now what the server was
\* told before all the rest.
LEMMA AnswerKeeps ==
    ASSUME RoomInv, ServerAnswers
    PROVE  MessagesInv' /\ in' \in Seq(Message) /\ out' \in Seq(Request)
           /\ member' \in {"out", "refused", "in"}
<1> USE DEF RoomInv, MessagesInv
<1> DEFINE r == Head(out)
<1>1. /\ in \in Seq(Message) /\ out \in Seq(Request) /\ member \in {"out", "refused", "in"}
      /\ out # << >> /\ out' = Tail(out)
      /\ UNCHANGED <<uiVars, sessions, failed>>
  BY DEF TypeOK, ServerAnswers
<1>2. PICK ok \in BOOLEAN :
        /\ in' = Append(in, [kind |-> "response", to |-> r, ok |-> ok])
        /\ member' = CASE r.command = "join" -> (IF ok THEN "in" ELSE "refused")
                       [] r.command = "leave" -> "out"
                       [] OTHER -> member
  BY DEF ServerAnswers
<1> DEFINE m == [kind |-> "response", to |-> r, ok |-> ok]
<1>3. /\ out' \in Seq(Request) /\ r \in Request /\ r = out[1]
      /\ Len(out) \in Nat \ {0} /\ Len(out') = Len(out) - 1
      /\ \A i \in 1..Len(out') : out'[i] = out[i + 1]
  BY <1>1, TailAt
<1>4. m \in Message /\ m.to = r
  BY <1>3 DEF Message
<1>5. /\ in' \in Seq(Message) /\ Len(in) \in Nat /\ Len(in') = Len(in) + 1
      /\ \A i \in 1..Len(in) : in'[i] = in[i]
      /\ in'[Len(in) + 1] = m
  BY <1>1, <1>2, <1>4, AppendAt
<1> HIDE DEF m, r
<1>6. /\ 1 \in 1..Len(out)
      /\ \A i \in 1..Len(out') : i + 1 \in 1..Len(out)
      /\ \A i \in 1..Len(in') : i \in 1..Len(in) \/ i = Len(in) + 1
  BY <1>3, <1>5
<1>7. ResponseHasSession'
  <2>1. \A i \in 1..Len(out') : /\ out'[i].id \in 1..Len(sessions)
                                /\ sessions[out'[i].id] = [command |-> out'[i].command, uid |-> out'[i].uid]
    <3> SUFFICES ASSUME NEW i \in 1..Len(out')
                 PROVE  /\ out'[i].id \in 1..Len(sessions)
                        /\ sessions[out'[i].id] = [command |-> out'[i].command, uid |-> out'[i].uid]
      OBVIOUS
    <3>1. out'[i] = out[i + 1] /\ i + 1 \in 1..Len(out)
      BY <1>3, <1>6
    <3> QED BY <3>1 DEF ResponseHasSession
  <2>2. r.id \in 1..Len(sessions) /\ sessions[r.id] = [command |-> r.command, uid |-> r.uid]
    BY <1>3, <1>6 DEF ResponseHasSession
  <2>3. \A i \in 1..Len(in') : Answers(in'[i]) =>
           /\ in'[i].to.id \in 1..Len(sessions)
           /\ sessions[in'[i].to.id] = [command |-> in'[i].to.command, uid |-> in'[i].to.uid]
    BY <1>4, <1>5, <1>6, <2>2 DEF ResponseHasSession
  <2> QED BY <1>1, <2>1, <2>3 DEF ResponseHasSession, Answers
<1>8. RemoteHasMid'
  BY <1>3, <1>6 DEF RemoteHasMid
<1>9. AskedIn' = AskedIn
  BY <1>1 DEF uiVars, AskedIn
<1> DEFINE f == [i \in 0..Len(out') |-> IF i = 0 /\ ~Told(1) THEN 0 ELSE i + 1]
<1>10. \A i \in 0..Len(out') :
          /\ f[i] \in 0..Len(out)
          /\ Told(f[i]) /\ Told(i)' => AsksIn(i)' = AsksIn(f[i])
          /\ Told(f[i]) = Told(i)'
  <2> TAKE i \in 0..Len(out')
  <2>1. CASE i = 0 /\ ~Told(1)
    <3>1. member' = member
      BY <1>2, <1>3, <2>1 DEF Told
    <3> QED BY <1>3, <2>1, <3>1 DEF Told, AsksIn
  <2>2. CASE i = 0 /\ Told(1)
    <3>1. r.command \in {"join", "leave"}
      BY <1>3, <2>2 DEF Told
    <3>2. (member' # "out") = (r.command = "join")
      BY <1>2, <3>1
    <3> QED BY <1>3, <2>2, <3>2 DEF Told, AsksIn
  <2>3. CASE i # 0
    <3>1. i \in 1..Len(out') /\ f[i] = i + 1 /\ i + 1 # 0
      BY <1>3, <2>3
    <3>2. out'[i] = out[i + 1] /\ i + 1 \in 0..Len(out)
      BY <1>3, <3>1
    <3> QED BY <2>3, <3>1, <3>2 DEF Told, AsksIn
  <2> QED BY <2>1, <2>2, <2>3
<1>11. ASSUME NEW i \in 0..Len(out'), NEW j \in 1..Len(out), NothingTold(i + 1..j - 1)'
       PROVE  NothingTold(f[i] + 1..j)
  <2>1. ASSUME NEW k \in f[i] + 1..j PROVE ~Told(k)
    <3>1. CASE k = 1
      BY <1>3, <2>1, <3>1
    <3>2. CASE k # 1
      <4>1. k - 1 \in i + 1..j - 1 /\ k - 1 # 0 /\ k - 1 \in Int /\ k # 0
        BY <1>3, <2>1, <3>2
      <4>2. ~Told(k - 1)'
        BY <1>11, <4>1 DEF NothingTold
      <4>3. k - 1 \in 1..Len(out') => out'[k - 1] = out[k]
        BY <1>3, <4>1
      <4>4. k - 1 \in 1..Len(out')
        BY <1>3, <4>1, <2>1
      <4> QED BY <4>1, <4>2, <4>3, <4>4 DEF Told
    <3> QED BY <3>1, <3>2
  <2> QED BY <2>1 DEF NothingTold
<1>12. InTurn'
  <2> SUFFICES ASSUME NEW i \in 0..Len(out'), NEW j \in 0..Len(out'), i < j,
                      Told(i)', Told(j)', NothingTold(i + 1..j - 1)'
               PROVE  AsksIn(i)' # AsksIn(j)'
    BY DEF InTurn
  <2>1. j \in 1..Len(out) /\ f[j] = j + 1 /\ f[i] < f[j] /\ f[j] - 1 = j
    BY <1>3
  <2>2. NothingTold(f[i] + 1..f[j] - 1)
    BY <1>11, <2>1
  <2> HIDE DEF f
  <2> QED BY <1>10, <2>1, <2>2 DEF InTurn
<1>13. LastAgrees'
  <2> SUFFICES ASSUME NEW i \in 0..Len(out'), Told(i)', NothingTold(i + 1..Len(out))'
               PROVE  AsksIn(i)' = AskedIn'
    BY DEF LastAgrees
  <2>1. Len(out) \in 1..Len(out) /\ Len(out') = Len(out) - 1
    BY <1>3
  <2>2. NothingTold(f[i] + 1..Len(out))
    BY <1>11, <2>1
  <2> HIDE DEF f
  <2> QED BY <1>9, <1>10, <2>2 DEF LastAgrees
<1>14. member' \in {"out", "refused", "in"}
  BY <1>1, <1>2
<1>15. \A id : RefusalKnown(id) => RefusalKnown(id)'
  <2>1. \A i \in 1..Len(in) : i \in 1..Len(in')
    BY <1>5
  <2> QED BY <1>1, <1>5, <2>1 DEF RefusalKnown, Refusal
<1>16. ASSUME NEW i \in 1..Len(out), i # 1
       PROVE  i - 1 \in 1..Len(out') /\ out'[i - 1] = out[i]
  <2>1. i - 1 \in 1..Len(out') /\ (i - 1) + 1 = i
    BY <1>3, <1>16
  <2> QED BY <1>3, <2>1
<1>17. JoinsInOrder'
  <2> SUFFICES ASSUME NEW i \in 1..Len(out'), NEW k \in 1..Len(sessions),
                      out'[i].command = "join", sessions[k].command = "join", k > out'[i].id
               PROVE  \E j \in 1..Len(out') : j > i /\ out'[j].id = k
    BY <1>1 DEF JoinsInOrder
  <2>1. i + 1 \in 1..Len(out) /\ out[i + 1] = out'[i]
    BY <1>3, <1>6
  <2>2. PICK j \in 1..Len(out) : j > i + 1 /\ out[j].id = k
    BY <2>1 DEF JoinsInOrder
  <2>3. j # 1 /\ j - 1 > i
    BY <2>2
  <2> QED BY <1>16, <2>2, <2>3
<1>18. RefusalInv'
  <2> SUFFICES ASSUME member' = "refused" PROVE RefusalInv'
    BY DEF RefusalInv
  <2>0. PICK x \in 1..Len(sessions) : x = r.id /\ sessions[x].command = r.command
    <3>1. r.id \in 1..Len(sessions) /\ sessions[r.id] = [command |-> r.command, uid |-> r.uid]
      BY <1>3, <1>6 DEF ResponseHasSession
    <3> QED BY <3>1
  <2>1. CASE r.command = "join"
    <3>1. ~ok
      BY <1>2, <2>1
    <3>2. RefusalKnown(x)'
      <4>1. Refusal(m) /\ m.to.id = x
        BY <1>4, <2>0, <2>1, <3>1 DEF Refusal, m
      <4>2. Len(in) + 1 \in 1..Len(in')
        BY <1>5
      <4>3. Refusal(in'[Len(in) + 1]) /\ in'[Len(in) + 1].to.id = x
        BY <1>5, <4>1
      <4> QED BY <4>2, <4>3 DEF RefusalKnown, Refusal
    <3>3. ASSUME NEW k \in x + 1..Len(sessions), sessions[k].command = "join"
          PROVE  \E j \in 1..Len(out') : out'[j].id = k
      <4>1. k \in 1..Len(sessions) /\ k > r.id
        BY <2>0
      <4>2. PICK j \in 1..Len(out) : j > 1 /\ out[j].id = k
        BY <1>3, <1>6, <2>1, <3>3, <4>1 DEF JoinsInOrder
      <4>3. j # 1
        BY <4>2
      <4> QED BY <1>16, <4>2, <4>3
    <3>4. LastRefused(x)'
      BY <1>1, <2>0, <2>1, <3>2, <3>3 DEF LastRefused
    <3> QED BY <1>1, <2>0, <3>4 DEF RefusalInv
  <2>2. CASE r.command # "join"
    <3>1. member = "refused"
      BY <1>2, <2>2
    <3>2. PICK id \in 1..Len(sessions) : LastRefused(id)
      BY <3>1 DEF RefusalInv
    <3>3. ASSUME NEW k \in id + 1..Len(sessions), sessions[k].command = "join"
          PROVE  \E j \in 1..Len(out') : out'[j].id = k
      <4>1. PICK j \in 1..Len(out) : out[j].id = k
        BY <3>2, <3>3 DEF LastRefused
      <4>2. j # 1
        BY <1>3, <2>0, <2>2, <3>3, <4>1
      <4> QED BY <1>16, <4>1, <4>2
    <3> QED BY <1>1, <1>15, <3>2, <3>3 DEF RefusalInv, LastRefused
  <2> QED BY <2>1, <2>2
<1> QED BY <1>3, <1>5, <1>7, <1>8, <1>12, <1>13, <1>14, <1>17, <1>18

\* A notification is not an answer.
LEMMA NotifyKeeps ==
    ASSUME RoomInv, NEW kind \in Notifications, NEW uid \in Others, ServerNotifies(kind, uid)
    PROVE  MessagesInv' /\ in' \in Seq(Message)
<1> USE DEF RoomInv, MessagesInv
<1> DEFINE m == [kind |-> kind, uid |-> uid]
<1>1. /\ in' = Append(in, m) /\ UNCHANGED <<uiVars, sessions, out, member, failed>>
      /\ in \in Seq(Message)
  BY DEF ServerNotifies, TypeOK
<1>2. m \in Message /\ m.kind = kind /\ kind # "response"
  BY DEF Message, Notifications
<1> HIDE DEF m
<1>3. /\ in' \in Seq(Message) /\ Len(in) \in Nat /\ Len(in') = Len(in) + 1
      /\ \A i \in 1..Len(in) : in'[i] = in[i]
      /\ in'[Len(in) + 1] = m
  BY <1>1, <1>2, AppendAt
<1>4. \A i \in 1..Len(in') : i \in 1..Len(in) \/ i = Len(in) + 1
  BY <1>3
<1>5. ResponseHasSession'
  <2>1. \A i \in 1..Len(in') : Answers(in'[i]) => i \in 1..Len(in) /\ in'[i] = in[i]
    BY <1>2, <1>3, <1>4 DEF Answers
  <2> QED BY <1>1, <2>1 DEF ResponseHasSession, Answers
<1>6. AskedIn' = AskedIn
  BY <1>1 DEF uiVars, AskedIn
<1>7. InTurn' /\ LastAgrees' /\ RemoteHasMid'
  BY <1>1, <1>6 DEF InTurn, LastAgrees, Told, AsksIn, NothingTold, RemoteHasMid
<1>8. JoinsInOrder' /\ RefusalInv'
  <2>1. \A id : RefusalKnown(id) => RefusalKnown(id)'
    <3>1. \A i \in 1..Len(in) : i \in 1..Len(in')
      BY <1>3
    <3> QED BY <1>1, <1>3, <3>1 DEF RefusalKnown, Refusal
  <2> QED BY <1>1, <2>1 DEF JoinsInOrder, RefusalInv, LastRefused
<1> QED BY <1>3, <1>5, <1>7, <1>8

-----------------------------------------------------------------------------
(* Clients.                                                                 *)

\* The shapes of the variables, in the form the steps of the clients use.
LEMMA RoomTypes ==
    ASSUME RoomInv
    PROVE  /\ objs \in Seq(Object) /\ Len(objs) \in 0..MaxClients
           /\ 1..Len(objs) \subseteq Client
           /\ users \in [Uids -> 0..MaxClients]
           /\ \A c \in 1..Len(objs) :
                 /\ objs[c] \in Object /\ objs[c].uid \in Uids
                 /\ objs[c].armed \in Nat /\ objs[c].offers \in Nat
                 /\ objs[c].send_offer_ \in BOOLEAN /\ objs[c].mid \in BOOLEAN
<1> USE RoomAssumption
<1>1. /\ objs \in Seq(Object) /\ Len(objs) =< MaxClients /\ Len(objs) \in Nat
      /\ users \in [Uids -> 0..MaxClients]
  BY LenProperties DEF RoomInv, TypeOK
<1>2. \A c \in 1..Len(objs) : objs[c] \in Object
  BY <1>1, ElementOfSeq
<1> QED BY <1>1, <1>2 DEF Object, Client

\* Clients are as they were, some perhaps out of the map; a thread goes on, or
\* is done with its client.
LEMMA SameClients ==
    ASSUME RoomInv, UNCHANGED objs, \A u \in Uids : users'[u] \in {None, users[u]},
           lws' \in {lws, At("idle", None)},
           \/ sig' \in {sig}
           \/ sig' = At("idle", None) /\ sig.at # "clear"
           \/ sig' = [sig EXCEPT !.at = "trickle"] /\ sig.at = "test"
    PROVE  ClientsInv'
<1> USE DEF RoomInv, ClientsInv
<1>1. \A c \in 1..Len(objs) : objs[c].uid \in Uids
  BY RoomTypes
<1>2. lws'.at # "idle" => lws' = lws
  BY DEF At
<1>3. sig'.at # "idle" => sig.at # "idle" /\ sig'.client = sig.client
  BY DEF At, TypeOK
<1>4. sig.at = "clear" => sig' = sig
  BY DEF At
<1>5. UsersInv'
  BY DEF UsersInv
<1>6. ThreadsInv'
  BY <1>1, <1>2, <1>3 DEF ThreadsInv
<1>7. ArmedInv' /\ OfferOncePerArm'
  BY <1>4 DEF ArmedInv, OfferOncePerArm
<1>8. MidInv'
  BY <1>3 DEF MidInv
<1> QED BY <1>5, <1>6, <1>7, <1>8

\* One client is changed, not its uid.
LEMMA ChangedClient ==
    ASSUME RoomInv, NEW c \in 1..Len(objs), NEW o \in Object, o.uid = objs[c].uid,
           objs' = [objs EXCEPT ![c] = o], UNCHANGED users
    PROVE  /\ objs' \in Seq(Object) /\ Len(objs') = Len(objs) /\ objs'[c] = o
           /\ \A d \in 1..Len(objs) : d # c => objs'[d] = objs[d]
           /\ \A d \in 1..Len(objs) : objs'[d].uid = objs[d].uid
           /\ UsersInv'
<1>1. objs \in Seq(Object)
  BY RoomTypes
<1>2. /\ objs' \in Seq(Object) /\ Len(objs') = Len(objs) /\ objs'[c] = o
      /\ \A d \in 1..Len(objs) : d # c => objs'[d] = objs[d]
  BY <1>1, ExceptSeq
<1>3. \A d \in 1..Len(objs) : objs'[d].uid = objs[d].uid
  BY <1>2
<1>4. UsersInv'
  BY <1>2, <1>3 DEF RoomInv, ClientsInv, UsersInv
<1> QED BY <1>2, <1>3, <1>4

\* AddClient(): the client found or made is the one of uid in the map; one just
\* made is neither armed nor described.
LEMMA AddClientKeeps ==
    ASSUME RoomInv, NEW u \in Uids, AddClient(u)
    PROVE  /\ objs' \in Seq(Object) /\ Len(objs') \in 0..MaxClients
           /\ Len(objs) =< Len(objs') /\ \A c \in 1..Len(objs) : objs'[c] = objs[c]
           /\ users' \in [Uids -> 0..MaxClients] /\ UsersInv'
           /\ users'[u] \in 1..Len(objs') /\ objs'[users'[u]].uid = u
           /\ \A c \in 1..Len(objs') :
                 \/ c \in 1..Len(objs)
                 \/ /\ ~objs'[c].send_offer_ /\ ~objs'[c].described
                    /\ objs'[c].offers = 0 /\ objs'[c].armed = 0
<1> USE RoomAssumption DEF RoomInv, ClientsInv
<1>1. objs \in Seq(Object) /\ Len(objs) \in 0..MaxClients /\ users \in [Uids -> 0..MaxClients]
  BY RoomTypes
<1>2. CASE users[u] # None
  <2>1. UNCHANGED <<users, objs>>
    BY <1>2 DEF AddClient
  <2> QED BY <1>1, <1>2, <2>1 DEF UsersInv
<1>3. CASE users[u] = None
  <2> DEFINE o == NewObject(u)
  <2>1. /\ Len(objs) < MaxClients /\ objs' = Append(objs, o)
        /\ users' = [users EXCEPT ![u] = Len(objs) + 1]
    BY <1>3 DEF AddClient
  <2>2. o \in Object
    BY DEF NewObject, Object
  <2>3. o.uid = u /\ ~o.send_offer_ /\ ~o.described /\ o.offers = 0 /\ o.armed = 0
    BY DEF NewObject
  <2> HIDE DEF o
  <2>4. /\ objs' \in Seq(Object) /\ Len(objs') = Len(objs) + 1
        /\ \A c \in 1..Len(objs) : objs'[c] = objs[c]
        /\ objs'[Len(objs) + 1] = o
    BY <1>1, <2>1, <2>2, AppendAt
  <2>5. /\ Len(objs') \in 0..MaxClients /\ Len(objs) =< Len(objs')
        /\ \A c \in 1..Len(objs) : c \in 1..Len(objs')
        /\ \A c \in 1..Len(objs') : c \in 1..Len(objs) \/ c = Len(objs) + 1
        /\ Len(objs) + 1 \in 1..Len(objs') /\ Len(objs) + 1 \in 0..MaxClients
    BY <1>1, <2>1, <2>4
  <2>6. /\ users' \in [Uids -> 0..MaxClients] /\ users'[u] = Len(objs) + 1
        /\ \A v \in Uids : v # u => users'[v] = users[v]
    BY <1>1, <2>1, <2>5
  <2>7. UsersInv'
    BY <2>3, <2>4, <2>5, <2>6 DEF UsersInv
  <2> QED BY <2>3, <2>4, <2>5, <2>6, <2>7
<1> QED BY <1>2, <1>3

\* The same with the thread that asked for it.
LEMMA AddedClient ==
    ASSUME RoomInv, NEW u \in Uids, AddClient(u), lws.at = "idle", UNCHANGED sig,
           \/ UNCHANGED lws
           \/ lws' = At("stream", users'[u])
           \/ lws' = At("publish", users'[u]) /\ u = Me
    PROVE  ClientsInv'
<1> USE DEF RoomInv, ClientsInv
<1>1. /\ Len(objs') \in Nat /\ Len(objs) \in Nat
      /\ Len(objs) =< Len(objs') /\ \A c \in 1..Len(objs) : objs'[c] = objs[c]
      /\ UsersInv' /\ users'[u] \in 1..Len(objs') /\ objs'[users'[u]].uid = u
      /\ \A c \in 1..Len(objs') :
            \/ c \in 1..Len(objs)
            \/ /\ ~objs'[c].send_offer_ /\ ~objs'[c].described
               /\ objs'[c].offers = 0 /\ objs'[c].armed = 0
  BY AddClientKeeps, RoomTypes
<1>2. \A c \in 1..Len(objs) : c \in 1..Len(objs')
  BY <1>1
<1>3. /\ lws'.at # "idle" => lws'.client = users'[u]
      /\ lws'.at = "publish" => u = Me
  BY DEF At
<1>4. ThreadsInv'
  BY <1>1, <1>2, <1>3 DEF ThreadsInv
<1>5. ArmedInv' /\ OfferOncePerArm'
  BY <1>1 DEF ArmedInv, OfferOncePerArm
<1>6. MidInv'
  BY <1>1 DEF MidInv, ThreadsInv
<1> QED BY <1>1, <1>4, <1>5, <1>6

-----------------------------------------------------------------------------
(* The steps.                                                               *)

\* Nothing is known of anyone at the start.
LEMMA RoomInit == Init => RoomInv
<1> SUFFICES ASSUME Init PROVE RoomInv
  OBVIOUS
<1> USE RoomAssumption DEF Init, None
<1>1. TypeOK
  <2>1. /\ objs \in Seq(Object) /\ sessions \in Seq([command : Commands, uid : Uids])
        /\ out \in Seq(Request) /\ in \in Seq(Message)
    OBVIOUS
  <2>2. Len(objs) =< MaxClients /\ Len(sessions) =< MaxRequests
    OBVIOUS
  <2>3. /\ joined_room_ \in BOOLEAN /\ local_published_ \in BOOLEAN /\ mid_ \in BOOLEAN
        /\ canSend \in BOOLEAN /\ refused \in BOOLEAN
    OBVIOUS
  <2>4. users \in [Uids -> 0..MaxClients] /\ events \in 0..MaxEvents
    OBVIOUS
  <2>5. /\ lws = [at |-> "idle", client |-> None] /\ sig = [at |-> "idle", client |-> None]
        /\ ui = "idle" /\ member = "out" /\ failed = {}
    OBVIOUS
  <2> QED BY <2>1, <2>2, <2>3, <2>4, <2>5 DEF TypeOK
<1>2. ButtonInv
  BY DEF ButtonInv
<1>3. Len(out) = 0 /\ Len(in) = 0 /\ Len(objs) = 0
  OBVIOUS
<1>4. ~AskedIn /\ ~AsksIn(0)
  BY DEF AskedIn, AsksIn
<1>5. InTurn /\ LastAgrees
  BY <1>3, <1>4 DEF InTurn, LastAgrees, AskedIn, AsksIn
<1>6. ResponseHasSession /\ RemoteHasMid /\ JoinsInOrder /\ RefusalInv
  BY <1>3 DEF ResponseHasSession, RemoteHasMid, JoinsInOrder, RefusalInv
<1>7. UsersInv /\ ThreadsInv /\ ArmedInv /\ OfferOncePerArm /\ MidInv
  BY <1>3 DEF UsersInv, ThreadsInv, ArmedInv, OfferOncePerArm, MidInv
<1> QED BY <1>1, <1>2, <1>5, <1>6, <1>7 DEF RoomInv, MessagesInv, ClientsInv

\* The button handlers: a join is sent by one who is out and a leave by one who
\* is in.
LEMMA UiKeeps == RoomInv /\ UI => RoomInv'
<1> SUFFICES ASSUME RoomInv, UI PROVE RoomInv'
  OBVIOUS
<1> USE DEF netVars, uiVars
<1>0. TypeOK /\ ButtonInv
  BY DEF RoomInv
<1>1. CASE Join
  <2>1. /\ ui = "idle" /\ ~joined_room_ /\ Send("join", Me, FALSE) /\ ui' = "joining"
        /\ UNCHANGED <<joined_room_, canSend, local_published_, mid_, lws, sig, users, objs, in,
                       member, events, refused, failed>>
    BY <1>1 DEF Join, JoinRoom
  <2>2. AskedIn = FALSE /\ AskedIn' = TRUE
    BY <2>1 DEF AskedIn
  <2>3. "join" \in Commands /\ Me \in Uids
    BY DEF Commands, Uids
  <2>4. /\ MessagesInv' /\ in' \in Seq(Message) /\ out' \in Seq(Request)
        /\ sessions' \in Seq([command : Commands, uid : Uids]) /\ Len(sessions') =< MaxRequests
    BY <2>1, <2>2, <2>3, SendKeeps DEF Taken
  <2>5. TypeOK' /\ ButtonInv'
    BY <1>0, <2>1, <2>4 DEF TypeOK, ButtonInv
  <2>6. ClientsInv'
    BY <2>1, SameClients
  <2> QED BY <2>4, <2>5, <2>6 DEF RoomInv
<1>2. CASE JoinDone
  <2>1. AskedIn' = AskedIn
    BY <1>0, <1>2 DEF JoinDone, AskedIn
  <2>2. MessagesInv' /\ in' \in Seq(Message)
    BY <1>2, <2>1, Unsent DEF JoinDone, Taken
  <2>3. TypeOK' /\ ButtonInv'
    BY <1>0, <1>2 DEF JoinDone, TypeOK, ButtonInv
  <2>4. ClientsInv'
    BY <1>2, SameClients DEF JoinDone
  <2> QED BY <2>2, <2>3, <2>4 DEF RoomInv
<1>3. CASE Leave
  <2>1. /\ ui = "idle" /\ joined_room_
        /\ UNCHANGED <<joined_room_, canSend, local_published_, mid_, lws, sig, users, objs, in,
                       member, events, refused, failed>>
    BY <1>3 DEF Leave, LeaveStarts
  <2>2. ClientsInv'
    BY <2>1, SameClients
  <2>3. CASE local_published_
    <3>1. Send("unpublish", Me, mid_) /\ ui' = "unpublished"
      BY <1>3, <2>3 DEF Leave, LeaveStarts, UnPublish
    <3>2. AskedIn' = AskedIn
      BY <2>1, <3>1 DEF AskedIn
    <3>3. "unpublish" \in Commands /\ Me \in Uids /\ mid_ \in BOOLEAN
      BY <1>0 DEF Commands, Uids, TypeOK
    <3>4. /\ MessagesInv' /\ in' \in Seq(Message) /\ out' \in Seq(Request)
          /\ sessions' \in Seq([command : Commands, uid : Uids]) /\ Len(sessions') =< MaxRequests
      BY <2>1, <3>1, <3>2, <3>3, SendKeeps DEF Taken
    <3>5. TypeOK' /\ ButtonInv'
      BY <1>0, <2>1, <3>1, <3>4 DEF TypeOK, ButtonInv
    <3> QED BY <2>2, <3>4, <3>5 DEF RoomInv
  <2>4. CASE ~local_published_
    <3>1. UNCHANGED <<sessions, out>> /\ ui' = "leaving"
      BY <1>3, <2>4 DEF Leave, LeaveStarts
    <3>2. AskedIn' = AskedIn
      BY <2>1, <3>1 DEF AskedIn
    <3>3. MessagesInv'
      BY <2>1, <3>1, <3>2, Unsent DEF Taken
    <3>4. TypeOK' /\ ButtonInv'
      BY <1>0, <2>1, <3>1 DEF TypeOK, ButtonInv
    <3> QED BY <2>2, <3>3, <3>4 DEF RoomInv
  <2> QED BY <2>3, <2>4
<1>4. CASE Unpublished
  <2>1. AskedIn' = AskedIn
    BY <1>0, <1>4 DEF Unpublished, AskedIn
  <2>2. MessagesInv'
    BY <1>4, <2>1, Unsent DEF Unpublished, Taken
  <2>3. TypeOK' /\ ButtonInv'
    BY <1>0, <1>4 DEF Unpublished, TypeOK, ButtonInv
  <2>4. ClientsInv'
    BY <1>4, SameClients DEF Unpublished
  <2> QED BY <2>2, <2>3, <2>4 DEF RoomInv
<1>5. CASE SendLeave
  <2>1. /\ ui = "leaving" /\ Send("leave", Me, FALSE) /\ ui' = "left"
        /\ UNCHANGED <<joined_room_, canSend, local_published_, mid_, lws, sig, users, objs, in,
                       member, events, refused, failed>>
    BY <1>5 DEF SendLeave, LeaveRoom
  <2>2. AskedIn = TRUE /\ AskedIn' = FALSE
    BY <1>0, <2>1 DEF AskedIn, ButtonInv
  <2>3. "leave" \in Commands /\ Me \in Uids
    BY DEF Commands, Uids
  <2>4. /\ MessagesInv' /\ in' \in Seq(Message) /\ out' \in Seq(Request)
        /\ sessions' \in Seq([command : Commands, uid : Uids]) /\ Len(sessions') =< MaxRequests
    BY <2>1, <2>2, <2>3, SendKeeps DEF Taken
  <2>5. TypeOK' /\ ButtonInv'
    BY <1>0, <2>1, <2>4 DEF TypeOK, ButtonInv
  <2>6. ClientsInv'
    BY <2>1, SameClients
  <2> QED BY <2>4, <2>5, <2>6 DEF RoomInv
<1>6. CASE LeaveDone
  <2>1. users' = [u \in Uids |-> None]
    BY <1>6 DEF LeaveDone, RemoveAllClients
  <2>2. AskedIn' = AskedIn
    BY <1>0, <1>6 DEF LeaveDone, AskedIn
  <2>3. MessagesInv'
    BY <1>6, <2>2, Unsent DEF LeaveDone, Taken
  <2>4. users' \in [Uids -> 0..MaxClients]
    BY <2>1, RoomAssumption DEF None
  <2>5. TypeOK' /\ ButtonInv'
    BY <1>0, <1>6, <2>4 DEF LeaveDone, TypeOK, ButtonInv
  <2>6. ClientsInv'
    BY <1>6, <2>1, SameClients DEF LeaveDone
  <2> QED BY <2>3, <2>5, <2>6 DEF RoomInv
<1>7. CASE SendChat
  <2>1. AskedIn' = AskedIn
    BY <1>7 DEF SendChat, AskedIn
  <2>2. MessagesInv'
    BY <1>7, <2>1, Unsent DEF SendChat, Taken
  <2>3. refused' \in BOOLEAN
    BY <1>7 DEF SendChat
  <2>4. TypeOK' /\ ButtonInv'
    BY <1>0, <1>7, <2>3 DEF SendChat, TypeOK, ButtonInv
  <2>5. ClientsInv'
    BY <1>7, SameClients DEF SendChat
  <2> QED BY <2>2, <2>4, <2>5 DEF RoomInv
<1> QED BY <1>1, <1>2, <1>3, <1>4, <1>5, <1>6, <1>7 DEF UI

\* Records of clients as the lws thread changes them.
LEMMA ObjectSteps ==
    ASSUME NEW o \in Object
    PROVE  /\ Armed(o) \in Object /\ Armed(o).uid = o.uid /\ Armed(o).mid = o.mid
           /\ Armed(o).send_offer_ /\ Armed(o).armed = o.armed + 1 /\ Armed(o).offers = o.offers
           /\ Armed(o).described = o.described
           /\ SetMid(o) \in Object /\ SetMid(o).uid = o.uid /\ SetMid(o).mid
           /\ SetMid(o).send_offer_ = o.send_offer_ /\ SetMid(o).armed = o.armed
           /\ SetMid(o).offers = o.offers /\ SetMid(o).described = o.described
           /\ CreateOffer(o) \in Object /\ CreateOffer(o).uid = o.uid /\ CreateOffer(o).mid = o.mid
           /\ CreateOffer(o).send_offer_ = o.send_offer_ /\ CreateOffer(o).armed = o.armed
           /\ CreateOffer(o).offers = o.offers
           /\ Sent(o) \in Object /\ Sent(o).uid = o.uid /\ Sent(o).mid = o.mid
           /\ ~Sent(o).send_offer_ /\ Sent(o).armed = o.armed /\ Sent(o).offers = o.offers
           /\ Sent(o).described = o.described
<1>1. /\ SetMid(o) \in Object /\ SetMid(o).uid = o.uid /\ SetMid(o).mid
      /\ SetMid(o).send_offer_ = o.send_offer_ /\ SetMid(o).armed = o.armed
      /\ SetMid(o).offers = o.offers /\ SetMid(o).described = o.described
  BY DEF SetMid, Object
<1>2. /\ CreateOffer(o) \in Object /\ CreateOffer(o).uid = o.uid /\ CreateOffer(o).mid = o.mid
      /\ CreateOffer(o).send_offer_ = o.send_offer_ /\ CreateOffer(o).armed = o.armed
      /\ CreateOffer(o).offers = o.offers
  BY DEF CreateOffer, Object
<1>3. /\ Sent(o) \in Object /\ Sent(o).uid = o.uid /\ Sent(o).mid = o.mid
      /\ ~Sent(o).send_offer_ /\ Sent(o).armed = o.armed /\ Sent(o).offers = o.offers
      /\ Sent(o).described = o.described
  BY DEF Sent, Object
<1> DEFINE p == [o EXCEPT !.send_offer_ = TRUE]
           n == o.armed + 1
<1>4. /\ p \in Object /\ p.uid = o.uid /\ p.mid = o.mid /\ p.send_offer_ /\ p.armed = o.armed
      /\ p.offers = o.offers /\ p.described = o.described
  BY DEF Object
<1>5. Armed(o) = [p EXCEPT !.armed = n] /\ n \in Nat
  BY DEF Armed, Object
<1> HIDE DEF p, n
<1>6. /\ Armed(o) \in Object /\ Armed(o).uid = p.uid /\ Armed(o).mid = p.mid
      /\ Armed(o).send_offer_ = p.send_offer_ /\ Armed(o).armed = n
      /\ Armed(o).offers = p.offers /\ Armed(o).described = p.described
  BY <1>4, <1>5 DEF Object
<1> QED BY <1>1, <1>2, <1>3, <1>4, <1>6 DEF n

\* The thread that changed a client goes on with it, or is done.
LEMMA LwsChanged ==
    ASSUME RoomInv, NEW c \in 1..Len(objs), NEW o \in Object, o.uid = objs[c].uid,
           objs' = [objs EXCEPT ![c] = o], UNCHANGED <<users, sig>>,
           o.offers =< o.armed,
           o.send_offer_ /\ ~(sig.at = "clear" /\ sig.client = c) => o.offers < o.armed,
           o.uid # Me => (objs[c].mid => o.mid) /\ (o.described => o.mid),
           \/ lws' = lws \/ lws' = At("idle", None)
           \/ lws' \in {At("published", lws.client), At("streamed", lws.client)} /\ lws.at # "idle"
    PROVE  ClientsInv' /\ objs' \in Seq(Object) /\ Len(objs') = Len(objs)
<1> USE DEF RoomInv, ClientsInv
<1>1. /\ objs' \in Seq(Object) /\ Len(objs') = Len(objs) /\ objs'[c] = o
      /\ \A d \in 1..Len(objs) : d # c => objs'[d] = objs[d]
      /\ \A d \in 1..Len(objs) : objs'[d].uid = objs[d].uid
      /\ UsersInv'
  BY ChangedClient
<1>2. /\ lws'.at # "idle" => lws.at # "idle" /\ lws'.client = lws.client
      /\ lws'.at = "publish" => lws.at = "publish"
  BY DEF At
<1>3. ThreadsInv'
  BY <1>1, <1>2 DEF ThreadsInv
<1>4. ArmedInv' /\ OfferOncePerArm'
  BY <1>1 DEF ArmedInv, OfferOncePerArm
<1>5. MidInv'
  <2>1. \A d \in 1..Len(objs) : objs'[d].described /\ objs'[d].uid # Me => objs'[d].mid
    BY <1>1 DEF MidInv
  <2>2. sig.at # "idle" => sig.client \in 1..Len(objs)
    BY DEF ThreadsInv
  <2>3. sig.at # "idle" /\ objs'[sig.client].uid # Me => objs'[sig.client].mid
    BY <1>1, <2>2 DEF MidInv
  <2> QED BY <1>1, <2>1, <2>3 DEF MidInv
<1> QED BY <1>1, <1>3, <1>4, <1>5

\* What the lws thread receives.
LEMMA ReceivedMessage ==
    ASSUME RoomInv, Received
    PROVE  /\ lws.at = "idle" /\ in # << >> /\ in' = Tail(in)
           /\ Head(in) \in Message
           /\ Head(in).kind = "response" =>
                 /\ Head(in).to.id \in 1..Len(sessions)
                 /\ sessions[Head(in).to.id] = [command |-> Head(in).to.command, uid |-> Head(in).to.uid]
                 /\ Head(in).to.uid \in Uids
           /\ Head(in).kind \in Notifications =>
                 Head(in).uid \in Uids \ {Me} /\ ~Refusal(Head(in))
<1>1. in \in Seq(Message) /\ lws.at = "idle" /\ in # << >> /\ in' = Tail(in)
  BY DEF RoomInv, TypeOK, Received, Idle
<1>2. Head(in) \in Message /\ Head(in) = in[1] /\ 1 \in 1..Len(in)
  BY <1>1, TailAt
<1>3. ASSUME Head(in).kind = "response"
      PROVE  /\ Head(in).to.id \in 1..Len(sessions)
             /\ sessions[Head(in).to.id] = [command |-> Head(in).to.command, uid |-> Head(in).to.uid]
  BY <1>2, <1>3 DEF RoomInv, MessagesInv, ResponseHasSession, Answers
<1>4. Head(in).kind = "response" => Head(in).to \in Request
  BY <1>2 DEF Message, Notifications
<1>5. Head(in).kind \in Notifications => Head(in).uid \in Others /\ ~Refusal(Head(in))
  BY <1>2 DEF Message, Notifications, Refusal
<1> QED BY <1>1, <1>2, <1>3, <1>4, <1>5, RoomAssumption DEF Request, Uids

\* onReceiveMessage() and what it calls.
LEMMA LwsKeeps == RoomInv /\ Lws => RoomInv'
<1> SUFFICES ASSUME RoomInv, Lws PROVE RoomInv'
  OBVIOUS
<1> USE DEF netVars
<1>0. TypeOK /\ ButtonInv
  BY DEF RoomInv
<1>u. UNCHANGED uiVars => AskedIn' = AskedIn /\ ButtonInv'
  BY <1>0 DEF uiVars, AskedIn, ButtonInv
<1>1. CASE OnJoined
  <2>1. /\ lws.at = "idle" /\ in # << >> /\ in' = Tail(in)
        /\ AddClient(Me) /\ lws' = At("publish", users'[Me]) /\ ~Refusal(Head(in))
        /\ UNCHANGED <<uiVars, local_published_, mid_, sig, sessions, out, member, events, refused, failed>>
    BY <1>1 DEF OnJoined, Received, Idle, Refusal
  <2>2. Me \in Uids
    BY DEF Uids
  <2>3. /\ objs' \in Seq(Object) /\ Len(objs') \in 0..MaxClients
        /\ users' \in [Uids -> 0..MaxClients] /\ users'[Me] \in 1..Len(objs')
    BY <2>1, <2>2, AddClientKeeps
  <2>4. ClientsInv'
    BY <2>1, <2>2, AddedClient
  <2>5. MessagesInv' /\ in' \in Seq(Message)
    BY <1>u, <2>1, Unsent DEF Taken
  <2>6. Len(objs') =< MaxClients /\ lws' \in [at : {"publish", "published", "stream", "streamed"}, client : Client]
    BY <2>1, <2>3, RoomAssumption DEF At, Client
  <2>7. TypeOK'
    BY <1>0, <2>1, <2>3, <2>5, <2>6 DEF TypeOK, uiVars
  <2> QED BY <1>u, <2>1, <2>4, <2>5, <2>7 DEF RoomInv
<1>2. CASE ArmLocal
  <2> DEFINE c == lws.client
             o == CreateOffer(Armed(objs[c]))
  <2>1. /\ lws.at = "publish" /\ lws' = At("published", c) /\ objs' = [objs EXCEPT ![c] = o]
        /\ UNCHANGED <<uiVars, local_published_, mid_, sig, users, netVars, events, refused, failed>>
    BY <1>2 DEF ArmLocal
  <2>2. c \in 1..Len(objs) /\ objs[c].uid = Me
    BY <2>1 DEF RoomInv, ClientsInv, ThreadsInv
  <2>3. objs[c] \in Object /\ objs[c].offers \in Nat /\ objs[c].armed \in Nat /\ c \in Client
    BY <2>2, RoomTypes
  <2>4. o \in Object /\ o.uid = Me /\ o.offers = objs[c].offers /\ o.armed = objs[c].armed + 1
    BY <2>2, <2>3, ObjectSteps
  <2>5. objs[c].offers =< objs[c].armed
    BY <2>2 DEF RoomInv, ClientsInv, OfferOncePerArm
  <2>6. o.offers =< o.armed /\ o.offers < o.armed
    BY <2>3, <2>4, <2>5
  <2> HIDE DEF o
  <2>7. ClientsInv' /\ objs' \in Seq(Object) /\ Len(objs') = Len(objs)
    BY <2>1, <2>2, <2>4, <2>6, LwsChanged
  <2>8. MessagesInv'
    BY <1>u, <2>1, Unsent DEF Taken
  <2>9. lws' \in [at : {"publish", "published", "stream", "streamed"}, client : Client]
    BY <2>1, <2>3 DEF At
  <2>10. TypeOK'
    BY <1>0, <2>1, <2>7, <2>9 DEF TypeOK, uiVars
  <2> QED BY <1>u, <2>1, <2>7, <2>8, <2>10 DEF RoomInv
<1>3. CASE SetLocalPublished
  <2>1. MessagesInv'
    BY <1>3, <1>u, Unsent DEF SetLocalPublished, Taken
  <2>2. ClientsInv'
    BY <1>3, SameClients DEF SetLocalPublished
  <2>3. TypeOK'
    BY <1>0, <1>3 DEF SetLocalPublished, TypeOK, uiVars, At
  <2> QED BY <1>3, <1>u, <2>1, <2>2, <2>3 DEF RoomInv, SetLocalPublished
<1>4. CASE OnPublished
  <2> DEFINE c == GetClient(sessions[Head(in).to.id].uid)
             o == SetMid(objs[c])
  <2>1. /\ Received /\ Head(in).kind = "response" /\ mid_' = TRUE /\ ~Refusal(Head(in))
        /\ objs' = IF c = None THEN objs ELSE [objs EXCEPT ![c] = o]
        /\ UNCHANGED <<uiVars, local_published_, lws, sig, users, sessions, out, member, events,
                       refused, failed>>
    BY <1>4 DEF OnPublished, IsResponse, Refusal
  <2>2. in # << >> /\ in' = Tail(in) /\ Head(in).to.uid \in Uids
        /\ sessions[Head(in).to.id] = [command |-> Head(in).to.command, uid |-> Head(in).to.uid]
    BY <2>1, ReceivedMessage
  <2>3. c = users[Head(in).to.uid]
    BY <2>2 DEF GetClient
  <2>4. MessagesInv' /\ in' \in Seq(Message)
    BY <1>u, <2>1, <2>2, Unsent DEF Taken
  <2>5. CASE c = None
    <3>1. objs' = objs
      BY <2>1, <2>5
    <3>2. ClientsInv'
      BY <2>1, <3>1, SameClients
    <3>3. TypeOK'
      <4>1. /\ joined_room_' \in BOOLEAN /\ local_published_' \in BOOLEAN /\ mid_' \in BOOLEAN
            /\ canSend' \in BOOLEAN /\ ui' \in {"idle", "joining", "unpublished", "leaving", "left"}
        BY <2>1 DEF RoomInv, TypeOK, uiVars
      <4> QED BY <1>0, <2>1, <2>4, <3>1, <4>1 DEF TypeOK
    <3> QED BY <1>u, <2>1, <2>4, <3>2, <3>3 DEF RoomInv
  <2>6. CASE c # None
    <3>1. c \in 1..Len(objs)
      BY <2>2, <2>3, <2>6 DEF RoomInv, ClientsInv, UsersInv
    <3>2. objs[c] \in Object
      BY <3>1, RoomTypes
    <3>3. /\ o \in Object /\ o.uid = objs[c].uid /\ o.mid /\ o.send_offer_ = objs[c].send_offer_
          /\ o.offers = objs[c].offers /\ o.armed = objs[c].armed
      BY <3>2, ObjectSteps
    <3>4. /\ objs[c].offers =< objs[c].armed
          /\ objs[c].send_offer_ /\ ~(sig.at = "clear" /\ sig.client = c) => objs[c].offers < objs[c].armed
      BY <3>1 DEF RoomInv, ClientsInv, OfferOncePerArm, ArmedInv
    <3>5. objs' = [objs EXCEPT ![c] = o]
      BY <2>1, <2>6
    <3> HIDE DEF o, c
    <3>6. ClientsInv' /\ objs' \in Seq(Object) /\ Len(objs') = Len(objs)
      BY <2>1, <3>1, <3>3, <3>4, <3>5, LwsChanged
    <3>7. TypeOK'
      BY <1>0, <2>1, <2>4, <3>6 DEF TypeOK, uiVars
    <3> QED BY <1>u, <2>1, <2>4, <3>6, <3>7 DEF RoomInv
  <2> QED BY <2>5, <2>6
<1>5. CASE OnOtherResponse
  <2>1. /\ Received /\ Head(in).kind = "response" /\ failed' = failed \cup JoinFailed(Head(in))
        /\ UNCHANGED <<uiVars, local_published_, mid_, lws, sig, users, objs, sessions, out, member,
                       events, refused>>
    BY <1>5 DEF OnOtherResponse
  <2>a. /\ in # << >> /\ in' = Tail(in) /\ Head(in).to.id \in 1..Len(sessions)
        /\ sessions[Head(in).to.id].command = Head(in).to.command
    BY <2>1, ReceivedMessage
  <2>b. Refusal(Head(in)) => Head(in).to.id \in failed'
    BY <2>1, <2>a DEF Refusal, JoinFailed, IsResponse
  <2>c. failed' \subseteq 0..MaxRequests
    <3>1. 1..Len(sessions) \subseteq 0..MaxRequests
      BY <1>0, RoomAssumption, LenProperties DEF TypeOK
    <3> QED BY <1>0, <2>1, <2>a, <3>1 DEF TypeOK, JoinFailed
  <2>2. MessagesInv' /\ in' \in Seq(Message)
    BY <1>u, <2>1, <2>a, <2>b, Unsent DEF Taken
  <2>3. ClientsInv'
    BY <2>1, SameClients
  <2>4. TypeOK'
    BY <1>0, <2>1, <2>2, <2>c DEF TypeOK, uiVars
  <2> QED BY <1>u, <2>1, <2>2, <2>3, <2>4 DEF RoomInv
<1>6. CASE OnPeerNotifyEvent
  <2> DEFINE u == Head(in).uid
  <2>1. /\ Received /\ Head(in).kind \in Notifications
        /\ \/ AddClient(u)
           \/ users' = [users EXCEPT ![u] = None] /\ objs' = objs
        /\ UNCHANGED <<uiVars, local_published_, mid_, lws, sig, sessions, out, member, events, refused, failed>>
    BY <1>6 DEF OnPeerNotifyEvent, RemoveClient, Notifications
  <2>2. /\ u \in Uids /\ lws.at = "idle" /\ in # << >> /\ in' = Tail(in)
        /\ ~Refusal(Head(in))
    BY <2>1, ReceivedMessage
  <2>3. MessagesInv' /\ in' \in Seq(Message)
    BY <1>u, <2>1, <2>2, Unsent DEF Taken
  <2> HIDE DEF u
  <2>4. CASE AddClient(u)
    <3>1. /\ objs' \in Seq(Object) /\ Len(objs') \in 0..MaxClients
          /\ users' \in [Uids -> 0..MaxClients]
      BY <2>2, <2>4, AddClientKeeps
    <3>2. ClientsInv'
      BY <2>1, <2>2, <2>4, AddedClient
    <3>3. Len(objs') =< MaxClients
      BY <3>1, RoomAssumption
    <3>4. TypeOK'
      BY <1>0, <2>1, <2>3, <3>1, <3>3 DEF TypeOK, uiVars
    <3> QED BY <1>u, <2>1, <2>3, <3>2, <3>4 DEF RoomInv
  <2>5. CASE users' = [users EXCEPT ![u] = None] /\ objs' = objs
    <3>1. \A v \in Uids : users'[v] \in {None, users[v]}
      BY <2>5, RoomTypes
    <3>2. ClientsInv'
      BY <2>1, <2>5, <3>1, SameClients
    <3>3. users' \in [Uids -> 0..MaxClients]
      BY <2>2, <2>5, RoomTypes, RoomAssumption DEF None
    <3>4. TypeOK'
      BY <1>0, <2>1, <2>3, <2>5, <3>3 DEF TypeOK, uiVars
    <3> QED BY <1>u, <2>1, <2>3, <3>2, <3>4 DEF RoomInv
  <2> QED BY <2>1, <2>4, <2>5
<1>7. CASE OnStreamAdd
  <2> DEFINE u == Head(in).uid
  <2>1. /\ Received /\ Head(in).kind \in Notifications
        /\ AddClient(u) /\ lws' = At("stream", users'[u])
        /\ UNCHANGED <<uiVars, local_published_, mid_, sig, sessions, out, member, events, refused, failed>>
    BY <1>7 DEF OnStreamAdd, Notifications
  <2>2. /\ u \in Uids /\ lws.at = "idle" /\ in # << >> /\ in' = Tail(in)
        /\ ~Refusal(Head(in))
    BY <2>1, ReceivedMessage
  <2> HIDE DEF u
  <2>3. /\ objs' \in Seq(Object) /\ Len(objs') \in 0..MaxClients
        /\ users' \in [Uids -> 0..MaxClients] /\ users'[u] \in 1..Len(objs')
    BY <2>1, <2>2, AddClientKeeps
  <2>4. ClientsInv'
    BY <2>1, <2>2, AddedClient
  <2>5. MessagesInv' /\ in' \in Seq(Message)
    BY <1>u, <2>1, <2>2, Unsent DEF Taken
  <2>6. Len(objs') =< MaxClients /\ lws' \in [at : {"publish", "published", "stream", "streamed"}, client : Client]
    BY <2>1, <2>3, RoomAssumption DEF At, Client
  <2>7. TypeOK'
    BY <1>0, <2>1, <2>3, <2>5, <2>6 DEF TypeOK, uiVars
  <2> QED BY <1>u, <2>1, <2>4, <2>5, <2>7 DEF RoomInv
<1>8. CASE SetSendOffer
  <2> DEFINE c == lws.client
             o == Armed(objs[c])
  <2>1. /\ lws.at = "stream" /\ lws' = At("streamed", c) /\ objs' = [objs EXCEPT ![c] = o]
        /\ UNCHANGED <<uiVars, local_published_, mid_, sig, users, netVars, events, refused, failed>>
    BY <1>8 DEF SetSendOffer
  <2>2. c \in 1..Len(objs)
    BY <2>1 DEF RoomInv, ClientsInv, ThreadsInv
  <2>3. objs[c] \in Object /\ objs[c].offers \in Nat /\ objs[c].armed \in Nat /\ c \in Client
    BY <2>2, RoomTypes
  <2>4. /\ o \in Object /\ o.uid = objs[c].uid /\ o.offers = objs[c].offers
        /\ o.armed = objs[c].armed + 1 /\ o.mid = objs[c].mid /\ o.described = objs[c].described
    BY <2>3, ObjectSteps
  <2>5. /\ objs[c].offers =< objs[c].armed
        /\ objs[c].described /\ objs[c].uid # Me => objs[c].mid
    BY <2>2 DEF RoomInv, ClientsInv, OfferOncePerArm, MidInv
  <2>6. o.offers =< o.armed /\ o.offers < o.armed
    BY <2>3, <2>4, <2>5
  <2> HIDE DEF o
  <2>7. ClientsInv' /\ objs' \in Seq(Object) /\ Len(objs') = Len(objs)
    BY <2>1, <2>2, <2>4, <2>5, <2>6, LwsChanged
  <2>8. MessagesInv'
    BY <1>u, <2>1, Unsent DEF Taken
  <2>9. lws' \in [at : {"publish", "published", "stream", "streamed"}, client : Client]
    BY <2>1, <2>3 DEF At
  <2>10. TypeOK'
    BY <1>0, <2>1, <2>7, <2>9 DEF TypeOK, uiVars
  <2> QED BY <1>u, <2>1, <2>7, <2>8, <2>10 DEF RoomInv
<1>9. CASE SetMidAndCreateOffer
  <2> DEFINE c == lws.client
             o == CreateOffer(SetMid(objs[c]))
  <2>1. /\ lws.at = "streamed" /\ lws' = At("idle", None) /\ objs' = [objs EXCEPT ![c] = o]
        /\ UNCHANGED <<uiVars, local_published_, mid_, sig, users, netVars, events, refused, failed>>
    BY <1>9 DEF SetMidAndCreateOffer
  <2>2. c \in 1..Len(objs)
    BY <2>1 DEF RoomInv, ClientsInv, ThreadsInv
  <2>3. objs[c] \in Object
    BY <2>2, RoomTypes
  <2>4. /\ o \in Object /\ o.uid = objs[c].uid /\ o.offers = objs[c].offers
        /\ o.armed = objs[c].armed /\ o.mid /\ o.send_offer_ = objs[c].send_offer_
    BY <2>3, ObjectSteps
  <2>5. /\ objs[c].offers =< objs[c].armed
        /\ objs[c].send_offer_ /\ ~(sig.at = "clear" /\ sig.client = c) => objs[c].offers < objs[c].armed
    BY <2>2 DEF RoomInv, ClientsInv, OfferOncePerArm, ArmedInv
  <2> HIDE DEF o
  <2>6. ClientsInv' /\ objs' \in Seq(Object) /\ Len(objs') = Len(objs)
    BY <2>1, <2>2, <2>4, <2>5, LwsChanged
  <2>7. MessagesInv'
    BY <1>u, <2>1, Unsent DEF Taken
  <2>8. TypeOK'
    BY <1>0, <2>1, <2>6 DEF TypeOK, uiVars, At
  <2> QED BY <1>u, <2>1, <2>6, <2>7, <2>8 DEF RoomInv
<1>10. CASE OnStreamRemove
  <2> DEFINE u == Head(in).uid
  <2>1. /\ Received /\ Head(in).kind \in Notifications /\ Send("unsubscribe", u, TRUE)
        /\ UNCHANGED <<uiVars, local_published_, mid_, lws, sig, users, objs, member, events, refused, failed>>
    BY <1>10 DEF OnStreamRemove, UnSubscribe, Notifications
  <2>2. /\ u \in Uids /\ in # << >> /\ in' = Tail(in) /\ "unsubscribe" \in Commands
        /\ ~Refusal(Head(in))
    BY <2>1, ReceivedMessage DEF Commands
  <2> HIDE DEF u
  <2>3. /\ MessagesInv' /\ in' \in Seq(Message) /\ out' \in Seq(Request)
        /\ sessions' \in Seq([command : Commands, uid : Uids]) /\ Len(sessions') =< MaxRequests
    BY <1>u, <2>1, <2>2, SendKeeps DEF Taken
  <2>4. ClientsInv'
    BY <2>1, SameClients
  <2>5. TypeOK'
    BY <1>0, <2>1, <2>3 DEF TypeOK, uiVars
  <2> QED BY <1>u, <2>1, <2>3, <2>4, <2>5 DEF RoomInv
<1> QED BY <1>1, <1>2, <1>3, <1>4, <1>5, <1>6, <1>7, <1>8, <1>9, <1>10 DEF Lws

\* OnIceCandidate(): the client it finds is the one the candidate is of; an
\* offer is counted for an armed client only.
LEMMA SignalingKeeps == RoomInv /\ Signaling => RoomInv'
<1> SUFFICES ASSUME RoomInv, Signaling PROVE RoomInv'
  OBVIOUS
<1> USE DEF netVars
<1>0. TypeOK /\ ButtonInv
  BY DEF RoomInv
<1>u. UNCHANGED uiVars => AskedIn' = AskedIn /\ ButtonInv'
  BY <1>0 DEF uiVars, AskedIn, ButtonInv
<1>1. ASSUME NEW c \in 1..Len(objs), OnIceCandidate(c) PROVE RoomInv'
  <2> DEFINE d == users[objs[c].uid]
  <2>1. /\ sig.at = "idle" /\ objs[c].described /\ (d = c \/ lws.client = c)
        /\ sig' = (IF d = None THEN sig ELSE At("test", d))
        /\ events < MaxEvents /\ events' = events + 1
        /\ UNCHANGED <<uiVars, local_published_, mid_, lws, users, objs, netVars, refused, failed>>
    BY <1>1 DEF OnIceCandidate, Idle, GetClient
  <2>2. d # None => d = c
    <3>1. c # None
      BY DEF None
    <3>2. lws.client = c => lws.at # "idle"
      BY <1>0, <3>1 DEF TypeOK
    <3> QED BY <2>1, <3>2 DEF RoomInv, ClientsInv, ThreadsInv
  <2> HIDE DEF d
  <2>3. MessagesInv'
    BY <1>u, <2>1, Unsent DEF Taken
  <2>4. ClientsInv'
    <3>1. CASE d = None
      BY <2>1, <3>1, SameClients
    <3>2. CASE d = c
      <4>1. sig' = At("test", c)
        BY <2>1, <3>2 DEF None
      <4>2. sig'.at = "test" /\ sig'.client = c
        BY <4>1 DEF At
      <4>3. UsersInv' /\ OfferOncePerArm'
        BY <2>1 DEF RoomInv, ClientsInv, UsersInv, OfferOncePerArm
      <4>4. ThreadsInv'
        BY <2>1, <4>2 DEF RoomInv, ClientsInv, ThreadsInv
      <4>5. ArmedInv'
        BY <2>1, <4>2 DEF RoomInv, ClientsInv, ArmedInv
      <4>6. MidInv'
        BY <2>1, <4>2 DEF RoomInv, ClientsInv, MidInv
      <4> QED BY <4>3, <4>4, <4>5, <4>6 DEF ClientsInv
    <3> QED BY <2>2, <3>1, <3>2
  <2>5. sig' = sig \/ sig' \in [at : {"test", "clear", "trickle"}, client : Client]
    BY <1>1, <2>1, <2>2, RoomTypes DEF At
  <2>6. events' \in 0..MaxEvents
    BY <1>0, <2>1, RoomAssumption DEF TypeOK
  <2>7. TypeOK'
    BY <1>0, <2>1, <2>5, <2>6 DEF TypeOK, uiVars
  <2> QED BY <1>u, <2>1, <2>3, <2>4, <2>7 DEF RoomInv
<1>2. CASE SendOffer
  <2> DEFINE c == sig.client
             o == objs[c]
  <2>1. /\ sig.at = "test"
        /\ UNCHANGED <<uiVars, local_published_, mid_, lws, users, in, member, events, refused, failed>>
    BY <1>2 DEF SendOffer
  <2>2. c \in 1..Len(objs) /\ (o.uid # Me => o.mid)
    BY <2>1 DEF RoomInv, ClientsInv, ThreadsInv, MidInv
  <2>3. /\ o \in Object /\ o.uid \in Uids /\ o.mid \in BOOLEAN /\ o.offers \in Nat /\ o.armed \in Nat
        /\ c \in Client
    BY <2>2, RoomTypes
  <2>4. sig = At("test", c) /\ sig \in [at : {"test", "clear", "trickle"}, client : Client]
    BY <1>0, <2>1 DEF TypeOK, At
  <2>5. CASE o.send_offer_ /\ GetOffer(o)
    <3> DEFINE p == [o EXCEPT !.offers = @ + 1]
    <3>1. /\ IF o.uid = Me THEN Send("publish", Me, FALSE) ELSE Send("subscribe", o.uid, o.mid)
          /\ objs' = [objs EXCEPT ![c].offers = @ + 1]
          /\ sig' = [sig EXCEPT !.at = "clear"]
      BY <1>2, <2>5 DEF SendOffer, Publish, Subscribe
    <3>2. objs' = [objs EXCEPT ![c] = p]
      BY <2>2, <3>1, RoomTypes
    <3>3. o.offers < o.armed
      BY <2>1, <2>2, <2>5 DEF RoomInv, ClientsInv, ArmedInv
    <3>4. /\ p \in Object /\ p.uid = o.uid /\ p.offers = o.offers + 1 /\ p.armed = o.armed
          /\ p.mid = o.mid /\ p.described = o.described
      BY <2>3 DEF Object
    <3> HIDE DEF p
    <3>5. /\ objs' \in Seq(Object) /\ Len(objs') = Len(objs) /\ objs'[c] = p
          /\ \A d \in 1..Len(objs) : d # c => objs'[d] = objs[d]
          /\ \A d \in 1..Len(objs) : objs'[d].uid = objs[d].uid
          /\ UsersInv'
      BY <2>1, <2>2, <3>2, <3>4, ChangedClient
    <3>6. sig'.at = "clear" /\ sig'.client = c /\ sig' \in [at : {"test", "clear", "trickle"}, client : Client]
      BY <2>4, <3>1
    <3>7. ThreadsInv'
      BY <2>1, <2>2, <3>5, <3>6 DEF RoomInv, ClientsInv, ThreadsInv
    <3>8. p.offers =< p.armed
      BY <2>3, <3>3, <3>4
    <3>9. ArmedInv' /\ OfferOncePerArm'
      BY <2>1, <3>5, <3>6, <3>8 DEF RoomInv, ClientsInv, ArmedInv, OfferOncePerArm
    <3>10. MidInv'
      BY <2>2, <3>4, <3>5, <3>6 DEF RoomInv, ClientsInv, MidInv
    <3>11. /\ MessagesInv' /\ in' \in Seq(Message) /\ out' \in Seq(Request)
           /\ sessions' \in Seq([command : Commands, uid : Uids]) /\ Len(sessions') =< MaxRequests
      <4>1. "publish" \in Commands /\ "subscribe" \in Commands /\ Me \in Uids
        BY DEF Commands, Uids
      <4>2. CASE o.uid = Me
        BY <1>u, <2>1, <3>1, <4>1, <4>2, SendKeeps DEF Taken
      <4>3. CASE o.uid # Me
        <5>1. o.mid /\ Send("subscribe", o.uid, o.mid)
          BY <2>2, <3>1, <4>3
        <5> HIDE DEF o
        <5> QED BY <1>u, <2>1, <2>3, <4>1, <5>1, SendKeeps DEF Taken
      <4> QED BY <4>2, <4>3
    <3>12. TypeOK'
      BY <1>0, <2>1, <3>5, <3>6, <3>11 DEF TypeOK, uiVars
    <3> QED BY <1>u, <2>1, <3>5, <3>7, <3>9, <3>10, <3>11, <3>12 DEF RoomInv, ClientsInv
  <2>6. CASE ~(o.send_offer_ /\ GetOffer(o))
    <3>1. UNCHANGED <<sessions, out, objs>> /\ sig' = [sig EXCEPT !.at = "trickle"]
      BY <1>2, <2>6 DEF SendOffer
    <3>2. sig' \in [at : {"test", "clear", "trickle"}, client : Client]
      BY <2>4, <3>1
    <3>3. MessagesInv'
      BY <1>u, <2>1, <3>1, Unsent DEF Taken
    <3>4. ClientsInv'
      BY <2>1, <3>1, SameClients
    <3>5. TypeOK'
      BY <1>0, <2>1, <3>1, <3>2 DEF TypeOK, uiVars
    <3> QED BY <1>u, <2>1, <3>3, <3>4, <3>5 DEF RoomInv
  <2> QED BY <2>5, <2>6
<1>3. CASE ClearSendOffer
  <2> DEFINE c == sig.client
             o == Sent(objs[c])
  <2>1. /\ sig.at = "clear" /\ objs' = [objs EXCEPT ![c] = o]
        /\ sig' = [sig EXCEPT !.at = "trickle"]
        /\ UNCHANGED <<uiVars, local_published_, mid_, lws, users, netVars, events, refused, failed>>
    BY <1>3 DEF ClearSendOffer
  <2>2. c \in 1..Len(objs)
    BY <2>1 DEF RoomInv, ClientsInv, ThreadsInv
  <2>3. objs[c] \in Object
    BY <2>2, RoomTypes
  <2>4. /\ o \in Object /\ o.uid = objs[c].uid /\ o.mid = objs[c].mid /\ ~o.send_offer_
        /\ o.armed = objs[c].armed /\ o.offers = objs[c].offers /\ o.described = objs[c].described
    BY <2>3, ObjectSteps
  <2> HIDE DEF o
  <2>5. /\ objs' \in Seq(Object) /\ Len(objs') = Len(objs) /\ objs'[c] = o
        /\ \A d \in 1..Len(objs) : d # c => objs'[d] = objs[d]
        /\ \A d \in 1..Len(objs) : objs'[d].uid = objs[d].uid
        /\ UsersInv'
    BY <2>1, <2>2, <2>4, ChangedClient
  <2>6. sig'.at = "trickle" /\ sig'.client = c /\ sig' \in [at : {"test", "clear", "trickle"}, client : Client]
    BY <1>0, <2>1 DEF TypeOK
  <2>7. ThreadsInv'
    BY <2>1, <2>2, <2>5, <2>6 DEF RoomInv, ClientsInv, ThreadsInv
  <2>8. ArmedInv' /\ OfferOncePerArm'
    BY <2>1, <2>4, <2>5, <2>6 DEF RoomInv, ClientsInv, ArmedInv, OfferOncePerArm
  <2>9. MidInv'
    BY <2>1, <2>2, <2>4, <2>5, <2>6 DEF RoomInv, ClientsInv, MidInv
  <2>10. MessagesInv'
    BY <1>u, <2>1, Unsent DEF Taken
  <2>11. TypeOK'
    BY <1>0, <2>1, <2>5, <2>6 DEF TypeOK, uiVars
  <2> QED BY <1>u, <2>1, <2>5, <2>7, <2>8, <2>9, <2>10, <2>11 DEF RoomInv, ClientsInv
<1>4. CASE SendTrickle
  <2> DEFINE uid == objs[sig.client].uid
             mid == objs[sig.client].mid
  <2>1. /\ sig.at = "trickle" /\ Send("trickle", uid, mid) /\ sig' = At("idle", None)
        /\ UNCHANGED <<uiVars, local_published_, mid_, lws, users, objs, in, member, events, refused, failed>>
    BY <1>4 DEF SendTrickle, Trickle
  <2>2. sig.client \in 1..Len(objs) /\ (uid # Me => mid)
    BY <2>1 DEF RoomInv, ClientsInv, ThreadsInv, MidInv
  <2>3. uid \in Uids /\ mid \in BOOLEAN /\ "trickle" \in Commands
    BY <2>2, RoomTypes DEF Commands
  <2> HIDE DEF uid, mid
  <2>4. /\ MessagesInv' /\ in' \in Seq(Message) /\ out' \in Seq(Request)
        /\ sessions' \in Seq([command : Commands, uid : Uids]) /\ Len(sessions') =< MaxRequests
    BY <1>u, <2>1, <2>2, <2>3, SendKeeps DEF Taken
  <2>5. ClientsInv'
    BY <2>1, SameClients
  <2>6. TypeOK'
    BY <1>0, <2>1, <2>4 DEF TypeOK, uiVars, At
  <2> QED BY <1>u, <2>1, <2>4, <2>5, <2>6 DEF RoomInv
<1> QED BY <1>1, <1>2, <1>3, <1>4 DEF Signaling

\* Every step of Room keeps RoomInv.
LEMMA RoomNext == RoomInv /\ [Next]_vars => RoomInv'
<1> SUFFICES ASSUME RoomInv, [Next]_vars PROVE RoomInv'
  OBVIOUS
<1>0. TypeOK /\ ButtonInv
  BY DEF RoomInv
<1>1. CASE ServerAnswers
  <2>1. UNCHANGED <<uiVars, local_published_, mid_, lws, sig, users, objs, sessions, events, refused, failed>>
    BY <1>1 DEF ServerAnswers
  <2>2. MessagesInv' /\ in' \in Seq(Message) /\ out' \in Seq(Request) /\ member' \in {"out", "refused", "in"}
    BY <1>1, AnswerKeeps
  <2>3. ClientsInv'
    BY <2>1, SameClients
  <2>4. TypeOK' /\ ButtonInv'
    BY <1>0, <2>1, <2>2 DEF TypeOK, ButtonInv, uiVars
  <2> QED BY <2>2, <2>3, <2>4 DEF RoomInv
<1>2. ASSUME NEW kind \in Notifications, NEW uid \in Others, ServerNotifies(kind, uid) PROVE RoomInv'
  <2>1. /\ events < MaxEvents /\ events' = events + 1
        /\ UNCHANGED <<uiVars, local_published_, mid_, lws, sig, users, objs, sessions, out, member, refused, failed>>
    BY <1>2 DEF ServerNotifies
  <2>2. MessagesInv' /\ in' \in Seq(Message)
    BY <1>2, NotifyKeeps
  <2>3. ClientsInv'
    BY <2>1, SameClients
  <2>4. events' \in 0..MaxEvents
    BY <1>0, <2>1, RoomAssumption DEF TypeOK
  <2>5. TypeOK' /\ ButtonInv'
    BY <1>0, <2>1, <2>2, <2>4 DEF TypeOK, ButtonInv, uiVars
  <2> QED BY <2>2, <2>3, <2>5 DEF RoomInv
<1>3. CASE UNCHANGED vars
  <2> USE <1>3 DEF vars, uiVars, netVars
  <2>1. AskedIn' = AskedIn
    BY DEF AskedIn
  <2>2. MessagesInv' /\ ClientsInv'
    BY <2>1, Unsent, SameClients DEF Taken
  <2>3. TypeOK' /\ ButtonInv'
    BY <1>0 DEF TypeOK, ButtonInv
  <2> QED BY <2>2, <2>3 DEF RoomInv
<1> QED BY <1>1, <1>2, <1>3, UiKeeps, LwsKeeps, SignalingKeeps DEF Next, Server

-----------------------------------------------------------------------------
(* The theorems.                                                            *)

\* RoomInv holds in every reachable state.
THEOREM RoomInvariant == Spec => []RoomInv
<1> QED BY RoomInit, RoomNext, PTL DEF Spec

\* Every variable has its type, and a thread inside a handler holds a client.
THEOREM RoomTypesHold == Spec => []TypeOK
<1>1. RoomInv => TypeOK
  BY DEF RoomInv
<1> QED BY <1>1, RoomInvariant, PTL

\* FindSession() finds the record of every request and of every answer, whatever
\* threads sent them and in whatever order.
THEOREM ResponsesHaveSessions == Spec => []ResponseHasSession
<1>1. RoomInv => ResponseHasSession
  BY DEF RoomInv, MessagesInv
<1> QED BY <1>1, RoomInvariant, PTL

\* The server is asked in and out in turn; once it has seen all it was told, a
\* member of the room is one whose dialog says so, and the dialog of who is not
\* says so only after a refusal whose box was shown or is on its way.
THEOREM MembershipAgreesAlways == Spec => []MembershipAgrees
<1>1. RoomInv => MembershipAgrees
  <2> SUFFICES ASSUME RoomInv PROVE MembershipAgrees
    OBVIOUS
  <2>1. /\ InTurn /\ LastAgrees /\ ResponseHasSession /\ RefusalInv
        /\ joined_room_ \in BOOLEAN /\ member \in {"out", "refused", "in"}
        /\ Len(out) \in Nat
    BY LenProperties DEF RoomInv, MessagesInv, TypeOK
  <2>2. ASSUME ui = "idle", NothingTold(1..Len(out))
        PROVE  /\ member = "in" => joined_room_
               /\ joined_room_ => member = "in" \/ \E id \in 1..Len(sessions) :
                                                       LastJoin(id) /\ RefusalKnown(id)
    <3>1. AskedIn = joined_room_
      BY <2>1, <2>2 DEF AskedIn
    <3>2. 0 \in 0..Len(out) /\ 0 + 1 = 1 /\ Told(0)
      BY <2>1 DEF Told
    <3>3. AsksIn(0) = joined_room_
      BY <2>1, <2>2, <3>1, <3>2 DEF LastAgrees
    <3>4. (member # "out") = joined_room_
      BY <3>3 DEF AsksIn
    <3>5. ASSUME member = "refused"
          PROVE  \E id \in 1..Len(sessions) : LastJoin(id) /\ RefusalKnown(id)
      <4>1. PICK id \in 1..Len(sessions) : LastRefused(id)
        BY <2>1, <3>5 DEF RefusalInv
      <4>2. ASSUME NEW k \in id + 1..Len(sessions), sessions[k].command = "join" PROVE FALSE
        <5>1. PICK j \in 1..Len(out) : out[j].id = k
          BY <4>1, <4>2 DEF LastRefused
        <5>2. sessions[k] = [command |-> out[j].command, uid |-> out[j].uid] /\ j # 0
          BY <2>1, <5>1 DEF ResponseHasSession
        <5>3. out[j].command = "join"
          BY <4>2, <5>2
        <5> QED BY <2>2, <5>1, <5>2, <5>3 DEF NothingTold, Told
      <4> QED BY <4>1, <4>2 DEF LastRefused, LastJoin
    <3> QED BY <2>1, <3>4, <3>5
  <2> QED BY <2>1, <2>2 DEF MembershipAgrees, InTurn
<1> QED BY <1>1, RoomInvariant, PTL

\* OnIceCandidate() sends at most one offer for each SetSendOffer(true).
THEOREM OffersOncePerArm == Spec => []OfferOncePerArm
<1>1. RoomInv => OfferOncePerArm
  BY DEF RoomInv, ClientsInv
<1> QED BY <1>1, RoomInvariant, PTL

\* Every subscribe and every candidate of a remote client carries its mid.
THEOREM RemotesHaveMid == Spec => []RemoteHasMid
<1>1. RoomInv => RemoteHasMid
  BY DEF RoomInv, MessagesInv
<1> QED BY <1>1, RoomInvariant, PTL
=============================================================================
