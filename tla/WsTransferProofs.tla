-------------------------- MODULE WsTransferProofs --------------------------
(***************************************************************************)
(* Proofs about how WsClient transfers messages: the reassembly of what is  *)
(* received, module WsReceive, and the writing of what is sent, module      *)
(* SendBuffer.                                                              *)
(***************************************************************************)
EXTENDS WsReceive, SendBuffer, SequenceTheorems, TLAPS

-----------------------------------------------------------------------------
(* Receiving.                                                               *)

\* message_ ends with the pieces of the message being received; what is before
\* them was left by messages cut off.
Collected(text) ==
    /\ Len(text) >= pieces
    /\ \A k \in 1..Len(text) :
          IF k > Len(text) - pieces
            THEN text[k] = [msg |-> msg, pos |-> k - (Len(text) - pieces)]
            ELSE text[k].msg \in cut

\* Only messages already over are cut off.
CutBefore == \A m \in cut : m < msg

ReceiveInv ==
    /\ TypeOK /\ pieces < MaxPieces
    /\ Collected(message_) /\ CutBefore
    /\ DeliveredWhole /\ DeliveredExactlyUncut

\* Nothing is collected or delivered at the start.
LEMMA ReceiveInit == Init => ReceiveInv
<1> SUFFICES ASSUME Init PROVE ReceiveInv
  OBVIOUS
<1> USE ReceiveBoundsAssumption DEF Init
<1>1. Len(message_) = 0 /\ Len(delivered) = 0
  OBVIOUS
<1>2. TypeOK /\ pieces < MaxPieces
  BY DEF TypeOK
<1>3. Collected(message_) /\ CutBefore
  BY <1>1 DEF Collected, CutBefore
<1>4. DeliveredWhole
  BY <1>1 DEF DeliveredWhole
<1>5. DeliveredExactlyUncut
  BY <1>1 DEF DeliveredExactlyUncut
<1> QED BY <1>2, <1>3, <1>4, <1>5 DEF ReceiveInv

\* The text with the next piece added.
LEMMA PieceAdded ==
    ASSUME ReceiveInv, msg =< MaxMsgs, NEW text, text = Append(message_, Text)
    PROVE  /\ text \in Seq(Piece) /\ text # << >>
           /\ Len(message_) \in Nat /\ Len(text) = Len(message_) + 1
           /\ Len(text) - (pieces + 1) >= 0 /\ pieces \in Nat /\ msg \in Nat
           /\ \A k \in 1..Len(text) :
                 IF k > Len(text) - (pieces + 1)
                   THEN text[k] = [msg |-> msg, pos |-> k - (Len(text) - (pieces + 1))]
                   ELSE text[k].msg \in cut
           /\ LastMsg(text) = msg /\ OwnPieces(text) = pieces + 1
<1> USE ReceiveBoundsAssumption
<1>1. message_ \in Seq(Piece) /\ msg \in 1..MaxMsgs + 1 /\ pieces \in 0..MaxPieces /\ pieces < MaxPieces
  BY DEF ReceiveInv, TypeOK
<1>2. Text \in Piece
  BY <1>1 DEF Text, Piece
<1>3. /\ text \in Seq(Piece) /\ Len(message_) \in Nat /\ Len(text) = Len(message_) + 1
      /\ \A k \in 1..Len(message_) : text[k] = message_[k]
      /\ text[Len(message_) + 1] = Text
  BY <1>1, <1>2, AppendProperties, LenProperties
<1>4. /\ Len(message_) >= pieces
      /\ \A k \in 1..Len(message_) :
            IF k > Len(message_) - pieces
              THEN message_[k] = [msg |-> msg, pos |-> k - (Len(message_) - pieces)]
              ELSE message_[k].msg \in cut
  BY DEF ReceiveInv, Collected
<1>5. Len(text) - (pieces + 1) = Len(message_) - pieces
  BY <1>1, <1>3
<1>6. ASSUME NEW k \in 1..Len(text)
      PROVE  IF k > Len(text) - (pieces + 1)
               THEN text[k] = [msg |-> msg, pos |-> k - (Len(text) - (pieces + 1))]
               ELSE text[k].msg \in cut
  <2>1. CASE k \in 1..Len(message_)
    BY <1>3, <1>4, <1>5, <2>1
  <2>2. CASE k = Len(message_) + 1
    <3>1. k > Len(text) - (pieces + 1) /\ k - (Len(text) - (pieces + 1)) = pieces + 1
      BY <1>1, <1>3, <2>2
    <3> QED BY <1>3, <2>2, <3>1 DEF Text
  <2> QED BY <1>3, <2>1, <2>2
<1>7. Len(text) - (pieces + 1) >= 0 /\ text # << >>
  BY <1>1, <1>3, <1>4
<1>8. LastMsg(text) = msg /\ OwnPieces(text) = pieces + 1
  BY <1>3 DEF LastMsg, OwnPieces, Text
<1> QED BY <1>1, <1>3, <1>6, <1>7, <1>8

\* What was delivered stays as it was when messages that are not over are cut off.
LEMMA SameDeliveries ==
    ASSUME ReceiveInv, UNCHANGED delivered, cut \subseteq cut'
    PROVE  DeliveredWhole'
<1> QED BY DEF ReceiveInv, DeliveredWhole, LastMsg, OwnPieces

\* A message is cut off.
LEMMA CutKeeps ==
    ASSUME ReceiveInv, msg =< MaxMsgs, cut' = cut \cup {msg}, NextMessage,
           UNCHANGED <<message_, delivered>>
    PROVE  ReceiveInv'
<1> USE ReceiveBoundsAssumption DEF NextMessage
<1>1. /\ message_ \in Seq(Piece) /\ msg \in 1..MaxMsgs + 1 /\ pieces \in 0..MaxPieces
      /\ cut \in SUBSET (1..MaxMsgs) /\ Len(message_) \in Nat
  BY LenProperties DEF ReceiveInv, TypeOK
<1>2. msg \in 1..MaxMsgs /\ msg' \in 1..MaxMsgs + 1 /\ pieces' \in 0..MaxPieces /\ pieces' < MaxPieces
  BY <1>1
<1>3. TypeOK'
  BY <1>1, <1>2 DEF ReceiveInv, TypeOK
<1>4. \A k \in 1..Len(message_) : message_[k].msg \in cut'
  <2> TAKE k \in 1..Len(message_)
  <2>1. \/ message_[k] = [msg |-> msg, pos |-> k - (Len(message_) - pieces)]
        \/ message_[k].msg \in cut
    BY DEF ReceiveInv, Collected
  <2> QED BY <2>1
<1>5. Collected(message_)'
  BY <1>1, <1>4 DEF Collected
<1>6. CutBefore'
  BY <1>1 DEF ReceiveInv, CutBefore
<1>7. DeliveredExactlyUncut'
  <2>1. (1..msg' - 1) \ cut' = (1..msg - 1) \ cut
    BY <1>1
  <2> QED BY <2>1 DEF ReceiveInv, DeliveredExactlyUncut, LastMsg
<1> QED BY <1>2, <1>3, <1>5, <1>6, <1>7, SameDeliveries DEF ReceiveInv

\* message_.append(): one more piece of the same message.
LEMMA ReceivePieceKeeps == ReceiveInv /\ ReceivePiece => ReceiveInv'
<1> SUFFICES ASSUME ReceiveInv, ReceivePiece PROVE ReceiveInv'
  OBVIOUS
<1> USE ReceiveBoundsAssumption
<1>1. /\ msg =< MaxMsgs /\ pieces < MaxPieces - 1 /\ message_' = Append(message_, Text)
      /\ pieces' = pieces + 1 /\ UNCHANGED <<delivered, msg, cut>>
  BY DEF ReceivePiece
<1>2. /\ message_' \in Seq(Piece) /\ pieces \in Nat
      /\ Len(message_') - (pieces + 1) >= 0
      /\ Len(message_) \in Nat /\ Len(message_') = Len(message_) + 1
      /\ \A k \in 1..Len(message_') :
            IF k > Len(message_') - (pieces + 1)
              THEN message_'[k] = [msg |-> msg, pos |-> k - (Len(message_') - (pieces + 1))]
              ELSE message_'[k].msg \in cut
  BY <1>1, PieceAdded
<1>3. pieces' \in 0..MaxPieces /\ pieces' < MaxPieces /\ Len(message_') >= pieces'
  BY <1>1, <1>2
<1>4. TypeOK'
  BY <1>1, <1>2, <1>3 DEF ReceiveInv, TypeOK
<1>5. Collected(message_)'
  BY <1>1, <1>2, <1>3 DEF Collected
<1>6. CutBefore' /\ DeliveredWhole' /\ DeliveredExactlyUncut'
  BY <1>1, SameDeliveries DEF ReceiveInv, CutBefore, DeliveredExactlyUncut, LastMsg
<1> QED BY <1>3, <1>4, <1>5, <1>6 DEF ReceiveInv

\* The last piece: the text is delivered and message_ cleared.
LEMMA ReceiveLastKeeps == ReceiveInv /\ ReceiveLast => ReceiveInv'
<1> SUFFICES ASSUME ReceiveInv, ReceiveLast PROVE ReceiveInv'
  OBVIOUS
<1> USE ReceiveBoundsAssumption
<1>0. PICK text : text = Append(message_, Text)
  OBVIOUS
<1>1. /\ msg =< MaxMsgs /\ delivered' = Append(delivered, text) /\ message_' = << >>
      /\ msg' = msg + 1 /\ pieces' = 0 /\ cut' = cut
  BY <1>0 DEF ReceiveLast, AfterDelivery, NextMessage
<1>2. /\ text \in Seq(Piece) /\ text # << >> /\ pieces \in Nat /\ msg \in Nat
      /\ Len(message_) \in Nat /\ Len(text) = Len(message_) + 1
      /\ Len(text) - (pieces + 1) >= 0
      /\ \A k \in 1..Len(text) :
            IF k > Len(text) - (pieces + 1)
              THEN text[k] = [msg |-> msg, pos |-> k - (Len(text) - (pieces + 1))]
              ELSE text[k].msg \in cut
      /\ LastMsg(text) = msg /\ OwnPieces(text) = pieces + 1
  BY <1>0, <1>1, PieceAdded
<1>3. /\ delivered \in Seq(Seq(Piece) \ {<< >>}) /\ msg \in 1..MaxMsgs + 1
      /\ cut \in SUBSET (1..MaxMsgs) /\ CutBefore
  BY DEF ReceiveInv, TypeOK
<1>4. /\ delivered' \in Seq(Seq(Piece) \ {<< >>})
      /\ Len(delivered) \in Nat /\ Len(delivered') = Len(delivered) + 1
      /\ \A i \in 1..Len(delivered) : delivered'[i] = delivered[i]
      /\ delivered'[Len(delivered) + 1] = text
  BY <1>1, <1>2, <1>3, AppendProperties, LenProperties
<1>5. /\ \A i \in 1..Len(delivered') : i \in 1..Len(delivered) \/ i = Len(delivered) + 1
      /\ \A i \in 1..Len(delivered) : i \in 1..Len(delivered')
      /\ Len(delivered) + 1 \in 1..Len(delivered')
      /\ \A i, j \in 1..Len(delivered') : i < j => i \in 1..Len(delivered)
  BY <1>4
<1>6. TypeOK' /\ pieces' < MaxPieces
  <2>1. msg' \in 1..MaxMsgs + 1 /\ pieces' \in 0..MaxPieces /\ pieces' < MaxPieces
    BY <1>1, <1>3
  <2>2. message_' \in Seq(Piece)
    BY <1>1
  <2> QED BY <1>1, <1>3, <1>4, <2>1, <2>2 DEF TypeOK
<1>7. Collected(message_)' /\ CutBefore'
  <2>1. Len(message_') = 0
    BY <1>1
  <2>2. CutBefore'
    BY <1>1, <1>3 DEF CutBefore
  <2> QED BY <1>1, <2>1, <2>2 DEF Collected
<1>8. msg \notin cut
  BY <1>2, <1>3 DEF CutBefore
<1>9. DeliveredWhole'
  <2>1. ASSUME NEW i \in 1..Len(delivered')
        PROVE  /\ Len(delivered'[i]) - OwnPieces(delivered'[i]) >= 0
               /\ \A k \in 1..Len(delivered'[i]) :
                     IF k > Len(delivered'[i]) - OwnPieces(delivered'[i])
                       THEN delivered'[i][k] = [msg |-> LastMsg(delivered'[i]),
                                                pos |-> k - (Len(delivered'[i]) - OwnPieces(delivered'[i]))]
                       ELSE delivered'[i][k].msg \in cut \ {LastMsg(delivered'[i])}
    <3>1. CASE i \in 1..Len(delivered)
      BY <1>4, <3>1 DEF ReceiveInv, DeliveredWhole
    <3>2. CASE i = Len(delivered) + 1
      <4>1. delivered'[i] = text
        BY <1>4, <3>2
      <4>2. \A k \in 1..Len(text) :
               IF k > Len(text) - (pieces + 1)
                 THEN text[k] = [msg |-> msg, pos |-> k - (Len(text) - (pieces + 1))]
                 ELSE text[k].msg \in cut \ {msg}
        BY <1>2, <1>8
      <4> QED BY <1>2, <4>1, <4>2
    <3> QED BY <1>5, <3>1, <3>2
  <2> QED BY <1>1, <2>1 DEF DeliveredWhole, LastMsg, OwnPieces
<1>10. DeliveredExactlyUncut'
  <2>1. /\ \A i, j \in 1..Len(delivered) : i < j => LastMsg(delivered[i]) < LastMsg(delivered[j])
        /\ {LastMsg(delivered[i]) : i \in 1..Len(delivered)} = (1..msg - 1) \ cut
    BY DEF ReceiveInv, DeliveredExactlyUncut
  <2>2. \A i \in 1..Len(delivered) : LastMsg(delivered[i]) \in 1..msg - 1
    BY <2>1
  <2>3. ASSUME NEW i \in 1..Len(delivered'), NEW j \in 1..Len(delivered'), i < j
        PROVE  LastMsg(delivered'[i]) < LastMsg(delivered'[j])
    <3>1. i \in 1..Len(delivered)
      BY <1>5, <2>3
    <3>2. CASE j \in 1..Len(delivered)
      BY <1>4, <2>1, <2>3, <3>1, <3>2
    <3>3. CASE j = Len(delivered) + 1
      BY <1>2, <1>4, <2>2, <3>1, <3>3
    <3> QED BY <1>5, <3>2, <3>3
  <2>4. {LastMsg(delivered'[i]) : i \in 1..Len(delivered')}
           = {LastMsg(delivered[i]) : i \in 1..Len(delivered)} \cup {msg}
    BY <1>2, <1>4, <1>5
  <2>5. (1..msg' - 1) \ cut = ((1..msg - 1) \ cut) \cup {msg}
    BY <1>1, <1>3, <1>8
  <2> QED BY <1>1, <2>1, <2>3, <2>4, <2>5 DEF DeliveredExactlyUncut, LastMsg
<1> QED BY <1>6, <1>7, <1>9, <1>10 DEF ReceiveInv

\* Every step of WsReceive keeps ReceiveInv.
LEMMA ReceiveNext == ReceiveInv /\ [Next]_vars => ReceiveInv'
<1> SUFFICES ASSUME ReceiveInv, [Next]_vars PROVE ReceiveInv'
  OBVIOUS
<1>1. CASE ReceiveEmptyLast \/ SessionLost
  BY <1>1, CutKeeps DEF ReceiveEmptyLast, SessionLost
<1>2. CASE UNCHANGED vars
  <2>1. TypeOK' /\ Collected(message_)' /\ CutBefore'
    BY <1>2 DEF vars, ReceiveInv, TypeOK, Collected, CutBefore
  <2>2. DeliveredWhole' /\ DeliveredExactlyUncut'
    BY <1>2, SameDeliveries DEF vars, ReceiveInv, DeliveredExactlyUncut, LastMsg
  <2> QED BY <1>2, <2>1, <2>2 DEF vars, ReceiveInv
<1> QED BY <1>1, <1>2, ReceivePieceKeeps, ReceiveLastKeeps DEF Next

-----------------------------------------------------------------------------
(* The theorems.                                                            *)

\* ReceiveInv holds in every reachable state.
THEOREM ReceiveInvariant == Spec => []ReceiveInv
<1> QED BY ReceiveInit, ReceiveNext, PTL DEF Spec

\* onReceiveMessage() is called with all the pieces of one message, in order, and
\* before them only pieces of messages that were cut off.
THEOREM DeliversWhole == Spec => []DeliveredWhole
<1>1. ReceiveInv => DeliveredWhole
  BY DEF ReceiveInv
<1> QED BY <1>1, ReceiveInvariant, PTL

\* onReceiveMessage() is called once for each message that was not cut off, in
\* the order sent.
THEOREM DeliversExactlyUncut == Spec => []DeliveredExactlyUncut
<1>1. ReceiveInv => DeliveredExactlyUncut
  BY DEF ReceiveInv
<1> QED BY <1>1, ReceiveInvariant, PTL

-----------------------------------------------------------------------------
(* Sending, for every size of the buffer, every LWS_PRE and messages of     *)
(* every length.                                                            *)

\* What the loop relies on: the bytes of a fitting message that are not yet
\* taken are still in their places, whatever headers were written before.
RestInPlace ==
    len =< Longest /\ at = "loop" =>
        \A i \in offset..len - 1 : buffer_[Pre + i] = i + 1

\* An idle loop has taken all, or failed.
TakenAll == at = "idle" /\ ~failed => offset = len

TakenInOrder == len =< Longest => \A i \in 1..Len(taken) : taken[i] = i

SendInv == SendTypeOK /\ RestInPlace /\ TakenAll /\ TakenInOrder /\ (outside <=> len > Longest)

\* What snprintf() stores is a length, and the whole message when it fits.
LEMMA StoredFits ==
    ASSUME NEW n \in 0..MaxLength
    PROVE  /\ Stored(n) \in Nat
           /\ n =< Longest => Stored(n) = n
           /\ Pre + Stored(n) + 1 > BufferSize <=> n > Longest
           /\ Pre + Stored(n) + 1 =< BufferSize + Pre
  BY SendBufferAssumption DEF Stored, Longest

\* A message that is formatted has its bytes in place.
LEMMA FormatKeeps ==
    ASSUME SendInv, NEW n \in 0..MaxLength, Format(n)
    PROVE  SendInv'
<1>1. /\ Stored(n) \in Nat
      /\ n =< Longest => Stored(n) = n
      /\ (Pre + Stored(n) + 1 > BufferSize) <=> n > Longest
  BY StoredFits
<1>2. buffer_' \in [Index -> 0..MaxLength]
  <2>1. Stored(n) =< n
    BY SendBufferAssumption DEF Stored
  <2>2. \A i \in Index : i \in Pre..Pre + Stored(n) - 1 => i - Pre + 1 \in 0..MaxLength
    BY <1>1, <2>1, SendBufferAssumption DEF Index
  <2>3. buffer_ \in [Index -> 0..MaxLength] /\ 0 \in 0..MaxLength
    BY SendBufferAssumption DEF SendInv, SendTypeOK
  <2> QED BY <2>2, <2>3 DEF Format
<1>3. SendTypeOK'
  <2>1. taken' \in Seq(0..MaxLength) /\ Len(taken') = 0
    BY DEF Format
  <2>2. offset' \in 0..len' /\ len' \in 0..MaxLength /\ Len(taken') = offset'
    BY <2>1, SendBufferAssumption DEF Format
  <2>3. outside' \in BOOLEAN
    <3>1. CASE Pre + Stored(n) + 1 > BufferSize
      BY <3>1 DEF Format
    <3>2. CASE ~(Pre + Stored(n) + 1 > BufferSize)
      BY <3>2 DEF Format
    <3> QED BY <3>1, <3>2
  <2>4. failed' \in BOOLEAN /\ at' = "loop"
    BY DEF Format
  <2> QED BY <1>2, <2>1, <2>2, <2>3, <2>4 DEF SendTypeOK
<1>4. RestInPlace'
  <2> SUFFICES ASSUME n =< Longest, NEW i \in 0..n - 1
               PROVE  buffer_'[Pre + i] = i + 1
    BY DEF RestInPlace, Format, Longest
  <2>1. Pre + i \in Index /\ Pre + i \in Pre..Pre + Stored(n) - 1
    BY <1>1, SendBufferAssumption DEF Index, Longest
  <2>2. buffer_'[Pre + i] = (Pre + i) - Pre + 1
    BY <2>1 DEF Format
  <2> QED BY <2>2, SendBufferAssumption
<1>5. TakenAll' /\ TakenInOrder'
  BY DEF TakenAll, TakenInOrder, Format
<1>6. (outside <=> len > Longest)'
  BY <1>1 DEF Format, Longest
<1> QED BY <1>3, <1>4, <1>5, <1>6 DEF SendInv

\* A piece that is written is the next one of the message, and the header in
\* front of it does not reach what follows.
LEMMA WriteKeeps ==
    ASSUME SendInv, NEW r \in 1..MaxLength, Write(r)
    PROVE  SendInv'
<1> DEFINE piece == [i \in 1..r |-> Found(Given(offset) + i - 1)]
<1>1. /\ offset \in 0..len /\ len \in 0..MaxLength /\ r \in 1..len - offset
      /\ at = "loop" /\ Len(taken) = offset /\ taken \in Seq(0..MaxLength)
      /\ buffer_ \in [Index -> 0..MaxLength]
  BY DEF SendInv, SendTypeOK, Write, Unfinished
<1>2. \A i \in 1..r : piece[i] \in 0..MaxLength
  BY <1>1, SendBufferAssumption DEF Found, Index, Given
<1>3. piece \in Seq(0..MaxLength) /\ Len(piece) = r
  BY <1>1, <1>2
<1>4. /\ taken' = taken \o piece
      /\ taken' \in Seq(0..MaxLength)
      /\ Len(taken') = offset + r
      /\ \A i \in 1..offset : taken'[i] = taken[i]
      /\ \A i \in offset + 1..offset + r : taken'[i] = piece[i - offset]
  <2>1. taken' = taken \o piece
    BY DEF Write
  <2> HIDE DEF piece
  <2>2. /\ taken \o piece \in Seq(0..MaxLength)
        /\ Len(taken \o piece) = offset + r
        /\ \A i \in 1..offset + r :
              (taken \o piece)[i] = IF i =< offset THEN taken[i] ELSE piece[i - offset]
    BY <1>1, <1>3, ConcatProperties
  <2>3. /\ \A i \in 1..offset : i \in 1..offset + r /\ i =< offset
        /\ \A i \in offset + 1..offset + r : i \in 1..offset + r /\ ~(i =< offset)
    BY <1>1
  <2> QED BY <2>1, <2>2, <2>3
<1>5. SendTypeOK'
  <2>1. buffer_' \in [Index -> 0..MaxLength]
    BY <1>1, SendBufferAssumption DEF Write
  <2> QED BY <1>1, <1>4, <2>1, SendBufferAssumption DEF Write, SendInv, SendTypeOK
<1>6. RestInPlace'
  <2> SUFFICES ASSUME len =< Longest, NEW i \in offset + r..len - 1
               PROVE  buffer_'[Pre + i] = i + 1
    BY <1>1 DEF RestInPlace, Write, Longest
  <2>1. Pre + i \in Index /\ Pre + i \notin offset..offset + Pre - 1
    BY <1>1, SendBufferAssumption DEF Index, Longest
  <2>2. buffer_[Pre + i] = i + 1
    BY <1>1 DEF SendInv, RestInPlace
  <2> QED BY <2>1, <2>2 DEF Write
<1>7. TakenInOrder'
  <2> SUFFICES ASSUME len =< Longest, NEW i \in 1..offset + r
               PROVE  taken'[i] = i
    BY <1>4 DEF TakenInOrder, Write, Longest
  <2>1. CASE i =< offset
    BY <1>1, <1>4, <2>1 DEF SendInv, TakenInOrder
  <2>2. CASE i > offset
    <3>0. i - offset \in 1..r /\ i \in offset + 1..offset + r
      BY <1>1, <2>2
    <3>1. taken'[i] = Found(offset + (i - offset) - 1)
      BY <1>4, <3>0 DEF Given
    <3>2. Pre + (i - 1) \in Index /\ i - 1 \in offset..len - 1
      BY <1>1, <2>2, SendBufferAssumption DEF Index, Longest
    <3>3. Found(i - 1) = buffer_[Pre + (i - 1)]
      BY <3>2 DEF Found
    <3>4. buffer_[Pre + (i - 1)] = (i - 1) + 1
      BY <1>1, <3>2 DEF SendInv, RestInPlace
    <3> QED BY <1>1, <3>1, <3>3, <3>4
  <2> QED BY <1>1, <2>1, <2>2
<1>8. TakenAll' /\ (outside <=> len > Longest)'
  BY <1>1 DEF SendInv, TakenAll, Write, Longest
<1> QED BY <1>5, <1>6, <1>7, <1>8 DEF SendInv

\* The invariant is inductive.
LEMMA SendInductive == SendSpec => []SendInv
<1>1. SendInit => SendInv
  <2> SUFFICES ASSUME SendInit PROVE SendInv
    OBVIOUS
  <2>1. buffer_ \in [Index -> 0..MaxLength] /\ taken \in Seq(0..MaxLength) /\ Len(taken) = 0
    BY SendBufferAssumption DEF SendInit
  <2>2. SendTypeOK
    <3>1. len \in 0..MaxLength /\ offset \in 0..len /\ Len(taken) = offset
      BY <2>1, SendBufferAssumption DEF SendInit
    <3>2. at = "idle" /\ outside \in BOOLEAN /\ failed \in BOOLEAN
      BY DEF SendInit
    <3> QED BY <2>1, <3>1, <3>2 DEF SendTypeOK
  <2>3. RestInPlace /\ TakenAll /\ TakenInOrder
    BY <2>1 DEF SendInit, RestInPlace, TakenAll, TakenInOrder
  <2>4. outside <=> len > Longest
    BY SendBufferAssumption DEF SendInit, Longest
  <2> QED BY <2>2, <2>3, <2>4 DEF SendInv
<1>2. SendInv /\ [SendNext]_sendVars => SendInv'
  <2> SUFFICES ASSUME SendInv, [SendNext]_sendVars PROVE SendInv'
    OBVIOUS
  <2>1. ASSUME NEW n \in 0..MaxLength, Format(n) PROVE SendInv'
    BY <2>1, FormatKeeps
  <2>2. ASSUME NEW r \in 1..MaxLength, Write(r) PROVE SendInv'
    BY <2>2, WriteKeeps
  <2>3. CASE WriteFails
    BY <2>3 DEF WriteFails, SendInv, SendTypeOK, RestInPlace, TakenAll, TakenInOrder, Longest
  <2>4. CASE Pop
    BY <2>4 DEF Pop, SendInv, SendTypeOK, RestInPlace, TakenAll, TakenInOrder, Longest
  <2>5. CASE UNCHANGED sendVars
    BY <2>5 DEF sendVars, SendInv, SendTypeOK, RestInPlace, TakenAll, TakenInOrder, Longest
  <2> QED BY <2>1, <2>2, <2>3, <2>4, <2>5 DEF SendNext
<1> QED BY <1>1, <1>2, PTL DEF SendSpec

\* Every variable of drainMessageQueue() keeps its type, and lws_write() never
\* took more or less than offset says.
THEOREM BufferTypes == SendSpec => []SendTypeOK
  BY SendInductive, PTL DEF SendInv

\* A message that fits reaches lws byte for byte, whole unless a write failed,
\* for every way lws cuts it up.
THEOREM FittingMessages == SendSpec => []FittingSentWhole
<1>1. SendInv => FittingSentWhole
  BY DEF SendInv, SendTypeOK, TakenAll, TakenInOrder, FittingSentWhole
<1> QED BY SendInductive, <1>1, PTL

\* snprintf() stays inside the buffer exactly for the messages that fit behind
\* LWS_PRE.
THEOREM FormattingBounds == SendSpec => []InsideIfFits
<1>1. SendInv => InsideIfFits
  BY StoredFits DEF SendInv, SendTypeOK, InsideIfFits
<1> QED BY SendInductive, <1>1, PTL
=============================================================================
