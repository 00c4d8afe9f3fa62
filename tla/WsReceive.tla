----------------------------- MODULE WsReceive ------------------------------
(***************************************************************************)
(* Reassembly of received messages in WsClient::lwsCallback().  lws hands  *)
(* a message over in pieces (the protocol's receive buffer is 1024 bytes,  *)
(* and the server may fragment); message_ collects them and the            *)
(* application gets it with the last one.  message_ belongs to the client, *)
(* not to the connection, and is cleared only on delivery.                 *)
(*                                                                         *)
(* A piece of text is a record of the message it is part of and its        *)
(* position in it.                                                         *)
(***************************************************************************)
EXTENDS Integers, Sequences

CONSTANTS
    MaxMsgs,     \* bound: messages the server starts to send
    MaxPieces    \* bound: non-empty pieces of one message

ASSUME ReceiveBoundsAssumption == MaxMsgs \in Nat /\ MaxPieces \in Nat \ {0}

VARIABLES
    message_,    \* the text collected so far
    delivered,   \* what callback_->onReceiveMessage() was called with, in order
    msg,         \* external: number of the message being sent
    pieces,      \* external: its pieces so far
    cut          \* history: messages that ended without a non-empty last piece

vars == <<message_, delivered, msg, pieces, cut>>

Piece == [msg : 1..MaxMsgs, pos : 1..MaxPieces]

\* Every variable has its type; the application is never given an empty text.
TypeOK ==
    /\ message_ \in Seq(Piece)
    /\ delivered \in Seq(Seq(Piece) \ {<< >>})
    /\ msg \in 1..MaxMsgs + 1
    /\ pieces \in 0..MaxPieces
    /\ cut \in SUBSET (1..MaxMsgs)

Init ==
    /\ message_ = << >>
    /\ delivered = << >>
    /\ msg = 1
    /\ pieces = 0
    /\ cut = {}

NextMessage == msg' = msg + 1 /\ pieces' = 0

-----------------------------------------------------------------------------
(* LWS_CALLBACK_CLIENT_RECEIVE, by length and lws_is_final_fragment().      *)

Text == [msg |-> msg, pos |-> pieces + 1]

ReceivePieceOverwrites ==                \* slip: message_ is assigned, not appended to
    /\ msg =< MaxMsgs
    /\ pieces < MaxPieces - 1
    /\ message_' = <<Text>>
    /\ pieces' = pieces + 1
    /\ UNCHANGED <<delivered, msg, cut>>
ReceivePiece ==
    /\ msg =< MaxMsgs
    /\ pieces < MaxPieces - 1
    /\ message_' = Append(message_, Text)
    /\ pieces' = pieces + 1
    /\ UNCHANGED <<delivered, msg, cut>>

AfterDeliveryKept(text) == text          \* slip: message_.clear() is missing
AfterDelivery(text) == << >>

ReceiveLastOfSeveral ==                  \* slip: a message in one piece is not delivered
    /\ msg =< MaxMsgs
    /\ IF message_ = << >>
         THEN message_' = <<Text>> /\ delivered' = delivered
         ELSE /\ delivered' = Append(delivered, Append(message_, Text))
              /\ message_' = AfterDelivery(Append(message_, Text))
    /\ NextMessage
    /\ UNCHANGED cut
ReceiveLast ==
    /\ msg =< MaxMsgs
    /\ delivered' = Append(delivered, Append(message_, Text))
    /\ message_' = AfterDelivery(Append(message_, Text))
    /\ NextMessage
    /\ UNCHANGED cut

\* len = 0: nothing happens, even if it is the last fragment.
ReceiveEmptyLastDelivers ==              \* slip: the test of len is missing
    /\ msg =< MaxMsgs
    /\ delivered' = Append(delivered, message_)
    /\ message_' = AfterDelivery(message_)
    /\ cut' = cut \cup {msg}
    /\ NextMessage
ReceiveEmptyLast ==
    /\ msg =< MaxMsgs
    /\ cut' = cut \cup {msg}
    /\ NextMessage
    /\ UNCHANGED <<message_, delivered>>

\* External: the session ends in the middle of a message or before its first
\* piece, and a later one starts with another message.  No callback touches
\* message_.
SessionLost ==
    /\ msg =< MaxMsgs
    /\ cut' = cut \cup {msg}
    /\ NextMessage
    /\ UNCHANGED <<message_, delivered>>

Next == ReceivePiece \/ ReceiveLast \/ ReceiveEmptyLast \/ SessionLost

Spec == Init /\ [][Next]_vars

-----------------------------------------------------------------------------
(* Properties.                                                              *)

\* The piece that completed a delivery: its message, and how many pieces that
\* message has.
LastMsg(text) == text[Len(text)].msg
OwnPieces(text) == text[Len(text)].pos

\* What is delivered ends with every piece of one message, in order: no
\* piece of the message that completes a delivery is missing or repeated.
\* Pieces of an earlier message spill into it only if that message was cut off
\* by the loss of a session or ended in an empty fragment: a message that was
\* itself delivered never does.
DeliveredWhole ==
    \A i \in 1..Len(delivered) :
        LET text == delivered[i]
            spilled == Len(text) - OwnPieces(text)
        IN  /\ spilled >= 0
            /\ \A k \in 1..Len(text) :
                  IF k > spilled
                    THEN text[k] = [msg |-> LastMsg(text), pos |-> k - spilled]
                    ELSE text[k].msg \in cut \ {LastMsg(text)}

\* Messages are delivered at most once and in the order sent, and exactly
\* those that were not cut off.
DeliveredExactlyUncut ==
    /\ \A i, j \in 1..Len(delivered) :
          i < j => LastMsg(delivered[i]) < LastMsg(delivered[j])
    /\ {LastMsg(delivered[i]) : i \in 1..Len(delivered)} = (1..msg - 1) \ cut
=============================================================================
