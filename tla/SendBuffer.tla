----------------------------- MODULE SendBuffer -----------------------------
(***************************************************************************)
(* How drainMessageQueue() of src/WsClient.cpp writes one message: it is   *)
(* formatted into buffer_ behind LWS_PRE bytes that lws needs for frame    *)
(* headers, and handed to lws_write() until all is taken.                  *)
(*                                                                         *)
(* The bytes of a message are their positions 1, 2, ...; 0 is any other    *)
(* byte.  External: lws_write() puts a header into the LWS_PRE bytes in    *)
(* front of what it is given, takes a part of it or all, or fails.         *)
(***************************************************************************)
EXTENDS Integers, Sequences

CONSTANTS
    BufferSize, \* WS_MESSAGE_MAX_SIZE (32768)
    Pre,        \* LWS_PRE
    MaxLength   \* bound: length of a message

ASSUME SendBufferAssumption ==
    /\ BufferSize \in Nat /\ Pre \in Nat \ {0} /\ MaxLength \in Nat
    /\ Pre < BufferSize

VARIABLES
    at,         \* "idle", or "loop" in the write loop
    buffer_,    \* [0..BufferSize - 1 -> byte]
    len, offset,
    outside,    \* snprintf() wrote behind the end of buffer_
    failed,     \* the last message met an lws_write() that failed
    taken       \* the bytes of the last message that lws_write() took, in order

sendVars == <<at, buffer_, len, offset, outside, failed, taken>>

Index == 0..BufferSize - 1

\* Every variable has its type, and lws_write() was given len bytes in all.
SendTypeOK ==
    /\ at \in {"idle", "loop"}
    /\ buffer_ \in [Index -> 0..MaxLength]
    /\ len \in 0..MaxLength
    /\ offset \in 0..len
    /\ outside \in BOOLEAN /\ failed \in BOOLEAN
    /\ taken \in Seq(0..MaxLength) /\ Len(taken) = offset

SendInit ==
    /\ at = "idle"
    /\ buffer_ = [i \in Index |-> 0]
    /\ len = 0 /\ offset = 0
    /\ outside = FALSE /\ failed = FALSE
    /\ taken = << >>

\* snprintf(): at most BufferSize - 1 bytes and a NUL, from LWS_PRE on.
StoredAll(n) == n                       \* slip: sprintf()
Stored(n) == IF n < BufferSize THEN n ELSE BufferSize - 1

\* The front message, of n bytes, is formatted; len is snprintf()'s result,
\* the length of the whole message.
Format(n) ==
    /\ at = "idle"
    /\ at' = "loop"
    /\ buffer_' = [i \in Index |-> IF i \in Pre..Pre + Stored(n) - 1 THEN i - Pre + 1
                                   ELSE IF i = Pre + Stored(n) THEN 0 ELSE buffer_[i]]
    /\ outside' = (Pre + Stored(n) + 1 > BufferSize)
    /\ len' = n
    /\ offset' = 0
    /\ failed' = FALSE
    /\ taken' = << >>

\* Where the bytes given to lws_write() begin, and what it finds there.
Given(o) == o

Found(i) == IF Pre + i \in Index THEN buffer_[Pre + i] ELSE 0

Unfinished == at = "loop" /\ offset < len

\* lws_write() takes r of the bytes left.
WriteAssigns(r) ==                      \* slip: offset = ret
    /\ Unfinished
    /\ r \in 1..len - offset
    /\ taken' = taken \o [i \in 1..r |-> Found(Given(offset) + i - 1)]
    /\ offset' = r
    /\ UNCHANGED <<at, buffer_, len, outside, failed>>
Write(r) ==
    /\ Unfinished
    /\ r \in 1..len - offset
    /\ taken' = taken \o [i \in 1..r |-> Found(Given(offset) + i - 1)]
    /\ buffer_' = [i \in Index |-> IF i \in offset..offset + Pre - 1 THEN 0 ELSE buffer_[i]]
    /\ offset' = offset + r
    /\ UNCHANGED <<at, len, outside, failed>>

\* It fails, or takes nothing: the loop is left and the message popped.
WriteFails ==
    /\ Unfinished
    /\ at' = "idle"
    /\ failed' = TRUE
    /\ UNCHANGED <<buffer_, len, offset, outside, taken>>

\* All is taken; the message is popped.
PopEarly ==                             \* slip: the loop is not one
    /\ at = "loop"
    /\ offset > 0 \/ len = 0
    /\ at' = "idle"
    /\ UNCHANGED <<buffer_, len, offset, outside, failed, taken>>
Pop ==
    /\ at = "loop"
    /\ offset >= len
    /\ at' = "idle"
    /\ UNCHANGED <<buffer_, len, offset, outside, failed, taken>>

SendNext ==
    \/ \E n \in 0..MaxLength : Format(n)
    \/ \E r \in 1..MaxLength : Write(r)
    \/ WriteFails \/ Pop

SendSpec == SendInit /\ [][SendNext]_sendVars

-----------------------------------------------------------------------------
(* Properties.                                                              *)

\* The longest message that fits with its NUL behind LWS_PRE.
Longest == BufferSize - Pre - 1

\* A message that fits is handed to lws byte for byte, in whatever pieces lws
\* takes it and although every piece's header overwrites bytes of the buffer;
\* all of it unless a write failed.
FittingSentWhole ==
    len =< Longest =>
        /\ \A i \in 1..Len(taken) : taken[i] = i
        /\ at = "idle" /\ ~failed => Len(taken) = len

\* snprintf() is told BufferSize, not what is left behind LWS_PRE: it stays in
\* the buffer exactly for the messages that fit, and passes its end by LWS_PRE
\* bytes at most.
InsideIfFits ==
    /\ outside <=> len > Longest
    /\ Pre + Stored(len) + 1 =< BufferSize + Pre
=============================================================================
