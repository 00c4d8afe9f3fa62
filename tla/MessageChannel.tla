--------------------------- MODULE MessageChannel ---------------------------
(***************************************************************************)
(* What the websocket client promises the application about the messages   *)
(* it accepts, independent of threads, locks and connections: a channel    *)
(* that is first-in first-out, writes a message at most once, may lose     *)
(* one, and writes nothing after it is closed.  Messages are numbered in   *)
(* the order in which they were accepted.                                  *)
(***************************************************************************)
EXTENDS Integers, Sequences

VARIABLES
    open,       \* the channel still transmits
    count,      \* messages accepted so far
    pending,    \* accepted, not yet transmitted or lost
    sent,       \* transmitted, in order
    lost        \* given up on

chan == <<open, count, pending, sent, lost>>

Init ==
    /\ open = TRUE
    /\ count = 0
    /\ pending = << >>
    /\ sent = << >>
    /\ lost = {}

\* A message is accepted, also after the channel was closed.
Accept ==
    /\ count' = count + 1
    /\ pending' = Append(pending, count + 1)
    /\ UNCHANGED <<open, sent, lost>>

Transmit ==
    /\ open
    /\ pending # << >>
    /\ sent' = Append(sent, Head(pending))
    /\ pending' = Tail(pending)
    /\ UNCHANGED <<open, count, lost>>

Lose ==
    /\ open
    /\ pending # << >>
    /\ lost' = lost \cup {Head(pending)}
    /\ pending' = Tail(pending)
    /\ UNCHANGED <<open, count, sent>>

Close ==
    /\ open
    /\ open' = FALSE
    /\ UNCHANGED <<count, pending, sent, lost>>

Next == Accept \/ Transmit \/ Lose \/ Close

Spec == Init /\ [][Next]_chan
=============================================================================
