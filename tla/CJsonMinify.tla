---------------------------- MODULE CJsonMinify ----------------------------
(***************************************************************************)
(* cJSON_Minify(), which Publish() and UnPublish() call on the text they   *)
(* are about to send.  It works in place: json reads and into writes the   *)
(* same buffer, up to the terminating zero.  One action is one turn of the *)
(* loop the code is in: the outer while, a comment's, or a string's.       *)
(* "blank" stands for the space, the tab and the carriage return, "other"  *)
(* for every character the code does not tell apart.                       *)
(***************************************************************************)
EXTENDS Naturals, Sequences

CONSTANT MaxLength              \* bound on the text
ASSUME MaxLengthAssumption == MaxLength \in Nat

Chars == {"quote", "backslash", "slash", "star", "blank", "newline", "other"}
Nul == "nul"
Blanks == {"blank", "newline"}

VARIABLES
  text,   \* what the buffer held on entry (never changes)
  buf,    \* the buffer
  json,   \* where the code reads
  into,   \* where it writes
  mode    \* the loop it is in

vars == <<text, buf, json, into, mode>>

Last == Len(text) + 1
Terminated(t) == [k \in 1..(Len(t) + 1) |-> IF k <= Len(t) THEN t[k] ELSE Nul]

(* The reader and the writer stay in the buffer.                           *)
TypeOK ==
  /\ text \in Seq(Chars)
  /\ buf \in [1..Last -> Chars \union {Nul}]
  /\ json \in 1..Last
  /\ into \in 1..Last
  /\ mode \in {"scan", "line", "block", "string", "done"}

Init ==
  /\ \E n \in 0..MaxLength : text \in [1..n -> Chars]
  /\ buf = Terminated(text)
  /\ json = 1
  /\ into = 1
  /\ mode = "scan"

---------------------------------------------------------------------------
(* Mutants: a reader that skips one character too many, a writer that runs *)
(* ahead of the reader, an escaped quote that is not recognised.           *)
ReadTooFar(n) == json' = json + n + 1 /\ UNCHANGED <<text, buf, into>>
CopiedAhead(n) ==
  /\ buf' = [k \in DOMAIN buf |->
               IF k \in into..(into + n) THEN buf[json] ELSE buf[k]]
  /\ json' = json + n
  /\ into' = into + n
  /\ UNCHANGED text

EscapesQuoteNever == FALSE

---------------------------------------------------------------------------
\* The character under json, and the one after it.
At(c) == buf[json] = c
Next1(c) == buf[json] # Nul /\ buf[json + 1] = c

Read(n) == json' = json + n /\ UNCHANGED <<text, buf, into>>
Copied(n) ==
  /\ buf' = [k \in DOMAIN buf |->
               IF k \in into..(into + n - 1) THEN buf[json + (k - into)] ELSE buf[k]]
  /\ json' = json + n
  /\ into' = into + n
  /\ UNCHANGED text

SkipBlank ==
  /\ mode = "scan"
  /\ \E b \in Blanks : At(b)
  /\ Read(1)
  /\ UNCHANGED mode

\* A slash opens a comment, or is dropped by itself.
OpenComment ==
  /\ mode = "scan"
  /\ At("slash")
  /\ \/ Next1("slash") /\ Read(2) /\ mode' = "line"
     \/ Next1("star") /\ Read(2) /\ mode' = "block"
     \/ ~ Next1("slash") /\ ~ Next1("star") /\ Read(1) /\ UNCHANGED mode

\* skip_oneline_comment: the newline goes with the comment.
LineComment ==
  /\ mode = "line"
  /\ \/ At(Nul) /\ Read(0) /\ mode' = "scan"
     \/ At("newline") /\ Read(1) /\ mode' = "scan"
     \/ ~ At(Nul) /\ ~ At("newline") /\ Read(1) /\ UNCHANGED mode

\* skip_multiline_comment.
BlockComment ==
  /\ mode = "block"
  /\ \/ At(Nul) /\ Read(0) /\ mode' = "scan"
     \/ At("star") /\ Next1("slash") /\ Read(2) /\ mode' = "scan"
     \/ ~ At(Nul) /\ ~ (At("star") /\ Next1("slash")) /\ Read(1) /\ UNCHANGED mode

OpenString == mode = "scan" /\ At("quote") /\ Copied(1) /\ mode' = "string"

\* minify_string: a backslash matters only when a quote follows it.
EscapesQuote == At("backslash") /\ Next1("quote")
InString ==
  /\ mode = "string"
  /\ \/ At(Nul) /\ Read(0) /\ mode' = "scan"
     \/ At("quote") /\ Copied(1) /\ mode' = "scan"
     \/ EscapesQuote /\ Copied(2) /\ UNCHANGED mode
     \/ ~ At(Nul) /\ ~ At("quote") /\ ~ EscapesQuote /\ Copied(1) /\ UNCHANGED mode

CopyOther ==
  /\ mode = "scan"
  /\ buf[json] \in Chars \ (Blanks \union {"slash", "quote"})
  /\ Copied(1)
  /\ UNCHANGED mode

\* The while ends at the zero, and a zero ends the shortened text.
Terminate ==
  /\ mode = "scan"
  /\ At(Nul)
  /\ buf' = [buf EXCEPT ![into] = Nul]
  /\ mode' = "done"
  /\ UNCHANGED <<text, json, into>>

Next ==
  \/ SkipBlank \/ OpenComment \/ LineComment \/ BlockComment
  \/ OpenString \/ InString \/ CopyOther \/ Terminate

Spec == Init /\ [][Next]_vars

---------------------------------------------------------------------------
(* The reference: one pass over the text, a character at a time, where a   *)
(* backslash in a string escapes whatever follows it, as parse_string()    *)
(* reads it.  kept is the text left so far; at is where the reader is.     *)
Kept(s, c, where) == [at |-> where, kept |-> Append(s.kept, c)]
Dropped(s, where) == [at |-> where, kept |-> s.kept]

Outside(s, c) ==
  CASE c \in Blanks  -> Dropped(s, "outside")
    [] c = "slash"   -> Dropped(s, "slash")
    [] c = "quote"   -> Kept(s, c, "string")
    [] OTHER         -> Kept(s, c, "outside")

Lexed(s, c) ==
  CASE s.at = "outside" -> Outside(s, c)
    [] s.at = "slash"   -> IF c = "slash" THEN Dropped(s, "line")
                           ELSE IF c = "star" THEN Dropped(s, "block")
                           ELSE Outside(s, c)
    [] s.at = "line"    -> Dropped(s, IF c = "newline" THEN "outside" ELSE "line")
    [] s.at = "block"   -> Dropped(s, IF c = "star" THEN "star" ELSE "block")
    [] s.at = "star"    -> Dropped(s, IF c = "slash" THEN "outside"
                                      ELSE IF c = "star" THEN "star" ELSE "block")
    [] s.at = "string"  -> Kept(s, c, IF c = "quote" THEN "outside"
                                      ELSE IF c = "backslash" THEN "escape" ELSE "string")
    [] s.at = "escape"  -> Kept(s, c, "string")

LexedUpTo ==
  LET lexed[k \in 0..Len(text)] ==
        IF k = 0 THEN [at |-> "outside", kept |-> << >>] ELSE Lexed(lexed[k - 1], text[k])
  IN  lexed

Output == [k \in 1..(into - 1) |-> buf[k]]

\* A string in which an escaped backslash stands right before a quote.
BackslashBeforeQuote ==
  \E k \in 1..(Len(text) - 1) :
    /\ LexedUpTo[k - 1].at = "escape"
    /\ text[k] = "backslash"
    /\ text[k + 1] = "quote"

(* Working in place, cJSON_Minify() never writes past what it has read:    *)
(* the rest of the text, its zero included, is still there when json gets  *)
(* to it, so the loops end at that zero.                                   *)
UnreadIntact ==
  /\ into <= json
  /\ mode # "done" => \A k \in json..Last : buf[k] = Terminated(text)[k]

(* Blanks and comments go, and every character of every string stays,      *)
(* unless a string holds an escaped backslash right before a quote:        *)
(* minify_string() takes that quote for an escaped one, misses the end of  *)
(* the string and is out of step with the text from there on.              *)
MinifiedUnlessBackslashQuote ==
  mode = "done" => \/ Output = LexedUpTo[Len(text)].kept
                   \/ BackslashBeforeQuote
============================================================================
