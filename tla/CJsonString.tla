---------------------------- MODULE CJsonString ----------------------------
(***************************************************************************)
(* The strings of cJSON: parse_string() with utf16_literal_to_utf8(), and  *)
(* print_string_ptr().  A text is parsed, what came out is printed, and    *)
(* the print is parsed again, byte by byte as the loops do.  Both          *)
(* functions first measure and then write: the room they ask for is        *)
(* compared with what they write.                                          *)
(***************************************************************************)
EXTENDS Naturals, Sequences, SequencesExt

CONSTANT Texts   \* string literals: [src |-> the bytes, units |-> the UTF-16 they stand for]

Quote == 34
Backslash == 92
LetterU == 117
Bad == 70000     \* the unit of what is no escape sequence
Escapes == [b |-> 8, f |-> 12, n |-> 10, r |-> 13, t |-> 9]
Letter == [b |-> 98, f |-> 102, n |-> 110, r |-> 114, t |-> 116]

VARIABLES
  literal, closed,  \* the text, and whether a quote ends it
  inp,     \* the bytes being parsed, from the opening quote to the zero
  pos,     \* input_pointer
  end,     \* input_end, once it is known
  room,    \* the bytes allocated for the output
  out,     \* the output, its zero included once it is written
  first,   \* what the first parse returned
  st       \* "measure", "convert", "print", "true", "false", "nomemory"

vars == <<literal, closed, inp, pos, end, room, out, first, st>>
text == <<literal, closed>>

Bytes == 0..255
(* Every byte is one, and the reader stays in the text.                    *)
TypeOK ==
  /\ inp \in Seq(Bytes) /\ out \in Seq(Bytes) /\ first \in Seq(Bytes)
  /\ pos \in 1..Len(inp) /\ end \in 0..Len(inp)
  /\ st \in {"measure", "convert", "print", "true", "false", "nomemory"}

Init ==
  /\ literal \in Texts
  /\ closed \in BOOLEAN
  /\ inp = <<Quote>> \o literal.src \o (IF closed THEN <<Quote, 0>> ELSE <<0>>)
  /\ pos = 2 /\ end = 0 /\ room = 0
  /\ out = << >> /\ first = << >>
  /\ st = "measure"

Reject == st' = "false" /\ UNCHANGED <<text, inp, pos, end, room, out, first>>

---------------------------------------------------------------------------
(* parse_string(): the first loop looks for the closing quote.             *)
\* One turn: it stops at the quote or the end, and steps over an escape.
ScanStops(s) ==
  \/ s.at > Len(inp)
  \/ inp[s.at] = Quote
  \/ inp[s.at] = Backslash /\ s.at + 1 > Len(inp)
ScanTurn(s) ==
  IF ScanStops(s) THEN s
  ELSE IF inp[s.at] = Backslash THEN [at |-> s.at + 2, skipped |-> s.skipped + 1]
  ELSE [at |-> s.at + 1, skipped |-> s.skipped]

\* Where the loop is, and how many escapes it has passed, after n turns; it makes
\* no more turns than there are bytes.
Scan == LET scan[n \in 0..Len(inp)] == IF n = 0 THEN [at |-> 2, skipped |-> 0]
                                      ELSE ScanTurn(scan[n - 1])
        IN  scan
Scanned == Scan[Len(inp)]
Found == Scanned.at <= Len(inp) /\ inp[Scanned.at] = Quote

\* Mutant: both bytes of an escape counted as skipped.
RoomShort(scan) == (scan.at - 1) - 2 * scan.skipped

\* The bytes from the opening quote on, less one for each escape, and a zero.
Room(scan) == (scan.at - 1) - scan.skipped + 1

Measure ==
  /\ st = "measure"
  /\ \/ ~ Found /\ Reject
     \/ /\ Found
        /\ end' = Scanned.at
        /\ room' = Room(Scanned)
        /\ st' = "convert"
        /\ UNCHANGED <<text, inp, pos, out, first>>

MeasureNoMemory ==
  /\ st = "measure"
  /\ Found
  /\ st' = "nomemory"
  /\ UNCHANGED <<text, inp, pos, end, room, out, first>>

---------------------------------------------------------------------------
(* utf16_literal_to_utf8()                                                 *)
Digit(c) == CASE c \in 48..57  -> c - 48
              [] c \in 65..70  -> 10 + c - 65
              [] c \in 97..102 -> 10 + c - 97
              [] OTHER         -> 16
\* parse_hex4(): 0 when a digit is none.
Hex4(k) == IF \E j \in 0..3 : Digit(inp[k + j]) = 16 THEN 0
           ELSE Digit(inp[k]) * 4096 + Digit(inp[k + 1]) * 256
                + Digit(inp[k + 2]) * 16 + Digit(inp[k + 3])

\* Mutant: the bits above the six of a following byte are not masked.
Tail6NoMask(c, n) == 128 + (c \div n)
Tail6(c, n) == 128 + ((c \div n) % 64)

Utf8(c) ==
  CASE c < 128                  -> <<c>>
    [] 128 <= c /\ c < 2048     -> <<192 + (c \div 64), Tail6(c, 1)>>
    [] 2048 <= c /\ c < 65536   -> <<224 + (c \div 4096), Tail6(c, 64), Tail6(c, 1)>>
    [] OTHER                    -> <<240 + (c \div 262144), Tail6(c, 4096), Tail6(c, 64), Tail6(c, 1)>>

IsHigh(c) == c \in 55296..56319
IsLow(c) == c \in 56320..57343
Pair(h, l) == 65536 + (h % 1024) * 1024 + (l % 1024)

\* Mutant: the second half of a pair is not looked at.
SecondHalfAny == end - pos >= 12

SecondHalf ==
  /\ end - pos >= 12
  /\ inp[pos + 6] = Backslash /\ inp[pos + 7] = LetterU
  /\ IsLow(Hex4(pos + 8))

Write(bytes, n) ==
  /\ out' = out \o bytes
  /\ pos' = pos + n
  /\ UNCHANGED <<text, inp, end, room, first, st>>

Utf16Literal ==
  IF end - pos < 6 THEN Reject
  ELSE LET code == Hex4(pos + 2)
       IN  \/ IsLow(code) /\ Reject
           \/ IsHigh(code) /\ ~ SecondHalf /\ Reject
           \/ IsHigh(code) /\ SecondHalf /\ Write(Utf8(Pair(code, Hex4(pos + 8))), 12)
           \/ ~ IsLow(code) /\ ~ IsHigh(code) /\ Write(Utf8(code), 6)

---------------------------------------------------------------------------
(* parse_string(): the second loop copies and unescapes.                   *)
Converting == st = "convert" /\ pos < end

CopyByte == Converting /\ inp[pos] # Backslash /\ Write(<<inp[pos]>>, 1)

Unescape ==
  /\ Converting
  /\ inp[pos] = Backslash
  /\ \/ \E e \in DOMAIN Escapes : inp[pos + 1] = Letter[e] /\ Write(<<Escapes[e]>>, 2)
     \/ inp[pos + 1] \in {Quote, Backslash, 47} /\ Write(<<inp[pos + 1]>>, 2)
     \/ inp[pos + 1] = LetterU /\ Utf16Literal
     \/ /\ inp[pos + 1] \notin {Letter[e] : e \in DOMAIN Escapes} \union {Quote, Backslash, 47, LetterU}
        /\ Reject

\* The zero; the first result goes on to be printed.
FinishString ==
  /\ st = "convert"
  /\ pos >= end
  /\ out' = Append(out, 0)
  /\ IF first = << >> THEN first' = out' /\ st' = "print"
                      ELSE st' = "true" /\ UNCHANGED first
  /\ UNCHANGED <<text, inp, pos, end, room>>

---------------------------------------------------------------------------
(* print_string_ptr()                                                      *)
CString(s) == SubSeq(s, 1, (CHOOSE k \in DOMAIN s : s[k] = 0 /\ \A j \in 1..(k - 1) : s[j] # 0) - 1)
Named == {Escapes[e] : e \in DOMAIN Escapes}   \* the controls with a letter
LowerHex(d) == IF d < 10 THEN 48 + d ELSE 87 + d

\* Mutant: a backslash printed as it is.
EscapedNotBackslash(c) ==
  CASE c = Quote -> <<Backslash, c>>
    [] c \in Named -> <<Backslash, Letter[CHOOSE e \in DOMAIN Escapes : Escapes[e] = c]>>
    [] c < 32 /\ c \notin Named -> <<Backslash, LetterU, 48, 48, LowerHex(c \div 16), LowerHex(c % 16)>>
    [] OTHER -> <<c>>

Escaped(c) ==
  CASE c \in {Quote, Backslash} -> <<Backslash, c>>
    [] c \in Named -> <<Backslash, Letter[CHOOSE e \in DOMAIN Escapes : Escapes[e] = c]>>
    [] c < 32 /\ c \notin Named -> <<Backslash, LetterU, 48, 48, LowerHex(c \div 16), LowerHex(c % 16)>>
    [] OTHER -> <<c>>

\* Mutant: a control character counted like any other escape.
ExtraSame(c) == IF c \in {Quote, Backslash} \/ c < 32 THEN 1 ELSE 0
\* What the measuring loop adds for a character.
Extra(c) == IF c \in {Quote, Backslash} \union Named THEN 1
            ELSE IF c < 32 THEN 5 ELSE 0

\* The measuring loop and the writing loop, over the first n characters.
EscapeCharacters(s) ==
  LET escapes[n \in 0..Len(s)] == IF n = 0 THEN 0 ELSE escapes[n - 1] + Extra(s[n]) IN escapes[Len(s)]
Printed(s) ==
  LET printed[n \in 0..Len(s)] == IF n = 0 THEN << >> ELSE printed[n - 1] \o Escaped(s[n])
  IN  printed[Len(s)]

PrintString ==
  /\ st = "print"
  /\ LET s == CString(first)
     IN  /\ inp' = <<Quote>> \o Printed(s) \o <<Quote, 0>>
         /\ room' = Len(s) + EscapeCharacters(s) + 3
  /\ pos' = 2 /\ end' = 0
  /\ out' = << >>
  /\ st' = "measure"
  /\ UNCHANGED <<text, first>>

Next ==
  \/ Measure \/ MeasureNoMemory \/ CopyByte \/ Unescape \/ FinishString \/ PrintString

Spec == Init /\ [][Next]_vars

---------------------------------------------------------------------------
(* The reference: the literal as UTF-16 units, and the UTF-16 of the code  *)
(* points that the bytes of the result encode.                             *)
Units16 == literal.units
High(u) == u >= 55296 /\ u < 56320
Low(u) == u >= 56320 /\ u < 57344
WellFormed ==
  /\ closed
  /\ \A k \in DOMAIN Units16 :
       /\ Units16[k] # Bad
       /\ High(Units16[k]) => k < Len(Units16) /\ Low(Units16[k + 1])
       /\ Low(Units16[k]) => k > 1 /\ High(Units16[k - 1])
Utf16(c) == IF c < 65536 THEN <<c>>
            ELSE <<55296 + ((c - 65536) \div 1024), 56320 + ((c - 65536) % 1024)>>

\* Decoding UTF-8: how long the character is that begins with byte b.
Width(b) == IF b < 128 THEN 1 ELSE IF b < 224 THEN 2 ELSE IF b < 240 THEN 3 ELSE 4
Decoded(s) ==
  LET from[at \in Nat] ==
        IF at > Len(s) THEN << >>
        ELSE LET w == Width(s[at])
                 lead == CASE w = 1 -> s[at] [] w = 2 -> s[at] - 192
                           [] w = 3 -> s[at] - 224 [] OTHER -> s[at] - 240
                 part(k) == IF k = 1 THEN lead * 64^(w - 1) ELSE (s[at + k - 1] - 128) * 64^(w - k)
                 value == FoldSeq(LAMBDA k, n : n + part(k), 0, [k \in 1..w |-> k])
             IN  <<value>> \o from[at + w]
  IN  from[1]

(* A string is accepted exactly when it ends and every escape in it is one *)
(* (surrogates only in pairs), and its bytes are the UTF-8 of what the     *)
(* escapes mean.  An escape with a digit that is none is not refused:      *)
(* parse_hex4() makes it a zero byte, which ends the C string early.       *)
StringMeaning ==
  /\ first # << >> => WellFormed /\ LET points == Decoded(Front(first))
                                    IN  FlattenSeq([k \in DOMAIN points |-> Utf16(points[k])]) = Units16
  /\ first = << >> /\ st = "false" => ~ WellFormed

(* Nothing is written past what the measuring loop allocated, whatever     *)
(* the escapes: the counted escapes always leave room for their UTF-8.     *)
WritesWithinRoom == st \in {"convert", "print", "true"} => Len(out) <= room

(* print_string_ptr() writes exactly the bytes it reserved.                *)
PrintFillsRoom == st = "measure" /\ first # << >> => Len(inp) = room

(* What is printed parses, and to the same C string.                       *)
PrintParsesBack ==
  /\ st = "true" => CString(out) = CString(first)
  /\ first # << >> => st # "false"
============================================================================
