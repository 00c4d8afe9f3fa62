---------------------------- MODULE CJsonProofs -----------------------------
(***************************************************************************)
(* Proofs about cJSON_Minify(), strings and parsing, and about the parts    *)
(* of cJSON together.                                                       *)
(***************************************************************************)
EXTENDS CJsonTreeProofs

-----------------------------------------------------------------------------
(* cJSON_Minify(), for a text of any length: it stays inside its buffer and *)
(* never overwrites what it still has to read.  The two facts need each other: *)
(* json stays inside the buffer because the terminating zero is still in place *)
(* when json gets there.  And what it leaves is what the reference leaves, *)
(* unless an escaped backslash stands before a quote.                      *)

IInv == TypeOK /\ UnreadIntact

\* A character that is not the zero is one of the text's.
LEMMA CharLeft ==
  ASSUME IInv, mode # "done", buf[json] # Nul
  PROVE  /\ json + 1 <= Last
         /\ buf[json + 1] # Nul => json + 2 <= Last
<1>1. Len(text) \in Nat BY DEF IInv, TypeOK
<1>2. \A k \in 1..Last : Terminated(text)[k] = IF k <= Len(text) THEN text[k] ELSE Nul
  BY <1>1 DEF Terminated, Last
<1>3. \A k \in json..Last : buf[k] # Nul => k <= Len(text)
  BY <1>1, <1>2 DEF IInv, TypeOK, UnreadIntact, Last
<1> QED BY <1>1, <1>3 DEF IInv, TypeOK, Last

\* Reading on keeps the invariant as long as json stays inside.
LEMMA ReadKeeps ==
  ASSUME IInv, mode # "done", NEW n \in Nat, Read(n), json + n <= Last,
         mode' \in {"scan", "line", "block", "string"}
  PROVE  IInv'
<1>1. Len(text) \in Nat BY DEF IInv, TypeOK
<1>2. Last' = Last BY DEF Read, Last
<1>3. TypeOK' BY <1>1, <1>2 DEF IInv, TypeOK, Read, Last
<1>4. \A k \in (json')..Last : buf[k] = Terminated(text)[k]
  BY <1>1 DEF IInv, TypeOK, UnreadIntact, Read, Last
<1>5. UnreadIntact'
  BY <1>1, <1>2, <1>4 DEF IInv, TypeOK, UnreadIntact, Read, Terminated
<1> QED BY <1>3, <1>5 DEF IInv

\* So does copying: what is written lies before what is still unread.
LEMMA CopyKeeps ==
  ASSUME IInv, mode # "done", NEW n \in Nat, Copied(n), json + n <= Last,
         mode' \in {"scan", "line", "block", "string"}
  PROVE  IInv'
<1>1. Len(text) \in Nat BY DEF IInv, TypeOK
<1>2. Last' = Last /\ text' = text BY DEF Copied, Last
<1>3. DOMAIN buf = 1..Last /\ json \in Nat /\ into \in Nat /\ 1 <= into /\ into <= json
  BY <1>1 DEF IInv, TypeOK, UnreadIntact, Last
<1>4. buf' \in [1..Last -> Chars \union {Nul}]
  <2>1. ASSUME NEW k \in 1..Last
        PROVE  (IF k \in into..(into + n - 1) THEN buf[json + (k - into)] ELSE buf[k])
                 \in Chars \union {Nul}
    <3>1. CASE k \in into..(into + n - 1)
      <4>1. json + (k - into) \in 1..Last BY <1>1, <1>3, <3>1, <2>1 DEF Last
      <4> QED BY <4>1, <3>1 DEF IInv, TypeOK
    <3>2. CASE ~ (k \in into..(into + n - 1)) BY <3>2, <2>1 DEF IInv, TypeOK
    <3> QED BY <3>1, <3>2
  <2> QED BY <2>1, <1>3 DEF Copied
<1>5. TypeOK' BY <1>1, <1>2, <1>3, <1>4 DEF IInv, TypeOK, Copied, Last
<1>6. ASSUME NEW k \in (json + n)..Last PROVE buf'[k] = Terminated(text)[k]
  <2>1. k \in json..Last /\ k \in 1..Last /\ ~ (k \in into..(into + n - 1)) BY <1>1, <1>3, <1>6 DEF Last
  <2>2. buf'[k] = buf[k] BY <2>1, <1>3 DEF Copied
  <2> QED BY <2>1, <2>2 DEF IInv, UnreadIntact
<1>7. UnreadIntact'
  <2>1. json' = json + n /\ into' = into + n BY DEF Copied
  <2>2. into' <= json' BY <2>1, <1>3
  <2>3. \A k \in (json')..Last : buf'[k] = Terminated(text)[k] BY <2>1, <1>6
  <2> QED BY <1>2, <2>2, <2>3 DEF UnreadIntact, Terminated
<1> QED BY <1>5, <1>7 DEF IInv

\* The unread text is the whole text at first.
LEMMA InvInit == Init => IInv
<1> SUFFICES ASSUME Init PROVE IInv OBVIOUS
<1>1. text \in Seq(Chars)
  <2>1. PICK n \in 0..MaxLength : text \in [1..n -> Chars] BY DEF Init
  <2>2. n \in Nat BY <2>1, MaxLengthAssumption
  <2> QED BY <2>1, <2>2
<1>2. Len(text) \in Nat BY <1>1
<1>3. \A k \in 1..Len(text) : text[k] \in Chars BY <1>1
<1>4. buf \in [1..Last -> Chars \union {Nul}]
  BY <1>2, <1>3 DEF Init, Terminated, Last
<1> QED BY <1>1, <1>2, <1>4 DEF Init, IInv, TypeOK, UnreadIntact, Last

\* Every turn of every loop keeps the invariant.
LEMMA InvStep == IInv /\ [Next]_vars => IInv'
<1> SUFFICES ASSUME IInv, [Next]_vars PROVE IInv' OBVIOUS
<1>0. Len(text) \in Nat /\ json \in Nat /\ json <= Last /\ mode \in {"scan", "line", "block", "string", "done"}
  BY DEF IInv, TypeOK, Last
<1>c. "quote" # Nul /\ "backslash" # Nul /\ "slash" # Nul /\ "star" # Nul /\ "blank" # Nul
      /\ "newline" # Nul /\ \A c \in Chars : c # Nul
  BY DEF Chars, Nul
<1>1. CASE SkipBlank
  <2>1. buf[json] # Nul BY <1>1, <1>c DEF SkipBlank, At, Blanks
  <2>2. mode = "scan" /\ mode' = "scan" /\ Read(1) BY <1>1 DEF SkipBlank
  <2>3. json + 1 <= Last BY <2>1, <2>2, CharLeft
  <2> QED BY <2>2, <2>3, ReadKeeps
<1>2. CASE OpenComment
  <2>1. buf[json] # Nul BY <1>2, <1>c DEF OpenComment, At
  <2>2. json + 1 <= Last BY <1>2, <2>1, CharLeft DEF OpenComment
  <2>3. CASE Next1("slash") /\ Read(2) /\ mode' = "line"
    <3>1. json + 2 <= Last BY <1>2, <2>1, <2>3, <1>c, CharLeft DEF OpenComment, Next1
    <3> QED BY <1>2, <2>3, <3>1, ReadKeeps DEF OpenComment
  <2>4. CASE Next1("star") /\ Read(2) /\ mode' = "block"
    <3>1. json + 2 <= Last BY <1>2, <2>1, <2>4, <1>c, CharLeft DEF OpenComment, Next1
    <3> QED BY <1>2, <2>4, <3>1, ReadKeeps DEF OpenComment
  <2>5. CASE Read(1) /\ mode' = mode BY <1>2, <2>2, <2>5, ReadKeeps DEF OpenComment
  <2>6. \/ Next1("slash") /\ Read(2) /\ mode' = "line"
        \/ Next1("star") /\ Read(2) /\ mode' = "block"
        \/ Read(1) /\ mode' = mode
    BY <1>2 DEF OpenComment
  <2> QED BY <2>3, <2>4, <2>5, <2>6
<1>3. CASE LineComment
  <2>1. CASE Read(0) /\ mode' = "scan" BY <1>0, <1>3, <2>1, ReadKeeps DEF LineComment
  <2>2. CASE buf[json] # Nul /\ Read(1) /\ mode' \in {"scan", "line"}
    BY <1>3, <2>2, CharLeft, ReadKeeps DEF LineComment
  <2> QED BY <1>3, <1>c, <2>1, <2>2 DEF LineComment, At
<1>4. CASE BlockComment
  <2>1. CASE Read(0) /\ mode' = "scan" BY <1>0, <1>4, <2>1, ReadKeeps DEF BlockComment
  <2>2. CASE Next1("slash") /\ Read(2) /\ mode' = "scan"
    <3>1. json + 2 <= Last BY <1>4, <2>2, <1>c, CharLeft DEF BlockComment, Next1
    <3> QED BY <1>4, <2>2, <3>1, ReadKeeps DEF BlockComment
  <2>3. CASE buf[json] # Nul /\ Read(1) /\ UNCHANGED mode
    BY <1>4, <2>3, CharLeft, ReadKeeps DEF BlockComment
  <2> QED BY <1>4, <2>1, <2>2, <2>3 DEF BlockComment, At
<1>5. CASE OpenString
  <2>1. buf[json] # Nul BY <1>5, <1>c DEF OpenString, At
  <2> QED BY <1>5, <2>1, CharLeft, CopyKeeps DEF OpenString
<1>6. CASE InString
  <2>1. CASE Read(0) /\ mode' = "scan" BY <1>0, <1>6, <2>1, ReadKeeps DEF InString
  <2>2. CASE Next1("quote") /\ Copied(2) /\ UNCHANGED mode
    <3>1. json + 2 <= Last BY <1>6, <2>2, <1>c, CharLeft DEF InString, Next1
    <3> QED BY <1>6, <2>2, <3>1, CopyKeeps DEF InString
  <2>3. CASE buf[json] # Nul /\ Copied(1) /\ mode' \in {"scan", "string"}
    BY <1>6, <2>3, CharLeft, CopyKeeps DEF InString
  <2> QED BY <1>6, <1>c, <2>1, <2>2, <2>3 DEF InString, At, EscapesQuote
<1>7. CASE CopyOther
  <2>1. buf[json] # Nul BY <1>7, <1>c DEF CopyOther
  <2> QED BY <1>7, <2>1, CharLeft, CopyKeeps DEF CopyOther
<1>8. CASE Terminate
  <2>1. Last' = Last BY <1>8 DEF Terminate, Last
  <2> QED BY <1>8, <1>0, <2>1 DEF Terminate, IInv, TypeOK, UnreadIntact
<1>9. CASE UNCHANGED vars
  BY <1>9 DEF vars, IInv, TypeOK, UnreadIntact, Last, Terminated
<1> QED BY <1>1, <1>2, <1>3, <1>4, <1>5, <1>6, <1>7, <1>8, <1>9 DEF Next

(* cJSON_Minify() never leaves its buffer, whatever the text.              *)
THEOREM MinifyStaysInside == Spec => []TypeOK
<1>1. IInv => TypeOK BY DEF IInv
<1> QED BY InvInit, InvStep, <1>1, PTL DEF Spec

(* The writer never overtakes the reader and never touches what is unread. *)
THEOREM MinifyInPlace == Spec => []UnreadIntact
<1>1. IInv => UnreadIntact BY DEF IInv
<1> QED BY InvInit, InvStep, <1>1, PTL DEF Spec

---------------------------------------------------------------------------
(* The reference is defined by recursion; that it satisfies its equation   *)
(* is an induction over the length of the text.                            *)

Start == [at |-> "outside", kept |-> << >>]

\* f is the reference's pass over the first n characters.
Lexes(f, n) == f = [k \in 0..n |-> IF k = 0 THEN Start ELSE Lexed(f[k - 1], text[k])]

\* There is such a pass over any number of characters.
LEMMA LexesExists == \A n \in Nat : \E f : Lexes(f, n)
<1> DEFINE P == {n \in Nat : \E f : Lexes(f, n)}
<1>1. 0 \in P
  <2>1. Lexes([k \in 0..0 |-> Start], 0) BY DEF Lexes
  <2> QED BY <2>1
<1>2. ASSUME NEW n \in Nat, n \in P PROVE n + 1 \in P
  <2>1. PICK f : Lexes(f, n) BY <1>2
  <2> DEFINE g == [k \in 0..(n + 1) |-> IF k = n + 1 THEN Lexed(f[n], text[n + 1]) ELSE f[k]]
  <2>2. \A k \in 0..n : f[k] = IF k = 0 THEN Start ELSE Lexed(f[k - 1], text[k])
    BY <2>1 DEF Lexes
  <2>3. \A k \in 0..n : g[k] = f[k] OBVIOUS
  <2>4. g[n + 1] = Lexed(g[n], text[n + 1]) OBVIOUS
  <2>5. ASSUME NEW k \in 0..(n + 1)
        PROVE  g[k] = IF k = 0 THEN Start ELSE Lexed(g[k - 1], text[k])
    <3>1. CASE k = n + 1 BY <2>4, <3>1
    <3>2. CASE k \in 0..n
      <4>1. k # 0 => k - 1 \in 0..n BY <3>2
      <4> QED BY <2>2, <2>3, <3>2, <4>1
    <3> QED BY <3>1, <3>2
  <2>6. g = [k \in 0..(n + 1) |-> g[k]] OBVIOUS
  <2> HIDE DEF g
  <2>7. Lexes(g, n + 1) BY <2>5, <2>6 DEF Lexes
  <2> QED BY <2>7
<1> HIDE DEF P
<1>3. Nat \subseteq P BY <1>1, <1>2, SetInduction
<1> QED BY <1>3 DEF P

\* The reference starts outside and goes on one character at a time.
LEMMA LexedAt ==
  ASSUME Len(text) \in Nat
  PROVE  /\ LexedUpTo[0] = Start
         /\ \A k \in 1..Len(text) : LexedUpTo[k] = Lexed(LexedUpTo[k - 1], text[k])
<1>1. \E f : Lexes(f, Len(text)) BY LexesExists
<1>2. LexedUpTo = CHOOSE f : Lexes(f, Len(text)) BY DEF LexedUpTo, Lexes, Start
<1>3. Lexes(LexedUpTo, Len(text)) BY <1>1, <1>2
<1>4. \A k \in 0..Len(text) :
        LexedUpTo[k] = IF k = 0 THEN Start ELSE Lexed(LexedUpTo[k - 1], text[k])
  BY <1>3 DEF Lexes
<1> QED BY <1>4

---------------------------------------------------------------------------
(* The loops of cJSON_Minify() and the reference.                          *)

\* Where the reference is when the code is in a loop: a slash that opened no
\* comment, a star or a backslash that the code has already looked past, is
\* followed by the character that told so.
InStep ==
  LET at == LexedUpTo[json - 1].at
  IN  /\ mode = "scan" => \/ json = Last
                          \/ at = "outside"
                          \/ at = "slash" /\ text[json] \notin {"slash", "star"}
      /\ mode = "line" => at = "line"
      /\ mode = "block" => \/ at = "block"
                           \/ at = "star" /\ (json = Last \/ text[json] # "slash")
      /\ mode = "string" => \/ at = "string"
                            \/ at = "escape" /\ (json = Last \/ text[json] # "quote")

\* The code has kept what the reference has kept; at the end of the text they
\* have both read all of it.
KeepsInStep ==
  \/ BackslashBeforeQuote
  \/ /\ Output = LexedUpTo[json - 1].kept
     /\ InStep
     /\ mode = "done" => json = Last

MinInv == IInv /\ KeepsInStep

\* One character of the reference, outside of strings and comments ...
LEMMA LexedOutside ==
  ASSUME NEW s, NEW c,
         s.at = "outside" \/ (s.at = "slash" /\ c \notin {"slash", "star"})
  PROVE  /\ c \in Blanks => Lexed(s, c) = [at |-> "outside", kept |-> s.kept]
         /\ c = "slash" => Lexed(s, c) = [at |-> "slash", kept |-> s.kept]
         /\ c = "quote" => Lexed(s, c) = [at |-> "string", kept |-> Append(s.kept, c)]
         /\ c \notin Blanks \union {"slash", "quote"} =>
              Lexed(s, c) = [at |-> "outside", kept |-> Append(s.kept, c)]
<1>1. Lexed(s, c) = Outside(s, c) BY DEF Lexed
<1> QED BY <1>1 DEF Outside, Kept, Dropped, Blanks

\* ... in a comment ...
LEMMA LexedComment ==
  ASSUME NEW s, NEW c
  PROVE  /\ s.at = "slash" /\ c = "slash" => Lexed(s, c) = [at |-> "line", kept |-> s.kept]
         /\ s.at = "slash" /\ c = "star" => Lexed(s, c) = [at |-> "block", kept |-> s.kept]
         /\ s.at = "line" => Lexed(s, c) =
              [at |-> IF c = "newline" THEN "outside" ELSE "line", kept |-> s.kept]
         /\ s.at \in {"block", "star"} /\ c = "star" =>
              Lexed(s, c) = [at |-> "star", kept |-> s.kept]
         /\ s.at = "star" /\ c = "slash" => Lexed(s, c) = [at |-> "outside", kept |-> s.kept]
         /\ (s.at = "block" /\ c # "star") \/ (s.at = "star" /\ c \notin {"slash", "star"}) =>
              Lexed(s, c) = [at |-> "block", kept |-> s.kept]
BY DEF Lexed, Dropped

\* ... and in a string.
LEMMA LexedString ==
  ASSUME NEW s, NEW c
  PROVE  /\ s.at = "string" => Lexed(s, c) =
              [at |-> IF c = "quote" THEN "outside" ELSE IF c = "backslash" THEN "escape"
                      ELSE "string",
               kept |-> Append(s.kept, c)]
         /\ s.at = "escape" => Lexed(s, c) = [at |-> "string", kept |-> Append(s.kept, c)]
BY DEF Lexed, Kept

\* What the code sees is the text, and a zero exactly at its end.
LEMMA Ahead ==
  ASSUME IInv, mode # "done"
  PROVE  /\ Len(text) \in Nat /\ json \in Nat /\ 1 <= json /\ json <= Len(text) + 1
         /\ Last = Len(text) + 1
         /\ buf[json] = Nul <=> json = Last
         /\ json <= Len(text) => buf[json] = text[json] /\ text[json] \in Chars
         /\ json + 1 <= Len(text) => buf[json + 1] = text[json + 1] /\ text[json + 1] \in Chars
         /\ json + 1 = Last => buf[json + 1] = Nul
<1>1. Len(text) \in Nat /\ json \in Nat /\ 1 <= json /\ json <= Len(text) + 1
  BY DEF IInv, TypeOK, Last
<1>2. \A k \in 1..Last : Terminated(text)[k] = IF k <= Len(text) THEN text[k] ELSE Nul
  BY <1>1 DEF Terminated, Last
<1>3. \A k \in 1..Len(text) : text[k] \in Chars /\ text[k] # Nul
  BY <1>1 DEF IInv, TypeOK, Chars, Nul
<1>4. \A k \in json..Last : buf[k] = IF k <= Len(text) THEN text[k] ELSE Nul
  BY <1>1, <1>2 DEF IInv, UnreadIntact, Last
<1>5. Last = Len(text) + 1 BY DEF Last
<1> QED BY <1>1, <1>3, <1>4, <1>5

\* What the code has written is a sequence.
LEMMA OutputSeq == ASSUME IInv PROVE Output \in Seq(Chars \union {Nul}) /\ Len(Output) = into - 1
<1>1. into \in Nat /\ 1 <= into /\ into <= Last /\ Last \in Nat BY DEF IInv, TypeOK, Last
<1>2. \A k \in 1..(into - 1) : buf[k] \in Chars \union {Nul} BY <1>1 DEF IInv, TypeOK
<1>3. Output \in [1..(into - 1) -> Chars \union {Nul}] BY <1>2 DEF Output
<1> QED BY <1>1, <1>3 DEF Output

\* Copying appends the characters read to it.
LEMMA CopyAppends ==
  ASSUME IInv, NEW n \in {1, 2}, Copied(n), json + n <= Last, IInv'
  PROVE  Output' = IF n = 1 THEN Append(Output, buf[json])
                   ELSE Append(Append(Output, buf[json]), buf[json + 1])
<1>1. /\ into \in Nat /\ 1 <= into /\ into <= json /\ json \in Nat
      /\ DOMAIN buf = 1..Last /\ Last \in Nat
  BY DEF IInv, TypeOK, UnreadIntact, Last
<1>2. into' = into + n BY DEF Copied
<1>3. \A k \in 1..(into + n - 1) :
        buf'[k] = IF k \in into..(into + n - 1) THEN buf[json + (k - into)] ELSE buf[k]
  BY <1>1 DEF Copied
<1>4. /\ Output' \in Seq(Chars \union {Nul}) /\ Len(Output') = into + n - 1
      /\ \A k \in 1..(into + n - 1) : Output'[k] = buf'[k]
  <2>1. buf' \in [1..Last -> Chars \union {Nul}] BY DEF IInv, TypeOK, Copied, Last
  <2>2. into + n - 1 \in Nat /\ into + n - 1 <= Last BY <1>1
  <2>3. \A k \in 1..(into + n - 1) : buf'[k] \in Chars \union {Nul} BY <1>1, <2>1, <2>2
  <2>4. Output' = [k \in 1..(into + n - 1) |-> buf'[k]]
    <3>1. Output' = [k \in 1..(into' - 1) |-> buf'[k]] BY DEF Output
    <3>2. into' - 1 = into + n - 1 BY <1>1, <1>2
    <3> QED BY <3>1, <3>2
  <2> QED BY <2>2, <2>3, <2>4
<1>5. /\ Output \in Seq(Chars \union {Nul}) /\ Len(Output) = into - 1
      /\ \A k \in 1..(into - 1) : Output[k] = buf[k]
  BY OutputSeq DEF Output
<1>6. buf[json] \in Chars \union {Nul} /\ (n = 2 => buf[json + 1] \in Chars \union {Nul})
  BY <1>1 DEF IInv, TypeOK
<1> DEFINE one == Append(Output, buf[json])
<1>7. /\ one \in Seq(Chars \union {Nul}) /\ Len(one) = into
      /\ \A k \in 1..(into - 1) : one[k] = buf[k]
      /\ one[into] = buf[json]
  BY <1>1, <1>5, <1>6, AppendProperties
<1>8. CASE n = 1
  <2>1. \A k \in 1..into : Output'[k] = one[k] BY <1>1, <1>3, <1>4, <1>7, <1>8
  <2> HIDE DEF one
  <2>2. Output' = one BY <1>1, <1>4, <1>7, <1>8, <2>1, SeqEqual
  <2> QED BY <1>8, <2>2 DEF one
<1>9. CASE n = 2
  <2> HIDE DEF one
  <2> DEFINE two == Append(one, buf[json + 1])
  <2>1. /\ two \in Seq(Chars \union {Nul}) /\ Len(two) = into + 1
        /\ \A k \in 1..into : two[k] = one[k]
        /\ two[into + 1] = buf[json + 1]
    BY <1>1, <1>6, <1>7, <1>9, AppendProperties
  <2> HIDE DEF two
  <2>2. ASSUME NEW k \in 1..(into + 1) PROVE Output'[k] = two[k]
    <3>1. CASE k = into + 1
      <4>1. Output'[k] = buf[json + (k - into)] BY <1>1, <1>3, <1>4, <1>9, <3>1
      <4>2. k - into = 1 BY <1>1, <3>1
      <4> QED BY <2>1, <3>1, <4>1, <4>2
    <3>2. CASE k = into
      <4>1. Output'[k] = buf[json + (k - into)] BY <1>1, <1>3, <1>4, <1>9, <3>2
      <4>2. json + (k - into) = json /\ k \in 1..into BY <1>1, <3>2
      <4> QED BY <1>7, <2>1, <3>2, <4>1, <4>2
    <3>3. CASE k \in 1..(into - 1)
      <4>1. Output'[k] = buf[k] BY <1>1, <1>3, <1>4, <1>9, <3>3
      <4>2. two[k] = one[k] /\ one[k] = buf[k] BY <1>1, <1>7, <2>1, <3>3
      <4> QED BY <4>1, <4>2
    <3> QED BY <1>1, <3>1, <3>2, <3>3
  <2>3. Output' = two BY <1>1, <1>4, <1>9, <2>1, <2>2, SeqEqual
  <2> QED BY <1>9, <2>3 DEF one, two
<1> QED BY <1>8, <1>9

\* Everything a turn of a loop is about, as facts about the text and the
\* reference's pass L over it, both of which stay.
LEMMA Turn ==
  ASSUME MinInv, mode # "done", text' = text, NEW L, L = LexedUpTo
  PROVE  /\ L[0] = Start
         /\ \A k \in 1..Len(text) : L[k] = Lexed(L[k - 1], text[k])
         /\ LexedUpTo' = L /\ Last' = Last
         /\ BackslashBeforeQuote' <=> BackslashBeforeQuote
         /\ json <= Len(text) => L[json] = Lexed(L[json - 1], buf[json])
         /\ json + 1 <= Len(text) => L[json + 1] = Lexed(L[json], buf[json + 1])
<1>1. Len(text) \in Nat /\ json \in Nat /\ 1 <= json BY Ahead DEF MinInv
<1>2. L[0] = Start /\ \A k \in 1..Len(text) : L[k] = Lexed(L[k - 1], text[k]) BY <1>1, LexedAt
<1>3. LexedUpTo' = LexedUpTo BY DEF LexedUpTo
<1>4. BackslashBeforeQuote' <=> BackslashBeforeQuote BY <1>3 DEF BackslashBeforeQuote
<1>5. json <= Len(text) => L[json] = Lexed(L[json - 1], buf[json])
  BY <1>1, <1>2, Ahead DEF MinInv
<1>6. json + 1 <= Len(text) => L[json + 1] = Lexed(L[json], buf[json + 1])
  <2> SUFFICES ASSUME json + 1 <= Len(text) PROVE L[json + 1] = Lexed(L[json], buf[json + 1])
    OBVIOUS
  <2>1. json + 1 \in 1..Len(text) /\ (json + 1) - 1 = json BY <1>1
  <2>2. buf[json + 1] = text[json + 1] BY Ahead DEF MinInv
  <2> QED BY <1>2, <2>1, <2>2
<1> QED BY <1>2, <1>3, <1>4, <1>5, <1>6 DEF Last

\* A turn that drops what it reads is in step if the reference dropped it too.
LEMMA ReadInStep ==
  ASSUME MinInv, mode # "done", NEW n \in Nat, Read(n), ~ BackslashBeforeQuote,
         LexedUpTo[(json + n) - 1].kept = LexedUpTo[json - 1].kept,
         InStep', mode' # "done"
  PROVE  KeepsInStep'
<1>1. text' = text /\ json' = json + n /\ UNCHANGED <<buf, into>> BY DEF Read
<1>2. LexedUpTo' = LexedUpTo BY <1>1, Turn
<1>3. Output' = Output BY <1>1 DEF Output
<1>4. Output = LexedUpTo[json - 1].kept BY DEF MinInv, KeepsInStep
<1> QED BY <1>1, <1>2, <1>3, <1>4 DEF KeepsInStep

\* A turn that copies what it reads is in step if the reference kept it too.
LEMMA CopyInStep ==
  ASSUME MinInv, mode # "done", NEW n \in {1, 2}, Copied(n), json + n <= Last,
         IInv', ~ BackslashBeforeQuote,
         LexedUpTo[(json + n) - 1].kept =
           IF n = 1 THEN Append(LexedUpTo[json - 1].kept, buf[json])
           ELSE Append(Append(LexedUpTo[json - 1].kept, buf[json]), buf[json + 1]),
         InStep', mode' # "done"
  PROVE  KeepsInStep'
<1>1. text' = text /\ json' = json + n BY DEF Copied
<1>2. LexedUpTo' = LexedUpTo BY <1>1, Turn
<1>3. Output' = IF n = 1 THEN Append(Output, buf[json])
                ELSE Append(Append(Output, buf[json]), buf[json + 1])
  BY CopyAppends DEF MinInv
<1>4. Output = LexedUpTo[json - 1].kept BY DEF MinInv, KeepsInStep
<1>5. Output' = LexedUpTo[(json + n) - 1].kept BY <1>3, <1>4
<1> QED BY <1>1, <1>2, <1>5 DEF KeepsInStep

\* Nothing is read or kept at first.
LEMMA KeepsInit == Init => KeepsInStep
<1> SUFFICES ASSUME Init PROVE KeepsInStep OBVIOUS
<1>1. IInv /\ mode = "scan" /\ json = 1 /\ into = 1 BY InvInit DEF Init
<1>2. Len(text) \in Nat BY <1>1 DEF IInv, TypeOK
<1>3. LexedUpTo[0] = Start BY <1>2, LexedAt
<1>4. Output = << >> BY <1>1 DEF Output
<1>5. json - 1 = 0 BY <1>1
<1>6. LexedUpTo[json - 1].at = "outside" /\ LexedUpTo[json - 1].kept = << >>
  BY <1>3, <1>5 DEF Start
<1>7. InStep BY <1>1, <1>6 DEF InStep
<1> QED BY <1>1, <1>4, <1>6, <1>7 DEF KeepsInStep

\* Every turn of every loop stays in step with the reference.
LEMMA KeepsStep == MinInv /\ [Next]_vars => KeepsInStep'
<1> SUFFICES ASSUME MinInv, [Next]_vars PROVE KeepsInStep' OBVIOUS
<1>i. IInv' BY InvStep DEF MinInv
<1>u. CASE UNCHANGED vars
  <2>1. LexedUpTo' = LexedUpTo BY <1>u DEF vars, LexedUpTo
  <2>2. BackslashBeforeQuote' <=> BackslashBeforeQuote
    BY <1>u, <2>1 DEF vars, BackslashBeforeQuote
  <2>3. InStep' <=> InStep BY <1>u, <2>1 DEF vars, InStep, Last
  <2> QED BY <1>u, <2>1, <2>2, <2>3 DEF vars, MinInv, KeepsInStep, Output, Last
<1>n. CASE Next
  <2> USE <1>n
  <2>0. mode # "done" /\ text' = text
    BY DEF Next, SkipBlank, OpenComment, LineComment, BlockComment, OpenString, InString,
           CopyOther, Terminate, Read, Copied
  <2>1. PICK L : L = LexedUpTo OBVIOUS
  <2>2. PICK j : j = json OBVIOUS
  <2>3. /\ Len(text) \in Nat /\ j \in Nat /\ 1 <= j /\ j <= Len(text) + 1
        /\ Last = Len(text) + 1
        /\ buf[j] = Nul <=> j = Last
        /\ j <= Len(text) => buf[j] = text[j] /\ text[j] \in Chars
        /\ j + 1 <= Len(text) => buf[j + 1] = text[j + 1] /\ text[j + 1] \in Chars
        /\ j + 1 = Last => buf[j + 1] = Nul
    BY <2>0, <2>2, Ahead DEF MinInv
  <2>4. /\ LexedUpTo' = L /\ Last' = Last
        /\ BackslashBeforeQuote' <=> BackslashBeforeQuote
        /\ j <= Len(text) => L[j] = Lexed(L[j - 1], buf[j])
        /\ j + 1 <= Len(text) => L[j + 1] = Lexed(L[j], buf[j + 1])
    BY <2>0, <2>1, <2>2, Turn
  <2>5. CASE BackslashBeforeQuote BY <2>4, <2>5 DEF KeepsInStep
  <2>6. CASE ~ BackslashBeforeQuote
    <3>1. /\ mode = "scan" => \/ j = Last
                              \/ L[j - 1].at = "outside"
                              \/ L[j - 1].at = "slash" /\ text[j] \notin {"slash", "star"}
          /\ mode = "line" => L[j - 1].at = "line"
          /\ mode = "block" => \/ L[j - 1].at = "block"
                               \/ L[j - 1].at = "star" /\ (j = Last \/ text[j] # "slash")
          /\ mode = "string" => \/ L[j - 1].at = "string"
                                \/ L[j - 1].at = "escape" /\ (j = Last \/ text[j] # "quote")
          /\ Output = L[j - 1].kept
      BY <2>1, <2>2, <2>6 DEF MinInv, KeepsInStep, InStep
    <3>2. \A c \in Chars : c # Nul BY DEF Chars, Nul
    <3>3. (j + 1) - 1 = j /\ (j + 2) - 1 = j + 1 /\ (j + 0) - 1 = j - 1 /\ j + 0 = j
      BY <2>3
    <3>4. ASSUME At(Nul), Read(0), mode' = "scan" PROVE KeepsInStep'
      <4>1. json' = j /\ j = Last BY <2>2, <2>3, <3>3, <3>4 DEF At, Read
      <4>2. InStep' BY <2>4, <3>4, <4>1 DEF InStep
      <4>3. LexedUpTo[(json + 0) - 1].kept = LexedUpTo[json - 1].kept BY <2>2, <3>3
      <4> QED BY <2>0, <2>6, <3>4, <4>2, <4>3, ReadInStep
    <3>5. ASSUME Read(1), L[j].kept = L[j - 1].kept, InStep', mode' # "done"
          PROVE  KeepsInStep'
      <4>1. LexedUpTo[(json + 1) - 1].kept = LexedUpTo[json - 1].kept BY <2>1, <2>2, <3>3, <3>5
      <4> QED BY <2>0, <2>6, <3>5, <4>1, ReadInStep
    <3>6. ASSUME Read(2), L[j + 1].kept = L[j - 1].kept, InStep', mode' # "done"
          PROVE  KeepsInStep'
      <4>1. LexedUpTo[(json + 2) - 1].kept = LexedUpTo[json - 1].kept BY <2>1, <2>2, <3>3, <3>6
      <4> QED BY <2>0, <2>6, <3>6, <4>1, ReadInStep
    <3>7. ASSUME Copied(1), j <= Len(text), L[j].kept = Append(L[j - 1].kept, buf[j]), InStep',
                 mode' # "done"
          PROVE  KeepsInStep'
      <4>1. LexedUpTo[(json + 1) - 1].kept = Append(LexedUpTo[json - 1].kept, buf[json])
        BY <2>1, <2>2, <3>3, <3>7
      <4>2. json + 1 <= Last BY <2>2, <2>3, <3>7
      <4> QED BY <1>i, <2>0, <2>6, <3>7, <4>1, <4>2, CopyInStep
    <3>8. ASSUME NEW goal, mode' = goal, json' = j + 1,
                 goal = "scan" => \/ L[j].at = "outside"
                                  \/ /\ L[j].at = "slash"
                                     /\ j + 1 = Last \/ text[j + 1] \notin {"slash", "star"},
                 goal = "line" => L[j].at = "line",
                 goal = "block" => \/ L[j].at = "block"
                                   \/ /\ L[j].at = "star"
                                      /\ j + 1 = Last \/ text[j + 1] # "slash",
                 goal = "string" => \/ L[j].at = "string"
                                    \/ /\ L[j].at = "escape"
                                       /\ j + 1 = Last \/ text[j + 1] # "quote"
          PROVE  InStep'
      <4>1. LexedUpTo'[json' - 1].at = L[j].at BY <2>4, <3>3, <3>8
      <4> QED BY <2>0, <2>4, <3>8, <4>1 DEF InStep
    <3>9. ASSUME json' = j + 2, mode' = "scan" => L[j + 1].at = "outside",
                 mode' = "line" => L[j + 1].at = "line",
                 mode' = "block" => L[j + 1].at = "block",
                 mode' = "string" => L[j + 1].at = "string"
          PROVE  InStep'
      <4>1. LexedUpTo'[json' - 1].at = L[j + 1].at BY <2>4, <3>3, <3>9
      <4> QED BY <2>4, <3>9, <4>1 DEF InStep
    <3>10. /\ \A n \in Nat : Read(n) \/ Copied(n) => json' = j + n
           /\ \A c : At(c) <=> buf[j] = c
           /\ \A c : Next1(c) <=> buf[j] # Nul /\ buf[j + 1] = c
           /\ \A c \in Chars : At(c) => j <= Len(text) /\ text[j] = c
           /\ \A c \in Chars : Next1(c) => j + 1 <= Len(text) /\ text[j + 1] = c
      <4>1. \A c : At(c) <=> buf[j] = c BY <2>2 DEF At
      <4>2. \A c : Next1(c) <=> buf[j] # Nul /\ buf[j + 1] = c BY <2>2 DEF Next1
      <4>3. \A c \in Chars : At(c) => j <= Len(text) /\ text[j] = c BY <2>3, <3>2, <4>1
      <4>4. \A c \in Chars : Next1(c) => j + 1 <= Len(text) /\ text[j + 1] = c
        BY <2>3, <3>2, <4>2
      <4>5. \A n \in Nat : Read(n) \/ Copied(n) => json' = j + n BY <2>2 DEF Read, Copied
      <4> QED BY <4>1, <4>2, <4>3, <4>4, <4>5
    <3>11. CASE SkipBlank
      <4>1. PICK b \in Blanks : At(b) BY <3>11 DEF SkipBlank
      <4>2. mode = "scan" /\ mode' = "scan" /\ Read(1) /\ json' = j + 1
        BY <3>10, <3>11 DEF SkipBlank
      <4>3. j <= Len(text) /\ buf[j] = b /\ text[j] = b /\ j # Last
        BY <2>3, <3>10, <4>1 DEF Blanks, Chars
      <4>4. L[j] = [at |-> "outside", kept |-> L[j - 1].kept]
        BY <2>4, <3>1, <4>2, <4>3, LexedOutside
      <4>5. InStep' BY <3>8, <4>2, <4>4
      <4> QED BY <3>5, <4>2, <4>4, <4>5
    <3>12. CASE OpenComment
      <4>1. mode = "scan" /\ buf[j] = "slash" /\ j <= Len(text) /\ text[j] = "slash" /\ j # Last
        BY <2>3, <3>10, <3>12 DEF OpenComment, Chars
      <4>2. L[j - 1].at = "outside" BY <3>1, <4>1
      <4>3. L[j] = [at |-> "slash", kept |-> L[j - 1].kept] BY <2>4, <4>1, <4>2, LexedOutside
      <4>4. CASE Next1("slash") /\ Read(2) /\ mode' = "line"
        <5>1. j + 1 <= Len(text) /\ buf[j + 1] = "slash" /\ json' = j + 2
          BY <3>10, <4>4 DEF Chars
        <5>2. L[j + 1] = [at |-> "line", kept |-> L[j - 1].kept]
          BY <2>4, <4>3, <5>1, LexedComment
        <5>3. InStep' BY <3>9, <4>4, <5>1, <5>2
        <5> QED BY <3>6, <4>4, <5>2, <5>3
      <4>5. CASE Next1("star") /\ Read(2) /\ mode' = "block"
        <5>1. j + 1 <= Len(text) /\ buf[j + 1] = "star" /\ json' = j + 2
          BY <3>10, <4>5 DEF Chars
        <5>2. L[j + 1] = [at |-> "block", kept |-> L[j - 1].kept]
          BY <2>4, <4>3, <5>1, LexedComment
        <5>3. InStep' BY <3>9, <4>5, <5>1, <5>2
        <5> QED BY <3>6, <4>5, <5>2, <5>3
      <4>6. CASE ~ Next1("slash") /\ ~ Next1("star") /\ Read(1) /\ UNCHANGED mode
        <5>1. json' = j + 1 BY <3>10, <4>6
        <5>2. j + 1 = Last \/ text[j + 1] \notin {"slash", "star"}
          BY <2>3, <3>2, <3>10, <4>1, <4>6 DEF Chars
        <5>3. InStep' BY <3>8, <4>1, <4>3, <4>6, <5>1, <5>2
        <5> QED BY <3>5, <4>1, <4>3, <4>6, <5>3
      <4> QED BY <3>12, <4>4, <4>5, <4>6 DEF OpenComment
    <3>13. CASE LineComment
      <4>1. mode = "line" /\ L[j - 1].at = "line" BY <3>1, <3>13 DEF LineComment
      <4>2. CASE At(Nul) /\ Read(0) /\ mode' = "scan" BY <3>4, <4>2
      <4>3. CASE ~ At(Nul) /\ Read(1) /\ mode' = IF At("newline") THEN "scan" ELSE "line"
        <5>1. j <= Len(text) /\ json' = j + 1 BY <2>3, <3>10, <4>3
        <5>2. L[j] = [at |-> IF buf[j] = "newline" THEN "outside" ELSE "line",
                      kept |-> L[j - 1].kept]
          BY <2>4, <4>1, <5>1, LexedComment
        <5>3. InStep' BY <3>8, <3>10, <4>3, <5>1, <5>2
        <5> QED BY <3>5, <4>3, <5>2, <5>3
      <4> QED BY <3>13, <3>2, <3>10, <4>1, <4>2, <4>3 DEF LineComment, Chars
    <3>14. CASE BlockComment
      <4>1. mode = "block" /\ (\/ L[j - 1].at = "block"
                               \/ L[j - 1].at = "star" /\ (j = Last \/ text[j] # "slash"))
        BY <3>1, <3>14 DEF BlockComment
      <4>2. CASE At(Nul) /\ Read(0) /\ mode' = "scan" BY <3>4, <4>2
      <4>3. CASE At("star") /\ Next1("slash") /\ Read(2) /\ mode' = "scan"
        <5>1. j + 1 <= Len(text) /\ buf[j] = "star" /\ buf[j + 1] = "slash" /\ json' = j + 2
          BY <3>10, <4>3 DEF Chars
        <5>2. L[j] = [at |-> "star", kept |-> L[j - 1].kept]
          BY <2>3, <2>4, <4>1, <5>1, LexedComment
        <5>3. L[j + 1] = [at |-> "outside", kept |-> L[j - 1].kept]
          BY <2>4, <5>1, <5>2, LexedComment
        <5>4. InStep' BY <3>9, <4>3, <5>1, <5>3
        <5> QED BY <3>6, <4>3, <5>3, <5>4
      <4>4. CASE ~ At(Nul) /\ ~ (At("star") /\ Next1("slash")) /\ Read(1) /\ UNCHANGED mode
        <5>1. j <= Len(text) /\ json' = j + 1 /\ buf[j] = text[j] /\ j # Last
          BY <2>3, <3>10, <4>4
        <5>2. CASE buf[j] = "star"
          <6>1. L[j] = [at |-> "star", kept |-> L[j - 1].kept]
            BY <2>4, <4>1, <5>1, <5>2, LexedComment
          <6>2. j + 1 = Last \/ text[j + 1] # "slash"
            BY <2>3, <3>2, <3>10, <4>4, <5>1, <5>2 DEF Chars
          <6>3. InStep' BY <3>8, <4>1, <4>4, <5>1, <6>1, <6>2
          <6> QED BY <3>5, <4>1, <4>4, <6>1, <6>3
        <5>3. CASE buf[j] # "star"
          <6>1. L[j] = [at |-> "block", kept |-> L[j - 1].kept]
            BY <2>4, <4>1, <5>1, <5>3, LexedComment
          <6>2. InStep' BY <3>8, <4>1, <4>4, <5>1, <6>1
          <6> QED BY <3>5, <4>1, <4>4, <6>1, <6>2
        <5> QED BY <5>2, <5>3
      <4> QED BY <3>14, <4>2, <4>3, <4>4 DEF BlockComment
    <3>15. CASE OpenString
      <4>1. /\ mode = "scan" /\ mode' = "string" /\ Copied(1) /\ json' = j + 1
            /\ buf[j] = "quote" /\ j <= Len(text) /\ text[j] = "quote" /\ j # Last
        BY <2>3, <3>10, <3>15 DEF OpenString, Chars
      <4>2. L[j] = [at |-> "string", kept |-> Append(L[j - 1].kept, buf[j])]
        BY <2>4, <3>1, <4>1, LexedOutside
      <4>3. InStep' BY <3>8, <4>1, <4>2
      <4> QED BY <3>7, <4>1, <4>2, <4>3
    <3>16. CASE InString
      <4>1. mode = "string" /\ (\/ L[j - 1].at = "string"
                                \/ L[j - 1].at = "escape" /\ (j = Last \/ text[j] # "quote"))
        BY <3>1, <3>16 DEF InString
      <4>2. CASE At(Nul) /\ Read(0) /\ mode' = "scan" BY <3>4, <4>2
      <4>3. CASE At("quote") /\ Copied(1) /\ mode' = "scan"
        <5>1. j <= Len(text) /\ json' = j + 1 /\ buf[j] = "quote" /\ text[j] = "quote" /\ j # Last
          BY <2>3, <3>10, <4>3 DEF Chars
        <5>2. L[j] = [at |-> "outside", kept |-> Append(L[j - 1].kept, buf[j])]
          BY <2>4, <4>1, <5>1, LexedString
        <5>3. InStep' BY <3>8, <4>3, <5>1, <5>2
        <5> QED BY <3>7, <4>3, <5>1, <5>2, <5>3
      <4>4. CASE EscapesQuote /\ Copied(2) /\ UNCHANGED mode
        <5>1. /\ j <= Len(text) /\ j + 1 <= Len(text) /\ json' = j + 2 /\ j # Last
              /\ buf[j] = "backslash" /\ text[j] = "backslash"
              /\ buf[j + 1] = "quote" /\ text[j + 1] = "quote"
          BY <2>3, <3>10, <4>4 DEF EscapesQuote, Chars
        <5>2. L[j - 1].at = "string"
          <6>1. j \in 1..(Len(text) - 1) BY <2>3, <5>1
          <6>2. L[j - 1].at # "escape" BY <2>1, <2>6, <5>1, <6>1 DEF BackslashBeforeQuote
          <6> QED BY <4>1, <6>2
        <5>3. L[j] = [at |-> "escape", kept |-> Append(L[j - 1].kept, buf[j])]
          BY <2>4, <5>1, <5>2, LexedString
        <5>4. L[j + 1] = [at |-> "string",
                          kept |-> Append(Append(L[j - 1].kept, buf[j]), buf[j + 1])]
          <6>1. L[j].at = "escape" /\ L[j].kept = Append(L[j - 1].kept, buf[j]) BY <5>3
          <6>2. L[j + 1] = Lexed(L[j], buf[j + 1]) BY <2>4, <5>1
          <6>3. Lexed(L[j], buf[j + 1]) = [at |-> "string", kept |-> Append(L[j].kept, buf[j + 1])]
            BY <6>1, LexedString
          <6> QED BY <6>1, <6>2, <6>3
        <5>5. InStep' BY <3>9, <4>1, <4>4, <5>1, <5>4
        <5>6. LexedUpTo[(json + 2) - 1].kept =
                Append(Append(LexedUpTo[json - 1].kept, buf[json]), buf[json + 1])
          BY <2>1, <2>2, <3>3, <5>4
        <5>7. json + 2 <= Last BY <2>2, <2>3, <5>1
        <5> QED BY <1>i, <2>0, <2>6, <4>1, <4>4, <5>5, <5>6, <5>7, CopyInStep
      <4>5. CASE ~ At(Nul) /\ ~ At("quote") /\ ~ EscapesQuote /\ Copied(1) /\ UNCHANGED mode
        <5>1. j <= Len(text) /\ json' = j + 1 /\ buf[j] = text[j] /\ j # Last /\ buf[j] # "quote"
          BY <2>3, <3>10, <4>5
        <5>2. CASE L[j - 1].at = "string" /\ buf[j] = "backslash"
          <6>1. L[j] = [at |-> "escape", kept |-> Append(L[j - 1].kept, buf[j])]
            BY <2>4, <5>1, <5>2, LexedString
          <6>2. j + 1 = Last \/ text[j + 1] # "quote"
            BY <2>3, <3>2, <3>10, <4>5, <5>1, <5>2 DEF EscapesQuote, Chars
          <6>3. InStep' BY <3>8, <4>1, <4>5, <5>1, <6>1, <6>2
          <6> QED BY <3>7, <4>1, <4>5, <5>1, <6>1, <6>3
        <5>3. CASE ~ (L[j - 1].at = "string" /\ buf[j] = "backslash")
          <6>1. L[j] = [at |-> "string", kept |-> Append(L[j - 1].kept, buf[j])]
            BY <2>4, <4>1, <5>1, <5>3, LexedString
          <6>2. InStep' BY <3>8, <4>1, <4>5, <5>1, <6>1
          <6> QED BY <3>7, <4>1, <4>5, <5>1, <6>1, <6>2
        <5> QED BY <5>2, <5>3
      <4> QED BY <3>16, <4>2, <4>3, <4>4, <4>5 DEF InString
    <3>17. CASE CopyOther
      <4>1. /\ mode = "scan" /\ mode' = "scan" /\ Copied(1) /\ json' = j + 1
            /\ buf[j] \in Chars \ (Blanks \union {"slash", "quote"})
        BY <2>2, <3>10, <3>17 DEF CopyOther
      <4>2. j <= Len(text) /\ buf[j] = text[j] /\ j # Last BY <2>3, <3>2, <4>1
      <4>3. L[j] = [at |-> "outside", kept |-> Append(L[j - 1].kept, buf[j])]
        BY <2>4, <3>1, <4>1, <4>2, LexedOutside
      <4>4. InStep' BY <3>8, <4>1, <4>3
      <4> QED BY <3>7, <4>1, <4>2, <4>3, <4>4
    <3>18. CASE Terminate
      <4>1. /\ mode' = "done" /\ json' = j /\ into' = into /\ buf[j] = Nul
            /\ buf' = [buf EXCEPT ![into] = Nul]
        BY <2>2, <3>10, <3>18 DEF Terminate
      <4>2. json' = Last' BY <2>3, <2>4, <4>1
      <4>3. Output' = Output
        <5>1. /\ into \in Nat /\ 1 <= into /\ into <= Last
              /\ DOMAIN buf = 1..Last /\ Last \in Nat
          BY <2>3 DEF MinInv, IInv, TypeOK
        <5>2. \A k \in 1..(into - 1) : buf'[k] = buf[k] BY <4>1, <5>1
        <5> QED BY <4>1, <5>2 DEF Output
      <4>4. InStep' BY <4>1 DEF InStep
      <4> QED BY <2>4, <3>1, <4>1, <4>2, <4>3, <4>4 DEF KeepsInStep
    <3> QED BY <3>11, <3>12, <3>13, <3>14, <3>15, <3>16, <3>17, <3>18 DEF Next
  <2> QED BY <2>5, <2>6
<1> QED BY <1>n, <1>u

\* For a text of any length: cJSON_Minify() leaves exactly what the reference
\* keeps, the text without its blanks and comments and with every character
\* of its strings, unless a string holds an escaped backslash right before a
\* quote.
THEOREM MinifiesAsTheReference == Spec => []MinifiedUnlessBackslashQuote
<1>1. Init => MinInv BY InvInit, KeepsInit DEF MinInv
<1>2. MinInv /\ [Next]_vars => MinInv' BY InvStep, KeepsStep DEF MinInv
<1>3. MinInv => MinifiedUnlessBackslashQuote
  <2> SUFFICES ASSUME MinInv, mode = "done", ~ BackslashBeforeQuote
               PROVE  Output = LexedUpTo[Len(text)].kept
    BY DEF MinifiedUnlessBackslashQuote
  <2>1. Output = LexedUpTo[json - 1].kept /\ json = Last BY DEF MinInv, KeepsInStep
  <2>2. json - 1 = Len(text) BY <2>1 DEF MinInv, IInv, TypeOK, Last
  <2> QED BY <2>1, <2>2
<1> QED BY <1>1, <1>2, <1>3, PTL DEF Spec

-----------------------------------------------------------------------------
(* Strings.  The measuring loop counts the bytes the converting loop will not *)
(* write; the invariant relates the two.                                   *)

\* The bytes of a string.
Byte == 0..255

\* Where the measuring loop is, and the bytes it has skipped.
Places == [at : Nat, skipped : Nat]

\* The measuring loop of parse_string() has a place after every turn.
LEMMA ScanIs ==
  ASSUME inp \in Seq(Byte)
  PROVE  /\ Strings!Scan \in [0..Len(inp) -> Places]
         /\ Strings!Scan[0] = [at |-> 2, skipped |-> 0]
         /\ \A n \in 1..Len(inp) : Strings!Scan[n] = Strings!ScanTurn(Strings!Scan[n - 1])
<1> DEFINE l == Len(inp)
           x == [at |-> 2, skipped |-> 0]
           F == [k \in Nat |-> [s \in Places |-> Strings!ScanTurn(s)]]
           D == [n \in 0..l |-> IF n = 0 THEN x ELSE Strings!ScanTurn(Strings!Scan[n - 1])]
<1>1. l \in Nat /\ x \in Places BY DEF Places
<1>2. ASSUME NEW s \in Places PROVE Strings!ScanTurn(s) \in Places
  BY DEF Places, Strings!ScanTurn
<1>3. Turns(F, Places) BY <1>2 DEF Turns
<1>4. \A k \in Nat : \A s \in Places : F[k][s] = Strings!ScanTurn(s) OBVIOUS
<1> HIDE DEF F
<1>5. PICK f : Results(f, l, Places, x, F) BY <1>1, <1>3, Iterates
<1>6. f \in [0..l -> Places] /\ f[0] = x /\ \A k \in 1..l : f[k] = Strings!ScanTurn(f[k - 1])
  <2>1. f \in [0..l -> Places] /\ f[0] = x /\ \A k \in 1..l : f[k] = F[k][f[k - 1]] BY <1>5 DEF Results
  <2>2. ASSUME NEW k \in 1..l PROVE f[k] = Strings!ScanTurn(f[k - 1])
    <3>1. k \in Nat /\ k - 1 \in 0..l BY <1>1
    <3>2. f[k - 1] \in Places BY <2>1, <3>1
    <3> QED BY <1>4, <2>1, <3>1, <3>2
  <2> QED BY <2>1, <2>2
<1>7. f = [n \in 0..l |-> IF n = 0 THEN x ELSE Strings!ScanTurn(f[n - 1])]
  <2> DEFINE E == [n \in 0..l |-> IF n = 0 THEN x ELSE Strings!ScanTurn(f[n - 1])]
  <2>1. ASSUME NEW n \in 0..l PROVE f[n] = E[n]
    <3>1. n = 0 \/ n \in 1..l BY <1>1
    <3> QED BY <1>6, <3>1
  <2>2. DOMAIN E = 0..l /\ DOMAIN f = 0..l BY <1>6
  <2>3. f = [n \in 0..l |-> f[n]] BY <1>6
  <2>4. [n \in 0..l |-> f[n]] = E BY <2>1, Zenon
  <2> QED BY <2>3, <2>4
<1>8. Strings!Scan = CHOOSE g : g = [n \in 0..l |-> IF n = 0 THEN x ELSE Strings!ScanTurn(g[n - 1])]
  BY DEF Strings!Scan
<1>9. Strings!Scan = D BY <1>7, <1>8
<1>10. \A n \in 1..l : Strings!Scan[n] = Strings!ScanTurn(Strings!Scan[n - 1])
  <2> TAKE n \in 1..l
  <2>1. n \in 0..l /\ n # 0 BY <1>1
  <2> QED BY <1>9, <2>1
<1>11. Strings!Scan[0] = x BY <1>1, <1>9
<1>12. DOMAIN Strings!Scan = 0..l BY <1>9
<1> DEFINE P == {n \in Nat : n <= l => Strings!Scan[n] \in Places}
<1>13. 0 \in P BY <1>1, <1>11
<1>14. ASSUME NEW n \in Nat, n \in P PROVE n + 1 \in P
  <2> SUFFICES ASSUME n + 1 <= l PROVE Strings!Scan[n + 1] \in Places OBVIOUS
  <2>1. n + 1 \in 1..l /\ (n + 1) - 1 = n /\ n <= l BY <1>1
  <2>2. Strings!Scan[n] \in Places BY <1>14, <2>1
  <2> QED BY <1>2, <1>10, <2>1, <2>2
<1> HIDE DEF P
<1>15. Nat \subseteq P BY <1>13, <1>14, SetInduction
<1>16. ASSUME NEW n \in 0..l PROVE Strings!Scan[n] \in Places
  <2>1. n \in P /\ n <= l BY <1>1, <1>15
  <2> QED BY <2>1 DEF P
<1>17. Strings!Scan \in [0..l -> Places] BY <1>9, <1>12, <1>16
<1> QED BY <1>10, <1>11, <1>17

\* It goes forward, past each escape two bytes at a time, and stays where it stops.
LEMMA ScanOne ==
  ASSUME NEW s \in Places
  PROVE  /\ Strings!ScanTurn(s) \in Places
         /\ s.at <= Strings!ScanTurn(s).at
         /\ s.skipped <= Strings!ScanTurn(s).skipped
         /\ 2 * (Strings!ScanTurn(s).skipped - s.skipped) <= Strings!ScanTurn(s).at - s.at
         /\ Strings!ScanTurn(s) = s \/ Strings!ScanTurn(s).at \in {s.at + 1, s.at + 2}
         /\ Strings!ScanTurn(s) # s /\ inp[s.at] # 92
              => Strings!ScanTurn(s) = [at |-> s.at + 1, skipped |-> s.skipped]
<1>1. CASE Strings!ScanStops(s)
  <2>1. Strings!ScanTurn(s) = s BY <1>1 DEF Strings!ScanTurn
  <2>2. s.at \in Nat /\ s.skipped \in Nat BY DEF Places
  <2> QED BY <2>1, <2>2
<1>2. CASE ~ Strings!ScanStops(s) /\ inp[s.at] = 92
  <2>1. Strings!ScanTurn(s) = [at |-> s.at + 2, skipped |-> s.skipped + 1] BY <1>2 DEF Strings!ScanTurn, Strings!Backslash
  <2> QED BY <1>2, <2>1 DEF Places
<1>3. CASE ~ Strings!ScanStops(s) /\ inp[s.at] # 92
  <2>1. Strings!ScanTurn(s) = [at |-> s.at + 1, skipped |-> s.skipped] BY <1>3 DEF Strings!ScanTurn, Strings!Backslash
  <2> QED BY <2>1 DEF Places
<1> QED BY <1>1, <1>2, <1>3

\* Between two turns, escapes take two bytes each.
LEMMA ScanForward ==
  ASSUME inp \in Seq(Byte), NEW n \in 0..Len(inp), NEW m \in 0..Len(inp), n <= m
  PROVE  /\ Strings!Scan[n] \in Places /\ Strings!Scan[m] \in Places
         /\ Strings!Scan[n].at <= Strings!Scan[m].at /\ Strings!Scan[n].skipped <= Strings!Scan[m].skipped
         /\ 2 * (Strings!Scan[m].skipped - Strings!Scan[n].skipped) <= Strings!Scan[m].at - Strings!Scan[n].at
<1> DEFINE S == Strings!Scan
           l == Len(inp)
           Further(k) == S[n].at <= S[k].at /\ S[n].skipped <= S[k].skipped /\ 2 * (S[k].skipped - S[n].skipped) <= S[k].at - S[n].at
           P == {k \in Nat : n <= k /\ k <= l => Further(k)}
<1>1. /\ S \in [0..l -> Places]
      /\ \A k \in 1..l : S[k] = Strings!ScanTurn(S[k - 1])
  BY ScanIs
<1>2. l \in Nat /\ n \in Nat /\ m \in Nat OBVIOUS
<1> HIDE DEF S, l
<1>3. Further(n)
  <2>1. S[n] \in Places BY <1>1 DEF l
  <2>2. S[n].at \in Nat /\ S[n].skipped \in Nat BY <2>1 DEF Places
  <2> QED BY <2>2
<1>4. ASSUME NEW k \in Nat, k \in P PROVE k + 1 \in P
  <2> SUFFICES ASSUME n <= k + 1, k + 1 <= l PROVE Further(k + 1) OBVIOUS
  <2>1. CASE n = k + 1 BY <1>3, <2>1
  <2>2. CASE n <= k
    <3>1. k + 1 \in 1..l /\ (k + 1) - 1 = k /\ k \in 0..l /\ k <= l BY <1>2
    <3>2. Further(k) BY <1>4, <2>2, <3>1
    <3>3. S[k] \in Places /\ S[n] \in Places BY <1>1, <3>1 DEF l
    <3>4. S[k + 1] = Strings!ScanTurn(S[k]) BY <1>1, <3>1
    <3>5. /\ S[k + 1] \in Places /\ S[k].at <= S[k + 1].at /\ S[k].skipped <= S[k + 1].skipped
          /\ 2 * (S[k + 1].skipped - S[k].skipped) <= S[k + 1].at - S[k].at
      BY <3>3, <3>4, ScanOne
    <3>6. /\ S[k].at \in Nat /\ S[k].skipped \in Nat /\ S[k + 1].at \in Nat /\ S[k + 1].skipped \in Nat
          /\ S[n].at \in Nat /\ S[n].skipped \in Nat
      BY <3>3, <3>5 DEF Places
    <3> HIDE DEF P
    <3> DEFINE a == S[n].at
               b == S[k].at
               c == S[k + 1].at
               x == S[n].skipped
               y == S[k].skipped
               z == S[k + 1].skipped
    <3>7. a \in Nat /\ b \in Nat /\ c \in Nat /\ x \in Nat /\ y \in Nat /\ z \in Nat BY <3>6
    <3>8. a <= b /\ b <= c /\ x <= y /\ y <= z /\ 2 * (y - x) <= b - a /\ 2 * (z - y) <= c - b BY <3>2, <3>5
    <3> HIDE DEF a, b, c, x, y, z
    <3>10. a <= c /\ x <= z /\ 2 * (z - x) <= c - a BY <3>7, <3>8
    <3>9. Further(k + 1) BY <3>10 DEF a, c, x, z
    <3> QED BY <3>9
  <2> QED BY <1>2, <2>1, <2>2
<1>5. 0 \in P
  <2> SUFFICES ASSUME n <= 0 PROVE Further(0) OBVIOUS
  <2>1. n = 0 BY <1>2
  <2> QED BY <1>3, <2>1
<1> HIDE DEF P
<1>6. Nat \subseteq P BY <1>4, <1>5, SetInduction
<1>7. m \in P /\ m <= l BY <1>2, <1>6 DEF l
<1>8. Further(m) BY <1>2, <1>7 DEF P
<1>9. S[n] \in Places /\ S[m] \in Places BY <1>1 DEF l
<1> QED BY <1>8, <1>9 DEF S

\* A place at which the measuring loop stops is where it ends.
LEMMA ScanStays ==
  ASSUME inp \in Seq(Byte), NEW n \in 0..Len(inp), Strings!ScanTurn(Strings!Scan[n]) = Strings!Scan[n]
  PROVE  Strings!Scanned = Strings!Scan[n]
<1> DEFINE S == Strings!Scan
           l == Len(inp)
           P == {k \in Nat : n <= k /\ k <= l => S[k] = S[n]}
<1>1. \A k \in 1..l : S[k] = Strings!ScanTurn(S[k - 1]) BY ScanIs
<1>2. l \in Nat /\ n \in Nat /\ n <= l OBVIOUS
<1>3. Strings!ScanTurn(S[n]) = S[n] OBVIOUS
<1> HIDE DEF S, l
<1>4. ASSUME NEW k \in Nat, k \in P PROVE k + 1 \in P
  <2> SUFFICES ASSUME n <= k + 1, k + 1 <= l PROVE S[k + 1] = S[n] OBVIOUS
  <2>1. CASE n = k + 1 BY <2>1
  <2>2. CASE n <= k
    <3>1. k + 1 \in 1..l /\ (k + 1) - 1 = k /\ k <= l BY <1>2
    <3>2. S[k] = S[n] BY <1>4, <2>2, <3>1
    <3> HIDE DEF P
    <3>3. S[k + 1] = Strings!ScanTurn(S[k]) BY <1>1, <3>1
    <3> QED BY <1>3, <3>2, <3>3
  <2> QED BY <1>2, <2>1, <2>2
<1>5. 0 \in P BY <1>2
<1> HIDE DEF P
<1>6. Nat \subseteq P BY <1>4, <1>5, SetInduction
<1>7. l \in P BY <1>2, <1>6
<1>8. S[l] = S[n] BY <1>2, <1>7 DEF P
<1> QED BY <1>8 DEF S, l, Strings!Scanned

\* The measuring loop comes by every byte, or by the one after it.
LEMMA ScanReaches ==
  ASSUME inp \in Seq(Byte), NEW q \in Nat, 2 <= q, q <= Strings!Scanned.at
  PROVE  \E n \in 0..Len(inp) : Strings!Scan[n].at \in {q, q + 1} /\ Strings!Scan[n].at <= Strings!Scanned.at
<1> DEFINE S == Strings!Scan
           l == Len(inp)
           e == Strings!Scanned.at
           Met(j) == \E n \in 0..l : S[n].at \in {j, j + 1} /\ S[n].at <= e
           P == {j \in Nat : j + 2 <= e => Met(j + 2)}
<1>1. /\ S \in [0..l -> Places] /\ S[0] = [at |-> 2, skipped |-> 0]
      /\ \A k \in 1..l : S[k] = Strings!ScanTurn(S[k - 1])
  BY ScanIs
<1>2. l \in Nat /\ Strings!Scanned = S[l] BY DEF Strings!Scanned
<1>3. e \in Nat
  <2>1. S[l] \in Places BY <1>1, <1>2
  <2> QED BY <1>2, <2>1 DEF Places
<1>4. \A k \in 0..l : S[k] \in Places /\ S[k].at <= e
  <2> TAKE k \in 0..l
  <2>1. l \in 0..l /\ k <= l BY <1>2
  <2> QED BY <1>2, <2>1, ScanForward
<1>5. \A k \in 0..l : Strings!ScanTurn(S[k]) = S[k] => S[k].at = e
  BY ScanStays
<1> HIDE DEF S, l, e
<1>6. 0 \in P
  <2> SUFFICES ASSUME 2 <= e PROVE Met(2) BY <1>3
  <2>1. 0 \in 0..l BY <1>2
  <2>2. S[0].at = 2 BY <1>1
  <2> QED BY <1>3, <2>1, <2>2
<1>7. ASSUME NEW j \in Nat, j \in P PROVE j + 1 \in P
  <2> SUFFICES ASSUME (j + 1) + 2 <= e PROVE Met((j + 1) + 2) OBVIOUS
  <2> DEFINE p == j + 2
  <2>0. p \in Nat /\ (j + 1) + 2 = p + 1 /\ p + 1 <= e /\ p <= e BY <1>3
  <2>1. Met(p) BY <1>7, <2>0
  <2> HIDE DEF P, p
  <2>2. PICK n \in 0..l : S[n].at \in {p, p + 1} /\ S[n].at <= e BY <2>1
  <2>3. CASE S[n].at = p + 1
    <3>1. Met(p + 1) BY <2>0, <2>2, <2>3
    <3> QED BY <2>0, <3>1
  <2>4. CASE S[n].at = p
    <3>1. S[n].at # e BY <1>3, <2>0, <2>4
    <3>2. n # l BY <1>2, <3>1 DEF e
    <3>3. n + 1 \in 1..l /\ n + 1 \in 0..l /\ (n + 1) - 1 = n BY <1>2, <3>2
    <3>4. S[n + 1] = Strings!ScanTurn(S[n]) BY <1>1, <3>3
    <3>5. Strings!ScanTurn(S[n]) # S[n] BY <1>5, <3>1
    <3>6. S[n] \in Places BY <1>4
    <3>7. S[n + 1].at \in {p + 1, p + 2} BY <2>4, <3>4, <3>5, <3>6, ScanOne
    <3>8. S[n + 1].at <= e BY <1>4, <3>3
    <3>9. (p + 1) + 1 = p + 2 BY <2>0
    <3>10. Met(p + 1) BY <3>3, <3>7, <3>8, <3>9
    <3> QED BY <2>0, <3>10
  <2> QED BY <2>2, <2>3, <2>4
<1> HIDE DEF P
<1>8. Nat \subseteq P BY <1>6, <1>7, SetInduction
<1>9. q - 2 \in Nat /\ (q - 2) + 2 = q /\ q <= e BY DEF e
<1>10. q - 2 \in P BY <1>8, <1>9
<1>11. Met(q) BY <1>9, <1>10 DEF P
<1> QED BY <1>11 DEF S, l, e

---------------------------------------------------------------------------
\* parse_hex4() and the bytes of a code point.
Units16Bit == {n \in Nat : n <= 65535}

\* The code points of Unicode.
CodePoints == {n \in Nat : n <= 1114111}

\* parse_hex4() gives 16 bits.
LEMMA Hex4Is == \A k \in Nat : Strings!Hex4(k) \in Units16Bit
<1> SUFFICES ASSUME NEW k \in Nat PROVE Strings!Hex4(k) \in Units16Bit OBVIOUS
<1>1. \A c : Strings!Digit(c) \in 0..16
  <2> SUFFICES ASSUME NEW c PROVE Strings!Digit(c) \in 0..16 OBVIOUS
  <2>1. CASE c \in 48..57
    <3>1. Strings!Digit(c) = c - 48 BY <2>1 DEF Strings!Digit
    <3> QED BY <2>1, <3>1
  <2>2. CASE c \in 65..70
    <3>1. c \notin 48..57 BY <2>2
    <3>2. Strings!Digit(c) = (10 + c) - 65 BY <2>2, <3>1 DEF Strings!Digit
    <3> QED BY <2>2, <3>2
  <2>3. CASE c \in 97..102
    <3>1. c \notin 48..57 /\ c \notin 65..70 BY <2>3
    <3>2. Strings!Digit(c) = (10 + c) - 97 BY <2>3, <3>1 DEF Strings!Digit
    <3> QED BY <2>3, <3>2
  <2>4. CASE c \notin 48..57 /\ c \notin 65..70 /\ c \notin 97..102
    <3>1. Strings!Digit(c) = 16 BY <2>4 DEF Strings!Digit
    <3> QED BY <3>1
  <2> QED BY <2>1, <2>2, <2>3, <2>4
<1>2. CASE \E j \in 0..3 : Strings!Digit(inp[k + j]) = 16
  <2>1. Strings!Hex4(k) = 0 BY <1>2 DEF Strings!Hex4
  <2> QED BY <2>1, SMT DEF Units16Bit
<1>3. CASE ~ \E j \in 0..3 : Strings!Digit(inp[k + j]) = 16
  <2> DEFINE a == Strings!Digit(inp[k])
             b == Strings!Digit(inp[k + 1])
             c == Strings!Digit(inp[k + 2])
             d == Strings!Digit(inp[k + 3])
             z == Strings!Digit(inp[k + 0])
  <2>1. z \in 0..15 /\ b \in 0..15 /\ c \in 0..15 /\ d \in 0..15
    <3>1. z # 16 /\ b # 16 /\ c # 16 /\ d # 16 BY <1>3
    <3>2. z \in 0..16 /\ b \in 0..16 /\ c \in 0..16 /\ d \in 0..16 BY <1>1
    <3> HIDE DEF b, c, d, z
    <3> QED BY <3>1, <3>2
  <2>2. Strings!Hex4(k) = a * 4096 + b * 256 + c * 16 + d BY <1>3 DEF Strings!Hex4
  <2> HIDE DEF b, c, d
  <2> HIDE DEF a, z
  <2>4. k + 0 = k OBVIOUS
  <2>3. z = a BY <2>4 DEF z, a
  <2> QED BY <2>1, <2>2, <2>3, SMT DEF Units16Bit
<1> QED BY <1>2, <1>3

\* A code point takes at most four bytes of UTF-8, and one of 16 bits at most
\* three.
LEMMA Utf8Is ==
  ASSUME NEW c \in CodePoints
  PROVE  /\ Strings!Utf8(c) \in Seq(Byte) /\ Len(Strings!Utf8(c)) <= 4
         /\ c \in Units16Bit => Len(Strings!Utf8(c)) <= 3
<1> DEFINE t == 128 + ((c \div 1) % 64)
           u == 128 + ((c \div 64) % 64)
           v == 128 + ((c \div 4096) % 64)
           Wide == c >= 65536
           p == 240 + (c \div 262144)
<1>0. c \in Nat BY SMT DEF CodePoints
<1>1. t \in Byte /\ u \in Byte /\ v \in Byte BY <1>0, SMT DEF Byte
<1>2. Strings!Tail6(c, 1) = t /\ Strings!Tail6(c, 64) = u /\ Strings!Tail6(c, 4096) = v BY DEF Strings!Tail6
<1> HIDE DEF t, u, v
<1>7. p \in Byte BY SMT DEF Byte, CodePoints
<1>8. Wide => c \notin Units16Bit BY SMT DEF Units16Bit
<1> DEFINE n == c < 128
           o == c < 2048
           q == c < 65536
<1>13. (o <=> ~ (c >= 2048)) /\ (n => o) /\ (q <=> ~ Wide) /\ (n => q) /\ (o => q) /\ (n <=> ~ (c >= 128)) BY <1>0, SMT
<1>14. n => Strings!Utf8(c) = <<c>> BY <1>0, SMT DEF Strings!Utf8
<1>15. ~ n /\ o => Strings!Utf8(c) = <<192 + (c \div 64), t>> BY <1>0, <1>2, SMT DEF Strings!Utf8
<1>16. ~ o /\ q => Strings!Utf8(c) = <<224 + (c \div 4096), u, t>> BY <1>0, <1>2, SMT DEF Strings!Utf8
<1>17. ~ q => Strings!Utf8(c) = <<p, v, u, t>> BY <1>0, <1>2, SMT DEF Strings!Utf8
<1> HIDE DEF p, Wide, n, o, q
<1>9. /\ n => Strings!Utf8(c) = <<c>>
      /\ ~ n /\ o => Strings!Utf8(c) = <<192 + (c \div 64), t>>
      /\ ~ o /\ q => Strings!Utf8(c) = <<224 + (c \div 4096), u, t>>
      /\ ~ q => Strings!Utf8(c) = <<p, v, u, t>>
  BY <1>14, <1>15, <1>16, <1>17
<1>10. c >= 2048 /\ ~ Wide => 224 + (c \div 4096) \in Byte BY <1>0, SMT DEF Byte, Wide
<1>3. CASE c < 128
  <2>1. Strings!Utf8(c) = <<c>> BY <1>3, <1>9 DEF n
  <2>2. c \in Byte BY <1>0, <1>3 DEF Byte
  <2> QED BY <2>1, <2>2
<1>4. CASE c >= 128 /\ c < 2048
  <2>2. Strings!Utf8(c) = <<192 + (c \div 64), t>> BY <1>4, <1>9, <1>13 DEF o
  <2>3. 192 + (c \div 64) \in Byte BY <1>0, <1>4, SMT DEF Byte
  <2> QED BY <1>1, <2>2, <2>3
<1>5. CASE c >= 2048 /\ ~ Wide
  <2>2. Strings!Utf8(c) = <<224 + (c \div 4096), u, t>> BY <1>5, <1>9, <1>13
  <2>3. 224 + (c \div 4096) \in Byte BY <1>5, <1>10
  <2> QED BY <1>1, <2>2, <2>3
<1>6. CASE Wide
  <2>2. Strings!Utf8(c) = <<p, v, u, t>> BY <1>6, <1>9, <1>13
  <2>3. c \notin Units16Bit BY <1>6, <1>8
  <2> QED BY <1>1, <1>7, <2>2, <2>3
<1>11. c < 128 \/ (c >= 128 /\ c < 2048) \/ c >= 2048 BY <1>0
<1> QED BY <1>3, <1>4, <1>5, <1>6, <1>11

\* A surrogate pair makes a code point.
LEMMA PairIs ==
  ASSUME NEW h \in Units16Bit, NEW w \in Units16Bit
  PROVE  Strings!Pair(h, w) \in CodePoints
<1>0. h \in Nat /\ w \in Nat BY SMT DEF Units16Bit
<1>1. h % 1024 \in 0..1023 /\ w % 1024 \in 0..1023 BY <1>0, SMT
<1>2. Strings!Pair(h, w) = 65536 + (h % 1024) * 1024 + (w % 1024) BY SMT DEF Strings!Pair
<1> DEFINE a == h % 1024
           b == w % 1024
<1>3. a \in 0..1023 /\ b \in 0..1023 BY <1>1, SMT
<1>4. Strings!Pair(h, w) = 65536 + a * 1024 + b BY <1>2, SMT
<1> HIDE DEF a, b
<1> QED BY <1>3, <1>4, SMT DEF CodePoints

\* One character takes exactly the room it was counted for.
LEMMA NamedIs ==
  /\ DOMAIN Strings!Escapes = {"b", "f", "n", "r", "t"}
  /\ Strings!Named = {8, 12, 10, 13, 9}
  /\ \A e \in DOMAIN Strings!Escapes : Strings!Letter[e] \in Byte /\ Strings!Escapes[e] \in Byte
<1>1. DOMAIN Strings!Escapes = {"b", "f", "n", "r", "t"} BY DEF Strings!Escapes
<1>2. /\ Strings!Escapes["b"] = 8 /\ Strings!Escapes["f"] = 12 /\ Strings!Escapes["n"] = 10
      /\ Strings!Escapes["r"] = 13 /\ Strings!Escapes["t"] = 9
  BY DEF Strings!Escapes
<1>3. /\ Strings!Letter["b"] = 98 /\ Strings!Letter["f"] = 102 /\ Strings!Letter["n"] = 110
      /\ Strings!Letter["r"] = 114 /\ Strings!Letter["t"] = 116
  BY DEF Strings!Letter
<1>4. Strings!Named = {8, 12, 10, 13, 9} BY <1>1, <1>2 DEF Strings!Named
<1>5. \A e \in DOMAIN Strings!Escapes : Strings!Letter[e] \in Byte /\ Strings!Escapes[e] \in Byte
  BY <1>1, <1>2, <1>3 DEF Byte
<1> QED BY <1>1, <1>4, <1>5

\* print_string_ptr() writes a byte as one plus its counted escape characters.
LEMMA EscapedIs ==
  ASSUME NEW c \in Byte
  PROVE  /\ Strings!Escaped(c) \in Seq(Byte) /\ Strings!Extra(c) \in Nat
         /\ Len(Strings!Escaped(c)) = 1 + Strings!Extra(c)
<1>0. c \in Nat /\ c <= 255 BY DEF Byte
<1>1. CASE c \in {34, 92}
  <2>1. c \notin Strings!Named /\ ~ (c < 32) BY <1>1, NamedIs
  <2>2. Strings!Escaped(c) = <<92, c>>
    BY <1>1, <2>1 DEF Strings!Escaped, Strings!Quote, Strings!Backslash
  <2>3. Strings!Extra(c) = 1 BY <1>1 DEF Strings!Extra, Strings!Quote, Strings!Backslash
  <2>4. 92 \in Byte BY DEF Byte
  <2>5. <<92, c>> \in Seq(Byte) /\ Len(<<92, c>>) = 2 BY <2>4
  <2> QED BY <2>2, <2>3, <2>5
<1>2. CASE c \in Strings!Named
  <2>1. c \notin {34, 92} BY <1>2, NamedIs
  <2> DEFINE e == CHOOSE e \in DOMAIN Strings!Escapes : Strings!Escapes[e] = c
             l == Strings!Letter[e]
  <2>2. e \in DOMAIN Strings!Escapes BY <1>2 DEF Strings!Named
  <2>3. l \in Byte BY <2>2, NamedIs
  <2>4. Strings!Escaped(c) = <<92, l>>
    BY <1>2, <2>1 DEF Strings!Escaped, Strings!Quote, Strings!Backslash
  <2>5. Strings!Extra(c) = 1 BY <1>2 DEF Strings!Extra
  <2>6. 92 \in Byte BY DEF Byte
  <2> HIDE DEF e, l
  <2>7. <<92, l>> \in Seq(Byte) /\ Len(<<92, l>>) = 2 BY <2>3, <2>6
  <2> QED BY <2>4, <2>5, <2>7
<1>3. CASE c < 32 /\ c \notin Strings!Named
  <2>1. c \notin {34, 92} BY <1>0, <1>3
  <2> DEFINE x == Strings!LowerHex(c \div 16)
             y == Strings!LowerHex(c % 16)
  <2>2. c \div 16 \in 0..1 /\ c % 16 \in 0..15 BY <1>0, <1>3
  <2>3. x \in Byte /\ y \in Byte BY <2>2 DEF Strings!LowerHex, Byte
  <2>4. Strings!Escaped(c) = <<92, 117, 48, 48, x, y>>
    BY <1>3, <2>1 DEF Strings!Escaped, Strings!Quote, Strings!Backslash, Strings!LetterU
  <2>5. Strings!Extra(c) = 5 BY <1>3, <2>1 DEF Strings!Extra, Strings!Quote, Strings!Backslash
  <2>6. 92 \in Byte /\ 117 \in Byte /\ 48 \in Byte BY DEF Byte
  <2> HIDE DEF x, y
  <2>7. <<92, 117, 48, 48, x, y>> \in Seq(Byte) /\ Len(<<92, 117, 48, 48, x, y>>) = 6 BY <2>3, <2>6
  <2> QED BY <2>4, <2>5, <2>7
<1>4. CASE c \notin {34, 92} /\ ~ (c < 32) /\ c \notin Strings!Named
  <2>1. Strings!Escaped(c) = <<c>>
    BY <1>4 DEF Strings!Escaped, Strings!Quote, Strings!Backslash
  <2>2. Strings!Extra(c) = 0 BY <1>4 DEF Strings!Extra, Strings!Quote, Strings!Backslash
  <2>3. <<c>> \in Seq(Byte) /\ Len(<<c>>) = 1 OBVIOUS
  <2> QED BY <2>1, <2>2, <2>3
<1> QED BY <1>1, <1>2, <1>3, <1>4

\* The two loops of print_string_ptr() come to the same count.
LEMMA EscapeCharactersIs ==
  ASSUME NEW s \in Seq(Byte)
  PROVE  \E f : /\ f \in [0..Len(s) -> Nat] /\ f[0] = 0
                /\ \A n \in 1..Len(s) : f[n] = f[n - 1] + Strings!Extra(s[n])
                /\ Strings!EscapeCharacters(s) = f[Len(s)]
<1> DEFINE l == Len(s)
           F == [k \in Nat |-> [m \in Nat |-> IF k \in 1..l THEN m + Strings!Extra(s[k]) ELSE m]]
<1>1. l \in Nat OBVIOUS
<1>2. \A k \in 1..l : Strings!Extra(s[k]) \in Nat BY EscapedIs
<1>3. Turns(F, Nat) BY <1>2 DEF Turns
<1>4. \A k \in 1..l : \A m \in Nat : F[k][m] = m + Strings!Extra(s[k]) BY <1>1
<1> HIDE DEF F
<1>5. PICK f : Results(f, l, Nat, 0, F) BY <1>1, <1>3, Iterates
<1>6. f \in [0..l -> Nat] /\ f[0] = 0 /\ \A k \in 1..l : f[k] = f[k - 1] + Strings!Extra(s[k])
  <2>1. f \in [0..l -> Nat] /\ f[0] = 0 /\ \A k \in 1..l : f[k] = F[k][f[k - 1]] BY <1>5 DEF Results
  <2>2. ASSUME NEW k \in 1..l PROVE f[k] = f[k - 1] + Strings!Extra(s[k])
    <3>1. k - 1 \in 0..l BY <1>1
    <3>2. f[k - 1] \in Nat BY <2>1, <3>1
    <3> QED BY <1>4, <2>1, <3>2
  <2> QED BY <2>1, <2>2
<1> DEFINE G(g) == [n \in 0..l |-> IF n = 0 THEN 0 ELSE g[n - 1] + Strings!Extra(s[n])]
           g == CHOOSE g : g = G(g)
<1>7. f = G(f)
  <2>1. ASSUME NEW n \in 0..l PROVE f[n] = G(f)[n]
    <3>1. n = 0 \/ n \in 1..l BY <1>1
    <3> QED BY <1>6, <3>1
  <2>2. f = [n \in 0..l |-> f[n]] BY <1>6
  <2>3. [n \in 0..l |-> f[n]] = G(f) BY <2>1, Zenon
  <2> QED BY <2>2, <2>3
<1>8. Strings!EscapeCharacters(s) = g[l] BY DEF Strings!EscapeCharacters
<1>9. g = G(g) BY <1>7
<1> HIDE DEF g
<1>10. g[0] = 0 /\ \A n \in 1..l : g[n] = g[n - 1] + Strings!Extra(s[n])
  <2>1. g[0] = 0
    <3>1. 0 \in 0..l BY <1>1
    <3>2. G(g)[0] = 0 BY <3>1
    <3> QED BY <1>9, <3>2
  <2>2. ASSUME NEW n \in 1..l PROVE g[n] = g[n - 1] + Strings!Extra(s[n])
    <3>1. n \in 0..l /\ n # 0 BY <1>1
    <3>2. G(g)[n] = g[n - 1] + Strings!Extra(s[n]) BY <3>1
    <3> QED BY <1>9, <3>2
  <2> QED BY <2>1, <2>2
<1> DEFINE P == {n \in Nat : n <= l => g[n] = f[n]}
<1>11. 0 \in P BY <1>6, <1>10
<1>12. ASSUME NEW n \in Nat, n \in P PROVE n + 1 \in P
  <2> SUFFICES ASSUME n + 1 <= l PROVE g[n + 1] = f[n + 1] OBVIOUS
  <2>1. n + 1 \in 1..l /\ (n + 1) - 1 = n /\ n <= l BY <1>1
  <2>2. g[n] = f[n] BY <1>12, <2>1
  <2> HIDE DEF P
  <2> QED BY <1>6, <1>10, <2>1, <2>2
<1> HIDE DEF P
<1>13. l \in P BY <1>1, <1>11, <1>12, SetInduction
<1>14. g[l] = f[l] BY <1>1, <1>13 DEF P
<1> QED BY <1>6, <1>8, <1>14

\* The printed form of a string grows byte by byte.
LEMMA PrintedIs ==
  ASSUME NEW s \in Seq(Byte)
  PROVE  \E f : /\ f \in [0..Len(s) -> Seq(Byte)] /\ f[0] = << >>
                /\ \A n \in 1..Len(s) : f[n] = f[n - 1] \o Strings!Escaped(s[n])
                /\ Strings!Printed(s) = f[Len(s)]
<1> DEFINE l == Len(s)
           B == Seq(Byte)
           F == [k \in Nat |-> [m \in B |-> IF k \in 1..l THEN m \o Strings!Escaped(s[k]) ELSE m]]
<1>1. l \in Nat /\ << >> \in B OBVIOUS
<1>2. \A k \in 1..l : Strings!Escaped(s[k]) \in B BY EscapedIs
<1>3. Turns(F, B)
  <2>1. ASSUME NEW k \in Nat, NEW m \in B PROVE (IF k \in 1..l THEN m \o Strings!Escaped(s[k]) ELSE m) \in B
    <3>1. CASE k \in 1..l BY <1>2, <3>1
    <3>2. CASE k \notin 1..l BY <3>2
    <3> QED BY <3>1, <3>2
  <2> QED BY <2>1 DEF Turns
<1>4. \A k \in 1..l : \A m \in B : F[k][m] = m \o Strings!Escaped(s[k]) BY <1>1
<1> HIDE DEF F, B
<1>5. PICK f : Results(f, l, B, << >>, F) BY <1>1, <1>3, Iterates
<1>6. f \in [0..l -> B] /\ f[0] = << >> /\ \A k \in 1..l : f[k] = f[k - 1] \o Strings!Escaped(s[k])
  <2>1. f \in [0..l -> B] /\ f[0] = << >> /\ \A k \in 1..l : f[k] = F[k][f[k - 1]] BY <1>5 DEF Results
  <2>2. ASSUME NEW k \in 1..l PROVE f[k] = f[k - 1] \o Strings!Escaped(s[k])
    <3>1. k - 1 \in 0..l BY <1>1
    <3>2. f[k - 1] \in B BY <2>1, <3>1
    <3> QED BY <1>4, <2>1, <3>2
  <2> QED BY <2>1, <2>2
<1> DEFINE G(g) == [n \in 0..l |-> IF n = 0 THEN << >> ELSE g[n - 1] \o Strings!Escaped(s[n])]
           g == CHOOSE g : g = G(g)
<1>7. f = G(f)
  <2>1. ASSUME NEW n \in 0..l PROVE f[n] = G(f)[n]
    <3>1. n = 0 \/ n \in 1..l BY <1>1
    <3> QED BY <1>6, <3>1
  <2>2. f = [n \in 0..l |-> f[n]] BY <1>6
  <2>3. [n \in 0..l |-> f[n]] = G(f) BY <2>1, Zenon
  <2> QED BY <2>2, <2>3
<1>8. Strings!Printed(s) = g[l] BY DEF Strings!Printed
<1>9. g = G(g) BY <1>7
<1> HIDE DEF g
<1>10. g[0] = << >> /\ \A n \in 1..l : g[n] = g[n - 1] \o Strings!Escaped(s[n])
  <2>1. g[0] = << >>
    <3>1. 0 \in 0..l BY <1>1
    <3>2. G(g)[0] = << >> BY <3>1
    <3> QED BY <1>9, <3>2
  <2>2. ASSUME NEW n \in 1..l PROVE g[n] = g[n - 1] \o Strings!Escaped(s[n])
    <3>1. n \in 0..l /\ n # 0 BY <1>1
    <3>2. G(g)[n] = g[n - 1] \o Strings!Escaped(s[n]) BY <3>1
    <3> QED BY <1>9, <3>2
  <2> QED BY <2>1, <2>2
<1> DEFINE P == {n \in Nat : n <= l => g[n] = f[n]}
<1>11. 0 \in P BY <1>6, <1>10
<1>12. ASSUME NEW n \in Nat, n \in P PROVE n + 1 \in P
  <2> SUFFICES ASSUME n + 1 <= l PROVE g[n + 1] = f[n + 1] OBVIOUS
  <2>1. n + 1 \in 1..l /\ (n + 1) - 1 = n /\ n <= l BY <1>1
  <2>2. g[n] = f[n] BY <1>12, <2>1
  <2> HIDE DEF P
  <2> QED BY <1>6, <1>10, <2>1, <2>2
<1> HIDE DEF P
<1>13. l \in P BY <1>1, <1>11, <1>12, SetInduction
<1>14. g[l] = f[l] BY <1>1, <1>13 DEF P
<1> QED BY <1>6, <1>8, <1>14 DEF B

\* The length print_string_ptr() computes is the length of what it writes.
LEMMA PrintedLength ==
  ASSUME NEW s \in Seq(Byte)
  PROVE  /\ Strings!Printed(s) \in Seq(Byte) /\ Strings!EscapeCharacters(s) \in Nat /\ Len(s) \in Nat
         /\ Len(Strings!Printed(s)) = Len(s) + Strings!EscapeCharacters(s)
<1> DEFINE l == Len(s)
<1>1. PICK f : /\ f \in [0..l -> Nat] /\ f[0] = 0
               /\ \A n \in 1..l : f[n] = f[n - 1] + Strings!Extra(s[n])
               /\ Strings!EscapeCharacters(s) = f[l]
  BY EscapeCharactersIs
<1>2. PICK g : /\ g \in [0..l -> Seq(Byte)] /\ g[0] = << >>
               /\ \A n \in 1..l : g[n] = g[n - 1] \o Strings!Escaped(s[n])
               /\ Strings!Printed(s) = g[l]
  BY PrintedIs
<1>3. l \in Nat OBVIOUS
<1> DEFINE P == {n \in Nat : n <= l => Len(g[n]) = n + f[n]}
<1>4. 0 \in P BY <1>1, <1>2, <1>3
<1>5. ASSUME NEW n \in Nat, n \in P PROVE n + 1 \in P
  <2> SUFFICES ASSUME n + 1 <= l PROVE Len(g[n + 1]) = (n + 1) + f[n + 1] OBVIOUS
  <2>1. n + 1 \in 1..l /\ (n + 1) - 1 = n /\ n <= l /\ n \in 0..l BY <1>3
  <2>2. Len(g[n]) = n + f[n] BY <1>5, <2>1
  <2> HIDE DEF P, l
  <2>3. s[n + 1] \in Byte BY <2>1 DEF l
  <2> DEFINE e == Strings!Escaped(s[n + 1])
  <2>4. e \in Seq(Byte) /\ Strings!Extra(s[n + 1]) \in Nat /\ Len(e) = 1 + Strings!Extra(s[n + 1]) BY <2>3, EscapedIs
  <2>5. g[n] \in Seq(Byte) /\ f[n] \in Nat BY <1>1, <1>2, <2>1
  <2>6. g[n + 1] = g[n] \o e /\ f[n + 1] = f[n] + Strings!Extra(s[n + 1]) BY <1>1, <1>2, <2>1
  <2> HIDE DEF e
  <2>7. Len(g[n] \o e) = Len(g[n]) + Len(e) BY <2>4, <2>5, ConcatProperties
  <2> DEFINE x == Strings!Extra(s[n + 1])
             y == f[n]
  <2>8. x \in Nat /\ y \in Nat /\ Len(e) = 1 + x /\ Len(g[n]) = n + y /\ f[n + 1] = y + x BY <2>2, <2>4, <2>5, <2>6
  <2>9. Len(g[n + 1]) = (n + y) + (1 + x) BY <2>6, <2>7, <2>8
  <2> HIDE DEF x, y
  <2>10. (n + y) + (1 + x) = (n + 1) + (y + x) BY <2>8
  <2> QED BY <2>8, <2>9, <2>10
<1> HIDE DEF P
<1>6. l \in P BY <1>3, <1>4, <1>5, SetInduction
<1>7. Len(g[l]) = l + f[l] BY <1>3, <1>6 DEF P
<1>8. l \in 0..l BY <1>3
<1> QED BY <1>1, <1>2, <1>3, <1>7, <1>8

\* While a string is converted: the measuring loop counted, at the byte reached or the one
\* after it, no more escapes than there are bytes read and not written.
Fitting ==
  /\ end = Strings!Scanned.at /\ end < Len(inp)
  /\ pos \in 2..(end + 1)
  /\ room = end - Strings!Scanned.skipped
  /\ pos <= end =>
       \A n \in 0..Len(inp) :
         Strings!Scan[n].at \in {pos, pos + 1} /\ Strings!Scan[n].at <= end
           => Len(out) + Strings!Scan[n].skipped <= pos - 2
  /\ pos = end + 1 => Len(out) + Strings!Scanned.skipped <= end - 2

\* The invariant of a string: both loops stay in the literal, and what the
\* converting loop has left to write fits the room the measuring loop found.
StringInv ==
  /\ Strings!TypeOK
  /\ Len(inp) >= 2 /\ inp[Len(inp)] = 0
  /\ first # << >> => first[Len(first)] = 0
  /\ st = "print" => first # << >>
  /\ st = "measure" => pos = 2 /\ end = 0 /\ out = << >>
  /\ Strings!PrintFillsRoom
  /\ st = "convert" => Fitting
  /\ Strings!WritesWithinRoom

\* The bytes of CJsonString.
LEMMA ByteIs == Strings!Bytes = Byte BY DEF Strings!Bytes, Byte

\* The measuring loop depends on the literal only.
LEMMA ScanUnchanged ==
  ASSUME inp' = inp
  PROVE  Strings!Scan' = Strings!Scan /\ Strings!Scanned' = Strings!Scanned
<1>1. Strings!Scan' = Strings!Scan BY DEF Strings!Scan, Strings!ScanTurn, Strings!ScanStops
<1> QED BY <1>1 DEF Strings!Scanned

\* Strings of bytes can be joined.
LEMMA BytesJoin ==
  ASSUME NEW a, NEW b, a \in Seq(Byte), b \in Seq(Byte)
  PROVE  /\ a \o b \in Seq(Byte)
         /\ Len(a) \in Nat /\ Len(b) \in Nat /\ Len(a \o b) = Len(a) + Len(b)
         /\ \A k \in 1..Len(a) : (a \o b)[k] = a[k]
         /\ Len(b) >= 1 => (a \o b)[Len(a \o b)] = b[Len(b)]
<1>1. Len(a) \in Nat /\ Len(b) \in Nat OBVIOUS
<1> DEFINE c == a \o b
<1>2. /\ c \in Seq(Byte) /\ Len(c) = Len(a) + Len(b)
      /\ \A k \in 1..(Len(a) + Len(b)) : c[k] = IF k <= Len(a) THEN a[k] ELSE b[k - Len(a)]
  BY ConcatProperties
<1> HIDE DEF c
<1>3. \A k \in 1..Len(a) : c[k] = a[k] BY <1>1, <1>2
<1>4. ASSUME Len(b) >= 1 PROVE c[Len(c)] = b[Len(b)]
  <2>1. Len(c) \in 1..(Len(a) + Len(b)) /\ ~ (Len(c) <= Len(a)) /\ Len(c) - Len(a) = Len(b) BY <1>1, <1>2, <1>4
  <2> QED BY <1>2, <2>1
<1> QED BY <1>1, <1>2, <1>3, <1>4 DEF c

\* A literal in its quotes.
LEMMA QuotedIs ==
  ASSUME NEW s \in Seq(Byte), NEW z \in Seq(Byte), Len(z) >= 1, z[Len(z)] = 0
  PROVE  /\ (<<34>> \o s) \o z \in Seq(Byte)
         /\ Len((<<34>> \o s) \o z) = (1 + Len(s)) + Len(z)
         /\ ((<<34>> \o s) \o z)[Len((<<34>> \o s) \o z)] = 0
<1> DEFINE q == <<34>>
           a == q \o s
           b == a \o z
<1>1. 34 \in Byte BY DEF Byte
<1>2. q \in Seq(Byte) /\ Len(q) = 1 BY <1>1
<1>3. Len(s) \in Nat /\ Len(z) \in Nat /\ s \in Seq(Byte) /\ z \in Seq(Byte) OBVIOUS
<1> HIDE DEF q
<1>6. q \o s \in Seq(Byte) /\ Len(q \o s) = Len(q) + Len(s) BY <1>2, <1>3, BytesJoin
<1>4. a \in Seq(Byte) /\ Len(a) = 1 + Len(s) BY <1>2, <1>6
<1> HIDE DEF a
<1>5. b \in Seq(Byte) /\ Len(b) = Len(a) + Len(z) /\ b[Len(b)] = z[Len(z)] BY <1>3, <1>4, BytesJoin
<1> QED BY <1>4, <1>5 DEF a, b, q

\* A string begins with it.
LEMMA StringInitially == Strings!Init => StringInv
<1> SUFFICES ASSUME Strings!Init PROVE StringInv OBVIOUS
<1> DEFINE z == IF closed THEN <<34, 0>> ELSE <<0>>
<1>1. /\ literal \in StringTexts /\ closed \in BOOLEAN /\ inp = (<<34>> \o literal.src) \o z
      /\ pos = 2 /\ end = 0 /\ room = 0 /\ out = << >> /\ first = << >> /\ st = "measure"
  BY DEF Strings!Init, Strings!Quote
<1>2. literal.src \in Seq(Byte) BY <1>1, StringTextsAssumption DEF Byte
<1>3. z \in Seq(Byte) /\ Len(z) >= 1 /\ z[Len(z)] = 0
  <2>1. 34 \in Byte /\ 0 \in Byte BY DEF Byte
  <2>2. <<34, 0>> \in Seq(Byte) /\ Len(<<34, 0>>) = 2 /\ <<34, 0>>[2] = 0 BY <2>1
  <2>3. <<0>> \in Seq(Byte) /\ Len(<<0>>) = 1 /\ <<0>>[1] = 0 BY <2>1
  <2>4. CASE closed
    <3>1. z = <<34, 0>> BY <2>4
    <3> QED BY <2>2, <3>1
  <2>5. CASE ~ closed
    <3>1. z = <<0>> BY <2>5
    <3> QED BY <2>3, <3>1
  <2> QED BY <2>4, <2>5
<1> HIDE DEF z
<1>4. inp \in Seq(Byte) /\ Len(inp) = (1 + Len(literal.src)) + Len(z) /\ inp[Len(inp)] = 0
  BY <1>1, <1>2, <1>3, QuotedIs
<1>5. Len(literal.src) \in Nat /\ Len(z) \in Nat BY <1>2, <1>3
<1>6. Len(inp) >= 2 /\ Len(inp) \in Nat BY <1>3, <1>4, <1>5
<1>7. Strings!TypeOK
  <2>1. pos \in 1..Len(inp) /\ end \in 0..Len(inp) BY <1>1, <1>6
  <2>2. out \in Seq(Byte) /\ first \in Seq(Byte) BY <1>1
  <2> QED BY <1>1, <1>4, <2>1, <2>2, ByteIs DEF Strings!TypeOK
<1> QED BY <1>1, <1>4, <1>6, <1>7 DEF StringInv, Strings!PrintFillsRoom, Strings!WritesWithinRoom

\* A literal without its closing quote, and a failed allocation, keep it.
LEMMA StringRejects ==
  ASSUME StringInv, Strings!Reject \/ Strings!MeasureNoMemory
  PROVE  StringInv'
<1>1. st' \in {"false", "nomemory"} /\ UNCHANGED <<inp, pos, end, room, out, first>>
  BY DEF Strings!Reject, Strings!MeasureNoMemory
<1>2. Strings!TypeOK' BY <1>1 DEF StringInv, Strings!TypeOK
<1>3. (Strings!PrintFillsRoom)' /\ (Strings!WritesWithinRoom)'
  BY <1>1 DEF Strings!PrintFillsRoom, Strings!WritesWithinRoom
<1>4. Len(inp') >= 2 /\ inp'[Len(inp')] = 0 /\ (first' # << >> => first'[Len(first')] = 0) BY <1>1 DEF StringInv
<1> QED BY <1>1, <1>2, <1>3, <1>4 DEF StringInv

\* The measuring loop establishes that the string will fit.
LEMMA StringMeasures == ASSUME StringInv, Strings!Measure PROVE StringInv'
<1>1. CASE Strings!Reject BY <1>1, StringRejects
<1>2. CASE ~ Strings!Reject
  <2>1. /\ st = "measure" /\ Strings!Found /\ end' = Strings!Scanned.at /\ room' = Strings!Room(Strings!Scanned)
        /\ st' = "convert" /\ UNCHANGED <<inp, pos, out, first>>
    BY <1>2 DEF Strings!Measure
  <2>2. /\ inp \in Seq(Byte) /\ out = << >> /\ pos = 2 /\ inp[Len(inp)] = 0 /\ Len(inp) >= 2 /\ Len(inp) \in Nat
    BY <2>1, ByteIs DEF StringInv, Strings!TypeOK
  <2> DEFINE l == Len(inp)
             S == Strings!Scan
  <2>3. S \in [0..l -> Places] /\ S[0] = [at |-> 2, skipped |-> 0] BY <2>2, ScanIs
  <2>4. S[l] = Strings!Scanned /\ l \in 0..l /\ 0 \in 0..l BY <2>2 DEF Strings!Scanned
  <2>5. /\ S[l] \in Places /\ 2 <= S[l].at /\ 2 * (S[l].skipped - 0) <= S[l].at - 2
    <3>1. S[0].at = 2 /\ S[0].skipped = 0 BY <2>3
    <3>2. 0 <= l BY <2>2
    <3> QED BY <2>2, <2>4, <3>1, <3>2, ScanForward
  <2> DEFINE e == Strings!Scanned.at
             k == Strings!Scanned.skipped
  <2>6. e \in Nat /\ k \in Nat /\ 2 <= e /\ 2 * k <= e - 2 BY <2>4, <2>5 DEF Places
  <2>7. e <= l /\ inp[e] = 34 BY <2>1 DEF Strings!Found, Strings!Quote
  <2>8. e < l
    <3>1. e # l BY <2>2, <2>7
    <3> QED BY <2>2, <2>6, <2>7, <3>1
  <2>9. room' = e - k
    <3>1. room' = ((e - 1) - k) + 1 BY <2>1 DEF Strings!Room
    <3> HIDE DEF e, k
    <3> QED BY <2>6, <3>1
  <2>10. Strings!Scan' = S /\ Strings!Scanned' = Strings!Scanned BY <2>1, ScanUnchanged
  <2>11. ASSUME NEW n \in 0..l, S[n].at \in {2, 2 + 1}, S[n].at <= e PROVE 0 + S[n].skipped <= 2 - 2
    <3>1. S[0].at = 2 /\ S[0].skipped = 0 BY <2>3
    <3>2. 0 <= n BY <2>2
    <3>3. S[n] \in Places /\ 2 * (S[n].skipped - 0) <= S[n].at - 2 BY <2>2, <2>4, <3>1, <3>2, ScanForward
    <3>4. S[n].at \in Nat /\ S[n].skipped \in Nat BY <3>3 DEF Places
    <3> DEFINE a == S[n].at
               b == S[n].skipped
    <3>5. a \in Nat /\ b \in Nat /\ a <= 3 /\ 2 * (b - 0) <= a - 2 BY <2>11, <3>3, <3>4
    <3> HIDE DEF a, b
    <3>6. b = 0 BY <3>5
    <3> QED BY <3>6 DEF b
  <2>12. Fitting'
    <3>1. Len(out') = 0 /\ pos' = 2 /\ end' = e BY <2>1, <2>2
    <3>2. pos' \in 2..(end' + 1) /\ pos' # end' + 1 BY <2>6, <3>1
    <3>3. \A n \in 0..Len(inp') : (Strings!Scan')[n].at \in {pos', pos' + 1} /\ (Strings!Scan')[n].at <= end'
            => Len(out') + (Strings!Scan')[n].skipped <= pos' - 2
      BY <2>1, <2>10, <2>11, <3>1
    <3> QED BY <2>1, <2>8, <2>9, <2>10, <3>2, <3>3 DEF Fitting
  <2>13. Strings!TypeOK' BY <2>1, <2>6, <2>7, ByteIs DEF StringInv, Strings!TypeOK
  <2>14. (Strings!WritesWithinRoom)'
    <3>1. Len(out') = 0 BY <2>1, <2>2
    <3> HIDE DEF e, k
    <3>2. 0 <= e - k BY <2>6
    <3> QED BY <2>9, <3>1, <3>2 DEF Strings!WritesWithinRoom
  <2> QED BY <2>1, <2>12, <2>13, <2>14 DEF StringInv, Strings!PrintFillsRoom
<1> QED BY <1>1, <1>2

\* What a step of the converting loop may write for the n bytes it reads.
Allowed(b, n) ==
  \/ n = 1 /\ Len(b) = 1 /\ inp[pos] # 92
  \/ n = 2 /\ Len(b) = 1
  \/ n = 6 /\ Len(b) <= 3 /\ pos + 6 <= end
  \/ n = 12 /\ Len(b) <= 4 /\ pos + 12 <= end

\* The escapes counted for the n bytes leave room for what is written for them.
LEMMA CountedEscapes ==
  ASSUME StringInv, Strings!Converting, NEW b \in Seq(Byte), NEW n \in {1, 2, 6, 12}, Allowed(b, n),
         NEW m \in 0..Len(inp), Strings!Scan[m].at <= pos + n + 1, Strings!Scan[m].at <= end,
         pos + n <= end => Strings!Scan[m].at >= pos + n,
         pos + n > end => Strings!Scan[m].at = end
  PROVE  (Len(out) + Len(b)) + Strings!Scan[m].skipped <= (pos + n) - 2 - (IF pos + n > end THEN 1 ELSE 0)
<1> DEFINE S == Strings!Scan
           l == Len(inp)
<1>1. /\ inp \in Seq(Byte) /\ Fitting /\ pos \in Nat /\ end \in Nat /\ pos < end /\ 2 <= pos /\ out \in Seq(Byte)
  BY ByteIs DEF StringInv, Strings!TypeOK, Strings!Converting, Fitting
<1>18. pos <= end BY <1>1
<1>2. end = Strings!Scanned.at /\ \A k \in 0..l : S[k].at \in {pos, pos + 1} /\ S[k].at <= end
                                    => Len(out) + S[k].skipped <= pos - 2
  BY <1>1, <1>18 DEF Fitting
<1>3. l \in Nat /\ S \in [0..l -> Places] /\ Len(out) \in Nat /\ Len(b) \in Nat BY <1>1, ScanIs
<1>4. PICK k \in 0..l : S[k].at \in {pos, pos + 1} /\ S[k].at <= end
  <2>1. pos <= Strings!Scanned.at BY <1>2, <1>18
  <2>2. \E k \in 0..l : S[k].at \in {pos, pos + 1} /\ S[k].at <= Strings!Scanned.at BY <1>1, <2>1, ScanReaches
  <2> QED BY <1>2, <2>2
<1>5. Len(out) + S[k].skipped <= pos - 2 BY <1>2, <1>4
<1>6. S[k] \in Places /\ S[m] \in Places BY <1>3
<1> DEFINE a == S[k].at
           x == S[k].skipped
           c == S[m].at
           y == S[m].skipped
<1>7. a \in Nat /\ x \in Nat /\ c \in Nat /\ y \in Nat BY <1>6 DEF Places
<1>8. /\ a \in {pos, pos + 1} /\ a <= end /\ Len(out) + x <= pos - 2
      /\ c <= pos + n + 1 /\ c <= end /\ (pos + n <= end => c >= pos + n) /\ (pos + n > end => c = end)
  BY <1>4, <1>5
<1>9. k <= m => 2 * (y - x) <= c - a BY <1>1, <1>3, ScanForward
<1>10. m <= k => y <= x BY <1>1, <1>3, ScanForward
<1>11. k <= m \/ m <= k BY <1>3
\* Reading one byte that is no backslash: the measuring loop did the same.
<1>12. ASSUME n = 1, inp[pos] # 92, a = pos, k <= m PROVE 2 * (y - x) <= c - (a + 1)
  <2>1. c >= pos + 1 BY <1>1, <1>7, <1>8, <1>12
  <2>2. k # m BY <1>1, <1>7, <1>12, <2>1
  <2>3. k + 1 \in 0..l /\ k + 1 \in 1..l /\ (k + 1) - 1 = k /\ k + 1 <= m BY <1>3, <1>12, <2>2
  <2>4. S[k + 1] = Strings!ScanTurn(S[k]) BY <1>1, <2>3, ScanIs
  <2>5. Strings!ScanTurn(S[k]) # S[k]
    <3> SUFFICES ASSUME Strings!ScanTurn(S[k]) = S[k] PROVE FALSE OBVIOUS
    <3>1. Strings!Scanned = S[k] BY <1>1, ScanStays
    <3>2. end = pos BY <1>2, <1>12, <3>1
    <3> QED BY <1>1, <3>2
  <2>6. inp[S[k].at] # 92 BY <1>12
  <2>7. S[k + 1] = [at |-> a + 1, skipped |-> x] BY <1>6, <2>4, <2>5, <2>6, ScanOne
  <2>8. S[k + 1].at = a + 1 /\ S[k + 1].skipped = x BY <2>7
  <2>9. 2 * (S[m].skipped - S[k + 1].skipped) <= S[m].at - S[k + 1].at BY <1>1, <2>3, ScanForward
  <2> QED BY <2>8, <2>9
<1> DEFINE o == Len(out)
           w == Len(b)
<1>13. o \in Nat /\ w \in Nat BY <1>3
<1>14. \/ n = 1 /\ w = 1 /\ inp[pos] # 92
       \/ n = 2 /\ w = 1
       \/ n = 6 /\ w <= 3 /\ pos + 6 <= end
       \/ n = 12 /\ w <= 4 /\ pos + 12 <= end
  BY DEF Allowed
<1>15. o + x <= pos - 2 BY <1>5
<1> HIDE DEF a, x, c, y, o, w, S, l
<1>t. pos \in Nat /\ end \in Nat /\ pos < end BY <1>1
<1>19. \/ y <= x + 1 /\ (n = 1 => y <= x) /\ (n = 2 /\ pos + n > end => y <= x)
       \/ n \in {6, 12} /\ y <= x + n \div 2
  <2>1. CASE m <= k
    <3>1. y <= x BY <1>10, <2>1
    <3> QED BY <1>7, <3>1
  <2>2. CASE k <= m
    <3>1. 2 * (y - x) <= c - a BY <1>9, <2>2
    <3>2. CASE n = 1
      <4>1. inp[pos] # 92 BY <1>14, <3>2
      <4>2. a = pos => 2 * (y - x) <= c - (a + 1) BY <1>12, <2>2, <3>2, <4>1
      <4>3. y <= x BY <1>t, <1>7, <1>8, <3>1, <3>2, <4>2
      <4> QED BY <1>7, <3>2, <4>3
    <3>3. CASE n = 2
      <4>1. 2 * (y - x) <= 3 BY <1>t, <1>7, <1>8, <3>1, <3>3
      <4>2. y <= x + 1 BY <1>7, <4>1
      <4>3. pos + n > end => 2 * (y - x) <= 1 BY <1>t, <1>7, <1>8, <3>1, <3>3
      <4>4. pos + n > end => y <= x BY <1>7, <4>3
      <4> QED BY <3>3, <4>2, <4>4
    <3>4. CASE n = 6
      <4>5. c <= pos + n + 1 /\ a \in {pos, pos + 1} BY <1>8
      <4>3. c <= pos + 7 /\ pos <= a BY <1>t, <1>7, <3>4, <4>5
      <4>4. c - a <= 7 BY <1>t, <1>7, <4>3
      <4>1. 2 * (y - x) <= 7 BY <1>7, <3>1, <4>4
      <4>2. y <= x + 3 /\ n \div 2 = 3 BY <1>7, <3>4, <4>1
      <4> QED BY <3>4, <4>2
    <3>5. CASE n = 12
      <4>5. c <= pos + n + 1 /\ a \in {pos, pos + 1} BY <1>8
      <4>3. c <= pos + 13 /\ pos <= a BY <1>t, <1>7, <3>5, <4>5
      <4>4. c - a <= 13 BY <1>t, <1>7, <4>3
      <4>1. 2 * (y - x) <= 13 BY <1>7, <3>1, <4>4
      <4>2. y <= x + 6 /\ n \div 2 = 6 BY <1>7, <3>5, <4>1
      <4> QED BY <3>5, <4>2
    <3> QED BY <3>2, <3>3, <3>4, <3>5
  <2> QED BY <1>11, <2>1, <2>2
<1>20. (o + w) + y <= (pos + n) - 2 - (IF pos + n > end THEN 1 ELSE 0)
  <2>1. CASE n = 1
    <3>1. pos + n <= end /\ w = 1 /\ y <= x BY <1>t, <1>14, <1>19, <2>1
    <3> QED BY <1>t, <1>7, <1>13, <1>15, <2>1, <3>1
  <2>2. CASE n = 2 /\ pos + n > end
    <3>1. w = 1 /\ y <= x BY <1>14, <1>19, <2>2
    <3>2. (o + w) + y <= (pos + n) - 3 BY <1>t, <1>7, <1>13, <1>15, <2>2, <3>1
    <3> QED BY <1>t, <1>7, <2>2, <3>2
  <2>3. CASE n = 2 /\ ~ (pos + n > end)
    <3>1. w = 1 /\ y <= x + 1 BY <1>14, <1>19, <2>3
    <3> QED BY <1>t, <1>7, <1>13, <1>15, <2>3, <3>1
  <2>4. CASE n = 6
    <3>1. w <= 3 /\ y <= x + 3 /\ pos + n <= end BY <1>7, <1>14, <1>19, <2>4
    <3> QED BY <1>t, <1>7, <1>13, <1>15, <2>4, <3>1
  <2>5. CASE n = 12
    <3>1. w <= 4 /\ y <= x + 6 /\ pos + n <= end BY <1>7, <1>14, <1>19, <2>5
    <3> QED BY <1>t, <1>7, <1>13, <1>15, <2>5, <3>1
  <2> QED BY <2>1, <2>2, <2>3, <2>4, <2>5
<1> QED BY <1>20 DEF S, o, w, y

\* A step that writes no more than the bytes it reads allow keeps it.
LEMMA StringWrites ==
  ASSUME StringInv, Strings!Converting, NEW b, b \in Seq(Byte), NEW n \in {1, 2, 6, 12}, Allowed(b, n),
         Strings!Write(b, n)
  PROVE  StringInv'
<1> DEFINE S == Strings!Scan
           l == Len(inp)
           Q == Strings!Scanned
<1>0. /\ out' = out \o b /\ pos' = pos + n /\ UNCHANGED <<inp, end, room, first, st>> BY DEF Strings!Write
<1>1. /\ inp \in Seq(Byte) /\ Fitting /\ pos \in Nat /\ end \in Nat /\ pos < end /\ 2 <= pos /\ out \in Seq(Byte)
      /\ st = "convert"
  BY ByteIs DEF StringInv, Strings!TypeOK, Strings!Converting, Fitting
<1>2. end = Q.at /\ room = end - Q.skipped /\ end < l BY <1>1 DEF Fitting
<1>3. l \in Nat /\ S \in [0..l -> Places] /\ Q = S[l] /\ l \in 0..l BY <1>1, ScanIs DEF Strings!Scanned
<1>4. Q.skipped \in Nat BY <1>3 DEF Places
<1>5. out' \in Seq(Byte) /\ Len(out') = Len(out) + Len(b) /\ Len(out) \in Nat /\ Len(b) \in Nat BY <1>0, <1>1, BytesJoin
<1>6. Strings!Scan' = S /\ Strings!Scanned' = Q BY <1>0, ScanUnchanged
<1>7. pos + n <= end + 1
  <2>1. pos + 1 <= end /\ pos + 2 <= end + 1 BY <1>1
  <2> QED BY <1>1, <2>1 DEF Allowed
<1>8. ASSUME pos + n <= end, NEW m \in 0..l, S[m].at \in {pos + n, (pos + n) + 1}, S[m].at <= end
      PROVE  Len(out') + S[m].skipped <= (pos + n) - 2
  <2>1. S[m].at \in Nat /\ S[m].skipped \in Nat BY <1>3 DEF Places
  <2>2. S[m].at <= pos + n + 1 /\ S[m].at >= pos + n /\ ~ (pos + n > end) BY <1>1, <1>8, <2>1
  <2>3. (Len(out) + Len(b)) + S[m].skipped <= (pos + n) - 2 - (IF pos + n > end THEN 1 ELSE 0)
    BY <1>8, <2>2, CountedEscapes
  <2>4. (Len(out) + Len(b)) + S[m].skipped <= ((pos + n) - 2) - 0 BY <2>2, <2>3
  <2> QED BY <1>1, <1>5, <2>4
<1>9. ASSUME pos + n = end + 1 PROVE Len(out') + Q.skipped <= end - 2
  <2>1. S[l].at = end /\ S[l].skipped = Q.skipped BY <1>2, <1>3
  <2>2. S[l].at <= pos + n + 1 /\ S[l].at <= end /\ pos + n > end /\ ~ (pos + n <= end) BY <1>1, <1>9, <2>1
  <2>3. (Len(out) + Len(b)) + S[l].skipped <= (pos + n) - 2 - (IF pos + n > end THEN 1 ELSE 0)
    BY <1>3, <2>1, <2>2, CountedEscapes
  <2>4. (Len(out) + Len(b)) + Q.skipped <= ((end + 1) - 2) - 1 BY <1>9, <2>1, <2>2, <2>3
  <2> QED BY <1>1, <1>4, <1>5, <2>4
<1>10. Len(out') + Q.skipped <= end - 2 \/ pos + n < end
  <2>1. CASE pos + n = end + 1 BY <1>9, <2>1
  <2>2. CASE pos + n = end
    <3>1. S[l].at \in {pos + n, (pos + n) + 1} /\ S[l].at <= end /\ pos + n <= end BY <1>1, <1>2, <1>3, <2>2
    <3>2. Len(out') + S[l].skipped <= (pos + n) - 2 BY <1>3, <1>8, <3>1
    <3> QED BY <1>3, <2>2, <3>2
  <2> QED BY <1>1, <1>7, <2>1, <2>2
<1>11. pos' \in 2..(end' + 1) /\ pos' \in 1..Len(inp') BY <1>0, <1>1, <1>2, <1>3, <1>7
<1>12. Fitting'
  <2>1. pos' <= end' => \A m \in 0..Len(inp') :
          (Strings!Scan')[m].at \in {pos', pos' + 1} /\ (Strings!Scan')[m].at <= end'
            => Len(out') + (Strings!Scan')[m].skipped <= pos' - 2
    BY <1>0, <1>6, <1>8
  <2>2. pos' = end' + 1 => Len(out') + Strings!Scanned'.skipped <= end' - 2 BY <1>0, <1>6, <1>9
  <2>3. end' = Strings!Scanned'.at /\ end' < Len(inp') /\ room' = end' - Strings!Scanned'.skipped BY <1>0, <1>2, <1>6
  <2> QED BY <1>11, <2>1, <2>2, <2>3 DEF Fitting
\* Room for what is written so far: the place of the measuring loop is not behind.
<1>13. Len(out') <= room'
  <2>1. CASE Len(out') + Q.skipped <= end - 2
    <3>1. Len(out') \in Nat BY <1>5
    <3>2. room' = end - Q.skipped /\ end \in Nat BY <1>0, <1>1, <1>2
    <3> QED BY <1>4, <2>1, <3>1, <3>2
  <2>2. CASE pos + n < end
    <3>1. pos + n \in Nat /\ 2 <= pos + n /\ pos + n <= end BY <1>1, <2>2
    <3>2. PICK m \in 0..l : S[m].at \in {pos + n, (pos + n) + 1} /\ S[m].at <= end
      BY <1>1, <1>2, <3>1, ScanReaches
    <3>3. Len(out') + S[m].skipped <= (pos + n) - 2 BY <1>8, <3>1, <3>2
    <3>4. m <= l BY <1>3
    <3>5. /\ S[m] \in Places
          /\ 2 * (S[l].skipped - S[m].skipped) <= S[l].at - S[m].at
          /\ S[m].skipped <= S[l].skipped
      BY <1>1, <1>3, <3>4, ScanForward
    <3> DEFINE x == S[m].skipped
               a == S[m].at
               y == Q.skipped
               o == Len(out')
               p == pos + n
    <3>6. x \in Nat /\ a \in Nat /\ y \in Nat /\ o \in Nat /\ p \in Nat BY <1>4, <1>5, <3>1, <3>5 DEF Places
    <3>7. o + x <= p - 2 /\ 2 * (y - x) <= end - a /\ x <= y /\ p <= a BY <1>1, <1>2, <1>3, <3>1, <3>2, <3>3, <3>5
    <3> HIDE DEF x, a, y, o, p
    <3>8. o <= end - y BY <1>1, <3>6, <3>7
    <3> QED BY <1>0, <1>2, <3>8 DEF o, y
  <2> QED BY <1>10, <2>1, <2>2
<1>14. Strings!TypeOK' BY <1>0, <1>5, <1>11, ByteIs DEF StringInv, Strings!TypeOK
<1>15. (Strings!WritesWithinRoom)' BY <1>13 DEF Strings!WritesWithinRoom
<1>16. (Strings!PrintFillsRoom)' BY <1>0, <1>1 DEF Strings!PrintFillsRoom
<1>17. Len(inp') >= 2 /\ inp'[Len(inp')] = 0 /\ (first' # << >> => first'[Len(first')] = 0) BY <1>0 DEF StringInv
<1> QED BY <1>0, <1>1, <1>12, <1>14, <1>15, <1>16, <1>17 DEF StringInv

\* Copying a plain byte keeps it.
LEMMA StringCopies == ASSUME StringInv, Strings!CopyByte PROVE StringInv'
<1> DEFINE b == <<inp[pos]>>
<1>1. Strings!Converting /\ inp[pos] # 92 /\ Strings!Write(b, 1) BY DEF Strings!CopyByte, Strings!Backslash
<1>2. inp[pos] \in Byte BY <1>1, ByteIs DEF StringInv, Strings!TypeOK
<1>3. b \in Seq(Byte) /\ Len(b) = 1 BY <1>2
<1> HIDE DEF b
<1>4. Allowed(b, 1) BY <1>1, <1>3 DEF Allowed
<1> QED BY <1>1, <1>3, <1>4, StringWrites

\* Converting an escape sequence keeps it, a surrogate pair's twelve bytes
\* too.
LEMMA StringUnescapes == ASSUME StringInv, Strings!Unescape PROVE StringInv'
<1>0. Strings!Converting /\ pos \in Nat /\ end \in Nat BY DEF Strings!Unescape, StringInv, Strings!TypeOK
<1>1. ASSUME NEW c \in Byte, Strings!Write(<<c>>, 2) PROVE StringInv'
  <2> DEFINE b == <<c>>
  <2>1. b \in Seq(Byte) /\ Len(b) = 1 OBVIOUS
  <2>2. Strings!Write(b, 2) BY <1>1
  <2> HIDE DEF b
  <2>3. Allowed(b, 2) BY <2>1 DEF Allowed
  <2> QED BY <1>0, <2>1, <2>2, <2>3, StringWrites
<1>2. ASSUME Strings!Utf16Literal PROVE StringInv'
  <2> DEFINE c == Strings!Hex4(pos + 2)
             d == Strings!Hex4(pos + 8)
             p == Strings!Pair(c, d)
  <2>1. c \in Units16Bit /\ d \in Units16Bit /\ p \in CodePoints /\ c \in CodePoints
    <3>1. pos + 2 \in Nat /\ pos + 8 \in Nat BY <1>0
    <3>2. c \in Units16Bit /\ d \in Units16Bit BY <3>1, Hex4Is
    <3>3. p \in CodePoints BY <3>2, PairIs
    <3>4. c \in CodePoints BY <3>2, SMT DEF Units16Bit, CodePoints
    <3> QED BY <3>2, <3>3, <3>4
  <2>2. \/ Strings!Reject
        \/ ~ (end - pos < 6) /\ Strings!SecondHalf /\ Strings!Write(Strings!Utf8(p), 12)
        \/ ~ (end - pos < 6) /\ Strings!Write(Strings!Utf8(c), 6)
    BY <1>2, Zenon DEF Strings!Utf16Literal
  <2> HIDE DEF c, d, p
  <2>3. CASE Strings!Reject BY <2>3, StringRejects
  <2>4. CASE ~ (end - pos < 6) /\ Strings!SecondHalf /\ Strings!Write(Strings!Utf8(p), 12)
    <3> DEFINE b == Strings!Utf8(p)
    <3>1. b \in Seq(Byte) /\ Len(b) <= 4 BY <2>1, Utf8Is
    <3>2. end - pos >= 12 BY <2>4, SMT DEF Strings!SecondHalf
    <3> HIDE DEF b
    <3>5. pos + 12 <= end BY <1>0, <3>2
    <3>3. Allowed(b, 12) BY <3>1, <3>5 DEF Allowed
    <3>4. Strings!Write(b, 12) BY <2>4 DEF b
    <3> QED BY <1>0, <3>1, <3>3, <3>4, StringWrites
  <2>5. CASE ~ (end - pos < 6) /\ Strings!Write(Strings!Utf8(c), 6)
    <3> DEFINE b == Strings!Utf8(c)
    <3>1. b \in Seq(Byte) /\ Len(b) <= 3 BY <2>1, Utf8Is
    <3> HIDE DEF b
    <3>2. Allowed(b, 6) BY <1>0, <2>5, <3>1 DEF Allowed
    <3>3. Strings!Write(b, 6) BY <2>5 DEF b
    <3> QED BY <1>0, <3>1, <3>2, <3>3, StringWrites
  <2> QED BY <2>2, <2>3, <2>4, <2>5
<1>3. \/ \E e \in DOMAIN Strings!Escapes : Strings!Write(<<Strings!Escapes[e]>>, 2)
      \/ inp[pos + 1] \in {34, 92, 47} /\ Strings!Write(<<inp[pos + 1]>>, 2)
      \/ Strings!Utf16Literal
      \/ Strings!Reject
  BY Zenon DEF Strings!Unescape, Strings!Quote, Strings!Backslash
<1>4. CASE \E e \in DOMAIN Strings!Escapes : Strings!Write(<<Strings!Escapes[e]>>, 2) BY <1>1, <1>4, NamedIs
<1>5. CASE inp[pos + 1] \in {34, 92, 47} /\ Strings!Write(<<inp[pos + 1]>>, 2)
  <2>1. inp[pos + 1] \in Byte BY <1>5 DEF Byte
  <2> QED BY <1>1, <1>5, <2>1
<1> QED BY <1>2, <1>3, <1>4, <1>5, StringRejects

\* The terminating zero fits.
LEMMA StringFinishes == ASSUME StringInv, Strings!FinishString PROVE StringInv'
<1>1. /\ st = "convert" /\ pos >= end /\ out' = Append(out, 0) /\ UNCHANGED <<inp, pos, end, room>>
      /\ \/ first = << >> /\ first' = out' /\ st' = "print"
         \/ first # << >> /\ st' = "true" /\ first' = first
  BY DEF Strings!FinishString
<1>2. /\ inp \in Seq(Byte) /\ Fitting /\ pos \in Nat /\ end \in Nat /\ out \in Seq(Byte) /\ first \in Seq(Byte)
  BY <1>1, ByteIs DEF StringInv, Strings!TypeOK
<1>3. 0 \in Byte BY DEF Byte
<1>4. out' \in Seq(Byte) /\ Len(out') = Len(out) + 1 /\ out'[Len(out')] = 0 /\ Len(out) \in Nat BY <1>1, <1>2, <1>3
<1> DEFINE Q == Strings!Scanned
           l == Len(inp)
<1>5. l \in Nat /\ Q \in Places /\ Q = Strings!Scan[l] /\ l \in 0..l BY <1>2, ScanIs DEF Strings!Scanned
<1>6. Q.skipped \in Nat BY <1>5 DEF Places
<1>7. end = Q.at /\ room = end - Q.skipped BY <1>2 DEF Fitting
<1>8. Len(out) + Q.skipped <= end - 2
  <2>1. pos = end \/ pos = end + 1 BY <1>1, <1>2 DEF Fitting
  <2>2. CASE pos = end
    <3>1. pos <= end /\ Strings!Scan[l].at \in {pos, pos + 1} /\ Strings!Scan[l].at <= end BY <1>2, <1>5, <1>7, <2>2
    <3>2. Len(out) + Strings!Scan[l].skipped <= pos - 2 BY <1>2, <1>5, <3>1 DEF Fitting
    <3> QED BY <1>5, <2>2, <3>2
  <2>3. CASE pos = end + 1 BY <1>2, <2>3 DEF Fitting
  <2> QED BY <2>1, <2>2, <2>3
<1>9. Len(out') <= room' BY <1>1, <1>2, <1>4, <1>6, <1>7, <1>8
<1>10. first' \in Seq(Byte) /\ (first' # << >> => first'[Len(first')] = 0) /\ (st' = "print" => first' # << >>)
  <2>1. CASE first = << >>
    <3>1. first' = out' /\ out' # << >> BY <1>1, <1>4, <2>1
    <3> QED BY <1>4, <3>1
  <2>2. CASE first # << >> BY <1>1, <1>2, <2>2 DEF StringInv
  <2> QED BY <2>1, <2>2
<1>11. Strings!TypeOK' BY <1>1, <1>4, <1>10, ByteIs DEF StringInv, Strings!TypeOK
<1>12. (Strings!WritesWithinRoom)' /\ (Strings!PrintFillsRoom)'
  BY <1>1, <1>9 DEF Strings!WritesWithinRoom, Strings!PrintFillsRoom
<1>13. Len(inp') >= 2 /\ inp'[Len(inp')] = 0 BY <1>1 DEF StringInv
<1> QED BY <1>1, <1>10, <1>11, <1>12, <1>13 DEF StringInv

\* Printing fills exactly the room it computed.
LEMMA StringPrints == ASSUME StringInv, Strings!PrintString PROVE StringInv'
<1> DEFINE s == Strings!CString(first)
           t == Strings!Printed(s)
<1>1. /\ st = "print" /\ inp' = (<<34>> \o t) \o <<34, 0>> /\ room' = (Len(s) + Strings!EscapeCharacters(s)) + 3
      /\ pos' = 2 /\ end' = 0 /\ out' = << >> /\ st' = "measure" /\ first' = first
  BY DEF Strings!PrintString, Strings!Quote
<1>2. first \in Seq(Byte) /\ first # << >> /\ first[Len(first)] = 0 BY <1>1, ByteIs DEF StringInv, Strings!TypeOK
<1>3. s \in Seq(Byte)
  <2> DEFINE Z == {k \in 1..Len(first) : first[k] = 0}
             z == CHOOSE k \in DOMAIN first : first[k] = 0 /\ \A j \in 1..(k - 1) : first[j] # 0
  <2>1. Len(first) \in 1..Len(first) /\ DOMAIN first = 1..Len(first) /\ Len(first) \in Nat BY <1>2
  <2>2. Len(first) \in Z /\ Z \subseteq Nat BY <1>2, <2>1
  <2>3. PICK y \in Z : \A j \in Z : y <= j BY <2>2, LeastNatural
  <2>4. y \in 1..Len(first) /\ first[y] = 0 OBVIOUS
  <2>5. ASSUME NEW j \in 1..(y - 1), first[j] = 0 PROVE FALSE
    <3>1. j \in 1..Len(first) /\ ~ (y <= j) BY <2>1, <2>4
    <3> QED BY <2>3, <2>5, <3>1
  <2> HIDE DEF Z
  <2>6. \E k \in DOMAIN first : first[k] = 0 /\ \A j \in 1..(k - 1) : first[j] # 0 BY <2>1, <2>4, <2>5
  <2>7. z \in DOMAIN first BY <2>6
  <2>8. s = SubSeq(first, 1, z - 1) BY DEF Strings!CString
  <2> HIDE DEF z, s
  <2>9. z - 1 \in Int /\ z - 1 <= Len(first) BY <2>1, <2>7
  <2> QED BY <1>2, <2>8, <2>9
<1> HIDE DEF s
<1>4. t \in Seq(Byte) /\ Strings!EscapeCharacters(s) \in Nat /\ Len(s) \in Nat
      /\ Len(t) = Len(s) + Strings!EscapeCharacters(s)
  BY <1>3, PrintedLength
<1> HIDE DEF t
<1>5. 34 \in Byte /\ 0 \in Byte BY DEF Byte
<1>6. <<34, 0>> \in Seq(Byte) /\ Len(<<34, 0>>) = 2 /\ <<34, 0>>[2] = 0 BY <1>5
<1> DEFINE z == <<34, 0>>
<1>7. z \in Seq(Byte) /\ Len(z) = 2 /\ Len(z) >= 1 /\ z[Len(z)] = 0 BY <1>6
<1>8. inp' = (<<34>> \o t) \o z BY <1>1
<1> HIDE DEF z
<1>9. inp' \in Seq(Byte) /\ Len(inp') = (1 + Len(t)) + Len(z) /\ inp'[Len(inp')] = 0 BY <1>4, <1>7, <1>8, QuotedIs
<1>10. Len(inp') = room' /\ Len(inp') >= 2 /\ Len(inp') \in Nat BY <1>1, <1>4, <1>7, <1>9
<1>11. Strings!TypeOK'
  <2>1. pos' \in 1..Len(inp') /\ end' \in 0..Len(inp') BY <1>1, <1>10
  <2>2. out' \in Seq(Byte) BY <1>1
  <2> QED BY <1>1, <1>2, <1>9, <2>1, <2>2, ByteIs DEF Strings!TypeOK
<1>12. (Strings!WritesWithinRoom)' /\ (Strings!PrintFillsRoom)'
  BY <1>1, <1>10 DEF Strings!WritesWithinRoom, Strings!PrintFillsRoom
<1> QED BY <1>1, <1>2, <1>9, <1>10, <1>11, <1>12 DEF StringInv

\* Every step of a string keeps it.
LEMMA StringSteps == StringInv /\ Strings!Next => StringInv'
BY StringMeasures, StringRejects, StringCopies, StringUnescapes, StringFinishes, StringPrints DEF Strings!Next

\* A step of another part keeps it.
LEMMA StringStutters == StringInv /\ UNCHANGED stringVars => StringInv'
<1> SUFFICES ASSUME StringInv, UNCHANGED stringVars PROVE StringInv' OBVIOUS
<1>1. UNCHANGED <<literal, closed, inp, pos, end, room, out, first, st>> BY DEF stringVars
<1>2. Strings!Scan' = Strings!Scan /\ Strings!Scanned' = Strings!Scanned BY <1>1, ScanUnchanged
<1>3. Fitting => Fitting' BY <1>1, <1>2 DEF Fitting
<1>4. Strings!TypeOK' BY <1>1 DEF StringInv, Strings!TypeOK
<1>5. (Strings!WritesWithinRoom)' /\ (Strings!PrintFillsRoom)'
  BY <1>1 DEF StringInv, Strings!WritesWithinRoom, Strings!PrintFillsRoom
<1> QED BY <1>1, <1>3, <1>4, <1>5 DEF StringInv

-----------------------------------------------------------------------------
(* A printed string parses back: it lies in the text character by character, *)
(* the measuring loop comes by the end of each, and so does the converting one. *)

\* The bytes a C string may have before its zero.
NonZero == 1..255

\* A C string ends before its first zero.
LEMMA CStringIs ==
  ASSUME NEW b \in Seq(Byte), NEW z \in 1..Len(b), b[z] = 0, \A j \in 1..(z - 1) : b[j] # 0
  PROVE  /\ Strings!CString(b) \in Seq(NonZero) /\ Len(Strings!CString(b)) = z - 1
         /\ \A j \in 1..(z - 1) : Strings!CString(b)[j] = b[j]
<1> DEFINE y == CHOOSE k \in DOMAIN b : b[k] = 0 /\ \A j \in 1..(k - 1) : b[j] # 0
           s == SubSeq(b, 1, z - 1)
<1>1. DOMAIN b = 1..Len(b) /\ Len(b) \in Nat OBVIOUS
<1>2. y \in 1..Len(b) /\ b[y] = 0 /\ \A j \in 1..(y - 1) : b[j] # 0 BY <1>1
<1> HIDE DEF y
<1>3. y = z BY <1>1, <1>2
<1>4. Strings!CString(b) = s BY <1>3 DEF Strings!CString, y
<1>5. s \in Seq(Byte) /\ Len(s) = z - 1 /\ \A j \in 1..(z - 1) : s[j] = b[j] BY <1>1
<1> HIDE DEF s
<1>6. \A j \in 1..Len(s) : s[j] \in NonZero
  <2> TAKE j \in 1..Len(s)
  <2>1. s[j] # 0 /\ s[j] \in Byte BY <1>1, <1>5
  <2> QED BY <2>1 DEF Byte, NonZero
<1>7. s \in Seq(NonZero)
  <2>1. s \in [1..Len(s) -> NonZero] /\ Len(s) \in Nat BY <1>5, <1>6
  <2> QED BY <2>1
<1> QED BY <1>4, <1>5, <1>7

\* What parse_string() returned is a C string.
LEMMA FirstIs ==
  ASSUME NEW b \in Seq(Byte), b # << >>, b[Len(b)] = 0
  PROVE  Strings!CString(b) \in Seq(NonZero)
<1> DEFINE Z == {k \in 1..Len(b) : b[k] = 0}
<1>1. Len(b) \in 1..Len(b) /\ Len(b) \in Nat OBVIOUS
<1>2. Len(b) \in Z /\ Z \subseteq Nat BY <1>1
<1>3. PICK y \in Z : \A j \in Z : y <= j BY <1>2, LeastNatural
<1>4. y \in 1..Len(b) /\ b[y] = 0 OBVIOUS
<1>5. ASSUME NEW j \in 1..(y - 1), b[j] = 0 PROVE FALSE
  <2>1. j \in 1..Len(b) /\ ~ (y <= j) BY <1>1, <1>4
  <2> QED BY <1>3, <1>5, <2>1
<1> HIDE DEF Z
<1> QED BY <1>4, <1>5, CStringIs

\* Bytes without a zero, and a zero after them, are the C string they began as.
LEMMA CStringBack ==
  ASSUME NEW s \in Seq(NonZero), NEW b \in Seq(Byte), Len(b) = Len(s), \A j \in 1..Len(s) : b[j] = s[j]
  PROVE  Strings!CString(Append(b, 0)) = s
<1> DEFINE a == Append(b, 0)
           l == Len(s)
           c == Strings!CString(a)
<1>1. 0 \in Byte BY DEF Byte
<1>2. a \in Seq(Byte) /\ Len(a) = l + 1 /\ a[l + 1] = 0 /\ l \in Nat BY <1>1
<1>3. ASSUME NEW j \in 1..l PROVE a[j] = s[j]
  <2>1. j \in 1..Len(b) OBVIOUS
  <2>2. a[j] = b[j] BY <2>1
  <2>3. b[j] = s[j] OBVIOUS
  <2> QED BY <2>2, <2>3
<1>4. ASSUME NEW j \in 1..l PROVE s[j] # 0
  <2>1. s[j] \in NonZero OBVIOUS
  <2>2. 0 \notin NonZero BY DEF NonZero
  <2> QED BY <2>1, <2>2
<1> HIDE DEF a
<1>5. l + 1 \in 1..Len(a) /\ (l + 1) - 1 = l BY <1>2
<1>6. \A j \in 1..l : a[j] # 0 BY <1>3, <1>4
<1>7. c \in Seq(NonZero) /\ Len(c) = l /\ \A j \in 1..l : c[j] = a[j] BY <1>2, <1>5, <1>6, CStringIs
<1> HIDE DEF c
<1>8. c = s BY <1>2, <1>3, <1>7
<1> QED BY <1>8 DEF c, a

\* The four ways a character is written.
Bare(c, e) == c \notin {34, 92} /\ 32 <= c /\ e = <<c>>

\* A quote or backslash after a backslash,
Quoted(c, e) == c \in {34, 92} /\ e = <<92, c>>

\* a control with a letter of its own as that letter after a backslash,
Lettered(c, e) == \E x \in DOMAIN Strings!Escapes : Strings!Escapes[x] = c /\ e = <<92, Strings!Letter[x]>>

\* and another control by its code in hexadecimal.
Coded(c, e) == /\ c < 32
               /\ e = <<92, 117, 48, 48, Strings!LowerHex(c \div 16), Strings!LowerHex(c % 16)>>

\* print_string_ptr() writes each character in one of them.
LEMMA EscapedHow ==
  ASSUME NEW c \in NonZero
  PROVE  LET e == Strings!Escaped(c) IN Bare(c, e) \/ Quoted(c, e) \/ Lettered(c, e) \/ Coded(c, e)
<1>0. c \in Nat BY DEF NonZero
<1>1. CASE c \in {34, 92}
  <2>1. c \notin Strings!Named /\ ~ (c < 32) BY <1>1, NamedIs
  <2>2. Strings!Escaped(c) = <<92, c>>
    BY <1>1, <2>1 DEF Strings!Escaped, Strings!Quote, Strings!Backslash
  <2> QED BY <1>1, <2>2 DEF Quoted
<1>2. CASE c \in Strings!Named
  <2>1. c \notin {34, 92} BY <1>2, NamedIs
  <2> DEFINE e == CHOOSE e \in DOMAIN Strings!Escapes : Strings!Escapes[e] = c
  <2>2. e \in DOMAIN Strings!Escapes /\ Strings!Escapes[e] = c BY <1>2 DEF Strings!Named
  <2>4. Strings!Escaped(c) = <<92, Strings!Letter[e]>>
    BY <1>2, <2>1 DEF Strings!Escaped, Strings!Quote, Strings!Backslash
  <2> HIDE DEF e
  <2> QED BY <2>2, <2>4 DEF Lettered
<1>3. CASE c < 32 /\ c \notin Strings!Named
  <2>1. c \notin {34, 92} BY <1>0, <1>3
  <2>4. Strings!Escaped(c) = <<92, 117, 48, 48, Strings!LowerHex(c \div 16), Strings!LowerHex(c % 16)>>
    BY <1>3, <2>1 DEF Strings!Escaped, Strings!Quote, Strings!Backslash, Strings!LetterU
  <2> QED BY <1>3, <2>4 DEF Coded
<1>4. CASE c \notin {34, 92} /\ ~ (c < 32) /\ c \notin Strings!Named
  <2>1. Strings!Escaped(c) = <<c>>
    BY <1>4 DEF Strings!Escaped, Strings!Quote, Strings!Backslash
  <2> QED BY <1>0, <1>4, <2>1 DEF Bare
<1> QED BY <1>1, <1>2, <1>3, <1>4

\* The four hexadecimal digits of a control character give it back.
LEMMA DigitsBack ==
  ASSUME NEW c \in Nat, c < 32
  PROVE  /\ Strings!LowerHex(c \div 16) \notin {34, 92} /\ Strings!LowerHex(c % 16) \notin {34, 92}
         /\ Strings!Digit(48) = 0
         /\ Strings!Digit(Strings!LowerHex(c \div 16)) = c \div 16
         /\ Strings!Digit(Strings!LowerHex(c % 16)) = c % 16
         /\ c \div 16 \in 0..15 /\ c % 16 \in 0..15 /\ c = (c \div 16) * 16 + (c % 16)
<1>1. c \div 16 \in 0..15 /\ c % 16 \in 0..15 /\ c = (c \div 16) * 16 + (c % 16)
  <2>1. CASE c < 16
    <3>1. c \div 16 = 0 /\ c % 16 = c BY <2>1
    <3> QED BY <2>1, <3>1
  <2>2. CASE ~ (c < 16)
    <3>1. c \div 16 = 1 BY <2>2
    <3>2. c % 16 = c - 16 BY <2>2
    <3> QED BY <2>2, <3>1, <3>2
  <2> QED BY <2>1, <2>2
<1>2. ASSUME NEW d \in 0..15 PROVE Strings!LowerHex(d) \notin {34, 92} /\ Strings!Digit(Strings!LowerHex(d)) = d
  <2>1. CASE d < 10
    <3>1. Strings!LowerHex(d) = 48 + d /\ 48 + d \in 48..57 /\ 48 + d \notin 65..70 /\ 48 + d \notin 97..102
      BY <2>1 DEF Strings!LowerHex
    <3>2. Strings!Digit(48 + d) = (48 + d) - 48 BY <3>1 DEF Strings!Digit
    <3> QED BY <3>1, <3>2
  <2>2. CASE ~ (d < 10)
    <3>1. Strings!LowerHex(d) = 87 + d /\ 87 + d \notin 48..57 /\ 87 + d \notin 65..70 /\ 87 + d \in 97..102
      BY <2>2 DEF Strings!LowerHex
    <3>2. Strings!Digit(87 + d) = (10 + (87 + d)) - 97 BY <3>1 DEF Strings!Digit
    <3> QED BY <3>1, <3>2
  <2> QED BY <2>1, <2>2
<1>3. Strings!Digit(48) = 0
  <2>1. 48 \in 48..57 /\ 48 \notin 65..70 /\ 48 \notin 97..102 OBVIOUS
  <2>2. Strings!Digit(48) = 48 - 48 BY <2>1 DEF Strings!Digit
  <2> QED BY <2>2
<1> QED BY <1>1, <1>2, <1>3

\* The text inp is string s printed: p[k] is where its first k characters end.
Laid(s, p) ==
  /\ s \in Seq(NonZero) /\ p \in [0..Len(s) -> Nat] /\ p[0] = 2
  /\ \A k \in 1..Len(s) :
       LET e == Strings!Escaped(s[k])
       IN  p[k] = p[k - 1] + Len(e) /\ \A j \in 1..Len(e) : inp[(p[k - 1] + j) - 1] = e[j]
  /\ inp[p[Len(s)]] = 34 /\ Len(inp) = p[Len(s)] + 1

\* Nothing printed later moves what is printed.
LEMMA PrefixStays ==
  ASSUME NEW s \in Seq(NonZero), NEW f \in [0..Len(s) -> Seq(Byte)],
         \A n \in 1..Len(s) : f[n] = f[n - 1] \o Strings!Escaped(s[n]),
         NEW n \in 0..Len(s), NEW m \in 0..Len(s), n <= m
  PROVE  Len(f[n]) <= Len(f[m]) /\ \A j \in 1..Len(f[n]) : f[m][j] = f[n][j]
<1> DEFINE l == Len(s)
           Good(k) == Len(f[n]) <= Len(f[k]) /\ \A j \in 1..Len(f[n]) : f[k][j] = f[n][j]
           P == {k \in Nat : n <= k /\ k <= l => Good(k)}
<1>1. l \in Nat /\ n \in Nat /\ m \in Nat OBVIOUS
<1>2. \A k \in 0..l : f[k] \in Seq(Byte) /\ Len(f[k]) \in Nat OBVIOUS
<1>7. Byte \subseteq Nat BY DEF Byte
<1>3. Good(n) BY <1>2
<1>4. 0 \in P
  <2> SUFFICES ASSUME n <= 0 PROVE Good(0) OBVIOUS
  <2>1. n = 0 BY <1>1
  <2> QED BY <1>3, <2>1
<1>5. ASSUME NEW k \in Nat, k \in P PROVE k + 1 \in P
  <2> SUFFICES ASSUME n <= k + 1, k + 1 <= l PROVE Good(k + 1) OBVIOUS
  <2>1. CASE n = k + 1 BY <1>3, <2>1
  <2>2. CASE n <= k
    <3>1. k + 1 \in 1..l /\ (k + 1) - 1 = k /\ k <= l /\ k \in 0..l BY <1>1
    <3>2. Good(k) BY <1>5, <2>2, <3>1
    <3> DEFINE e == Strings!Escaped(s[k + 1])
    <3>3. s[k + 1] \in Byte
      <4>1. s[k + 1] \in NonZero BY <3>1
      <4> QED BY <4>1 DEF NonZero, Byte
    <3>4. e \in Seq(Byte) BY <3>3, EscapedIs
    <3>5. f[k + 1] = f[k] \o e BY <3>1
    <3> HIDE DEF e, P
    <3>6. /\ Len(f[k] \o e) = Len(f[k]) + Len(e) /\ Len(e) \in Nat
          /\ \A j \in 1..Len(f[k]) : (f[k] \o e)[j] = f[k][j]
      BY <1>2, <3>1, <3>4, BytesJoin
    <3> QED BY <1>1, <1>2, <3>1, <3>2, <3>5, <3>6
  <2> QED BY <1>1, <2>1, <2>2
<1> HIDE DEF P
<1>6. m \in P BY <1>1, <1>4, <1>5, SetInduction
<1> QED BY <1>1, <1>6 DEF P

\* print_string_ptr() lays its text out so.
LEMMA PrintedLaid ==
  ASSUME NEW s, s \in Seq(NonZero), inp' = (<< 34 >> \o Strings!Printed(s)) \o <<34, 0>>
  PROVE  \E p : Laid(s, p)'
<1> DEFINE l == Len(s)
<1>1. s \in Seq(Byte) /\ l \in Nat
  <2>1. NonZero \subseteq Byte BY DEF NonZero, Byte
  <2> QED BY <2>1
<1>2. PICK f : /\ f \in [0..l -> Seq(Byte)] /\ f[0] = << >>
               /\ \A n \in 1..l : f[n] = f[n - 1] \o Strings!Escaped(s[n])
               /\ Strings!Printed(s) = f[l]
  BY <1>1, PrintedIs
<1>3. PICK p : p = [n \in 0..l |-> 2 + Len(f[n])] BY Zenon
<1>4. ASSUME NEW n \in 0..l PROVE f[n] \in Seq(Byte) /\ Len(f[n]) \in Nat /\ p[n] = 2 + Len(f[n])
  <2>1. f[n] \in Seq(Byte) BY <1>2
  <2>2. Len(f[n]) \in Nat BY <2>1
  <2>3. p[n] = 2 + Len(f[n]) BY <1>3
  <2> QED BY <2>1, <2>2, <2>3
<1>5. p \in [0..l -> Nat] /\ p[0] = 2
  <2>1. 0 \in 0..l /\ Len(f[0]) = 0 BY <1>1, <1>2
  <2> QED BY <1>3, <1>4, <2>1
<1> DEFINE t == f[l]
           q == <<34>>
           z == <<34, 0>>
<1>6. 34 \in Byte /\ 0 \in Byte BY DEF Byte
<1>7. q \in Seq(Byte) /\ Len(q) = 1 /\ z \in Seq(Byte) /\ Len(z) = 2 /\ z[1] = 34 BY <1>6
<1>8. t \in Seq(Byte) /\ Len(t) \in Nat /\ p[l] = 2 + Len(t) BY <1>1, <1>4
<1>9. inp' = (q \o t) \o z BY <1>2
<1> HIDE DEF q, z, t
<1>10. PICK u : u = q \o t OBVIOUS
<1>11. /\ u \in Seq(Byte) /\ Len(u) = 1 + Len(t)
       /\ \A j \in 1..(1 + Len(t)) : u[j] = IF j <= 1 THEN q[j] ELSE t[j - 1]
  <2>1. t \in Seq(Byte) /\ q \in Seq(Byte) BY <1>7, <1>8
  <2>2. /\ q \o t \in Seq(Byte) /\ Len(q \o t) = Len(q) + Len(t)
        /\ \A j \in 1..(Len(q) + Len(t)) : (q \o t)[j] = IF j <= Len(q) THEN q[j] ELSE t[j - Len(q)]
    BY <2>1, ConcatProperties
  <2> QED BY <1>7, <1>10, <2>2
<1>12. /\ Len(inp') = Len(u) + 2
       /\ \A j \in 1..(Len(u) + 2) : inp'[j] = IF j <= Len(u) THEN u[j] ELSE z[j - Len(u)]
  <2>1. u \in Seq(Byte) /\ z \in Seq(Byte) BY <1>7, <1>11
  <2>2. /\ Len(u \o z) = Len(u) + Len(z)
        /\ \A j \in 1..(Len(u) + Len(z)) : (u \o z)[j] = IF j <= Len(u) THEN u[j] ELSE z[j - Len(u)]
    BY <2>1, ConcatProperties
  <2>3. inp' = u \o z BY <1>9, <1>10
  <2> QED BY <1>7, <2>2, <2>3
<1>13. ASSUME NEW j \in 1..Len(t) PROVE inp'[j + 1] = t[j]
  <2>1. j + 1 \in 1..(1 + Len(t)) /\ ~ (j + 1 <= 1) /\ (j + 1) - 1 = j BY <1>8
  <2>2. u[j + 1] = t[j] BY <1>11, <2>1
  <2>3. j + 1 \in 1..(Len(u) + 2) /\ j + 1 <= Len(u) BY <1>8, <1>11
  <2> QED BY <1>12, <2>2, <2>3
<1>14. inp'[p[l]] = 34 /\ Len(inp') = p[l] + 1
  <2>1. p[l] \in 1..(Len(u) + 2) /\ ~ (p[l] <= Len(u)) /\ p[l] - Len(u) = 1 /\ Len(u) + 2 = p[l] + 1 BY <1>8, <1>11
  <2> QED BY <1>7, <1>12, <2>1
<1>15. ASSUME NEW k \in 1..l
       PROVE  /\ p[k] = p[k - 1] + Len(Strings!Escaped(s[k]))
              /\ \A j \in 1..Len(Strings!Escaped(s[k])) : inp'[(p[k - 1] + j) - 1] = Strings!Escaped(s[k])[j]
  <2> DEFINE e == Strings!Escaped(s[k])
             g == f[k - 1]
  <2>1. e \in Seq(Byte)
    <3>1. s[k] \in Byte BY <1>1
    <3> QED BY <3>1, EscapedIs
  <2>2. k \in 0..l /\ k - 1 \in 0..l /\ k <= l /\ l \in 0..l BY <1>1
  <2>3. f[k] = g \o e /\ g \in Seq(Byte) /\ Len(g) \in Nat /\ p[k - 1] = 2 + Len(g) /\ p[k] = 2 + Len(f[k]) BY <1>2, <1>4, <2>2
  <2> HIDE DEF e, g
  <2>4. /\ Len(f[k]) = Len(g) + Len(e) /\ Len(e) \in Nat
        /\ \A j \in 1..(Len(g) + Len(e)) : f[k][j] = IF j <= Len(g) THEN g[j] ELSE e[j - Len(g)]
    BY <2>1, <2>3, ConcatProperties
  <2>5. Len(f[k]) <= Len(t) /\ \A j \in 1..Len(f[k]) : t[j] = f[k][j] BY <1>2, <2>2, PrefixStays DEF t
  <2>6. ASSUME NEW j \in 1..Len(e) PROVE inp'[(p[k - 1] + j) - 1] = e[j]
    <3> DEFINE i == Len(g) + j
    <3>1. i \in 1..(Len(g) + Len(e)) /\ ~ (i <= Len(g)) /\ i - Len(g) = j BY <2>3, <2>4
    <3>2. i \in 1..Len(f[k]) /\ i \in 1..Len(t) BY <1>8, <2>4, <2>5, <3>1
    <3>3. (p[k - 1] + j) - 1 = i + 1 BY <2>3, <2>4
    <3> HIDE DEF i
    <3>4. f[k][i] = e[j] BY <2>4, <3>1
    <3>5. t[i] = e[j] BY <2>5, <3>2, <3>4
    <3> QED BY <1>13, <3>2, <3>3, <3>5
  <2>7. p[k] = p[k - 1] + Len(e) BY <2>3, <2>4
  <2> QED BY <2>6, <2>7 DEF e
<1>16. Laid(s, p)' BY <1>5, <1>14, <1>15 DEF Laid
<1> QED BY <1>16

\* The ends go forward.
LEMMA EndsForward ==
  ASSUME NEW s, NEW p, Laid(s, p), NEW n \in 0..Len(s), NEW m \in 0..Len(s), n <= m
  PROVE  p[n] <= p[m] /\ (n < m => p[n] < p[m])
<1> DEFINE l == Len(s)
           Good(k) == p[n] <= p[k] /\ (n < k => p[n] < p[k])
           P == {k \in Nat : n <= k /\ k <= l => Good(k)}
<1>0. s \in Seq(NonZero) /\ p \in [0..l -> Nat] BY DEF Laid
<1>1. l \in Nat /\ n \in Nat /\ m \in Nat BY <1>0
<1>2. \A k \in 0..l : p[k] \in Nat BY <1>0
<1>3. Good(n) BY <1>1, <1>2
<1>4. 0 \in P
  <2> SUFFICES ASSUME n <= 0 PROVE Good(0) OBVIOUS
  <2>1. n = 0 BY <1>1
  <2> QED BY <1>3, <2>1
<1>5. ASSUME NEW k \in Nat, k \in P PROVE k + 1 \in P
  <2> SUFFICES ASSUME n <= k + 1, k + 1 <= l PROVE Good(k + 1) OBVIOUS
  <2>1. CASE n = k + 1 BY <1>3, <2>1
  <2>2. CASE n <= k
    <3>1. k + 1 \in 1..l /\ (k + 1) - 1 = k /\ k <= l /\ k \in 0..l /\ k + 1 \in 0..l BY <1>1
    <3>2. Good(k) BY <1>5, <2>2, <3>1
    <3>3. s[k + 1] \in Byte
      <4>1. s[k + 1] \in NonZero BY <1>0, <3>1
      <4> QED BY <4>1 DEF NonZero, Byte
    <3> DEFINE e == Strings!Escaped(s[k + 1])
    <3>4. Len(e) \in Nat /\ Len(e) >= 1
      <4>1. Strings!Extra(s[k + 1]) \in Nat /\ Len(e) = 1 + Strings!Extra(s[k + 1]) BY <3>3, EscapedIs
      <4> QED BY <4>1
    <3>5. p[k + 1] = p[k] + Len(e) BY <3>1 DEF Laid
    <3> HIDE DEF e, P
    <3> QED BY <1>1, <1>2, <3>1, <3>2, <3>4, <3>5
  <2> QED BY <1>1, <2>1, <2>2
<1> HIDE DEF P
<1>6. m \in P BY <1>1, <1>4, <1>5, SetInduction
<1> QED BY <1>1, <1>6 DEF P

\* The measuring loop passes a byte that is neither quote nor backslash, and an escape.
LEMMA ScanPasses ==
  ASSUME inp \in Seq(Byte), NEW n \in 0..Len(inp), n < Len(inp), NEW a \in Nat, Strings!Scan[n].at = a, a < Len(inp)
  PROVE  /\ n + 1 \in 0..Len(inp)
         /\ inp[a] \notin {34, 92} => Strings!Scan[n + 1].at = a + 1
         /\ inp[a] = 92 => Strings!Scan[n + 1].at = a + 2
<1> DEFINE s == Strings!Scan[n]
<1>1. Len(inp) \in Nat /\ n + 1 \in 1..Len(inp) /\ (n + 1) - 1 = n /\ n + 1 \in 0..Len(inp) OBVIOUS
<1>2. Strings!Scan[n + 1] = Strings!ScanTurn(s) BY <1>1, ScanIs
<1>3. s.at = a OBVIOUS
<1> HIDE DEF s
<1>4. ~ (a > Len(inp)) /\ ~ (a + 1 > Len(inp)) BY <1>1
<1>5. inp[a] # 34 => ~ Strings!ScanStops(s) BY <1>3, <1>4 DEF Strings!ScanStops, Strings!Quote
<1>6. ASSUME inp[a] \notin {34, 92} PROVE Strings!ScanTurn(s).at = a + 1
  BY <1>3, <1>5, <1>6 DEF Strings!ScanTurn, Strings!Backslash
<1>7. ASSUME inp[a] = 92 PROVE Strings!ScanTurn(s).at = a + 2
  BY <1>3, <1>5, <1>7 DEF Strings!ScanTurn, Strings!Backslash
<1> QED BY <1>1, <1>2, <1>6, <1>7

\* Character c is in the text from a to b, in one of the four ways.
Character(a, b, c) ==
  \/ c \notin {34, 92} /\ b = a + 1 /\ inp[a] = c
  \/ c \in {34, 92} /\ b = a + 2 /\ inp[a] = 92 /\ inp[a + 1] = c
  \/ /\ b = a + 2 /\ inp[a] = 92
     /\ \E x \in DOMAIN Strings!Escapes : Strings!Escapes[x] = c /\ inp[a + 1] = Strings!Letter[x]
  \/ /\ c < 32 /\ b = a + 6 /\ inp[a] = 92 /\ inp[a + 1] = 117
     /\ inp[a + 2] = 48 /\ inp[a + 3] = 48
     /\ inp[a + 4] = Strings!LowerHex(c \div 16) /\ inp[a + 5] = Strings!LowerHex(c % 16)

\* The next character of a printed string is in the text, before the closing quote.
LEMMA NextCharacter ==
  ASSUME NEW s, NEW p, Laid(s, p), NEW k \in 0..Len(s), k < Len(s)
  PROVE  /\ p[k] \in Nat /\ p[k + 1] \in Nat /\ k + 1 \in 0..Len(s) /\ k + 1 \in 1..Len(s)
         /\ p[k + 1] < Len(inp) /\ p[k + 1] <= p[Len(s)] /\ p[k] < p[Len(s)] /\ 2 <= p[k] /\ s[k + 1] \in NonZero
         /\ Character(p[k], p[k + 1], s[k + 1])
<1> DEFINE l == Len(s)
           c == s[k + 1]
           e == Strings!Escaped(c)
           a == p[k]
           b == p[k + 1]
<1>0. s \in Seq(NonZero) /\ p \in [0..l -> Nat] /\ p[0] = 2 /\ Len(inp) = p[l] + 1 BY DEF Laid
<1>1. /\ l \in Nat /\ k \in Nat /\ k + 1 \in 1..l /\ k + 1 \in 0..l /\ (k + 1) - 1 = k /\ l \in 0..l /\ 0 \in 0..l
      /\ k + 1 <= l /\ 0 <= k /\ k <= l
  BY <1>0
<1>2. c \in NonZero /\ a \in Nat /\ b \in Nat /\ p[l] \in Nat BY <1>0, <1>1
<1>3. b = a + Len(e) /\ \A j \in 1..Len(e) : inp[(a + j) - 1] = e[j] BY <1>1 DEF Laid
<1>4. b <= p[l] BY <1>1, EndsForward
<1>9. a < p[l] BY <1>1, EndsForward
<1>10. 2 <= a BY <1>0, <1>1, EndsForward
<1>5. b < Len(inp) BY <1>0, <1>2, <1>4
<1>6. Bare(c, e) \/ Quoted(c, e) \/ Lettered(c, e) \/ Coded(c, e) BY <1>2, EscapedHow
<1> HIDE DEF c, e, a, b, l
<1>7. (a + 1) - 1 = a /\ (a + 2) - 1 = a + 1 /\ (a + 3) - 1 = a + 2 /\ (a + 4) - 1 = a + 3
      /\ (a + 5) - 1 = a + 4 /\ (a + 6) - 1 = a + 5
  BY <1>2
<1>11. ASSUME Bare(c, e) PROVE Character(a, b, c)
  <2>1. c \notin {34, 92} /\ e = <<c>> BY <1>11 DEF Bare
  <2>2. Len(e) = 1 /\ e[1] = c /\ 1 \in 1..Len(e) BY <2>1
  <2>3. inp[a] = c /\ b = a + 1 BY <1>3, <1>7, <2>2
  <2> QED BY <2>1, <2>3 DEF Character
<1>12. ASSUME Quoted(c, e) PROVE Character(a, b, c)
  <2>1. c \in {34, 92} /\ e = <<92, c>> BY <1>12 DEF Quoted
  <2>2. Len(e) = 2 /\ e[1] = 92 /\ e[2] = c /\ 1 \in 1..Len(e) /\ 2 \in 1..Len(e) BY <2>1
  <2>3. inp[a] = 92 /\ inp[a + 1] = c /\ b = a + 2 BY <1>3, <1>7, <2>2
  <2> QED BY <2>1, <2>3 DEF Character
<1>13. ASSUME Lettered(c, e) PROVE Character(a, b, c)
  <2>1. PICK x \in DOMAIN Strings!Escapes : Strings!Escapes[x] = c /\ e = <<92, Strings!Letter[x]>>
    BY <1>13 DEF Lettered
  <2>2. Len(e) = 2 /\ e[1] = 92 /\ e[2] = Strings!Letter[x] /\ 1 \in 1..Len(e) /\ 2 \in 1..Len(e) BY <2>1
  <2>3. inp[a] = 92 /\ inp[a + 1] = Strings!Letter[x] /\ b = a + 2 BY <1>3, <1>7, <2>2
  <2> QED BY <2>1, <2>3 DEF Character
<1>14. ASSUME Coded(c, e) PROVE Character(a, b, c)
  <2> DEFINE u == Strings!LowerHex(c \div 16)
             v == Strings!LowerHex(c % 16)
  <2>1. c < 32 /\ e = <<92, 117, 48, 48, u, v>> BY <1>14 DEF Coded
  <2> HIDE DEF u, v
  <2>2. Len(e) = 6 /\ e[1] = 92 /\ e[2] = 117 /\ e[3] = 48 /\ e[4] = 48 /\ e[5] = u /\ e[6] = v BY <2>1
  <2>4. 1 \in 1..Len(e) /\ 2 \in 1..Len(e) /\ 3 \in 1..Len(e) /\ 4 \in 1..Len(e) /\ 5 \in 1..Len(e) /\ 6 \in 1..Len(e)
    BY <2>2
  <2>3. inp[a] = 92 /\ inp[a + 1] = 117 /\ inp[a + 2] = 48 /\ inp[a + 3] = 48 /\ inp[a + 4] = u /\ inp[a + 5] = v
        /\ b = a + 6
    BY <1>3, <1>7, <2>2, <2>4
  <2> QED BY <2>1, <2>3 DEF Character, u, v
<1>15. Character(a, b, c) BY <1>6, <1>11, <1>12, <1>13, <1>14
<1> QED BY <1>1, <1>2, <1>4, <1>5, <1>9, <1>10, <1>15 DEF a, b, c, l

\* The measuring loop comes by the end of every character.
LEMMA ScanMeets ==
  ASSUME inp \in Seq(Byte), NEW s, NEW p, Laid(s, p), NEW k \in 0..Len(s)
  PROVE  \E n \in 0..Len(inp) : n + 2 <= p[k] /\ Strings!Scan[n].at = p[k]
<1> DEFINE l == Len(s)
           S == Strings!Scan
           Good(j) == \E n \in 0..Len(inp) : n + 2 <= p[j] /\ S[n].at = p[j]
           P == {j \in Nat : j <= l => Good(j)}
<1>0. s \in Seq(NonZero) /\ p[0] = 2 /\ Len(inp) = p[l] + 1 BY DEF Laid
<1>1. l \in Nat /\ k \in Nat /\ k <= l /\ Len(inp) \in Nat BY <1>0
<1>2. 0 \in P
  <2>1. S[0] = [at |-> 2, skipped |-> 0] BY ScanIs
  <2>2. S[0].at = 2 /\ 0 \in 0..Len(inp) /\ 0 + 2 <= 2 BY <1>1, <2>1
  <2>3. Good(0) BY <1>0, <2>2
  <2> QED BY <2>3
<1>3. ASSUME NEW j \in Nat, j \in P PROVE j + 1 \in P
  <2> SUFFICES ASSUME j + 1 <= l PROVE Good(j + 1) OBVIOUS
  <2>1. j \in 0..l /\ j < l /\ j <= l BY <1>1
  <2>2. PICK n \in 0..Len(inp) : n + 2 <= p[j] /\ S[n].at = p[j] BY <1>3, <2>1
  <2> HIDE DEF P
  <2> DEFINE a == p[j]
             b == p[j + 1]
             c == s[j + 1]
  <2>3. /\ a \in Nat /\ b \in Nat /\ b < Len(inp) /\ a < p[l] /\ c \in NonZero
        /\ \/ c \notin {34, 92} /\ b = a + 1 /\ inp[a] = c
           \/ b = a + 2 /\ inp[a] = 92
           \/ /\ c < 32 /\ b = a + 6 /\ inp[a] = 92 /\ inp[a + 2] = 48 /\ inp[a + 3] = 48
              /\ inp[a + 4] = Strings!LowerHex(c \div 16) /\ inp[a + 5] = Strings!LowerHex(c % 16)
    <3>1. Laid(s, p) /\ j \in 0..Len(s) /\ j < Len(s) BY <2>1
    <3>2. a \in Nat /\ b \in Nat /\ b < Len(inp) /\ a < p[l] /\ c \in NonZero /\ Character(a, b, c)
      BY <3>1, NextCharacter
    <3> HIDE DEF a, b, c
    <3> QED BY <3>2, Zenon DEF Character
  <2>9. n \in Nat /\ n + 2 <= a /\ S[n].at = a BY <1>1, <2>2
  <2> HIDE DEF a, b, c, S
  <2>4. b \in Nat /\ a < b /\ n < Len(inp) /\ a < Len(inp)
    <3>1. a \in Nat /\ b \in Nat /\ Len(inp) \in Nat /\ n \in Nat /\ n + 2 <= a /\ b < Len(inp) BY <1>1, <2>3, <2>9
    <3>2. b = a + 1 \/ b = a + 2 \/ b = a + 6 BY <2>3, Zenon
    <3> QED BY <3>1, <3>2
  <2>5. CASE c \notin {34, 92} /\ b = a + 1 /\ inp[a] = c
    <3>1. n + 1 \in 0..Len(inp) /\ S[n + 1].at = a + 1 BY <2>3, <2>4, <2>5, <2>9, ScanPasses DEF S
    <3>2. (n + 1) + 2 <= b BY <2>3, <2>5, <2>9
    <3>3. \E m \in 0..Len(inp) : m + 2 <= b /\ S[m].at = b BY <2>5, <3>1, <3>2
    <3> QED BY <3>3 DEF b
  <2>6. CASE b = a + 2 /\ inp[a] = 92
    <3>1. n + 1 \in 0..Len(inp) /\ S[n + 1].at = a + 2 BY <2>3, <2>4, <2>6, <2>9, ScanPasses DEF S
    <3>2. (n + 1) + 2 <= b BY <2>3, <2>6, <2>9
    <3>3. \E m \in 0..Len(inp) : m + 2 <= b /\ S[m].at = b BY <2>6, <3>1, <3>2
    <3> QED BY <3>3 DEF b
  <2>7. CASE /\ c < 32 /\ b = a + 6 /\ inp[a] = 92 /\ inp[a + 2] = 48 /\ inp[a + 3] = 48
             /\ inp[a + 4] = Strings!LowerHex(c \div 16) /\ inp[a + 5] = Strings!LowerHex(c % 16)
    <3>1. c \in Nat BY <2>3 DEF NonZero
    <3>12. Strings!LowerHex(c \div 16) \notin {34, 92} /\ Strings!LowerHex(c % 16) \notin {34, 92}
      <4>1. c < 32 BY <2>7
      <4> QED BY <3>1, <4>1, DigitsBack
    <3>2. inp[a + 4] \notin {34, 92} /\ inp[a + 5] \notin {34, 92} BY <2>7, <3>12, Zenon
    <3>3. inp[a + 2] \notin {34, 92} /\ inp[a + 3] \notin {34, 92} BY <2>7
    <3>10. /\ a + 2 \in Nat /\ a + 3 \in Nat /\ a + 4 \in Nat /\ a + 5 \in Nat
           /\ (a + 2) + 1 = a + 3 /\ (a + 3) + 1 = a + 4 /\ (a + 4) + 1 = a + 5 /\ (a + 5) + 1 = a + 6
           /\ a + 2 < Len(inp) /\ a + 3 < Len(inp) /\ a + 4 < Len(inp) /\ a + 5 < Len(inp)
           /\ n + 1 < Len(inp) /\ n + 2 < Len(inp) /\ n + 3 < Len(inp) /\ n + 4 < Len(inp)
           /\ (n + 1) + 1 = n + 2 /\ (n + 2) + 1 = n + 3 /\ (n + 3) + 1 = n + 4 /\ (n + 4) + 1 = n + 5
      <4>1. a \in Nat /\ n \in Nat /\ Len(inp) \in Nat /\ n + 2 <= a BY <1>1, <2>3, <2>9
      <4>2. a + 6 < Len(inp)
        <5>1. b < Len(inp) /\ b = a + 6 BY <2>3, <2>7
        <5> QED BY <5>1
      <4> QED BY <4>1, <4>2
    <3>4. n + 1 \in 0..Len(inp) /\ S[n + 1].at = a + 2 BY <2>3, <2>4, <2>7, <2>9, ScanPasses DEF S
    <3>5. n + 2 \in 0..Len(inp) /\ S[n + 2].at = a + 3
      <4>1. (n + 1) + 1 \in 0..Len(inp) /\ S[(n + 1) + 1].at = (a + 2) + 1 BY <3>3, <3>4, <3>10, ScanPasses DEF S
      <4> QED BY <3>10, <4>1
    <3>6. n + 3 \in 0..Len(inp) /\ S[n + 3].at = a + 4
      <4>1. (n + 2) + 1 \in 0..Len(inp) /\ S[(n + 2) + 1].at = (a + 3) + 1 BY <3>3, <3>5, <3>10, ScanPasses DEF S
      <4> QED BY <3>10, <4>1
    <3>7. n + 4 \in 0..Len(inp) /\ S[n + 4].at = a + 5
      <4>1. (n + 3) + 1 \in 0..Len(inp) /\ S[(n + 3) + 1].at = (a + 4) + 1 BY <3>2, <3>6, <3>10, ScanPasses DEF S
      <4> QED BY <3>10, <4>1
    <3>8. n + 5 \in 0..Len(inp) /\ S[n + 5].at = a + 6
      <4>1. (n + 4) + 1 \in 0..Len(inp) /\ S[(n + 4) + 1].at = (a + 5) + 1 BY <3>2, <3>7, <3>10, ScanPasses DEF S
      <4> QED BY <3>10, <4>1
    <3>9. (n + 5) + 2 <= b BY <2>3, <2>7, <2>9
    <3>11. \E m \in 0..Len(inp) : m + 2 <= b /\ S[m].at = b BY <2>7, <3>8, <3>9
    <3> QED BY <3>11 DEF b
  <2> QED BY <2>3, <2>5, <2>6, <2>7
<1> HIDE DEF P
<1>4. k \in P BY <1>1, <1>2, <1>3, SetInduction
<1> QED BY <1>1, <1>4 DEF P

\* Of a printed string it finds the closing quote.
LEMMA EndFound ==
  ASSUME inp \in Seq(Byte), NEW s, NEW p, Laid(s, p)
  PROVE  Strings!Found /\ Strings!Scanned.at = p[Len(s)]
<1> DEFINE l == Len(s)
<1>0. s \in Seq(NonZero) /\ p \in [0..l -> Nat] /\ inp[p[l]] = 34 /\ Len(inp) = p[l] + 1 BY DEF Laid
<1>1. l \in 0..l /\ p[l] \in Nat
  <2>1. l \in Nat BY <1>0
  <2>2. l \in 0..l BY <2>1
  <2> QED BY <1>0, <2>2
<1>2. PICK n \in 0..Len(inp) : Strings!Scan[n].at = p[l] BY <1>1, ScanMeets
<1>3. Strings!ScanStops(Strings!Scan[n]) BY <1>0, <1>2 DEF Strings!ScanStops, Strings!Quote
<1>4. Strings!ScanTurn(Strings!Scan[n]) = Strings!Scan[n] BY <1>3 DEF Strings!ScanTurn
<1>5. Strings!Scanned = Strings!Scan[n] BY <1>4, ScanStays
<1>6. Strings!Scanned.at = p[l] BY <1>2, <1>5
<1>7. p[l] <= Len(inp) BY <1>0, <1>1
<1> QED BY <1>0, <1>6, <1>7 DEF Strings!Found, Strings!Quote

\* The first k characters of s are read back.
ReadTo(s, p, k) ==
  /\ end = p[Len(s)] /\ pos = p[k]
  /\ Len(out) = k /\ \A j \in 1..k : out[j] = s[j]

\* A printed string is parsed: it lies in the text, and is read up to the end of a character.
ReadingBack(s) ==
  \E p : Laid(s, p) /\ (st = "convert" => \E k \in 0..Len(s) : ReadTo(s, p, k))

\* The invariant for what is printed and parsed again.
BackInv ==
  /\ first # << >> /\ st \in {"measure", "convert"} => ReadingBack(Strings!CString(first))
  /\ Strings!PrintParsesBack

\* It holds before the first parse.
LEMMA BackInitially == Strings!Init => BackInv
BY DEF Strings!Init, BackInv, Strings!PrintParsesBack

\* A character is read back.
LEMMA ReadsOn ==
  ASSUME StringInv, NEW s, NEW p, Laid(s, p), st = "convert", NEW k \in 0..Len(s), k < Len(s), ReadTo(s, p, k),
         NEW n, n \in Nat, p[k + 1] = p[k] + n, Strings!Write(<<s[k + 1]>>, n)
  PROVE  ReadingBack(s)'
<1> DEFINE c == <<s[k + 1]>>
<1>0. /\ out' = out \o c /\ pos' = pos + n /\ UNCHANGED <<inp, end, first, st>> BY DEF Strings!Write
<1>1. /\ s[k + 1] \in NonZero /\ k + 1 \in 0..Len(s) BY NextCharacter
<1>2. c \in Seq(Byte) /\ Len(c) = 1 /\ c[1] = s[k + 1]
  <2>1. s[k + 1] \in Byte BY <1>1 DEF NonZero, Byte
  <2> QED BY <2>1
<1>3. out \in Seq(Byte) BY ByteIs DEF StringInv, Strings!TypeOK
<1>4. Len(out) = k /\ k \in Nat /\ (\A j \in 1..k : out[j] = s[j]) /\ end = p[Len(s)] /\ pos = p[k] BY DEF ReadTo
<1> HIDE DEF c
<1>5. Len(out \o c) = k + 1 /\ \A j \in 1..(k + 1) : (out \o c)[j] = IF j <= k THEN out[j] ELSE c[j - k]
  <2>1. /\ Len(out \o c) = Len(out) + Len(c)
        /\ \A j \in 1..(Len(out) + Len(c)) : (out \o c)[j] = IF j <= Len(out) THEN out[j] ELSE c[j - Len(out)]
    BY <1>2, <1>3, ConcatProperties
  <2> QED BY <1>2, <1>4, <2>1
<1>6. ASSUME NEW j \in 1..(k + 1) PROVE (out \o c)[j] = s[j]
  <2>1. CASE j <= k
    <3>1. j \in 1..k BY <1>4, <2>1
    <3> QED BY <1>4, <1>5, <2>1, <3>1
  <2>2. CASE ~ (j <= k)
    <3>1. j = k + 1 /\ j - k = 1 BY <1>4, <2>2
    <3> QED BY <1>2, <1>5, <2>2, <3>1
  <2> QED BY <2>1, <2>2
<1>7. ReadTo(s, p, k + 1)' BY <1>0, <1>4, <1>5, <1>6 DEF ReadTo
<1>8. Laid(s, p)' BY <1>0 DEF Laid
<1> QED BY <1>1, <1>7, <1>8 DEF ReadingBack

\* Before the closing quote another character comes.
LEMMA MoreToRead ==
  ASSUME NEW s, NEW p, Laid(s, p), NEW k \in 0..Len(s), ReadTo(s, p, k)
  PROVE  pos < end <=> k < Len(s)
<1>1. pos = p[k] /\ end = p[Len(s)] BY DEF ReadTo
<1>2. s \in Seq(NonZero) /\ p \in [0..Len(s) -> Nat] BY DEF Laid
<1>3. Len(s) \in Nat /\ k \in Nat /\ k <= Len(s) /\ Len(s) \in 0..Len(s)
  <2>1. Len(s) \in Nat BY <1>2
  <2> QED BY <2>1
<1>4. p[k] \in Nat /\ p[Len(s)] \in Nat BY <1>2, <1>3
<1>5. k < Len(s) => p[k] < p[Len(s)] BY <1>3, EndsForward
<1>6. k = Len(s) => ~ (p[k] < p[Len(s)]) BY <1>4
<1> QED BY <1>1, <1>3, <1>5, <1>6

\* Where the reader is.
LEMMA ReaderAt ==
  ASSUME BackInv, first # << >>, st = "convert"
  PROVE  \E s, p : /\ s = Strings!CString(first) /\ Laid(s, p)
                   /\ \E k \in 0..Len(s) : ReadTo(s, p, k)
BY DEF BackInv, ReadingBack

\* A byte that is no escape is the character printed as it is.
LEMMA BackCopies == ASSUME StringInv, BackInv, Strings!CopyByte PROVE BackInv'
<1>1. /\ Strings!Converting /\ inp[pos] # 92 /\ Strings!Write(<<inp[pos]>>, 1)
      /\ st = "convert" /\ pos < end /\ UNCHANGED <<first, st>>
  BY DEF Strings!CopyByte, Strings!Backslash, Strings!Converting, Strings!Write
<1>2. CASE first = << >> BY <1>1, <1>2 DEF BackInv, Strings!PrintParsesBack
<1>3. CASE first # << >>
  <2>1. PICK s, p : s = Strings!CString(first) /\ Laid(s, p) /\ \E k \in 0..Len(s) : ReadTo(s, p, k)
    BY <1>1, <1>3, ReaderAt
  <2>2. PICK k \in 0..Len(s) : ReadTo(s, p, k) BY <2>1
  <2>3. k < Len(s) BY <1>1, <2>1, <2>2, MoreToRead
  <2>4. Character(p[k], p[k + 1], s[k + 1]) /\ pos = p[k] BY <2>1, <2>2, <2>3, NextCharacter DEF ReadTo
  <2>5. inp[pos] = s[k + 1] /\ p[k + 1] = p[k] + 1 BY <1>1, <2>4, Zenon DEF Character
  <2>6. Strings!Write(<<s[k + 1]>>, 1) BY <1>1, <2>5
  <2>7. ReadingBack(s)' BY <1>1, <2>1, <2>2, <2>3, <2>5, <2>6, ReadsOn
  <2>8. ReadingBack(Strings!CString(first))'
    <3>1. s = (Strings!CString(first))' BY <1>1, <2>1
    <3> QED BY <2>7, <3>1
  <2> QED BY <1>1, <2>8 DEF BackInv, Strings!PrintParsesBack
<1> QED BY <1>2, <1>3

\* The letters differ from each other and from the other escapes.
LEMMA LettersDiffer ==
  /\ \A x, y \in DOMAIN Strings!Escapes : Strings!Letter[x] = Strings!Letter[y] => x = y
  /\ \A x \in DOMAIN Strings!Escapes : Strings!Letter[x] \notin {34, 92, 47, 117}
<1>1. DOMAIN Strings!Escapes = {"b", "f", "n", "r", "t"} BY DEF Strings!Escapes
<1>2. /\ Strings!Letter["b"] = 98 /\ Strings!Letter["f"] = 102 /\ Strings!Letter["n"] = 110
      /\ Strings!Letter["r"] = 114 /\ Strings!Letter["t"] = 116
  BY DEF Strings!Letter
<1> QED BY <1>1, <1>2

\* The digits of a control character are read as that character.
LEMMA HexBack ==
  ASSUME NEW a \in Nat, NEW c \in Nat, c < 32, inp[a] = 48, inp[a + 1] = 48,
         inp[a + 2] = Strings!LowerHex(c \div 16), inp[a + 3] = Strings!LowerHex(c % 16)
  PROVE  Strings!Hex4(a) = c
<1> DEFINE x == c \div 16
           y == c % 16
           D(n) == Strings!Digit(inp[n])
<1>1. Strings!Digit(48) = 0 /\ Strings!Digit(Strings!LowerHex(x)) = x /\ Strings!Digit(Strings!LowerHex(y)) = y
      /\ x \in 0..15 /\ y \in 0..15 /\ c = x * 16 + y
  BY DigitsBack
<1>2. D(a) = 0 /\ D(a + 1) = 0 /\ D(a + 2) = x /\ D(a + 3) = y BY <1>1, Zenon
<1>3. Strings!Hex4(a) = IF \E j \in 0..3 : D(a + j) = 16 THEN 0 ELSE ((D(a) * 4096 + D(a + 1) * 256) + D(a + 2) * 16) + D(a + 3)
  BY DEF Strings!Hex4
<1>4. a + 0 = a OBVIOUS
<1> HIDE DEF x, y, D
<1>5. ~ \E j \in 0..3 : D(a + j) = 16
  <2> SUFFICES ASSUME NEW j \in 0..3, D(a + j) = 16 PROVE FALSE OBVIOUS
  <2>1. j = 0 \/ j = 1 \/ j = 2 \/ j = 3 OBVIOUS
  <2>2. x # 16 /\ y # 16 BY <1>1
  <2> QED BY <1>2, <1>4, <2>1, <2>2
<1>6. Strings!Hex4(a) = ((D(a) * 4096 + D(a + 1) * 256) + D(a + 2) * 16) + D(a + 3) BY <1>3, <1>5
<1>7. Strings!Hex4(a) = ((0 * 4096 + 0 * 256) + x * 16) + y BY <1>2, <1>6
<1> QED BY <1>1, <1>7

\* An escape that print_string_ptr() wrote is the character it wrote it for.
LEMMA EscapeRead ==
  ASSUME NEW a \in Nat, a = pos, NEW b \in Nat, NEW c \in NonZero, Character(a, b, c), b <= end, end \in Nat,
         Strings!Unescape
  PROVE  \E n \in Nat : b = a + n /\ Strings!Write(<<c>>, n)
<1>1. inp[a] = 92 BY DEF Strings!Unescape, Strings!Backslash
<1>2. \/ \E e \in DOMAIN Strings!Escapes : inp[a + 1] = Strings!Letter[e] /\ Strings!Write(<<Strings!Escapes[e]>>, 2)
      \/ inp[a + 1] \in {34, 92, 47} /\ Strings!Write(<<inp[a + 1]>>, 2)
      \/ inp[a + 1] = 117 /\ Strings!Utf16Literal
      \/ inp[a + 1] \notin {Strings!Letter[e] : e \in DOMAIN Strings!Escapes} \union {34, 92, 47, 117}
  BY Zenon DEF Strings!Unescape, Strings!Quote, Strings!Backslash, Strings!LetterU
<1>3. c \in Nat BY DEF NonZero
<1>4. ASSUME c \in {34, 92}, b = a + 2, inp[a + 1] = c PROVE Strings!Write(<<c>>, 2)
  <2>1. \A e \in DOMAIN Strings!Escapes : inp[a + 1] # Strings!Letter[e] BY <1>4, LettersDiffer
  <2>2. inp[a + 1] # 117 /\ inp[a + 1] \in {34, 92, 47} BY <1>4
  <2>3. Strings!Write(<<inp[a + 1]>>, 2) BY <1>2, <2>1, <2>2, Zenon
  <2> QED BY <1>4, <2>3
<1>5. ASSUME b = a + 2, NEW x \in DOMAIN Strings!Escapes, Strings!Escapes[x] = c, inp[a + 1] = Strings!Letter[x]
      PROVE  Strings!Write(<<c>>, 2)
  <2>1. inp[a + 1] \notin {34, 92, 47, 117} BY <1>5, LettersDiffer
  <2>2. PICK e \in DOMAIN Strings!Escapes : inp[a + 1] = Strings!Letter[e] /\ Strings!Write(<<Strings!Escapes[e]>>, 2)
    BY <1>2, <1>5, <2>1, Zenon
  <2>3. e = x BY <1>5, <2>2, LettersDiffer
  <2> QED BY <1>5, <2>2, <2>3
<1>6. ASSUME c < 32, b = a + 6, inp[a + 1] = 117, inp[a + 2] = 48, inp[a + 3] = 48,
             inp[a + 4] = Strings!LowerHex(c \div 16), inp[a + 5] = Strings!LowerHex(c % 16)
      PROVE  Strings!Write(<<c>>, 6)
  <2>1. (a + 2) + 1 = a + 3 /\ (a + 2) + 2 = a + 4 /\ (a + 2) + 3 = a + 5 /\ a + 2 \in Nat OBVIOUS
  <2>2. Strings!Hex4(a + 2) = c BY <1>3, <1>6, <2>1, HexBack
  <2>3. ~ Strings!IsLow(c) /\ ~ Strings!IsHigh(c) BY <1>3, <1>6 DEF Strings!IsLow, Strings!IsHigh
  <2>4. Strings!Utf8(c) = <<c>>
    <3>1. c < 128 /\ ~ (128 <= c) /\ ~ (2048 <= c) BY <1>3, <1>6
    <3> QED BY <3>1 DEF Strings!Utf8
  <2>5. ~ (end - a < 6)
    <3>1. a + 6 <= end BY <1>6
    <3> QED BY <3>1
  <2>6. \A e \in DOMAIN Strings!Escapes : inp[a + 1] # Strings!Letter[e] BY <1>6, LettersDiffer
  <2>7. inp[a + 1] \notin {34, 92, 47} BY <1>6
  <2>8. Strings!Utf16Literal BY <1>2, <1>6, <2>6, <2>7, Zenon
  <2>9. Strings!Write(Strings!Utf8(c), 6) BY <2>2, <2>3, <2>5, <2>8, Zenon DEF Strings!Utf16Literal
  <2> QED BY <2>4, <2>9
<1>7. \/ c \in {34, 92} /\ b = a + 2 /\ inp[a + 1] = c
      \/ b = a + 2 /\ \E x \in DOMAIN Strings!Escapes : Strings!Escapes[x] = c /\ inp[a + 1] = Strings!Letter[x]
      \/ /\ c < 32 /\ b = a + 6 /\ inp[a + 1] = 117 /\ inp[a + 2] = 48 /\ inp[a + 3] = 48
         /\ inp[a + 4] = Strings!LowerHex(c \div 16) /\ inp[a + 5] = Strings!LowerHex(c % 16)
  <2>1. ~ (c \notin {34, 92} /\ inp[a] = c) BY <1>1
  <2> QED BY <2>1, Zenon DEF Character
<1>8. \/ b = a + 2 /\ Strings!Write(<<c>>, 2)
      \/ b = a + 6 /\ Strings!Write(<<c>>, 6)
  <2>1. CASE c \in {34, 92} /\ b = a + 2 /\ inp[a + 1] = c BY <1>4, <2>1
  <2>2. CASE b = a + 2 /\ \E x \in DOMAIN Strings!Escapes : Strings!Escapes[x] = c /\ inp[a + 1] = Strings!Letter[x]
    BY <1>5, <2>2
  <2>3. CASE /\ c < 32 /\ b = a + 6 /\ inp[a + 1] = 117 /\ inp[a + 2] = 48 /\ inp[a + 3] = 48
             /\ inp[a + 4] = Strings!LowerHex(c \div 16) /\ inp[a + 5] = Strings!LowerHex(c % 16)
    BY <1>6, <2>3
  <2> QED BY <1>7, <2>1, <2>2, <2>3, Zenon
<1>9. 2 \in Nat /\ 6 \in Nat OBVIOUS
<1> QED BY <1>8, <1>9, Zenon

\* An escape is read back as its character; none that was printed is refused.
LEMMA BackUnescapes == ASSUME StringInv, BackInv, Strings!Unescape PROVE BackInv'
<1>1. Strings!Converting /\ st = "convert" /\ pos < end BY DEF Strings!Unescape, Strings!Converting
<1>2. CASE first = << >>
  <2>1. first' = << >> /\ st' # "true"
    <3>1. first' = first /\ st' \in {"convert", "false"}
      BY <1>1 DEF Strings!Unescape, Strings!Utf16Literal, Strings!Write, Strings!Reject
    <3> QED BY <1>2, <3>1
  <2> QED BY <2>1 DEF BackInv, Strings!PrintParsesBack
<1>3. CASE first # << >>
  <2>1. PICK s, p : s = Strings!CString(first) /\ Laid(s, p) /\ \E k \in 0..Len(s) : ReadTo(s, p, k)
    BY <1>1, <1>3, ReaderAt
  <2>2. PICK k \in 0..Len(s) : ReadTo(s, p, k) BY <2>1
  <2>3. k < Len(s) BY <1>1, <2>1, <2>2, MoreToRead
  <2>4. /\ Character(p[k], p[k + 1], s[k + 1]) /\ pos = p[k] /\ end = p[Len(s)]
        /\ p[k] \in Nat /\ p[k + 1] \in Nat /\ s[k + 1] \in NonZero /\ p[k + 1] <= p[Len(s)]
    BY <2>1, <2>2, <2>3, NextCharacter DEF ReadTo
  <2>9. end \in Nat BY DEF StringInv, Strings!TypeOK
  <2>5. PICK n \in Nat : p[k + 1] = p[k] + n /\ Strings!Write(<<s[k + 1]>>, n) BY <2>4, <2>9, EscapeRead
  <2>6. UNCHANGED <<first, st>> BY <2>5 DEF Strings!Write
  <2>7. ReadingBack(s)' BY <1>1, <2>1, <2>2, <2>3, <2>5, ReadsOn
  <2>8. ReadingBack(Strings!CString(first))'
    <3>1. s = (Strings!CString(first))' BY <2>1, <2>6
    <3> QED BY <2>7, <3>1
  <2> QED BY <1>1, <2>6, <2>8 DEF BackInv, Strings!PrintParsesBack
<1> QED BY <1>2, <1>3

\* The measuring loop finds the quote that print_string_ptr() wrote last.
LEMMA BackMeasures == ASSUME StringInv, BackInv, Strings!Measure \/ Strings!MeasureNoMemory PROVE BackInv'
<1>1. st = "measure" /\ UNCHANGED <<inp, pos, out, first>> BY DEF Strings!Measure, Strings!MeasureNoMemory, Strings!Reject
<1>2. \/ st' = "nomemory"
      \/ ~ Strings!Found /\ st' = "false"
      \/ end' = Strings!Scanned.at /\ st' = "convert"
  BY DEF Strings!Measure, Strings!MeasureNoMemory, Strings!Reject
<1>3. CASE first = << >> BY <1>1, <1>2, <1>3 DEF BackInv, Strings!PrintParsesBack
<1>4. CASE first # << >>
  <2>1. PICK s : s = Strings!CString(first) BY Zenon
  <2>2. PICK p : Laid(s, p) BY <1>1, <1>4, <2>1 DEF BackInv, ReadingBack
  <2>3. inp \in Seq(Byte) BY ByteIs DEF StringInv, Strings!TypeOK
  <2>4. Strings!Found /\ Strings!Scanned.at = p[Len(s)] BY <2>2, <2>3, EndFound
  <2>5. CASE st' = "nomemory" BY <1>1, <2>5 DEF BackInv, Strings!PrintParsesBack
  <2>6. CASE end' = Strings!Scanned.at /\ st' = "convert"
    <3>1. pos' = 2 /\ out' = << >> BY <1>1 DEF StringInv
    <3>2. p[0] = 2 /\ s \in Seq(NonZero) BY <2>2 DEF Laid
    <3>3. Len(s) \in Nat /\ 0 \in 0..Len(s) BY <3>2
    <3>4. ReadTo(s, p, 0)' BY <2>4, <2>6, <3>1, <3>2 DEF ReadTo
    <3>5. Laid(s, p)' BY <1>1, <2>2 DEF Laid
    <3>6. ReadingBack(s)' BY <3>3, <3>4, <3>5 DEF ReadingBack
    <3>7. s = (Strings!CString(first))' BY <1>1, <2>1
    <3>8. ReadingBack(Strings!CString(first))' BY <3>6, <3>7
    <3> QED BY <2>6, <3>8 DEF BackInv, Strings!PrintParsesBack
  <2> QED BY <1>2, <2>4, <2>5, <2>6
<1> QED BY <1>3, <1>4

\* When the closing quote is reached every character is read back.
LEMMA BackFinishes == ASSUME StringInv, BackInv, Strings!FinishString PROVE BackInv'
<1>1. /\ st = "convert" /\ pos >= end /\ out' = Append(out, 0)
      /\ \/ first = << >> /\ first' = out' /\ st' = "print"
         \/ first # << >> /\ st' = "true" /\ first' = first
  BY DEF Strings!FinishString
<1>2. CASE first = << >> BY <1>1, <1>2 DEF BackInv, Strings!PrintParsesBack
<1>3. CASE first # << >>
  <2>1. PICK s, p : s = Strings!CString(first) /\ Laid(s, p) /\ \E k \in 0..Len(s) : ReadTo(s, p, k)
    BY <1>1, <1>3, ReaderAt
  <2>2. PICK k \in 0..Len(s) : ReadTo(s, p, k) BY <2>1
  <2>3. pos \in Nat /\ end \in Nat /\ out \in Seq(Byte) BY ByteIs DEF StringInv, Strings!TypeOK
  <2>4. s \in Seq(NonZero) BY <2>1 DEF Laid
  <2>5. k = Len(s)
    <3>1. Len(s) \in Nat BY <2>4
    <3>2. ~ (pos < end) BY <1>1, <2>3
    <3>3. ~ (k < Len(s)) BY <2>1, <2>2, <3>2, MoreToRead
    <3> QED BY <3>1, <3>3
  <2>6. Len(out) = Len(s) /\ \A j \in 1..Len(s) : out[j] = s[j] BY <2>2, <2>5 DEF ReadTo
  <2>7. Strings!CString(Append(out, 0)) = s BY <2>3, <2>4, <2>6, CStringBack
  <2>8. Strings!CString(out)' = s BY <1>1, <2>7
  <2>9. Strings!CString(first)' = s BY <1>1, <1>3, <2>1
  <2>10. st' = "true" BY <1>1, <1>3
  <2> QED BY <2>8, <2>9, <2>10 DEF BackInv, Strings!PrintParsesBack
<1> QED BY <1>2, <1>3

\* print_string_ptr() makes the text that is then parsed.
LEMMA BackPrints == ASSUME StringInv, BackInv, Strings!PrintString PROVE BackInv'
<1>1. PICK s : s = Strings!CString(first) BY Zenon
<1>2. /\ st = "print" /\ inp' = (<<34>> \o Strings!Printed(s)) \o <<34, 0>> /\ st' = "measure" /\ first' = first
  BY <1>1 DEF Strings!PrintString, Strings!Quote
<1>3. first \in Seq(Byte) /\ first # << >> /\ first[Len(first)] = 0 BY <1>2, ByteIs DEF StringInv, Strings!TypeOK
<1>4. s \in Seq(NonZero) BY <1>1, <1>3, FirstIs
<1>5. \E p : Laid(s, p)' BY <1>2, <1>4, PrintedLaid
<1>6. ReadingBack(s)' BY <1>2, <1>5 DEF ReadingBack
<1>7. s = (Strings!CString(first))' BY <1>1, <1>2
<1>8. ReadingBack(Strings!CString(first))' BY <1>6, <1>7
<1> QED BY <1>2, <1>8 DEF BackInv, Strings!PrintParsesBack

\* Every step of parsing and printing a string keeps it.
LEMMA BackSteps == StringInv /\ BackInv /\ Strings!Next => BackInv'
BY BackMeasures, BackCopies, BackUnescapes, BackFinishes, BackPrints DEF Strings!Next

\* A step of another part keeps it.
LEMMA BackStutters == BackInv /\ UNCHANGED stringVars => BackInv'
<1> SUFFICES ASSUME BackInv, UNCHANGED stringVars PROVE BackInv' OBVIOUS
<1>1. UNCHANGED <<inp, pos, end, out, first, st>> BY DEF stringVars
<1>2. \A s, p : Laid(s, p) => Laid(s, p)' BY <1>1 DEF Laid
<1>3. \A s, p, k : ReadTo(s, p, k) => ReadTo(s, p, k)' BY <1>1 DEF ReadTo
<1>4. \A s : ReadingBack(s) => ReadingBack(s)' BY <1>1, <1>2, <1>3 DEF ReadingBack
<1>5. (Strings!CString(first))' = Strings!CString(first) BY <1>1
<1>6. (Strings!PrintParsesBack)' BY <1>1 DEF BackInv, Strings!PrintParsesBack
<1>7. first # << >> /\ st \in {"measure", "convert"} => ReadingBack(Strings!CString(first))'
  <2> SUFFICES ASSUME first # << >> /\ st \in {"measure", "convert"} PROVE ReadingBack(Strings!CString(first))' OBVIOUS
  <2>1. PICK s : s = Strings!CString(first) BY Zenon
  <2>2. ReadingBack(s)' BY <1>4, <2>1 DEF BackInv
  <2> QED BY <1>5, <2>1, <2>2
<1> QED BY <1>1, <1>6, <1>7 DEF BackInv

-----------------------------------------------------------------------------
(* Parsing.  Items are numbered in the order of their allocation; the calls *)
(* of parse_array() and parse_object() in progress are a stack of frames.  *)

\* What holds of j when it holds of everything from j + 1 to n holds of all of
\* 0..n.
LEMMA DownInduction ==
  ASSUME NEW n \in Nat, NEW P, \A j \in 0..n : (\A k \in (j + 1)..n : k \in P) => j \in P
  PROVE  0..n \subseteq P
<1> SUFFICES ASSUME NEW b \in 0..n, b \notin P PROVE FALSE OBVIOUS
<1> DEFINE D == {d \in Nat : d <= n /\ n - d \notin P}
<1>1. n - b \in D
  <2>1. n - b \in Nat /\ n - b <= n /\ n - (n - b) = b OBVIOUS
  <2> QED BY <2>1
<1>2. PICK d \in D : \A k \in D : d <= k BY <1>1, LeastNatural
<1>3. d \in Nat /\ d <= n /\ n - d \notin P OBVIOUS
<1>4. n - d \in 0..n BY <1>3
<1>5. ASSUME NEW k \in ((n - d) + 1)..n PROVE k \in P
  <2>1. n - k \in Nat /\ n - k <= n /\ n - (n - k) = k /\ ~ (d <= n - k) BY <1>3
  <2>2. n - k \notin D BY <1>2, <2>1
  <2> QED BY <2>1, <2>2
<1> QED BY <1>3, <1>4, <1>5

\* The items of the parser's heap, and the two links cJSON_Delete() follows.
Types == {"invalid", "scalar", "string", "array", "object"}

\* An item of the parser's heap.
Item == [type : Types, child : Nat, next : Nat, prev : Nat, string : BOOLEAN, valuestring : BOOLEAN]
\* An item's links lead to items allocated after it, its child is the next one.
Numbered(h) ==
  /\ h \in Seq(Item)
  /\ \A j \in 1..Len(h) : /\ h[j].child # 0 => h[j].child = j + 1 /\ j + 1 <= Len(h)
                          /\ h[j].next # 0 => j < h[j].next /\ h[j].next <= Len(h)

\* The items that next and child pointers lead to from each item of h.
Reaching(h) == CHOOSE r : r = [j \in 0..Len(h) |-> IF j = 0 THEN {} ELSE ({j} \cup r[h[j].child]) \cup r[h[j].next]]

\* The items that are reached from i, which cJSON_Delete() would free.
ReachOf(h, i) == Reaching(h)[i]

\* What cJSON_Delete() visits is what is reached, now and after a step.
LEMMA ChainIs ==
  ASSUME NEW i
  PROVE  Parser!Chain(i) = ReachOf(heap, i) /\ Parser!Chain(i)' = ReachOf(heap', i)
BY DEF Parser!Chain, ReachOf, Reaching, Parser!NULL

\* The links of numbered items lead forward and stay in the heap.
LEMMA NumberedFacts ==
  ASSUME NEW h, Numbered(h), NEW j \in 1..Len(h)
  PROVE  /\ Len(h) \in Nat /\ j \in Nat /\ h[j] \in Item
         /\ h[j].child \in 0..Len(h) /\ h[j].next \in 0..Len(h)
         /\ h[j].child = 0 \/ h[j].child \in (j + 1)..Len(h)
         /\ h[j].next = 0 \/ h[j].next \in (j + 1)..Len(h)
<1>1. Len(h) \in Nat /\ h[j] \in Item BY DEF Numbered
<1>2. h[j].child \in Nat /\ h[j].next \in Nat BY <1>1 DEF Item
<1>3. (h[j].child # 0 => h[j].child = j + 1 /\ j + 1 <= Len(h)) /\ (h[j].next # 0 => j < h[j].next /\ h[j].next <= Len(h))
  BY DEF Numbered
<1> QED BY <1>1, <1>2, <1>3

\* The chains of a heap are what its links make them.
LEMMA ReachIs ==
  ASSUME NEW h, Numbered(h)
  PROVE  /\ ReachOf(h, 0) = {}
         /\ \A j \in 1..Len(h) : ReachOf(h, j) = ({j} \cup ReachOf(h, h[j].child)) \cup ReachOf(h, h[j].next)
<1> DEFINE n == Len(h)
           Shut(C) == \A j \in C : j # 0 => h[j].child \in C /\ h[j].next \in C
           R == [j \in 0..n |-> {m \in 1..n : \A C \in SUBSET (0..n) : j \in C /\ Shut(C) => m \in C}]
           G(r) == [j \in 0..n |-> IF j = 0 THEN {} ELSE ({j} \cup r[h[j].child]) \cup r[h[j].next]]
<1>1. n \in Nat BY DEF Numbered
<1>2. \A j \in 1..n : h[j].child \in 0..n /\ h[j].next \in 0..n BY NumberedFacts
<1> HIDE DEF n
<1>3. \A j \in 0..n : R[j] = {m \in 1..n : \A C \in SUBSET (0..n) : j \in C /\ Shut(C) => m \in C} OBVIOUS
<1> HIDE DEF R
<1>4. R[0] = {}
  <2>1. 0 \in 0..n /\ {0} \in SUBSET (0..n) /\ Shut({0}) BY <1>1
  <2>2. \A m \in 1..n : m \notin {0} BY <1>1
  <2> QED BY <1>3, <2>1, <2>2
<1>5. ASSUME NEW j \in 1..n PROVE R[j] = ({j} \cup R[h[j].child]) \cup R[h[j].next]
  <2> DEFINE c == h[j].child
             x == h[j].next
             U == ({j} \cup R[c]) \cup R[x]
             V == U \cup {0}
  <2>1. j \in 0..n /\ j # 0 /\ c \in 0..n /\ x \in 0..n BY <1>1, <1>2
  <2>2. ASSUME NEW k \in 0..n PROVE R[k] \subseteq 1..n /\ (k # 0 => k \in R[k])
    <3>1. R[k] \subseteq 1..n BY <1>3, <2>2
    <3>2. k # 0 => k \in 1..n BY <1>1
    <3> QED BY <1>3, <2>2, <3>1, <3>2
  <2>3. ASSUME NEW k \in 0..n, NEW y \in R[k] PROVE R[y] \subseteq R[k]
    <3>0. y \in 1..n /\ y \in 0..n BY <1>1, <2>2, <2>3
    <3>1. ASSUME NEW m \in R[y], NEW C \in SUBSET (0..n), k \in C, Shut(C) PROVE m \in C
      <4>1. y \in C BY <1>3, <2>3, <3>1
      <4> QED BY <1>3, <3>0, <3>1, <4>1
    <3>2. \A m \in R[y] : m \in 1..n BY <2>2, <3>0
    <3> QED BY <1>3, <3>1, <3>2
  <2>4. ASSUME NEW y \in 1..n PROVE (h[y].child # 0 => h[y].child \in R[y]) /\ (h[y].next # 0 => h[y].next \in R[y])
    <3>1. y \in 0..n /\ h[y].child \in 0..n /\ h[y].next \in 0..n /\ y # 0 BY <1>1, <1>2
    <3>2. \A C \in SUBSET (0..n) : y \in C /\ Shut(C) => h[y].child \in C /\ h[y].next \in C BY <3>1
    <3>3. (h[y].child # 0 => h[y].child \in 1..n) /\ (h[y].next # 0 => h[y].next \in 1..n) BY <1>1, <3>1
    <3> QED BY <1>3, <3>1, <3>2, <3>3
  <2>5. U \subseteq R[j]
    <3>1. j \in R[j] BY <2>1, <2>2
    <3>2. R[c] \subseteq R[j]
      <4>1. CASE c = 0 BY <1>4, <4>1
      <4>2. CASE c # 0 BY <2>1, <2>3, <2>4, <4>2
      <4> QED BY <4>1, <4>2
    <3>3. R[x] \subseteq R[j]
      <4>1. CASE x = 0 BY <1>4, <4>1
      <4>2. CASE x # 0 BY <2>1, <2>3, <2>4, <4>2
      <4> QED BY <4>1, <4>2
    <3> QED BY <3>1, <3>2, <3>3
  <2>6. V \in SUBSET (0..n)
    <3>1. R[c] \subseteq 1..n /\ R[x] \subseteq 1..n /\ 1..n \subseteq 0..n /\ 0 \in 0..n BY <1>1, <2>1, <2>2
    <3> QED BY <2>1, <3>1
  <2>7. Shut(V)
    <3> SUFFICES ASSUME NEW y \in V, y # 0 PROVE h[y].child \in V /\ h[y].next \in V OBVIOUS
    <3>1. CASE y = j
      <4>1. c \in V
        <5>1. c = 0 \/ c \in R[c] BY <2>1, <2>2
        <5> QED BY <5>1
      <4>2. x \in V
        <5>1. x = 0 \/ x \in R[x] BY <2>1, <2>2
        <5> QED BY <5>1
      <4> QED BY <3>1, <4>1, <4>2
    <3>2. ASSUME NEW k \in {c, x}, y \in R[k] PROVE h[y].child \in R[k] \cup {0} /\ h[y].next \in R[k] \cup {0}
      <4>1. k \in 0..n BY <2>1
      <4>2. y \in 1..n BY <2>2, <3>2, <4>1
      <4>3. R[y] \subseteq R[k] BY <2>3, <3>2, <4>1
      <4> QED BY <2>4, <4>2, <4>3
    <3> QED BY <3>1, <3>2
  <2>8. R[j] \subseteq U
    <3>1. j \in V OBVIOUS
    <3> HIDE DEF V
    <3>2. \A m \in R[j] : m \in V /\ m # 0 BY <1>1, <1>3, <2>1, <2>6, <2>7, <3>1
    <3> QED BY <3>2 DEF V
  <2> QED BY <2>5, <2>8
<1>6. R = G(R)
  <2>1. ASSUME NEW j \in 0..n PROVE R[j] = G(R)[j]
    <3>1. j = 0 \/ j \in 1..n BY <1>1
    <3> QED BY <1>4, <1>5, <3>1
  <2>2. R = [j \in 0..n |-> R[j]] BY DEF R
  <2>3. [j \in 0..n |-> R[j]] = G(R) BY <2>1, Zenon
  <2> QED BY <2>2, <2>3
<1> DEFINE g == Reaching(h)
<1>7. g = CHOOSE r : r = G(r) BY DEF Reaching, n
<1> HIDE DEF g
<1>8. g = G(g) BY <1>6, <1>7
<1>9. g[0] = {}
  <2>1. 0 \in 0..n BY <1>1
  <2>2. G(g)[0] = {} BY <2>1
  <2> QED BY <1>8, <2>2
<1>10. ASSUME NEW j \in 1..n PROVE g[j] = ({j} \cup g[h[j].child]) \cup g[h[j].next]
  <2>1. j \in 0..n /\ j # 0 BY <1>1
  <2>2. G(g)[j] = ({j} \cup g[h[j].child]) \cup g[h[j].next] BY <2>1
  <2> QED BY <1>8, <2>2
<1> QED BY <1>9, <1>10 DEF g, n, ReachOf

\* From an item only itself and later ones are reached.
LEMMA ReachWithin ==
  ASSUME NEW h, Numbered(h), NEW j \in 1..Len(h)
  PROVE  ReachOf(h, j) \subseteq j..Len(h) /\ j \in ReachOf(h, j)
<1> DEFINE n == Len(h)
           P == {k \in 0..n : k # 0 => ReachOf(h, k) \subseteq k..n}
<1>1. n \in Nat BY DEF Numbered
<1>2. ASSUME NEW k \in 0..n, \A m \in (k + 1)..n : m \in P PROVE k \in P
  <2> SUFFICES ASSUME k # 0 PROVE ReachOf(h, k) \subseteq k..n OBVIOUS
  <2>1. k \in 1..n BY <1>1
  <2>2. h[k].child = 0 \/ h[k].child \in (k + 1)..n BY <2>1, NumberedFacts
  <2>3. h[k].next = 0 \/ h[k].next \in (k + 1)..n BY <2>1, NumberedFacts
  <2>4. ReachOf(h, k) = ({k} \cup ReachOf(h, h[k].child)) \cup ReachOf(h, h[k].next) BY <2>1, ReachIs
  <2>5. ASSUME NEW m, m = 0 \/ m \in (k + 1)..n PROVE ReachOf(h, m) \subseteq k..n
    <3>1. CASE m = 0 BY <3>1, ReachIs
    <3>2. CASE m \in (k + 1)..n
      <4>1. m \in P /\ m # 0 BY <1>2, <2>1, <3>2
      <4>2. ReachOf(h, m) \subseteq m..n BY <4>1
      <4>3. m..n \subseteq k..n BY <1>1, <2>1, <3>2
      <4> QED BY <4>2, <4>3
    <3> QED BY <2>5, <3>1, <3>2
  <2>6. ReachOf(h, h[k].child) \subseteq k..n BY <2>2, <2>5
  <2>7. ReachOf(h, h[k].next) \subseteq k..n BY <2>3, <2>5
  <2>8. k \in k..n BY <1>1, <2>1
  <2> QED BY <2>4, <2>6, <2>7, <2>8
<1> HIDE DEF P
<1>3. 0..n \subseteq P BY <1>1, <1>2, DownInduction
<1>4. j \in P /\ j # 0 BY <1>1, <1>3
<1>5. ReachOf(h, j) \subseteq j..n BY <1>4 DEF P
<1>6. j \in ReachOf(h, j) BY ReachIs
<1> QED BY <1>5, <1>6

\* g has the links of h and one more, from c to b (none when c is 0).
Linked(h, g, c, b) ==
  /\ Numbered(h) /\ Numbered(g) /\ Len(h) <= Len(g)
  /\ \A j \in 1..Len(h) : j # c => g[j].child = h[j].child /\ g[j].next = h[j].next
  /\ c # 0 => /\ c \in 1..Len(h)
              /\ \/ g[c].child = h[c].child /\ h[c].next = 0 /\ g[c].next = b
                 \/ g[c].next = h[c].next /\ h[c].child = 0 /\ g[c].child = b

\* What is reached from j once b follows c.
Grown(h, g, c, b, j) == IF c # 0 /\ c \in ReachOf(h, j) THEN ReachOf(h, j) \cup ReachOf(g, b) ELSE ReachOf(h, j)

\* Linking b behind c lets whatever reached c reach b's items, and changes
\* nothing else.
LEMMA ReachGrows ==
  ASSUME NEW h, NEW g, NEW c, NEW b, Linked(h, g, c, b), NEW i \in 0..Len(h)
  PROVE  ReachOf(g, i) = Grown(h, g, c, b, i)
<1> DEFINE n == Len(h)
           A(j) == Grown(h, g, c, b, j)
           P == {j \in 0..n : ReachOf(g, j) = A(j)}
<1>1. Numbered(h) /\ Numbered(g) /\ n \in Nat /\ Len(g) \in Nat /\ n <= Len(g) BY DEF Linked, Numbered
<1>2. ReachOf(h, 0) = {} /\ ReachOf(g, 0) = {} BY <1>1, ReachIs
<1>3. ReachOf(g, 0) = A(0) BY <1>2 DEF Grown
<1>4. ASSUME NEW j \in 0..n, \A k \in (j + 1)..n : k \in P PROVE j \in P
  <2>1. CASE j = 0 BY <1>3, <2>1
  <2>2. CASE j # 0
    <3>0. j \in 1..n /\ j \in 1..Len(g) BY <1>1, <2>2
    <3>1. ReachOf(h, j) = ({j} \cup ReachOf(h, h[j].child)) \cup ReachOf(h, h[j].next) BY <1>1, <3>0, ReachIs
    <3>2. ReachOf(g, j) = ({j} \cup ReachOf(g, g[j].child)) \cup ReachOf(g, g[j].next) BY <1>1, <3>0, ReachIs
    <3>3. h[j].child = 0 \/ h[j].child \in (j + 1)..n BY <1>1, <3>0, NumberedFacts
    <3>4. h[j].next = 0 \/ h[j].next \in (j + 1)..n BY <1>1, <3>0, NumberedFacts
    <3>5. ASSUME NEW k, k = 0 \/ k \in (j + 1)..n PROVE ReachOf(g, k) = A(k) BY <1>3, <1>4, <3>5
    <3> HIDE DEF P
    <3>6. ReachOf(g, h[j].child) = A(h[j].child) /\ ReachOf(g, h[j].next) = A(h[j].next) BY <3>3, <3>4, <3>5
    <3> DEFINE hc == ReachOf(h, h[j].child)
               hn == ReachOf(h, h[j].next)
    <3>7. CASE j # c
      <4>1. g[j].child = h[j].child /\ g[j].next = h[j].next BY <3>0, <3>7 DEF Linked
      <4>2. ReachOf(g, j) = ({j} \cup A(h[j].child)) \cup A(h[j].next) BY <3>2, <3>6, <4>1
      <4>3. ReachOf(g, j) = A(j) BY <3>1, <3>7, <4>2 DEF Grown
      <4> QED BY <4>3 DEF P
    <3>8. CASE j = c
      <4>1. c # 0 BY <2>2, <3>8
      <4>2. ASSUME NEW k, k = 0 \/ k \in (j + 1)..n PROVE c \notin ReachOf(h, k)
        <5>1. CASE k = 0 BY <1>2, <5>1
        <5>2. CASE k \in (j + 1)..n
          <6>1. k \in 1..n /\ ~ (c \in k..n) BY <1>1, <3>0, <3>8, <5>2
          <6>2. ReachOf(h, k) \subseteq k..n BY <1>1, <6>1, ReachWithin
          <6> QED BY <6>1, <6>2
        <5> QED BY <4>2, <5>1, <5>2
      <4>3. A(h[j].child) = ReachOf(h, h[j].child) /\ A(h[j].next) = ReachOf(h, h[j].next)
        BY <3>3, <3>4, <4>2 DEF Grown
      <4>4. c \in ReachOf(h, j) BY <3>1, <3>8
      <4>5. A(j) = ReachOf(h, j) \cup ReachOf(g, b) BY <4>1, <4>4 DEF Grown
      <4>6. CASE g[c].child = h[c].child /\ h[c].next = 0 /\ g[c].next = b
        <5>1. ReachOf(g, j) = ({j} \cup ReachOf(h, h[j].child)) \cup ReachOf(g, b) BY <3>2, <3>6, <3>8, <4>3, <4>6
        <5>2. ReachOf(h, j) = {j} \cup ReachOf(h, h[j].child) BY <1>2, <3>1, <3>8, <4>6
        <5>3. ReachOf(g, j) = A(j) BY <4>5, <5>1, <5>2
        <5> QED BY <5>3 DEF P
      <4>7. CASE g[c].next = h[c].next /\ h[c].child = 0 /\ g[c].child = b
        <5>1. ReachOf(g, j) = ({j} \cup ReachOf(g, b)) \cup ReachOf(h, h[j].next) BY <3>2, <3>6, <3>8, <4>3, <4>7
        <5>2. ReachOf(h, j) = {j} \cup ReachOf(h, h[j].next) BY <1>2, <3>1, <3>8, <4>7
        <5>3. ReachOf(g, j) = A(j) BY <4>5, <5>1, <5>2
        <5> QED BY <5>3 DEF P
      <4> QED BY <4>1, <4>6, <4>7 DEF Linked
    <3> QED BY <3>7, <3>8
  <2> QED BY <2>1, <2>2
<1> HIDE DEF P
<1>5. 0..n \subseteq P BY <1>1, <1>4, DownInduction
<1>6. i \in P BY <1>5
<1> QED BY <1>6 DEF P

\* Links that do not change reach what they did.
LEMMA ReachSame ==
  ASSUME NEW h, NEW g, NEW b, Linked(h, g, 0, b), NEW i \in 0..Len(h)
  PROVE  ReachOf(g, i) = ReachOf(h, i)
BY ReachGrows DEF Grown

---------------------------------------------------------------------------
\* Reading.
Ended(t) == Len(t) \in Nat /\ Len(t) >= 1 /\ t[Len(t)] = "nul"

\* Skipping blanks moves forward and stops at the end of the text at the
\* latest.
LEMMA SkipIs ==
  ASSUME Ended(content), NEW o \in 1..Len(content)
  PROVE  Parser!SkipBlanks(o) \in o..Len(content) /\ Parser!SkipBlanks(o) \in 1..Len(content)
<1> DEFINE l == Len(content)
           Stops(k) == k = l + 1 \/ ~ Parser!IsBlank(k)
           Z == {k \in o..(l + 1) : Stops(k)}
           z == CHOOSE k \in o..(l + 1) : /\ \A j \in o..(k - 1) : Parser!IsBlank(j)
                                          /\ k = l + 1 \/ ~ Parser!IsBlank(k)
<1>1. l \in Nat /\ o \in Nat /\ o <= l BY DEF Ended
<1> HIDE DEF l
<1>2. l + 1 \in Z /\ Z \subseteq Nat BY <1>1
<1>3. PICK y \in Z : \A k \in Z : y <= k BY <1>2, LeastNatural
<1>4. y \in o..(l + 1) /\ Stops(y) OBVIOUS
<1>5. ASSUME NEW j \in o..(y - 1) PROVE Parser!IsBlank(j)
  <2>1. j \in o..(l + 1) /\ ~ (y <= j) BY <1>1, <1>4
  <2>2. j \notin Z BY <1>3, <2>1
  <2> QED BY <2>1, <2>2
<1> HIDE DEF Z
<1>6. \E k \in o..(l + 1) : (\A j \in o..(k - 1) : Parser!IsBlank(j)) /\ (k = l + 1 \/ ~ Parser!IsBlank(k))
  BY <1>4, <1>5
<1>7. z \in o..(l + 1) BY <1>6
<1>8. Parser!SkipBlanks(o) = IF z = l + 1 THEN z - 1 ELSE z
  <2>1. Parser!CanAccess(o) BY <1>1 DEF Parser!CanAccess, l
  <2> QED BY <2>1 DEF Parser!SkipBlanks, l
<1> HIDE DEF z
<1>9. Parser!SkipBlanks(o) \in o..l BY <1>1, <1>7, <1>8
<1> QED BY <1>1, <1>9 DEF l

\* A mark is before the zero.
LEMMA HasBefore ==
  ASSUME Ended(content), NEW o \in 1..Len(content), NEW c, c # "nul", Parser!Has(o, c)
  PROVE  o + 1 \in 1..Len(content) /\ o < Len(content)
<1>1. content[o] = c BY DEF Parser!Has
<1>2. o # Len(content) BY <1>1 DEF Ended
<1> QED BY <1>2 DEF Ended

\* A call of parse_array() or parse_object() in progress.
Frame == [kind : {"array", "object"}, item : Nat, head : Nat, cur : Nat]
\* The last item allocated under frame k before the next frame's container was parsed further.
TopOf(s, m, k) == IF k = Len(s) THEN m ELSE s[k + 1].item

\* A call in progress holds a list that no item hangs above yet: it begins
\* right after the container's item, ends at current_item, and has every item
\* allocated since.
OneFrame(h, s, m, k) ==
  /\ s[k].item \in 1..m /\ h[s[k].item].child = 0 /\ h[s[k].item].next = 0
  /\ s[k].head = 0 => s[k].cur = 0 /\ k = Len(s) /\ m = s[k].item
  /\ s[k].head # 0 => /\ s[k].head = s[k].item + 1
                      /\ s[k].cur \in s[k].head..TopOf(s, m, k)
                      /\ h[s[k].cur].next = 0
                      /\ ReachOf(h, s[k].head) = s[k].head..TopOf(s, m, k)
                      /\ \A j \in 1..Len(h) : h[j].next # s[k].head
  /\ k < Len(s) => s[k + 1].item = s[k].cur

\* The calls in progress, each inside the last item of the one before.
Frames(h, s, m) ==
  /\ s \in Seq(Frame) /\ m \in 0..Len(h)
  /\ Len(s) # 0 => s[1].item = 1
  /\ \A k \in 1..Len(s) : OneFrame(h, s, m, k)
  /\ \A j, k \in 1..Len(s) : j < k => s[j].item < s[k].item
  /\ Len(s) = 0 /\ m # 0 => ReachOf(h, 1) = 1..m

\* Every item that follows another has it as its prev.
Behind(h) == \A k \in 1..Len(h) : h[k].next # 0 => h[h[k].next].prev = k

\* A list that hangs below an item has its last item as the first one's prev,
\* and is not being added to.
RingAt(h, s, k) ==
  h[k].child # 0 => /\ h[k + 1].prev \in ReachOf(h, k + 1) /\ h[h[k + 1].prev].next = 0
                    /\ \A f \in 1..Len(s) : s[f].cur # 0 => s[f].cur \notin ReachOf(h, k + 1)

\* All finished lists are closed.
Rings(h, s) == Behind(h) /\ \A k \in 1..Len(h) : RingAt(h, s, k)

\* Two heaps with the same links.
Alike(h, g) ==
  /\ g \in Seq(Item) /\ Len(g) = Len(h)
  /\ \A j \in 1..Len(h) : g[j].child = h[j].child /\ g[j].next = h[j].next /\ g[j].prev = h[j].prev

\* Changing what is not a link keeps the numbering, and links nothing.
LEMMA AlikeNumbered ==
  ASSUME NEW h, NEW g, Numbered(h), Alike(h, g)
  PROVE  Numbered(g) /\ Linked(h, g, 0, 0)
<1>1. Numbered(g) BY DEF Numbered, Alike
<1>2. Len(h) \in Nat BY DEF Numbered
<1> QED BY <1>1, <1>2 DEF Linked, Alike

\* Changing what is not a link keeps all that is said of links.
LEMMA AlikeKeeps ==
  ASSUME NEW h, NEW g, NEW s, NEW m, Numbered(h), Alike(h, g), Frames(h, s, m), Rings(h, s)
  PROVE  Numbered(g) /\ Frames(g, s, m) /\ Rings(g, s)
<1>1. Numbered(g) /\ Linked(h, g, 0, 0) BY AlikeNumbered
<1>2. \A i \in 0..Len(h) : ReachOf(g, i) = ReachOf(h, i) BY <1>1, ReachSame
<1>3. Len(g) = Len(h) /\ Len(h) \in Nat /\ m \in 0..Len(h) /\ m \in Nat BY DEF Alike, Numbered, Frames
<1>4. \A j \in 1..Len(h) : g[j].child = h[j].child /\ g[j].next = h[j].next /\ g[j].prev = h[j].prev BY DEF Alike
<1>5. ASSUME NEW k \in 1..Len(s) PROVE OneFrame(g, s, m, k)
  <2>1. OneFrame(h, s, m, k) /\ s[k] \in Frame BY DEF Frames
  <2>0. s[k].item \in Nat /\ s[k].head \in Nat /\ s[k].cur \in Nat BY <2>1 DEF Frame
  <2>2. TopOf(s, m, k) \in 0..Len(h)
    <3>1. CASE k = Len(s) BY <1>3, <3>1 DEF TopOf
    <3>2. CASE k # Len(s)
      <4>1. k + 1 \in 1..Len(s) BY <3>2 DEF Frames
      <4>2. s[k + 1].item \in 1..m BY <4>1 DEF Frames, OneFrame
      <4> QED BY <1>3, <3>2, <4>2 DEF TopOf
    <3> QED BY <3>1, <3>2
  <2>3. s[k].item \in 1..Len(h) BY <1>3, <2>1 DEF OneFrame
  <2>4. s[k].head # 0 => s[k].cur \in 1..Len(h) /\ s[k].head \in 0..Len(h)
    <3> SUFFICES ASSUME s[k].head # 0 PROVE s[k].cur \in 1..Len(h) /\ s[k].head \in 0..Len(h) OBVIOUS
    <3>1. s[k].cur \in s[k].head..TopOf(s, m, k) BY <2>1 DEF OneFrame
    <3> QED BY <1>3, <2>0, <2>2, <3>1
  <2>5. g[s[k].item].child = 0 /\ g[s[k].item].next = 0 BY <1>4, <2>1, <2>3 DEF OneFrame
  <2>6. s[k].head # 0 => g[s[k].cur].next = 0 /\ ReachOf(g, s[k].head) = s[k].head..TopOf(s, m, k)
    BY <1>2, <1>4, <2>1, <2>4 DEF OneFrame
  <2>7. s[k].head # 0 => \A j \in 1..Len(g) : g[j].next # s[k].head BY <1>3, <1>4, <2>1 DEF OneFrame
  <2> QED BY <2>1, <2>5, <2>6, <2>7 DEF OneFrame
<1>6. Frames(g, s, m)
  <2>1. m # 0 => 1 \in 0..Len(h) BY <1>3
  <2>2. Len(s) = 0 /\ m # 0 => ReachOf(g, 1) = 1..m BY <1>2, <2>1 DEF Frames
  <2> QED BY <1>3, <1>5, <2>2 DEF Frames
<1>7. Behind(g)
  <2> SUFFICES ASSUME NEW k \in 1..Len(g), g[k].next # 0 PROVE g[g[k].next].prev = k BY DEF Behind
  <2>1. k \in 1..Len(h) /\ g[k].next = h[k].next BY <1>3, <1>4
  <2>2. h[k].next = 0 \/ h[k].next \in (k + 1)..Len(h) BY <2>1, NumberedFacts
  <2>3. h[k].next \in 1..Len(h) BY <1>3, <2>1, <2>2
  <2> QED BY <1>4, <2>1, <2>3 DEF Rings, Behind
<1>8. ASSUME NEW k \in 1..Len(g) PROVE RingAt(g, s, k)
  <2> SUFFICES ASSUME h[k].child # 0 PROVE RingAt(g, s, k) BY <1>3, <1>4 DEF RingAt
  <2>1. k \in 1..Len(h) /\ RingAt(h, s, k) BY <1>3 DEF Rings
  <2>2. h[k].child = k + 1 /\ k + 1 \in 1..Len(h) BY <1>3, <2>1 DEF Numbered
  <2>3. ReachOf(h, k + 1) \subseteq (k + 1)..Len(h) BY <2>2, ReachWithin
  <2>4. h[k + 1].prev \in 1..Len(h) BY <1>3, <2>1, <2>2, <2>3 DEF RingAt
  <2>5. ReachOf(g, k + 1) = ReachOf(h, k + 1) BY <1>2, <1>3, <2>2
  <2>6. g[k + 1].prev = h[k + 1].prev /\ g[h[k + 1].prev].next = h[h[k + 1].prev].next BY <1>4, <2>2, <2>4
  <2> QED BY <2>1, <2>5, <2>6 DEF RingAt
<1> QED BY <1>1, <1>6, <1>7, <1>8 DEF Rings

\* Leaving the innermost container.
LEMMA PopKeeps ==
  ASSUME NEW h, NEW s, NEW m, Numbered(h), Frames(h, s, m), Rings(h, s), Len(s) # 0,
         NEW t, t \in Seq(Frame), Len(t) = Len(s) - 1, \A k \in 1..Len(t) : t[k] = s[k]
  PROVE  /\ Frames(h, t, s[Len(s)].item) /\ Rings(h, t)
         /\ s[Len(s)].item \in 1..m
         /\ (1..m) \ ReachOf(h, s[Len(s)].head) = 1..s[Len(s)].item
<1> DEFINE d == Len(s)
           p == s[d].item
<1>1. s \in Seq(Frame) /\ d \in Nat /\ d \in 1..d /\ m \in 0..Len(h) /\ Len(h) \in Nat /\ m \in Nat
  BY DEF Frames, Numbered
<1>2. OneFrame(h, s, m, d) /\ s[d] \in Frame BY <1>1 DEF Frames
<1>3. p \in 1..m /\ p \in Nat /\ h[p].child = 0 /\ h[p].next = 0 /\ p \in 0..Len(h) /\ p \in 1..Len(h)
  BY <1>1, <1>2 DEF OneFrame
<1>4. ASSUME NEW k \in 1..Len(t) PROVE OneFrame(h, t, p, k)
  <2>1. k \in 1..d /\ k < d /\ t[k] = s[k] /\ k + 1 \in 1..d BY <1>1
  <2>2. OneFrame(h, s, m, k) /\ s[k] \in Frame BY <1>1, <2>1 DEF Frames
  <2>3. s[k].item < p BY <1>1, <2>1 DEF Frames
  <2>4. TopOf(s, m, k) = s[k + 1].item BY <2>1 DEF TopOf
  <2>5. TopOf(t, p, k) = TopOf(s, m, k)
    <3>1. CASE k = Len(t)
      <4>1. k + 1 = d BY <1>1, <3>1
      <4> QED BY <2>4, <3>1, <4>1 DEF TopOf
    <3>2. CASE k # Len(t)
      <4>1. k + 1 \in 1..Len(t) BY <1>1, <3>2
      <4> QED BY <2>4, <3>2, <4>1 DEF TopOf
    <3> QED BY <3>1, <3>2
  <2>6. s[k].head # 0 BY <2>1, <2>2 DEF OneFrame
  <2>7. k < Len(t) => t[k + 1].item = t[k].cur
    <3> SUFFICES ASSUME k < Len(t) PROVE t[k + 1].item = t[k].cur OBVIOUS
    <3>1. k + 1 \in 1..Len(t) BY <1>1
    <3>2. t[k + 1] = s[k + 1] BY <3>1
    <3>3. s[k + 1].item = s[k].cur BY <2>1, <2>2 DEF OneFrame
    <3> QED BY <2>1, <3>2, <3>3
  <2>8. s[k].item \in Nat /\ s[k].item \in 1..p
    <3>1. s[k].item \in 1..m BY <2>2 DEF OneFrame
    <3> QED BY <1>1, <1>3, <2>3, <3>1
  <2> QED BY <2>1, <2>2, <2>5, <2>6, <2>7, <2>8 DEF OneFrame
<1>5. Len(t) # 0 => t[1].item = 1
  <2>1. Len(t) # 0 => 1 \in 1..Len(t) BY <1>1
  <2> QED BY <1>1, <2>1 DEF Frames
<1>6. \A j, k \in 1..Len(t) : j < k => t[j].item < t[k].item
  <2>1. \A j \in 1..Len(t) : j \in 1..d BY <1>1
  <2> QED BY <2>1 DEF Frames
<1>7. Len(t) = 0 => ReachOf(h, 1) = 1..p
  <2> SUFFICES ASSUME Len(t) = 0 PROVE ReachOf(h, 1) = 1..p OBVIOUS
  <2>1. d = 1 BY <1>1
  <2>2. p = 1 BY <2>1 DEF Frames
  <2>3. ReachOf(h, 1) = ({1} \cup ReachOf(h, h[1].child)) \cup ReachOf(h, h[1].next) BY <1>3, <2>2, ReachIs
  <2>4. ReachOf(h, 1) = {1} BY <1>3, <2>2, <2>3, ReachIs
  <2>5. 1..1 = {1} OBVIOUS
  <2> QED BY <2>2, <2>4, <2>5
<1>8. Frames(h, t, p) BY <1>3, <1>4, <1>5, <1>6, <1>7 DEF Frames
<1>9. Rings(h, t)
  <2>1. \A f \in 1..Len(t) : f \in 1..d /\ t[f] = s[f] BY <1>1
  <2> QED BY <2>1 DEF Rings, RingAt
<1>10. (1..m) \ ReachOf(h, s[d].head) = 1..p
  <2>1. CASE s[d].head = 0
    <3>1. m = p BY <1>2, <2>1 DEF OneFrame
    <3>2. ReachOf(h, s[d].head) = {} BY <2>1, ReachIs
    <3> QED BY <3>1, <3>2
  <2>2. CASE s[d].head # 0
    <3>1. ReachOf(h, s[d].head) = (p + 1)..m BY <1>2, <2>2 DEF OneFrame, TopOf
    <3>2. (1..m) \ ((p + 1)..m) = 1..p BY <1>1, <1>3
    <3> QED BY <3>1, <3>2
  <2> QED BY <2>1, <2>2
<1> QED BY <1>3, <1>8, <1>9, <1>10

\* What a frame says of the items around it.
LEMMA FrameFacts ==
  ASSUME NEW h, NEW s, NEW m, Numbered(h), Frames(h, s, m), NEW k \in 1..Len(s)
  PROVE  /\ Len(s) \in Nat /\ Len(h) \in Nat /\ m \in Nat /\ m <= Len(h) /\ s[k] \in Frame
         /\ s[k].item \in 1..m /\ s[k].item \in 1..Len(h) /\ s[k].head \in Nat /\ s[k].cur \in Nat
         /\ h[s[k].item].child = 0 /\ h[s[k].item].next = 0
         /\ TopOf(s, m, k) \in 0..m
         /\ s[k].head # 0 => /\ s[k].head = s[k].item + 1
                             /\ s[k].cur \in 1..m /\ s[k].cur \in 1..Len(h) /\ s[k].head <= s[k].cur
                             /\ s[k].head \in 1..m /\ s[k].head \in 1..Len(h)
         /\ k < Len(s) => /\ k + 1 \in 1..Len(s) /\ s[k + 1].item = s[k].cur /\ s[k].head # 0
                          /\ TopOf(s, m, k) = s[k].cur
         /\ \A j \in 1..Len(s) : j <= k => s[j].item <= s[k].item
<1>1. s \in Seq(Frame) /\ Len(s) \in Nat /\ m \in Nat /\ m <= Len(h) /\ Len(h) \in Nat BY DEF Frames, Numbered
<1>2. OneFrame(h, s, m, k) /\ s[k] \in Frame BY <1>1 DEF Frames
<1>3. s[k].item \in 1..m /\ s[k].item \in 1..Len(h) BY <1>1, <1>2 DEF OneFrame
<1>4. s[k].head \in Nat /\ s[k].cur \in Nat BY <1>2 DEF Frame
<1>5. h[s[k].item].child = 0 /\ h[s[k].item].next = 0 BY <1>2 DEF OneFrame
<1>6. k < Len(s) => /\ k + 1 \in 1..Len(s) /\ s[k + 1].item = s[k].cur /\ s[k].head # 0
                    /\ TopOf(s, m, k) = s[k].cur
  <2> SUFFICES ASSUME k < Len(s)
               PROVE  /\ k + 1 \in 1..Len(s) /\ s[k + 1].item = s[k].cur /\ s[k].head # 0
                      /\ TopOf(s, m, k) = s[k].cur
    OBVIOUS
  <2>1. k + 1 \in 1..Len(s) /\ k # Len(s) BY <1>1
  <2>2. s[k + 1].item = s[k].cur BY <1>2 DEF OneFrame
  <2>3. s[k].head # 0 BY <1>2, <2>1 DEF OneFrame
  <2> QED BY <2>1, <2>2, <2>3 DEF TopOf
<1>7. TopOf(s, m, k) \in 0..m
  <2>1. CASE k = Len(s) BY <1>1, <2>1 DEF TopOf
  <2>2. CASE k # Len(s)
    <3>1. k + 1 \in 1..Len(s) BY <1>1, <2>2
    <3>2. s[k + 1].item \in 1..m BY <3>1 DEF Frames, OneFrame
    <3> QED BY <1>1, <2>2, <3>2 DEF TopOf
  <2> QED BY <2>1, <2>2
<1>8. s[k].head # 0 => /\ s[k].head = s[k].item + 1
                       /\ s[k].cur \in 1..m /\ s[k].cur \in 1..Len(h) /\ s[k].head <= s[k].cur
                       /\ s[k].head \in 1..m /\ s[k].head \in 1..Len(h)
  <2> SUFFICES ASSUME s[k].head # 0
               PROVE  /\ s[k].head = s[k].item + 1
                      /\ s[k].cur \in 1..m /\ s[k].cur \in 1..Len(h) /\ s[k].head <= s[k].cur
                      /\ s[k].head \in 1..m /\ s[k].head \in 1..Len(h)
    OBVIOUS
  <2>1. s[k].head = s[k].item + 1 /\ s[k].cur \in s[k].head..TopOf(s, m, k) BY <1>2 DEF OneFrame
  <2> DEFINE i == s[k].item
             a == s[k].head
             c == s[k].cur
             o == TopOf(s, m, k)
  <2>2. a = i + 1 /\ c \in a..o /\ i \in 1..m /\ a \in Nat /\ c \in Nat /\ o \in 0..m BY <1>3, <1>4, <1>7, <2>1
  <2> HIDE DEF i, a, c, o
  <2>3. c \in 1..m /\ c \in 1..Len(h) /\ a <= c /\ a \in 1..m /\ a \in 1..Len(h) BY <1>1, <2>2
  <2> QED BY <2>1, <2>3 DEF a, c
<1>9. ASSUME NEW j \in 1..Len(s), j <= k PROVE s[j].item <= s[k].item
  <2>1. CASE j = k BY <1>3, <2>1
  <2>2. CASE j # k
    <3>1. j < k BY <1>1, <1>9, <2>2
    <3>2. s[j].item < s[k].item BY <3>1 DEF Frames
    <3>3. s[j].item \in Nat
      <4>1. s[j].item \in 1..m BY DEF Frames, OneFrame
      <4> QED BY <4>1
    <3> QED BY <1>3, <3>2, <3>3
  <2> QED BY <2>1, <2>2
<1> QED BY <1>1, <1>2, <1>3, <1>4, <1>5, <1>6, <1>7, <1>8, <1>9

\* Entering a container: the item being parsed becomes the innermost frame.
LEMMA PushKeeps ==
  ASSUME NEW h, NEW s, NEW m, Numbered(h), Frames(h, s, m), Rings(h, s), m = Len(h), m # 0,
         h[m].child = 0, h[m].next = 0, Len(s) = 0 => m = 1,
         Len(s) # 0 => s[Len(s)].cur = m /\ s[Len(s)].head # 0,
         NEW f \in Frame, f.item = m, f.head = 0, f.cur = 0
  PROVE  Frames(h, Append(s, f), m) /\ Rings(h, Append(s, f))
<1> DEFINE d == Len(s)
           t == Append(s, f)
<1>1. s \in Seq(Frame) /\ d \in Nat /\ m \in Nat /\ m \in 0..Len(h) /\ m \in 1..m BY DEF Frames, Numbered
<1>2. t \in Seq(Frame) /\ Len(t) = d + 1 /\ t[d + 1] = f /\ \A k \in 1..d : t[k] = s[k] BY <1>1, AppendProperties
<1> HIDE DEF t
<1>3. ASSUME NEW k \in 1..d PROVE OneFrame(h, t, m, k) /\ s[k].item < m
  <2>0. k \in 1..Len(s) /\ k < Len(t) /\ k # Len(t) /\ t[k] = s[k] BY <1>1, <1>2
  <2>1. OneFrame(h, s, m, k) BY DEF Frames
  <2>2. s[k].head # 0 /\ t[k + 1].item = s[k].cur /\ TopOf(t, m, k) = TopOf(s, m, k)
    <3>1. CASE k = d BY <1>2, <2>0, <3>1 DEF TopOf
    <3>2. CASE k # d
      <4>1. k < Len(s) BY <1>1, <3>2
      <4>2. k + 1 \in 1..Len(s) /\ s[k + 1].item = s[k].cur /\ s[k].head # 0 BY <2>0, <4>1, FrameFacts
      <4>3. t[k + 1] = s[k + 1] BY <1>2, <4>2
      <4> QED BY <2>0, <3>2, <4>2, <4>3 DEF TopOf
    <3> QED BY <3>1, <3>2
  <2>3. OneFrame(h, t, m, k) BY <2>0, <2>1, <2>2 DEF OneFrame
  <2>4. s[k].head = s[k].item + 1 /\ s[k].head <= s[k].cur /\ s[k].cur \in 1..m /\ s[k].item \in 1..m
    BY <2>0, <2>2, FrameFacts
  <2>5. s[k].item < m BY <1>1, <2>4
  <2> QED BY <2>3, <2>5
<1>4. OneFrame(h, t, m, d + 1)
  <2>1. ~ (d + 1 < Len(t)) BY <1>1, <1>2
  <2> QED BY <1>1, <1>2, <2>1 DEF OneFrame
<1>5. \A k \in 1..Len(t) : k \in 1..d \/ k = d + 1 BY <1>1, <1>2
<1>6. t[1].item = 1
  <2>1. CASE d = 0
    <3>1. m = 1 BY <2>1
    <3>2. d + 1 = 1 BY <1>1, <2>1
    <3> QED BY <1>2, <3>1, <3>2
  <2>2. CASE d # 0
    <3>1. 1 \in 1..d BY <1>1, <2>2
    <3> QED BY <1>2, <2>2, <3>1 DEF Frames
  <2> QED BY <2>1, <2>2
<1>7. ASSUME NEW j \in 1..Len(t), NEW k \in 1..Len(t), j < k PROVE t[j].item < t[k].item
  <2>1. j \in 1..d BY <1>1, <1>2, <1>5, <1>7
  <2>2. CASE k \in 1..d BY <1>2, <1>7, <2>1, <2>2 DEF Frames
  <2>3. CASE k = d + 1 BY <1>2, <1>3, <2>1, <2>3
  <2> QED BY <1>5, <2>2, <2>3
<1>8. Len(t) # 0 BY <1>1, <1>2
<1>9. Frames(h, t, m) BY <1>1, <1>2, <1>3, <1>4, <1>5, <1>6, <1>7, <1>8 DEF Frames
<1>10. Rings(h, t)
  <2> SUFFICES ASSUME NEW k \in 1..Len(h) PROVE RingAt(h, t, k) BY DEF Rings
  <2>1. RingAt(h, s, k) BY DEF Rings
  <2>2. \A g \in 1..Len(t) : t[g].cur # 0 => g \in 1..Len(s) /\ t[g] = s[g] BY <1>2, <1>5
  <2> QED BY <2>1, <2>2 DEF RingAt
<1> QED BY <1>9, <1>10 DEF t

\* g is h with one more item, which follows c (nothing when c is 0).
AttachedTo(h, g, c) ==
  /\ g \in Seq(Item) /\ Len(g) = Len(h) + 1
  /\ \A j \in 1..Len(h) : /\ g[j].child = h[j].child /\ g[j].prev = h[j].prev
                          /\ g[j].next = IF j = c THEN Len(g) ELSE h[j].next
  /\ g[Len(g)].child = 0 /\ g[Len(g)].next = 0 /\ g[Len(g)].prev = c

\* A new element is linked behind the last one of the innermost container.
LEMMA AttachKeeps ==
  ASSUME NEW h, NEW s, NEW m, Numbered(h), Frames(h, s, m), Rings(h, s), m = Len(h), Len(s) # 0,
         NEW g, AttachedTo(h, g, s[Len(s)].cur),
         NEW t, t \in Seq(Frame), Len(t) = Len(s), \A k \in 1..Len(s) : k # Len(s) => t[k] = s[k],
         t[Len(s)].item = s[Len(s)].item, t[Len(s)].cur = Len(h) + 1,
         t[Len(s)].head = IF s[Len(s)].head = 0 THEN Len(h) + 1 ELSE s[Len(s)].head
  PROVE  Numbered(g) /\ Frames(g, t, Len(g)) /\ Rings(g, t)
<1> DEFINE d == Len(s)
           c == s[d].cur
           p == s[d].item
           n == Len(h)
           e == n + 1
<1>1. d \in Nat /\ n \in Nat /\ d \in 1..d /\ d \in 1..Len(s) /\ Len(g) = e /\ e \in Nat /\ s \in Seq(Frame)
  BY DEF Frames, Numbered, AttachedTo
<1>2. /\ p \in 1..n /\ s[d].head \in Nat /\ c \in Nat
      /\ s[d].head # 0 => s[d].head = p + 1 /\ c \in 1..n /\ p < c /\ s[d].head \in 1..n /\ s[d].head <= c
  BY <1>1, FrameFacts
<1>3. s[d].head = 0 => c = 0 /\ p = n BY <1>1 DEF Frames, OneFrame
<1>4. c # 0 => c \in 1..n /\ h[c].next = 0 /\ ReachOf(h, s[d].head) = s[d].head..n
  <2> SUFFICES ASSUME c # 0 PROVE c \in 1..n /\ h[c].next = 0 /\ ReachOf(h, s[d].head) = s[d].head..n OBVIOUS
  <2>1. s[d].head # 0 /\ OneFrame(h, s, m, d) BY <1>1, <1>3 DEF Frames
  <2> QED BY <1>2, <2>1 DEF OneFrame, TopOf
<1>5. \A j \in 1..n : g[j].child = h[j].child /\ g[j].prev = h[j].prev /\ g[j].next = IF j = c THEN e ELSE h[j].next
  BY <1>1 DEF AttachedTo
<1>6. g \in Seq(Item) /\ g[e].child = 0 /\ g[e].next = 0 /\ g[e].prev = c /\ e \in 1..Len(g) BY <1>1 DEF AttachedTo
<1>7. \A j \in 1..n : /\ h[j].child \in 0..n /\ h[j].next \in 0..n
                      /\ h[j].child = 0 \/ h[j].child \in (j + 1)..n
                      /\ h[j].next = 0 \/ h[j].next \in (j + 1)..n
  BY NumberedFacts
<1>8. \A j \in 1..n : h[j].child # 0 => h[j].child = j + 1 BY DEF Numbered
<1> HIDE DEF n, e, d, c, p
<1>9. \A j \in 1..e : j \in 1..n \/ j = e BY <1>1 DEF e
<1>e. e = n + 1 /\ ~ (e \in 1..n) BY <1>1 DEF e
<1>10. Numbered(g)
  <2> SUFFICES ASSUME NEW j \in 1..e
               PROVE  /\ g[j].child # 0 => g[j].child = j + 1 /\ j + 1 <= e
                      /\ g[j].next # 0 => j < g[j].next /\ g[j].next <= e
    BY <1>1, <1>6 DEF Numbered
  <2>1. CASE j = e BY <1>6, <2>1
  <2>2. CASE j \in 1..n
    <3>1. g[j].child # 0 => g[j].child = j + 1 /\ j + 1 <= e BY <1>1, <1>5, <1>7, <1>8, <1>e, <2>2
    <3>2. CASE j = c
      <4>1. g[j].next = e /\ j < e BY <1>1, <1>5, <1>e, <2>2, <3>2
      <4> QED BY <1>1, <3>1, <4>1
    <3>3. CASE j # c
      <4>1. g[j].next = h[j].next BY <1>5, <2>2, <3>3
      <4>2. h[j].next = 0 \/ h[j].next \in (j + 1)..n BY <1>7, <2>2
      <4>3. h[j].next # 0 => j < h[j].next /\ h[j].next <= e BY <1>1, <1>e, <2>2, <4>2
      <4> QED BY <3>1, <4>1, <4>3
    <3> QED BY <3>1, <3>2, <3>3
  <2> QED BY <1>9, <2>1, <2>2
<1>11. Linked(h, g, c, e)
  <2>1. n <= Len(g) BY <1>1, <1>e
  <2>2. \A j \in 1..n : j # c => g[j].child = h[j].child /\ g[j].next = h[j].next BY <1>5
  <2>3. c # 0 => c \in 1..n /\ g[c].child = h[c].child /\ h[c].next = 0 /\ g[c].next = e BY <1>4, <1>5
  <2> QED BY <1>10, <2>1, <2>2, <2>3 DEF Linked, n
<1>12. \A i \in 0..n : ReachOf(g, i) = Grown(h, g, c, e, i) BY <1>11, ReachGrows DEF n
<1>13. ReachOf(g, e) = {e}
  <2>1. ReachOf(g, e) = ({e} \cup ReachOf(g, g[e].child)) \cup ReachOf(g, g[e].next) /\ ReachOf(g, 0) = {}
    BY <1>6, <1>10, ReachIs
  <2> QED BY <1>6, <2>1
<1>14. t \in Seq(Frame) /\ Len(t) = d /\ t[d].item = p /\ t[d].cur = e
       /\ t[d].head = (IF s[d].head = 0 THEN e ELSE s[d].head) /\ \A k \in 1..d : k # d => t[k] = s[k]
  BY DEF d, p, e, n
<1>15. Len(t) # 0 /\ t[1].item = 1
  <2>1. Len(t) # 0 /\ s[1].item = 1 BY <1>14 DEF Frames, d
  <2>2. 1 \in 1..d /\ 1..d = 1..Len(s) BY <1>1, <1>14, <2>1 DEF d
  <2>3. t[1].item = s[1].item BY <1>14, <2>2 DEF p
  <2> QED BY <2>1, <2>3
<1>16. ASSUME NEW k \in 1..d PROVE t[k].item = s[k].item /\ s[k].item <= p /\ s[k].item \in 1..n /\ s[k].item \in Nat
  <2>1. t[k].item = s[k].item BY <1>14 DEF p
  <2>2. s[k].item \in 1..n BY FrameFacts DEF d, n
  <2>3. k <= d BY <1>1
  <2>4. s[k].item <= p BY <1>1, <2>3, FrameFacts DEF d, p
  <2> QED BY <2>1, <2>2, <2>4
<1>17. ASSUME NEW j \in 1..Len(t), NEW k \in 1..Len(t), j < k PROVE t[j].item < t[k].item
  <2>1. s[j].item < s[k].item BY <1>14, <1>17 DEF Frames, d
  <2> QED BY <1>14, <1>16, <2>1
<1>18. ASSUME NEW k \in 1..d PROVE g[t[k].item].child = 0 /\ g[t[k].item].next = 0
  <2>1. s[k].item \in 1..n /\ t[k].item = s[k].item /\ s[k].item <= p BY <1>16
  <2>2. h[s[k].item].child = 0 /\ h[s[k].item].next = 0 BY FrameFacts DEF d
  <2>3. s[k].item # c
    <3>1. c # 0 => p < c BY <1>2, <1>3
    <3> QED BY <1>2, <2>1, <3>1
  <2> QED BY <1>5, <2>1, <2>2, <2>3
<1>19. OneFrame(g, t, e, d)
  <2>0. d = Len(t) /\ TopOf(t, e, d) = e /\ ~ (d < Len(t)) BY <1>1, <1>14 DEF TopOf
  <2>1. t[d].item \in 1..e BY <1>1, <1>2, <1>14, <1>e
  <2>2. t[d].head # 0 BY <1>1, <1>14, <1>e
  <2>3. t[d].head = p + 1 BY <1>2, <1>3, <1>14, <1>e
  <2>4. t[d].cur \in t[d].head..e BY <1>1, <1>2, <1>14, <1>e
  <2>5. g[t[d].cur].next = 0 BY <1>6, <1>14
  <2>6. ReachOf(g, t[d].head) = t[d].head..e
    <3>1. CASE s[d].head = 0
      <4>1. e..e = {e} BY <1>1
      <4> QED BY <1>13, <1>14, <3>1, <4>1
    <3>2. CASE s[d].head # 0
      <4> DEFINE a == s[d].head
      <4>1. t[d].head = a /\ a \in 1..n /\ a \in 0..n /\ c \in 1..n /\ c # 0 /\ a <= c BY <1>1, <1>2, <1>14, <3>2
      <4>2. ReachOf(h, a) = a..n BY <1>4, <4>1
      <4> HIDE DEF a
      <4>3. c \in ReachOf(h, a) BY <1>1, <4>1, <4>2
      <4>4. ReachOf(g, a) = ReachOf(h, a) \cup ReachOf(g, e) BY <1>12, <4>1, <4>3 DEF Grown
      <4>5. (a..n) \cup {e} = a..e BY <1>1, <1>e, <4>1
      <4> QED BY <1>13, <4>1, <4>2, <4>4, <4>5
    <3> QED BY <3>1, <3>2
  <2>7. ASSUME NEW j \in 1..e PROVE g[j].next # t[d].head
    <3>1. CASE j = e BY <1>6, <2>2, <3>1
    <3>2. CASE j \in 1..n /\ j = c
      <4>1. g[j].next = e BY <1>5, <3>2
      <4>2. s[d].head # 0 /\ s[d].head \in 1..n
        <5>1. j # 0 BY <1>1, <3>2
        <5> QED BY <1>2, <1>3, <3>2, <5>1
      <4>3. t[d].head \in 1..n BY <1>14, <4>2
      <4> QED BY <1>1, <1>e, <4>1, <4>3
    <3>3. CASE j \in 1..n /\ j # c
      <4>1. g[j].next = h[j].next /\ h[j].next \in 0..n BY <1>5, <1>7, <3>3
      <4>2. CASE s[d].head = 0 BY <1>1, <1>14, <1>e, <4>1, <4>2
      <4>3. CASE s[d].head # 0
        <5>1. h[j].next # s[d].head BY <1>1, <3>3, <4>3 DEF Frames, OneFrame, d, n
        <5> QED BY <1>14, <4>1, <4>3, <5>1
      <4> QED BY <4>2, <4>3
    <3> QED BY <1>9, <3>1, <3>2, <3>3
  <2>8. g[t[d].item].child = 0 /\ g[t[d].item].next = 0 BY <1>1, <1>18
  <2> QED BY <1>1, <1>14, <2>0, <2>1, <2>2, <2>3, <2>4, <2>5, <2>6, <2>7, <2>8 DEF OneFrame
<1>20. ASSUME NEW k \in 1..d, k # d PROVE OneFrame(g, t, e, k)
  <2> DEFINE a == s[k].head
             u == s[k].cur
  <2>1. k < d /\ k < Len(t) /\ k # Len(t) /\ k + 1 \in 1..d /\ t[k] = s[k] BY <1>1, <1>14, <1>20
  <2>2. /\ k \in 1..Len(s) /\ s[k + 1].item = u /\ a # 0 /\ TopOf(s, m, k) = u /\ a = s[k].item + 1
        /\ u \in 1..n /\ a <= u /\ a \in 1..n
    BY <2>1, FrameFacts DEF d, n
  <2>3. OneFrame(h, s, m, k) BY <2>2 DEF Frames
  <2>4. t[k + 1].item = u BY <1>16, <2>1, <2>2
  <2>5. TopOf(t, e, k) = u BY <2>1, <2>4 DEF TopOf
  <2>6. u <= p /\ u # c
    <3>1. u <= p BY <1>16, <2>1, <2>2
    <3>2. c # 0 => p < c BY <1>2, <1>3
    <3> QED BY <1>1, <1>2, <2>2, <3>1, <3>2
  <2>7. ReachOf(h, a) = a..u /\ h[u].next = 0 BY <2>2, <2>3 DEF OneFrame
  <2>8. a \in 0..n /\ a \in Nat /\ u \in Nat BY <1>1, <2>2
  <2>9. ReachOf(g, a) = a..u
    <3>1. c # 0 => ~ (c \in a..u)
      <4>1. c # 0 => p < c BY <1>2, <1>3
      <4> QED BY <1>1, <1>2, <2>6, <2>8, <4>1
    <3> QED BY <1>12, <2>7, <2>8, <3>1 DEF Grown
  <2>10. g[u].next = 0 BY <1>5, <2>2, <2>6, <2>7
  <2>11. ASSUME NEW j \in 1..e PROVE g[j].next # a
    <3>1. CASE j = e BY <1>6, <2>2, <3>1
    <3>2. CASE j \in 1..n /\ j = c BY <1>1, <1>5, <1>e, <2>2, <3>2
    <3>3. CASE j \in 1..n /\ j # c
      <4>1. h[j].next # a BY <2>2, <2>3, <3>3 DEF OneFrame, n
      <4> QED BY <1>5, <3>3, <4>1
    <3> QED BY <1>9, <3>1, <3>2, <3>3
  <2>12. t[k].item \in 1..e BY <1>1, <1>16, <1>e
  <2>13. g[t[k].item].child = 0 /\ g[t[k].item].next = 0 BY <1>18
  <2>14. u \in a..u BY <2>2, <2>8
  <2>15. t[k].head = a /\ t[k].cur = u /\ t[k].item = s[k].item BY <2>1
  <2> HIDE DEF a, u
  <2> QED BY <1>1, <2>1, <2>2, <2>4, <2>5, <2>9, <2>10, <2>11, <2>12, <2>13, <2>14, <2>15 DEF OneFrame
<1>21. Frames(g, t, e)
  <2>1. \A k \in 1..Len(t) : OneFrame(g, t, e, k) BY <1>14, <1>19, <1>20
  <2>2. e \in 0..Len(g) BY <1>1
  <2> QED BY <1>14, <1>15, <1>17, <2>1, <2>2 DEF Frames
<1>22. Behind(g)
  <2> SUFFICES ASSUME NEW k \in 1..e, g[k].next # 0 PROVE g[g[k].next].prev = k BY <1>1 DEF Behind
  <2>1. k \in 1..n BY <1>6, <1>9
  <2>2. CASE k = c BY <1>5, <1>6, <2>1, <2>2
  <2>3. CASE k # c
    <3>1. g[k].next = h[k].next BY <1>5, <2>1, <2>3
    <3>2. h[k].next \in 1..n BY <1>1, <1>7, <2>1, <3>1
    <3>3. h[h[k].next].prev = k BY <2>1, <3>1 DEF Rings, Behind, n
    <3> QED BY <1>5, <3>1, <3>2, <3>3
  <2> QED BY <2>2, <2>3
<1>23. ASSUME NEW k \in 1..e PROVE RingAt(g, t, k)
  <2> SUFFICES ASSUME g[k].child # 0
               PROVE  /\ g[k + 1].prev \in ReachOf(g, k + 1) /\ g[g[k + 1].prev].next = 0
                      /\ \A f \in 1..Len(t) : t[f].cur # 0 => t[f].cur \notin ReachOf(g, k + 1)
    BY DEF RingAt
  <2>1. k \in 1..n /\ h[k].child # 0 BY <1>5, <1>6, <1>9
  <2>2. k + 1 \in 1..n /\ k + 1 \in 0..n BY <1>1, <1>7, <1>8, <2>1
  <2>3. /\ h[k + 1].prev \in ReachOf(h, k + 1) /\ h[h[k + 1].prev].next = 0
        /\ \A f \in 1..d : s[f].cur # 0 => s[f].cur \notin ReachOf(h, k + 1)
    BY <2>1 DEF Rings, RingAt, d, n
  <2>4. ReachOf(h, k + 1) \subseteq (k + 1)..n BY <2>2, ReachWithin DEF n
  <2>5. c # 0 => c \notin ReachOf(h, k + 1) BY <1>1, <2>3 DEF c
  <2>6. ReachOf(g, k + 1) = ReachOf(h, k + 1) BY <1>12, <2>2, <2>5 DEF Grown
  <2>7. h[k + 1].prev \in 1..n BY <1>1, <2>1, <2>3, <2>4
  <2>8. h[k + 1].prev # c BY <1>1, <2>3, <2>5, <2>7
  <2>9. g[k + 1].prev = h[k + 1].prev /\ g[h[k + 1].prev].next = 0 BY <1>5, <2>2, <2>3, <2>7, <2>8
  <2>10. ASSUME NEW f \in 1..Len(t), t[f].cur # 0 PROVE t[f].cur \notin ReachOf(h, k + 1)
    <3>1. CASE f = d
      <4>1. ~ (e \in (k + 1)..n) BY <1>1, <1>e, <2>1
      <4> QED BY <1>14, <2>4, <3>1, <4>1
    <3>2. CASE f # d BY <1>14, <2>3, <2>10, <3>2
    <3> QED BY <3>1, <3>2
  <2> QED BY <2>3, <2>6, <2>9, <2>10
<1>24. Rings(g, t) BY <1>1, <1>22, <1>23 DEF Rings
<1> QED BY <1>1, <1>10, <1>21, <1>24

\* g is h with the list from a to z closed and hung below p.
ClosedAt(h, g, p, a, z) ==
  /\ g \in Seq(Item) /\ Len(g) = Len(h)
  /\ \A j \in 1..Len(h) : /\ g[j].child = IF j = p THEN a ELSE h[j].child
                          /\ g[j].next = h[j].next
                          /\ g[j].prev = IF j = a THEN z ELSE h[j].prev

\* The end of a container with elements: its list is closed and hung below it.
LEMMA CloseKeeps ==
  ASSUME NEW h, NEW s, NEW m, Numbered(h), Frames(h, s, m), Rings(h, s), m = Len(h), Len(s) # 0,
         s[Len(s)].head # 0,
         NEW g, ClosedAt(h, g, s[Len(s)].item, s[Len(s)].head, s[Len(s)].cur),
         NEW t, t \in Seq(Frame), Len(t) = Len(s) - 1, \A k \in 1..Len(t) : t[k] = s[k]
  PROVE  /\ Numbered(g) /\ Frames(g, t, Len(g)) /\ Rings(g, t)
         /\ Len(t) # 0 => t[Len(t)].head # 0
<1> DEFINE d == Len(s)
           p == s[d].item
           a == s[d].head
           c == s[d].cur
           n == Len(h)
<1>1. d \in Nat /\ n \in Nat /\ d \in 1..d /\ d \in 1..Len(s) /\ Len(g) = n /\ s \in Seq(Frame)
  BY DEF Frames, Numbered, ClosedAt
<1>2. /\ p \in 1..n /\ a = p + 1 /\ a # 0 /\ c \in 1..n /\ a \in 1..n /\ a <= c
      /\ h[p].child = 0 /\ h[p].next = 0
  BY <1>1, FrameFacts
<1>3. h[c].next = 0 /\ ReachOf(h, a) = a..n /\ \A j \in 1..n : h[j].next # a
  <2>1. OneFrame(h, s, m, d) BY <1>1 DEF Frames
  <2> QED BY <2>1 DEF OneFrame, TopOf
<1>4. \A j \in 1..n : /\ g[j].child = IF j = p THEN a ELSE h[j].child
                      /\ g[j].next = h[j].next
                      /\ g[j].prev = IF j = a THEN c ELSE h[j].prev
  BY DEF ClosedAt
<1>5. g \in Seq(Item) BY DEF ClosedAt
<1>6. \A j \in 1..n : /\ h[j].child \in 0..n /\ h[j].next \in 0..n
                      /\ h[j].child = 0 \/ h[j].child \in (j + 1)..n
                      /\ h[j].next = 0 \/ h[j].next \in (j + 1)..n
  BY NumberedFacts
<1>7. \A j \in 1..n : h[j].child # 0 => h[j].child = j + 1 /\ j + 1 \in 1..n
  <2>1. \A j \in 1..n : h[j].child # 0 => h[j].child = j + 1 /\ j + 1 <= n BY DEF Numbered
  <2> QED BY <1>1, <2>1
<1>8. \A j \in 1..n : h[j].next # 0 => j < h[j].next /\ h[j].next <= n BY DEF Numbered
<1>9. /\ t \in Seq(Frame) /\ Len(t) = d - 1 /\ Len(t) \in Nat
      /\ \A k \in 1..Len(t) : t[k] = s[k] /\ k \in 1..d /\ k < d
  BY <1>1
<1> HIDE DEF n, d, p, a, c
<1>10. Numbered(g)
  <2> SUFFICES ASSUME NEW j \in 1..n
               PROVE  /\ g[j].child # 0 => g[j].child = j + 1 /\ j + 1 <= n
                      /\ g[j].next # 0 => j < g[j].next /\ g[j].next <= n
    BY <1>1, <1>5 DEF Numbered
  <2>1. g[j].next # 0 => j < g[j].next /\ g[j].next <= n BY <1>4, <1>8
  <2>2. CASE j = p
    <3>1. g[j].child = j + 1 /\ j + 1 <= n BY <1>1, <1>2, <1>4, <2>2
    <3> QED BY <2>1, <3>1
  <2>3. CASE j # p
    <3>1. g[j].child # 0 => g[j].child = j + 1 /\ j + 1 <= n BY <1>1, <1>4, <1>7, <2>3
    <3> QED BY <2>1, <3>1
  <2> QED BY <2>2, <2>3
<1>11. Linked(h, g, p, a)
  <2>1. \A j \in 1..n : j # p => g[j].child = h[j].child /\ g[j].next = h[j].next BY <1>4
  <2>2. p \in 1..n /\ g[p].next = h[p].next /\ h[p].child = 0 /\ g[p].child = a BY <1>2, <1>4
  <2> QED BY <1>1, <1>10, <2>1, <2>2 DEF Linked, n
<1>12. \A i \in 0..n : ReachOf(g, i) = Grown(h, g, p, a, i) BY <1>11, ReachGrows DEF n
<1>13. ReachOf(g, a) = a..n
  <2>1. a \in 0..n /\ ~ (p \in a..n) BY <1>1, <1>2
  <2> QED BY <1>3, <1>12, <2>1 DEF Grown
<1>14. ASSUME NEW k \in 1..Len(t)
       PROVE  /\ k \in 1..Len(s) /\ t[k] = s[k] /\ s[k].head # 0 /\ s[k].head = s[k].item + 1
              /\ s[k].head \in 1..n /\ s[k].cur \in 1..n /\ s[k].head <= s[k].cur
              /\ s[k + 1].item = s[k].cur /\ TopOf(s, m, k) = s[k].cur /\ s[k].item \in 1..n
              /\ s[k].cur <= p
  <2>1. k \in 1..d /\ k < d /\ k + 1 \in 1..d /\ k + 1 <= d BY <1>1, <1>9
  <2>2. /\ k \in 1..Len(s) /\ s[k].head # 0 /\ s[k].head = s[k].item + 1
        /\ s[k].head \in 1..n /\ s[k].cur \in 1..n /\ s[k].head <= s[k].cur
        /\ s[k + 1].item = s[k].cur /\ TopOf(s, m, k) = s[k].cur /\ s[k].item \in 1..n
    BY <2>1, FrameFacts DEF d, n
  <2>3. s[k + 1].item <= p BY <1>1, <2>1, FrameFacts DEF d, p
  <2> QED BY <1>9, <2>2, <2>3
<1>15. ASSUME NEW k \in 1..Len(t) PROVE OneFrame(g, t, n, k)
  <2> DEFINE b == s[k].head
             u == s[k].cur
             q == s[k].item
  <2>1. /\ k \in 1..Len(s) /\ t[k] = s[k] /\ b # 0 /\ b = q + 1 /\ b \in 1..n /\ u \in 1..n /\ b <= u
        /\ s[k + 1].item = u /\ TopOf(s, m, k) = u /\ q \in 1..n /\ u <= p
    BY <1>14
  <2>2. OneFrame(h, s, m, k) BY <2>1 DEF Frames
  <2>3. h[q].child = 0 /\ h[q].next = 0 /\ h[u].next = 0 /\ ReachOf(h, b) = b..u /\ \A j \in 1..n : h[j].next # b
    BY <2>1, <2>2 DEF OneFrame, n
  <2>4. t[k].head = b /\ t[k].cur = u /\ t[k].item = q BY <2>1
  <2> HIDE DEF b, u, q
  <2>5. q # p BY <1>2, <2>1
  <2>6. g[q].child = 0 /\ g[q].next = 0 /\ g[u].next = 0 BY <1>4, <2>1, <2>3, <2>5
  <2>7. \A j \in 1..n : g[j].next # b BY <1>4, <2>3
  <2>8. CASE k = Len(t)
    <3>1. TopOf(t, n, k) = n /\ ~ (k < Len(t)) BY <1>9, <2>8 DEF TopOf
    <3>2. u = p
      <4>1. k + 1 = d BY <1>1, <1>9, <2>8
      <4> QED BY <2>1, <4>1 DEF p
    <3>3. ReachOf(g, b) = b..n
      <4>1. b \in 0..n /\ p \in b..u /\ p # 0 BY <1>1, <1>2, <2>1, <3>2
      <4>2. ReachOf(g, b) = (b..u) \cup (a..n) BY <1>12, <1>13, <2>3, <4>1 DEF Grown
      <4>3. (b..u) \cup (a..n) = b..n BY <1>1, <1>2, <2>1, <3>2
      <4> QED BY <4>2, <4>3
    <3>4. u \in b..n BY <1>1, <2>1
    <3> QED BY <2>1, <2>4, <2>6, <2>7, <3>1, <3>3, <3>4, <1>1 DEF OneFrame
  <2>9. CASE k # Len(t)
    <3>1. k < Len(t) /\ k + 1 \in 1..Len(t) BY <1>9, <2>9
    <3>2. t[k + 1] = s[k + 1] BY <1>9, <3>1
    <3>3. TopOf(t, n, k) = u /\ t[k + 1].item = u BY <2>1, <2>9, <3>2 DEF TopOf
    <3>4. u < p
      <4>1. k + 1 \in 1..Len(s) /\ k + 1 < d /\ d \in 1..Len(s) BY <1>1, <1>9, <3>1 DEF d
      <4>2. s[k + 1].item < p BY <4>1 DEF Frames, p
      <4> QED BY <2>1, <4>2
    <3>5. ReachOf(g, b) = b..u
      <4>1. b \in 0..n /\ ~ (p \in b..u) BY <1>1, <1>2, <2>1, <3>4
      <4> QED BY <1>12, <2>3, <4>1 DEF Grown
    <3>6. u \in b..u BY <1>1, <2>1
    <3> QED BY <2>1, <2>4, <2>6, <2>7, <2>9, <3>3, <3>5, <3>6, <1>1 DEF OneFrame
  <2> QED BY <2>8, <2>9
<1>16. Frames(g, t, n)
  <2>1. n \in 0..Len(g) BY <1>1
  <2>2. Len(t) # 0 => t[1].item = 1
    <3>1. Len(t) # 0 => 1 \in 1..Len(t) /\ Len(s) # 0 BY <1>1, <1>9
    <3> QED BY <1>9, <3>1 DEF Frames
  <2>3. \A j, k \in 1..Len(t) : j < k => t[j].item < t[k].item
    <3>1. \A j \in 1..Len(t) : j \in 1..Len(s) /\ t[j] = s[j] BY <1>14
    <3> QED BY <3>1 DEF Frames
  <2>4. Len(t) = 0 => ReachOf(g, 1) = 1..n
    <3> SUFFICES ASSUME Len(t) = 0 PROVE ReachOf(g, 1) = 1..n OBVIOUS
    <3>1. d = 1 BY <1>1, <1>9
    <3>2. p = 1 BY <3>1 DEF Frames, p, d
    <3>3. ReachOf(h, 1) = {1}
      <4>1. ReachOf(h, 1) = ({1} \cup ReachOf(h, h[1].child)) \cup ReachOf(h, h[1].next) /\ ReachOf(h, 0) = {}
        BY <1>2, <3>2, ReachIs DEF n
      <4> QED BY <1>2, <3>2, <4>1
    <3>4. 1 \in 0..n /\ {1} \cup (a..n) = 1..n BY <1>1, <1>2, <3>2
    <3>5. ReachOf(g, 1) = {1} \cup (a..n) BY <1>12, <1>13, <3>2, <3>3, <3>4 DEF Grown
    <3> QED BY <3>4, <3>5
  <2> QED BY <1>9, <1>15, <2>1, <2>2, <2>3, <2>4 DEF Frames
<1>17. Behind(g)
  <2> SUFFICES ASSUME NEW k \in 1..n, g[k].next # 0 PROVE g[g[k].next].prev = k BY <1>1 DEF Behind
  <2>1. g[k].next = h[k].next /\ h[k].next \in 1..n /\ h[k].next # a BY <1>1, <1>3, <1>4, <1>6
  <2>2. h[h[k].next].prev = k BY <2>1 DEF Rings, Behind, n
  <2> QED BY <1>4, <2>1, <2>2
<1>18. ASSUME NEW k \in 1..n PROVE RingAt(g, t, k)
  <2> SUFFICES ASSUME g[k].child # 0
               PROVE  /\ g[k + 1].prev \in ReachOf(g, k + 1) /\ g[g[k + 1].prev].next = 0
                      /\ \A f \in 1..Len(t) : t[f].cur # 0 => t[f].cur \notin ReachOf(g, k + 1)
    BY DEF RingAt
  <2>1. CASE k = p
    <3>1. k + 1 = a /\ g[a].prev = c BY <1>2, <1>4, <2>1
    <3>2. c \in a..n /\ g[c].next = 0 BY <1>1, <1>2, <1>3, <1>4
    <3>3. ASSUME NEW f \in 1..Len(t) PROVE t[f].cur \notin a..n
      <4>1. t[f].cur \in 1..n /\ t[f].cur <= p BY <1>14
      <4> QED BY <1>1, <1>2, <4>1
    <3> QED BY <1>13, <3>1, <3>2, <3>3
  <2>2. CASE k # p
    <3>1. h[k].child # 0 /\ k + 1 \in 1..n /\ k + 1 \in 0..n /\ k + 1 # a
      <4>1. h[k].child # 0 BY <1>4, <2>2
      <4>2. k + 1 \in 1..n BY <1>7, <4>1
      <4> QED BY <1>1, <1>2, <2>2, <4>1, <4>2
    <3>2. /\ h[k + 1].prev \in ReachOf(h, k + 1) /\ h[h[k + 1].prev].next = 0
          /\ \A f \in 1..d : s[f].cur # 0 => s[f].cur \notin ReachOf(h, k + 1)
      BY <3>1 DEF Rings, RingAt, d, n
    <3>3. ReachOf(h, k + 1) \subseteq (k + 1)..n BY <3>1, ReachWithin DEF n
    <3>4. p \notin ReachOf(h, k + 1)
      <4>1. CASE d = 1
        <5>1. p = 1 BY <4>1 DEF Frames, p, d
        <5>2. ~ (1 \in (k + 1)..n) BY <1>1
        <5> QED BY <3>3, <5>1, <5>2
      <4>2. CASE d # 1
        <5>1. d - 1 \in 1..d /\ d - 1 \in 1..Len(t) /\ (d - 1) + 1 = d BY <1>1, <1>9, <4>2
        <5>2. s[d - 1].cur = p /\ p # 0
          <6>1. s[(d - 1) + 1].item = s[d - 1].cur BY <1>14, <5>1
          <6> QED BY <1>2, <5>1, <6>1 DEF p
        <5> QED BY <3>2, <5>1, <5>2
      <4> QED BY <4>1, <4>2
    <3>5. ReachOf(g, k + 1) = ReachOf(h, k + 1) BY <1>12, <3>1, <3>4 DEF Grown
    <3>6. h[k + 1].prev \in 1..n BY <1>1, <3>2, <3>3
    <3>7. g[k + 1].prev = h[k + 1].prev /\ g[h[k + 1].prev].next = 0 BY <1>4, <3>1, <3>2, <3>6
    <3>8. \A f \in 1..Len(t) : t[f].cur # 0 => t[f].cur \notin ReachOf(h, k + 1) BY <1>9, <3>2
    <3> QED BY <3>2, <3>5, <3>7, <3>8
  <2> QED BY <2>1, <2>2
<1>19. Rings(g, t) BY <1>1, <1>17, <1>18 DEF Rings
<1>20. Len(t) # 0 => t[Len(t)].head # 0
  <2>1. Len(t) # 0 => Len(t) \in 1..Len(t) BY <1>9
  <2> QED BY <1>14, <2>1
<1> QED BY <1>1, <1>10, <1>16, <1>19, <1>20

\* The state of a parse: where it reads, what it has built, and what is next.
ReadAt(t, o, d, x, m, p) ==
  /\ Ended(t) /\ o \in 1..Len(t) /\ d \in 0..NestingLimit /\ x \in BOOLEAN /\ m \in BOOLEAN
  /\ p \in {"start", "value", "element", "after", "fail", "true", "false"}

\* The heap, the calls in progress and the items not yet deleted fit together;
\* while parsing runs no item has been deleted.
TreeAt(h, s, l, whole) ==
  /\ Numbered(h) /\ Rings(h, s)
  /\ \E m \in Nat : l = 1..m /\ Frames(h, s, m) /\ (whole => m = Len(h))

\* No error has been met.
Running(p) == p \notin {"fail", "false"}

\* Where the parser is, and what it holds there.
PlaceAt(h, s, l, p, g, o, d, t) ==
  /\ Running(p) => d = Len(s)
  /\ p = "start" => h = << >> /\ s = << >>
  /\ p = "value" => /\ Len(h) # 0 /\ g = Len(h) /\ h[g].child = 0 /\ h[g].next = 0
                    /\ Len(s) = 0 => g = 1
                    /\ Len(s) # 0 => s[Len(s)].cur = g /\ s[Len(s)].head # 0
  /\ p = "element" => Len(s) # 0 /\ o < Len(t)
  /\ p = "after" => Len(h) # 0 /\ (Len(s) # 0 => s[Len(s)].head # 0)
  /\ p = "true" => Len(h) # 0 /\ Len(s) = 0
  /\ p = "false" => l = {}

\* The invariant of parsing: it reads inside the text, its items are in the
\* lists of the calls in progress or below them, and it is where the calls
\* are.
ParseInv ==
  /\ ReadAt(content, offset, depth, strict, oom, pc)
  /\ TreeAt(heap, stack, live, Running(pc))
  /\ PlaceAt(heap, stack, live, pc, target, offset, depth, content)

\* What the invariant says of the text, the depth and the heap.
LEMMA ReadFacts ==
  ASSUME ParseInv
  PROVE  /\ Ended(content) /\ offset \in 1..Len(content) /\ Len(content) \in Nat /\ offset \in Nat
         /\ depth \in Nat /\ depth <= NestingLimit /\ NestingLimit \in Nat
         /\ strict \in BOOLEAN /\ oom \in BOOLEAN
         /\ Numbered(heap) /\ Rings(heap, stack) /\ stack \in Seq(Frame) /\ Len(stack) \in Nat /\ Len(heap) \in Nat
BY ParseAssumption DEF ParseInv, ReadAt, Ended, TreeAt, Frames, Numbered

\* While no error has been met all items allocated are reached from the root
\* and the calls in progress.
LEMMA WholeTree ==
  ASSUME ParseInv, Running(pc)
  PROVE  live = 1..Len(heap) /\ Frames(heap, stack, Len(heap)) /\ depth = Len(stack)
BY DEF ParseInv, TreeAt, PlaceAt

\* The three parts of TreeAt, put together.
LEMMA MakeTree ==
  ASSUME NEW h, NEW s, NEW m \in Nat, NEW w, Numbered(h), Rings(h, s), Frames(h, s, m), w => m = Len(h)
  PROVE  TreeAt(h, s, 1..m, w)
BY DEF TreeAt

\* No items and no calls in progress fit together.
LEMMA NoTree == Numbered(<< >>) /\ Rings(<< >>, << >>) /\ Frames(<< >>, << >>, 0)
<1>1. << >> \in Seq(Item) /\ << >> \in Seq(Frame) /\ Len(<< >>) = 0 OBVIOUS
<1>2. 1..0 = {} /\ 0 \in 0..0 OBVIOUS
<1>3. Numbered(<< >>) BY <1>1, <1>2 DEF Numbered
<1>4. Rings(<< >>, << >>) BY <1>1, <1>2 DEF Rings, Behind
<1>5. Frames(<< >>, << >>, 0) BY <1>1, <1>2 DEF Frames
<1> QED BY <1>3, <1>4, <1>5

\* Parsing begins with it.
LEMMA ParseInitially ==
  ASSUME Parser!Init
  PROVE  ParseInv
<1>1. PICK t \in ParseTexts : content = Append(t, "nul") BY DEF Parser!Init, Parser!Nul
<1>2. Ended(content)
  <2>1. t \in Seq(STRING) BY ParseAssumption
  <2>2. t \in Seq(STRING \cup {"nul"}) BY <2>1
  <2>3. Len(content) = Len(t) + 1 /\ content[Len(t) + 1] = "nul" /\ Len(t) \in Nat BY <1>1, <2>2, AppendProperties
  <2> QED BY <2>3 DEF Ended
<1>3. ReadAt(content, offset, depth, strict, oom, pc)
  <2>1. 1 \in 1..Len(content) /\ 0 \in 0..NestingLimit BY <1>2, ParseAssumption DEF Ended
  <2> QED BY <1>2, <2>1 DEF Parser!Init, ReadAt
<1>4. TreeAt(heap, stack, live, Running(pc))
  <2>1. heap = << >> /\ stack = << >> /\ live = {} BY DEF Parser!Init
  <2>2. 1..0 = {} /\ 0 \in Nat /\ 0 = Len(<< >>) OBVIOUS
  <2>3. TreeAt(<< >>, << >>, 1..0, Running(pc)) BY <2>2, NoTree, MakeTree
  <2> QED BY <2>1, <2>2, <2>3
<1>5. PlaceAt(heap, stack, live, pc, target, offset, depth, content)
  <2>1. Len(<< >>) = 0 OBVIOUS
  <2> QED BY <2>1 DEF Parser!Init, PlaceAt, Running
<1> QED BY <1>3, <1>4, <1>5 DEF ParseInv

\* A step that only gives up.
LEMMA ParseFails ==
  ASSUME ParseInv, pc' = "fail", UNCHANGED <<content, strict, depth, stack, heap, live>>,
         offset' \in 1..Len(content), oom' \in BOOLEAN
  PROVE  ParseInv'
<1>1. ReadAt(content', offset', depth', strict', oom', pc') BY DEF ParseInv, ReadAt
<1>2. ~ Running(pc') BY DEF Running
<1>3. TreeAt(heap', stack', live', Running(pc')) BY <1>2 DEF ParseInv, TreeAt
<1>4. PlaceAt(heap', stack', live', pc', target', offset', depth', content') BY <1>2 DEF PlaceAt
<1> QED BY <1>1, <1>3, <1>4 DEF ParseInv

\* An error, in the text or of memory, keeps it.
LEMMA ParseGivesUp ==
  ASSUME ParseInv, Parser!OutOfMemory \/ Parser!Rejected
  PROVE  ParseInv'
<1>1. /\ pc' = "fail" /\ UNCHANGED <<content, strict, depth, stack, heap, live>> /\ offset' = offset
      /\ oom' = TRUE \/ oom' = oom
  BY DEF Parser!OutOfMemory, Parser!Rejected, Parser!Failing, Parser!Fail, Parser!input
<1>2. oom' \in BOOLEAN /\ offset' \in 1..Len(content) BY <1>1, ReadFacts
<1> QED BY <1>1, <1>2, ParseFails

\* Allocating the root item keeps it.
LEMMA ParseStarts ==
  ASSUME ParseInv, Parser!Start
  PROVE  ParseInv'
<1>1. CASE Parser!OutOfMemory BY <1>1, ParseGivesUp
<1>2. CASE ~ Parser!OutOfMemory
  <2>1. /\ pc = "start" /\ heap' = <<Parser!New>> /\ live' = {1} /\ target' = 1
        /\ offset' = Parser!SkipBlanks(offset) /\ pc' = "value"
        /\ UNCHANGED <<content, strict, depth, stack, oom>>
    BY <1>2 DEF Parser!Start, Parser!input
  <2>2. stack = << >> /\ depth = 0 /\ Len(stack) = 0
    <3>1. Len(<< >>) = 0 OBVIOUS
    <3> QED BY <2>1, <3>1 DEF ParseInv, PlaceAt, Running
  <2>3. Parser!New \in Item /\ Parser!New.child = 0 /\ Parser!New.next = 0
    BY DEF Parser!New, Parser!NULL, Item, Types
  <2> DEFINE h == <<Parser!New>>
  <2>4. h \in Seq(Item) /\ Len(h) = 1 /\ h[1] = Parser!New BY <2>3
  <2> HIDE DEF h
  <2>5. 1..1 = {1} /\ 1 \in 1..1 /\ \A j \in 1..1 : j = 1 OBVIOUS
  <2>6. h[1].child = 0 /\ h[1].next = 0 BY <2>3, <2>4
  <2>7. Numbered(h)
    <3>1. \A j \in 1..Len(h) : h[j].child = 0 /\ h[j].next = 0 BY <2>4, <2>5, <2>6
    <3> QED BY <2>4, <3>1 DEF Numbered
  <2>8. Rings(h, stack)
    <3>1. \A j \in 1..Len(h) : h[j].child = 0 /\ h[j].next = 0 BY <2>4, <2>5, <2>6
    <3> QED BY <3>1 DEF Rings, Behind, RingAt
  <2>9. Frames(h, stack, 1)
    <3>1. ReachOf(h, 1) = ({1} \cup ReachOf(h, h[1].child)) \cup ReachOf(h, h[1].next) /\ ReachOf(h, 0) = {}
      BY <2>4, <2>5, <2>7, ReachIs
    <3>2. ReachOf(h, 1) = 1..1 BY <2>5, <2>6, <3>1
    <3>3. stack \in Seq(Frame) /\ 1 \in 0..Len(h) BY <2>2, <2>4, ReadFacts
    <3>4. 1..Len(stack) = {} BY <2>2
    <3> QED BY <2>2, <3>2, <3>3, <3>4 DEF Frames
  <2>10. TreeAt(heap', stack', live', Running(pc'))
    <3>1. TreeAt(h, stack, 1..1, Running(pc')) BY <2>4, <2>7, <2>8, <2>9, MakeTree
    <3> QED BY <2>1, <2>5, <3>1 DEF h
  <2>11. ReadAt(content', offset', depth', strict', oom', pc')
    <3>1. offset' \in 1..Len(content) BY <2>1, SkipIs, ReadFacts
    <3> QED BY <2>1, <3>1 DEF ParseInv, ReadAt
  <2>12. PlaceAt(heap', stack', live', pc', target', offset', depth', content')
    <3>1. heap' = h BY <2>1 DEF h
    <3> QED BY <2>1, <2>2, <2>4, <2>6, <3>1 DEF PlaceAt, Running
  <2> QED BY <2>10, <2>11, <2>12 DEF ParseInv
<1> QED BY <1>1, <1>2

\* A value that is no container, or an empty one, changes no link.
LEMMA ParseFillsIn ==
  ASSUME ParseInv, pc = "value", Alike(heap, heap'), pc' = "after",
         UNCHANGED <<content, strict, depth, stack, live, oom>>, offset' \in 1..Len(content)
  PROVE  ParseInv'
<1>1. live = 1..Len(heap) /\ Frames(heap, stack, Len(heap)) /\ depth = Len(stack) BY WholeTree DEF Running
<1>2. Numbered(heap) /\ Rings(heap, stack) /\ Len(heap) \in Nat BY ReadFacts
<1>3. Numbered(heap') /\ Frames(heap', stack, Len(heap)) /\ Rings(heap', stack) BY <1>1, <1>2, AlikeKeeps
<1>4. Len(heap') = Len(heap) BY DEF Alike
<1>5. TreeAt(heap', stack, 1..Len(heap), Running(pc')) BY <1>2, <1>3, <1>4, MakeTree
<1>6. ReadAt(content', offset', depth', strict', oom', pc') BY DEF ParseInv, ReadAt
<1>7. PlaceAt(heap', stack', live', pc', target', offset', depth', content')
  BY <1>1, <1>4 DEF ParseInv, PlaceAt, Running
<1> QED BY <1>1, <1>5, <1>6, <1>7 DEF ParseInv

\* One item of a heap replaced.
LEMMA Replaced ==
  ASSUME NEW h \in Seq(Item), NEW i \in 1..Len(h), NEW x \in Item, NEW g, g = [h EXCEPT ![i] = x]
  PROVE  /\ g \in Seq(Item) /\ Len(g) = Len(h) /\ g[i] = x
         /\ \A j \in 1..Len(h) : j # i => g[j] = h[j]
BY ExceptSeq

\* Giving an item a type or a value changes no link.
LEMMA ReplacedAlike ==
  ASSUME NEW h \in Seq(Item), NEW i \in 1..Len(h), NEW x \in Item, NEW g, g = [h EXCEPT ![i] = x],
         x.child = h[i].child, x.next = h[i].next, x.prev = h[i].prev
  PROVE  Alike(h, g)
<1>1. /\ g \in Seq(Item) /\ Len(g) = Len(h) /\ g[i] = x
      /\ \A j \in 1..Len(h) : j # i => g[j] = h[j]
  BY Replaced
<1> QED BY <1>1 DEF Alike

\* A value is parsed into the last item allocated, which nothing hangs below
\* or follows.
LEMMA TargetIs ==
  ASSUME ParseInv, pc = "value"
  PROVE  /\ heap \in Seq(Item) /\ target \in 1..Len(heap) /\ target = Len(heap) /\ heap[target] \in Item
         /\ heap[target].child = 0 /\ heap[target].next = 0
         /\ Len(stack) = 0 => target = 1
         /\ Len(stack) # 0 => stack[Len(stack)].cur = target /\ stack[Len(stack)].head # 0
<1>1. heap \in Seq(Item) /\ Len(heap) \in Nat BY ReadFacts DEF Numbered
<1>2. /\ Len(heap) # 0 /\ target = Len(heap) /\ heap[target].child = 0 /\ heap[target].next = 0
      /\ Len(stack) = 0 => target = 1
      /\ Len(stack) # 0 => stack[Len(stack)].cur = target /\ stack[Len(stack)].head # 0
  BY DEF ParseInv, PlaceAt
<1>3. target \in 1..Len(heap) BY <1>1, <1>2
<1>4. heap[target] \in Item BY <1>1, <1>3
<1> QED BY <1>1, <1>2, <1>3, <1>4

\* Parsing a literal or a number keeps it.
LEMMA ParseScalars ==
  ASSUME ParseInv, Parser!ParseScalar
  PROVE  ParseInv'
<1>1. /\ pc = "value" /\ Parser!Has(offset, "n") /\ heap' = [heap EXCEPT ![target].type = "scalar"]
      /\ offset' = offset + 1 /\ pc' = "after" /\ UNCHANGED <<content, strict, depth, stack, live, oom>>
  BY DEF Parser!ParseScalar, Parser!Parsed, Parser!input
<1>2. heap \in Seq(Item) /\ target \in 1..Len(heap) /\ heap[target] \in Item BY <1>1, TargetIs
<1> DEFINE x == [heap[target] EXCEPT !.type = "scalar"]
<1>3. /\ x \in Item /\ x.child = heap[target].child /\ x.next = heap[target].next /\ x.prev = heap[target].prev
  BY <1>2 DEF Item, Types
<1>4. heap' = [heap EXCEPT ![target] = x] BY <1>1
<1> HIDE DEF x
<1>5. Alike(heap, heap') BY <1>2, <1>3, <1>4, ReplacedAlike
<1>6. offset' \in 1..Len(content) BY <1>1, HasBefore, ReadFacts
<1> QED BY <1>1, <1>5, <1>6, ParseFillsIn

\* Parsing a string keeps it.
LEMMA ParseStrings ==
  ASSUME ParseInv, Parser!ParseString
  PROVE  ParseInv'
<1>0. CASE Parser!OutOfMemory BY <1>0, ParseGivesUp
<1>1. CASE ~ Parser!OutOfMemory
  <2>1. /\ pc = "value" /\ Parser!Has(offset, "s")
        /\ heap' = [heap EXCEPT ![target].type = "string", ![target].valuestring = TRUE]
        /\ offset' = offset + 1 /\ pc' = "after" /\ UNCHANGED <<content, strict, depth, stack, live, oom>>
    BY <1>1 DEF Parser!ParseString, Parser!input
  <2>2. heap \in Seq(Item) /\ target \in 1..Len(heap) /\ heap[target] \in Item BY <2>1, TargetIs
  <2> DEFINE x == [[heap[target] EXCEPT !.type = "string"] EXCEPT !.valuestring = TRUE]
  <2>3. /\ x \in Item /\ x.child = heap[target].child /\ x.next = heap[target].next /\ x.prev = heap[target].prev
    BY <2>2 DEF Item, Types
  <2>4. heap' = [heap EXCEPT ![target] = x] BY <2>1, <2>2
  <2> HIDE DEF x
  <2>5. Alike(heap, heap') BY <2>2, <2>3, <2>4, ReplacedAlike
  <2>6. offset' \in 1..Len(content) BY <2>1, HasBefore, ReadFacts
  <2> QED BY <2>1, <2>5, <2>6, ParseFillsIn
<1> QED BY <1>0, <1>1

\* Finding no value keeps it.
LEMMA ParseFindsNothing ==
  ASSUME ParseInv, Parser!ParseNothing
  PROVE  ParseInv'
BY ParseGivesUp DEF Parser!ParseNothing

\* The kinds of containers.
Kinds == {"array", "object"}

\* The brackets of a container are not the end of the text.
LEMMA Marks ==
  ASSUME NEW kind \in Kinds
  PROVE  /\ Parser!Openers[kind] # "nul" /\ Parser!Closers[kind] # "nul"
<1>1. Parser!Openers.array # "nul" /\ Parser!Closers.array # "nul" /\ Parser!Openers.object # "nul" /\ Parser!Closers.object # "nul"
  BY DEF Parser!Openers, Parser!Closers
<1>2. CASE kind = "array" BY <1>1, <1>2
<1>3. CASE kind = "object" BY <1>1, <1>3
<1> QED BY <1>2, <1>3 DEF Kinds

\* Entering parse_array() or parse_object() keeps it, empty containers and the
\* nesting limit included.
LEMMA ParseOpens ==
  ASSUME ParseInv, NEW kind \in Kinds, Parser!Open(kind)
  PROVE  ParseInv'
<1> DEFINE o == Parser!SkipBlanks(offset + 1)
<1>1. pc = "value" /\ Parser!Has(offset, Parser!Openers[kind]) BY DEF Parser!Open
<1>2. offset + 1 \in 1..Len(content) BY <1>1, Marks, HasBefore, ReadFacts
<1>3. o \in (offset + 1)..Len(content) /\ o \in 1..Len(content) BY <1>2, SkipIs, ReadFacts
<1>4. CASE Parser!TooDeep
  <2>1. Parser!Rejected BY <1>4 DEF Parser!Open
  <2> QED BY <2>1, ParseGivesUp
<1>5. CASE ~ Parser!TooDeep /\ Parser!Has(o, Parser!Closers[kind])
  <2>1. Parser!Close(kind, target, 0, 0, o, depth + 1, stack) BY <1>5 DEF Parser!Open, Parser!NULL
  <2>2. /\ heap' = [heap EXCEPT ![target].type = kind, ![target].child = 0]
        /\ depth' = (depth + 1) - 1 /\ offset' = o + 1 /\ pc' = "after"
        /\ UNCHANGED <<content, strict, stack, live, oom>>
    BY <2>1 DEF Parser!Close, Parser!Ringed, Parser!NULL, Parser!input
  <2>3. depth' = depth BY <2>2, ReadFacts
  <2>4. heap \in Seq(Item) /\ target \in 1..Len(heap) /\ heap[target] \in Item /\ heap[target].child = 0
    BY <1>1, TargetIs
  <2> DEFINE x == [[heap[target] EXCEPT !.type = kind] EXCEPT !.child = 0]
  <2>5. /\ x \in Item /\ x.child = 0 /\ x.next = heap[target].next /\ x.prev = heap[target].prev
    BY <2>4 DEF Item, Types, Kinds
  <2>6. heap' = [heap EXCEPT ![target] = x] BY <2>2, <2>4
  <2> HIDE DEF x
  <2>7. Alike(heap, heap') BY <2>4, <2>5, <2>6, ReplacedAlike
  <2>8. offset' \in 1..Len(content) BY <1>3, <1>5, <2>2, Marks, HasBefore, ReadFacts
  <2> QED BY <1>1, <2>2, <2>3, <2>7, <2>8, ParseFillsIn
<1>6. CASE ~ Parser!TooDeep /\ ~ Parser!Has(o, Parser!Closers[kind])
  <2> DEFINE f == [kind |-> kind, item |-> target, head |-> 0, cur |-> 0]
  <2>1. /\ depth' = depth + 1 /\ offset' = o - 1 /\ stack' = Append(stack, f)
        /\ pc' = IF Parser!CanAccess(o) THEN "element" ELSE "fail"
        /\ UNCHANGED <<content, strict, heap, live, target, oom>>
    BY <1>6 DEF Parser!Open, Parser!NULL, Parser!input
  <2>2. Parser!CanAccess(o) BY <1>3, ReadFacts DEF Parser!CanAccess
  <2>3. pc' = "element" BY <2>1, <2>2
  <2>4. live = 1..Len(heap) /\ Frames(heap, stack, Len(heap)) /\ depth = Len(stack) BY <1>1, WholeTree DEF Running
  <2>5. /\ target \in 1..Len(heap) /\ target = Len(heap) /\ heap[target].child = 0 /\ heap[target].next = 0
        /\ Len(stack) = 0 => target = 1
        /\ Len(stack) # 0 => stack[Len(stack)].cur = target /\ stack[Len(stack)].head # 0
    BY <1>1, TargetIs
  <2>6. Len(heap) \in Nat /\ Len(heap) # 0 /\ target \in Nat /\ Numbered(heap) /\ Rings(heap, stack)
        /\ stack \in Seq(Frame)
    BY <2>5, ReadFacts
  <2>7. f \in Frame /\ f.item = target /\ f.head = 0 /\ f.cur = 0 BY <2>6 DEF Frame, Kinds
  <2> HIDE DEF f, o
  <2>8. Frames(heap, Append(stack, f), Len(heap)) /\ Rings(heap, Append(stack, f))
    BY <2>4, <2>5, <2>6, <2>7, PushKeeps
  <2>9. TreeAt(heap, Append(stack, f), 1..Len(heap), Running(pc')) BY <2>6, <2>8, MakeTree
  <2>10. Len(Append(stack, f)) = Len(stack) + 1 /\ Len(stack) \in Nat BY <2>6, <2>7, AppendProperties
  <2>11. /\ offset' \in 1..Len(content) /\ offset' < Len(content) BY <1>3, <2>1, ReadFacts
  <2>12. depth + 1 \in 0..NestingLimit BY <1>6, ReadFacts DEF Parser!TooDeep
  <2>13. ReadAt(content', offset', depth', strict', oom', pc') BY <2>1, <2>3, <2>11, <2>12 DEF ParseInv, ReadAt
  <2>14. PlaceAt(heap', stack', live', pc', target', offset', depth', content')
    <3>1. depth' = Len(stack') /\ Len(stack') # 0 BY <2>1, <2>4, <2>10
    <3>2. content' = content BY <2>1
    <3> QED BY <2>3, <2>11, <3>1, <3>2 DEF PlaceAt
  <2>15. TreeAt(heap', stack', live', Running(pc')) BY <2>1, <2>4, <2>9
  <2> QED BY <2>13, <2>14, <2>15 DEF ParseInv
<1> QED BY <1>4, <1>5, <1>6

\* The calls in progress when the innermost returns.
LEMMA FrontIs ==
  ASSUME NEW s, s \in Seq(Frame), Len(s) # 0
  PROVE  /\ Parser!Front(s) \in Seq(Frame) /\ Len(Parser!Front(s)) = Len(s) - 1
         /\ \A k \in 1..(Len(s) - 1) : Parser!Front(s)[k] = s[k]
<1>1. Len(s) \in Nat /\ Len(s) >= 1 /\ \A k \in 1..Len(s) : s[k] \in Frame OBVIOUS
<1>2. Parser!Front(s) = SubSeq(s, 1, Len(s) - 1) BY DEF Parser!Front
<1> DEFINE n == Len(s) - 1
<1>3. n \in Nat /\ \A k \in 1..n : s[k] \in Frame BY <1>1
<1> HIDE DEF n
<1>4. /\ SubSeq(s, 1, n) \in Seq(Frame) /\ Len(SubSeq(s, 1, n)) = IF 1 <= n THEN n - 1 + 1 ELSE 0
      /\ \A k \in 1..(n - 1 + 1) : SubSeq(s, 1, n)[k] = s[1 + k - 1]
  BY <1>3, SubSeqProperties
<1>5. Len(SubSeq(s, 1, n)) = n BY <1>3, <1>4
<1>6. \A k \in 1..n : SubSeq(s, 1, n)[k] = s[k] BY <1>3, <1>4
<1> QED BY <1>2, <1>4, <1>5, <1>6 DEF n

\* The end of a container that has elements.
LEMMA ParseCloses ==
  ASSUME ParseInv, pc = "after", Len(stack) # 0, NEW o \in 1..Len(content), o < Len(content),
         Parser!Close(stack[Len(stack)].kind, stack[Len(stack)].item, stack[Len(stack)].head,
                      stack[Len(stack)].cur, o, depth, Parser!Front(stack))
  PROVE  ParseInv'
<1> DEFINE d == Len(stack)
           f == stack[d]
           i == f.item
           a == f.head
           c == f.cur
           x == [heap[a] EXCEPT !.prev = c]
           h == [heap EXCEPT ![a] = x]
           y == [[h[i] EXCEPT !.type = f.kind] EXCEPT !.child = a]
<1>1. live = 1..Len(heap) /\ Frames(heap, stack, Len(heap)) /\ depth = d BY WholeTree DEF Running
<1>2. /\ Numbered(heap) /\ Rings(heap, stack) /\ stack \in Seq(Frame) /\ d \in Nat /\ Len(heap) \in Nat
      /\ heap \in Seq(Item)
  BY ReadFacts DEF Numbered
<1>3. Len(heap) # 0 /\ a # 0 BY DEF ParseInv, PlaceAt
<1>4. d \in 1..Len(stack) BY <1>2
<1>5. /\ f \in Frame /\ i \in 1..Len(heap) /\ a \in 1..Len(heap) /\ c \in Nat /\ a \in Nat /\ a = i + 1 /\ i \in Nat
  BY <1>1, <1>2, <1>3, <1>4, FrameFacts
<1>6. f.kind \in Types BY <1>5 DEF Frame, Types
<1>7. /\ heap' = [[heap EXCEPT ![a].prev = c] EXCEPT ![i].type = f.kind, ![i].child = a]
      /\ depth' = depth - 1 /\ offset' = o + 1 /\ stack' = Parser!Front(stack) /\ target' = i
      /\ pc' = "after" /\ UNCHANGED <<content, strict, live, oom>>
  BY <1>3 DEF Parser!Close, Parser!Ringed, Parser!NULL, Parser!input
<1>8. /\ x \in Item /\ x.child = heap[a].child /\ x.next = heap[a].next /\ x.prev = c
  <2>1. heap[a] \in Item BY <1>2, <1>5
  <2> QED BY <1>5, <2>1 DEF Item
<1>9. /\ h \in Seq(Item) /\ Len(h) = Len(heap) /\ h[a] = x /\ \A j \in 1..Len(heap) : j # a => h[j] = heap[j]
  BY <1>2, <1>5, <1>8, Replaced
<1> HIDE DEF d, f
<1>10. i # a /\ h[i] = heap[i] /\ heap[i] \in Item BY <1>2, <1>5, <1>9
<1>11. heap' = [h EXCEPT ![i].type = f.kind, ![i].child = a] BY <1>7
<1> HIDE DEF x, h, i, a, c
<1>12. /\ y \in Item /\ y.child = a /\ y.next = heap[i].next /\ y.prev = heap[i].prev
  BY <1>5, <1>6, <1>10 DEF Item
<1>13. heap' = [h EXCEPT ![i] = y] BY <1>5, <1>9, <1>11
<1> HIDE DEF y
<1>14. i \in 1..Len(h) BY <1>5, <1>9
<1>15. /\ heap' \in Seq(Item) /\ Len(heap') = Len(h) /\ heap'[i] = y /\ \A j \in 1..Len(h) : j # i => heap'[j] = h[j]
  BY <1>9, <1>12, <1>13, <1>14, Replaced
<1>16. ClosedAt(heap, heap', i, a, c)
  <2>1. heap' \in Seq(Item) /\ Len(heap') = Len(heap) BY <1>9, <1>15
  <2>2. ASSUME NEW j \in 1..Len(heap)
        PROVE  /\ heap'[j].child = IF j = i THEN a ELSE heap[j].child
               /\ heap'[j].next = heap[j].next
               /\ heap'[j].prev = IF j = a THEN c ELSE heap[j].prev
    <3>1. CASE j = i BY <1>10, <1>12, <1>15, <3>1
    <3>2. CASE j = a
      <4>1. heap'[j] = x BY <1>9, <1>10, <1>15, <3>2
      <4> QED BY <1>8, <1>10, <3>2, <4>1
    <3>3. CASE j # i /\ j # a
      <4>1. heap'[j] = heap[j] BY <1>9, <1>15, <3>3
      <4> QED BY <3>3, <4>1
    <3> QED BY <3>1, <3>2, <3>3
  <2> QED BY <2>1, <2>2 DEF ClosedAt
<1>17. /\ stack' \in Seq(Frame) /\ Len(stack') = d - 1 /\ \A k \in 1..Len(stack') : stack'[k] = stack[k]
  BY <1>2, <1>7, FrontIs DEF d
<1>18. /\ Numbered(heap') /\ Frames(heap', stack', Len(heap')) /\ Rings(heap', stack')
       /\ Len(stack') # 0 => stack'[Len(stack')].head # 0
  BY <1>1, <1>2, <1>3, <1>16, <1>17, CloseKeeps DEF d, f, i, a, c
<1>19. Len(heap') = Len(heap) BY <1>9, <1>15
<1>20. TreeAt(heap', stack', 1..Len(heap'), Running(pc')) BY <1>2, <1>18, <1>19, MakeTree
<1>21. TreeAt(heap', stack', live', Running(pc')) BY <1>1, <1>7, <1>19, <1>20
<1>22. ReadAt(content', offset', depth', strict', oom', pc')
  <2>1. d # 0 BY DEF d
  <2>2. depth - 1 \in 0..NestingLimit BY <1>1, <1>2, <2>1, ReadFacts
  <2>3. o + 1 \in 1..Len(content) BY ReadFacts
  <2> QED BY <1>7, <2>2, <2>3 DEF ParseInv, ReadAt
<1>23. PlaceAt(heap', stack', live', pc', target', offset', depth', content')
  <2>1. depth' = Len(stack') BY <1>1, <1>7, <1>17
  <2>2. Len(heap') # 0 BY <1>3, <1>19
  <2> QED BY <1>7, <1>18, <2>1, <2>2 DEF PlaceAt
<1> QED BY <1>21, <1>22, <1>23 DEF ParseInv

\* A comma keeps it, and so does a closing bracket, which hangs the list below
\* its container and closes it.
LEMMA ParseAfterElement ==
  ASSUME ParseInv, Parser!AfterElement
  PROVE  ParseInv'
<1> DEFINE o == Parser!SkipBlanks(offset)
<1>1. pc = "after" /\ stack # << >> BY DEF Parser!AfterElement
<1>2. stack \in Seq(Frame) /\ Len(stack) \in Nat BY ReadFacts
<1>3. Len(stack) # 0 /\ Len(stack) \in 1..Len(stack) BY <1>1, <1>2, EmptySeq
<1>4. o \in 1..Len(content) BY SkipIs, ReadFacts
<1>5. stack[Len(stack)] \in Frame BY <1>2, <1>3
<1>6. stack[Len(stack)].kind \in Kinds BY <1>5 DEF Frame, Kinds
<1>7. Parser!Top = stack[Len(stack)] BY DEF Parser!Top, Parser!Last
<1>8. CASE Parser!Has(o, ",") /\ offset' = o /\ pc' = "element"
             /\ UNCHANGED <<content, strict, depth, stack, heap, live, target, oom>>
  <2>1. o < Len(content) BY <1>4, <1>8, HasBefore, ReadFacts
  <2>2. Running(pc) /\ Running(pc') BY <1>1, <1>8 DEF Running
  <2>3. ReadAt(content', offset', depth', strict', oom', pc') BY <1>4, <1>8 DEF ParseInv, ReadAt
  <2>4. TreeAt(heap', stack', live', Running(pc')) BY <1>8, <2>2 DEF ParseInv, TreeAt
  <2>5. PlaceAt(heap', stack', live', pc', target', offset', depth', content')
    BY <1>3, <1>8, <2>1, <2>2 DEF ParseInv, PlaceAt
  <2> QED BY <2>3, <2>4, <2>5 DEF ParseInv
<1>9. CASE /\ Parser!Has(o, Parser!Closers[Parser!Top.kind])
           /\ Parser!Close(Parser!Top.kind, Parser!Top.item, Parser!Top.head, Parser!Top.cur, o, depth,
                           Parser!Front(stack))
  <2>1. o < Len(content) BY <1>4, <1>6, <1>7, <1>9, Marks, HasBefore, ReadFacts
  <2>2. Parser!Close(stack[Len(stack)].kind, stack[Len(stack)].item, stack[Len(stack)].head,
                     stack[Len(stack)].cur, o, depth, Parser!Front(stack))
    BY <1>7, <1>9
  <2> HIDE DEF o
  <2> QED BY <1>1, <1>3, <1>4, <2>1, <2>2, ParseCloses
<1>10. CASE offset' = o /\ pc' = "fail" /\ UNCHANGED <<content, strict, depth, stack, heap, live, target, oom>>
  BY <1>4, <1>10, ParseFails, ReadFacts
<1> QED BY <1>8, <1>9, <1>10 DEF Parser!AfterElement, Parser!Fail, Parser!input

\* The end of the root value keeps it.
LEMMA ParseAfterRoot ==
  ASSUME ParseInv, Parser!AfterRoot
  PROVE  ParseInv'
<1>1. /\ pc = "after" /\ stack = << >> /\ offset' = IF strict THEN Parser!SkipBlanks(offset) ELSE offset
      /\ pc' = "fail" \/ pc' = "true"
  BY DEF Parser!AfterRoot, Parser!input
<1>2. UNCHANGED <<content, strict, depth, stack, heap, live, target, oom>> BY DEF Parser!AfterRoot, Parser!input
<1>3. offset' \in 1..Len(content) /\ oom' \in BOOLEAN BY <1>1, <1>2, SkipIs, ReadFacts
<1>4. CASE pc' = "fail" BY <1>2, <1>3, <1>4, ParseFails
<1>5. CASE pc' = "true"
  <2>1. Running(pc) /\ Running(pc') BY <1>1, <1>5 DEF Running
  <2>2. Len(stack) = 0 BY <1>1
  <2>3. ReadAt(content', offset', depth', strict', oom', pc') BY <1>2, <1>3, <1>5 DEF ParseInv, ReadAt
  <2>4. TreeAt(heap', stack', live', Running(pc')) BY <1>2, <2>1 DEF ParseInv, TreeAt
  <2>5. PlaceAt(heap', stack', live', pc', target', offset', depth', content')
    BY <1>1, <1>2, <1>5, <2>1, <2>2 DEF ParseInv, PlaceAt
  <2> QED BY <2>3, <2>4, <2>5 DEF ParseInv
<1> QED BY <1>1, <1>4, <1>5

\* The innermost frame and the heap once an element is allocated, in an object also named.
StackGrown(s) ==
  s = [stack EXCEPT ![Len(stack)] =
         [[stack[Len(stack)] EXCEPT !.cur = Len(heap) + 1] EXCEPT
            !.head = IF stack[Len(stack)].head = 0 THEN Len(heap) + 1 ELSE stack[Len(stack)].head]]

\* The heap with one more item at the end of the innermost list, with its name
\* in an object.
HeapGrown(b, g) ==
  g = IF b THEN [Parser!Attached(Len(heap) + 1) EXCEPT ![Len(heap) + 1].string = TRUE]
      ELSE Parser!Attached(Len(heap) + 1)

\* What an element's allocation does to the tree, whether the parse goes on or not.
LEMMA AttachTree ==
  ASSUME ParseInv, pc = "element", NEW b \in BOOLEAN, NEW s, StackGrown(s), NEW g, HeapGrown(b, g)
  PROVE  /\ Numbered(g) /\ Frames(g, s, Len(g)) /\ Rings(g, s) /\ Len(g) = Len(heap) + 1
         /\ live \cup {Len(heap) + 1} = 1..Len(g) /\ Len(g) \in Nat
         /\ Len(s) = Len(stack) /\ Len(s) # 0 /\ depth = Len(stack)
         /\ s[Len(s)].cur = Len(g) /\ s[Len(s)].head # 0
         /\ g[Len(g)].child = 0 /\ g[Len(g)].next = 0
<1> DEFINE n == Len(heap)
           e == n + 1
           d == Len(stack)
           f == stack[d]
           c == f.cur
<1>1. live = 1..n /\ Frames(heap, stack, n) /\ depth = d BY WholeTree DEF Running
<1>2. /\ Numbered(heap) /\ Rings(heap, stack) /\ stack \in Seq(Frame) /\ d \in Nat /\ n \in Nat
      /\ heap \in Seq(Item)
  BY ReadFacts DEF Numbered
<1>3. d # 0 BY DEF ParseInv, PlaceAt
<1>4. d \in 1..d /\ e \in Nat /\ e # 0 /\ e \in 1..e BY <1>2, <1>3
<1>5. f \in Frame /\ c \in Nat /\ f.head \in Nat /\ f.item \in Nat BY <1>1, <1>2, <1>4, FrameFacts
<1> DEFINE x == [[f EXCEPT !.cur = e] EXCEPT !.head = IF f.head = 0 THEN e ELSE f.head]
<1>6. s = [stack EXCEPT ![d] = x] BY DEF StackGrown
<1>7. Parser!Top = f BY DEF Parser!Top, Parser!Last
<1> DEFINE New(j) == IF j = e THEN [Parser!New EXCEPT !.prev = c]
                     ELSE IF j = c THEN [heap[j] EXCEPT !.next = e] ELSE heap[j]
           q == [j \in 1..e |-> New(j)]
<1>8. Parser!Attached(e) = q BY <1>7 DEF Parser!Attached
<1>9. g = IF b THEN [q EXCEPT ![e].string = TRUE] ELSE q BY <1>8 DEF HeapGrown
<1> HIDE DEF n, d, f, c
<1>10. x \in Frame /\ x.cur = e /\ x.head = (IF f.head = 0 THEN e ELSE f.head) /\ x.item = f.item
  <2>1. (IF f.head = 0 THEN e ELSE f.head) \in Nat BY <1>4, <1>5
  <2> HIDE DEF e
  <2> QED BY <1>4, <1>5, <2>1 DEF Frame
<1> HIDE DEF x
<1>11. /\ s \in Seq(Frame) /\ Len(s) = d /\ s[d] = x /\ \A k \in 1..d : k # d => s[k] = stack[k]
  <2>1. d \in 1..Len(stack) BY <1>4 DEF d
  <2>2. /\ [stack EXCEPT ![d] = x] \in Seq(Frame) /\ Len([stack EXCEPT ![d] = x]) = Len(stack)
        /\ \A k \in 1..Len(stack) : [stack EXCEPT ![d] = x][k] = IF k = d THEN x ELSE stack[k]
    BY <1>2, <1>10, <2>1, ExceptSeq
  <2> QED BY <1>4, <1>6, <2>2 DEF d
<1> HIDE DEF e
<1>12. \A j \in 1..e : New(j) \in Item
  <2> SUFFICES ASSUME NEW j \in 1..e PROVE New(j) \in Item OBVIOUS
  <2>1. CASE j = e
    <3>1. Parser!New \in Item BY DEF Parser!New, Parser!NULL, Item, Types
    <3>2. [Parser!New EXCEPT !.prev = c] \in Item BY <1>5, <3>1 DEF Item
    <3> QED BY <2>1, <3>2
  <2>2. CASE j # e
    <3>1. j \in 1..n BY <1>2, <2>2 DEF e
    <3>2. heap[j] \in Item BY <1>2, <3>1 DEF n
    <3>3. [heap[j] EXCEPT !.next = e] \in Item BY <1>4, <3>2 DEF Item
    <3> QED BY <2>2, <3>2, <3>3
  <2> QED BY <2>1, <2>2
<1>13. q \in Seq(Item) /\ Len(q) = e /\ \A j \in 1..e : q[j] = New(j)
  <2> HIDE DEF New
  <2> QED BY <1>4, <1>12
<1> HIDE DEF q
<1>14. q[e] \in Item /\ q[e].child = 0 /\ q[e].next = 0 /\ q[e].prev = c
  <2>1. q[e] = [Parser!New EXCEPT !.prev = c] BY <1>4, <1>13
  <2>2. [Parser!New EXCEPT !.prev = c].child = 0 /\ [Parser!New EXCEPT !.prev = c].next = 0
        /\ [Parser!New EXCEPT !.prev = c].prev = c
    BY DEF Parser!New, Parser!NULL
  <2>3. q[e] \in Item BY <1>4, <1>13
  <2> QED BY <2>1, <2>2, <2>3
<1> DEFINE y == [q[e] EXCEPT !.string = TRUE]
<1>15. y \in Item /\ y.child = 0 /\ y.next = 0 /\ y.prev = c BY <1>14 DEF Item
<1>16. [q EXCEPT ![e].string = TRUE] = [q EXCEPT ![e] = y] BY <1>4
<1> HIDE DEF y
<1>17. /\ g \in Seq(Item) /\ Len(g) = e /\ \A j \in 1..e : j # e => g[j] = New(j)
       /\ g[e].child = 0 /\ g[e].next = 0 /\ g[e].prev = c
  <2> HIDE DEF New
  <2>1. CASE b
    <3>1. g = [q EXCEPT ![e] = y] BY <1>9, <1>16, <2>1
    <3>2. e \in 1..Len(q) BY <1>4, <1>13
    <3>3. g \in Seq(Item) /\ Len(g) = Len(q) /\ g[e] = y /\ \A j \in 1..Len(q) : j # e => g[j] = q[j]
      <4>1. q \in Seq(Item) /\ y \in Item BY <1>13, <1>15
      <4> QED BY <3>1, <3>2, <4>1, Replaced
    <3> QED BY <1>13, <1>15, <3>3
  <2>2. CASE ~ b
    <3>1. g = q BY <1>9, <2>2
    <3> QED BY <1>13, <1>14, <3>1
  <2> QED BY <2>1, <2>2
<1>18. AttachedTo(heap, g, c)
  <2>1. ASSUME NEW j \in 1..n
        PROVE  /\ g[j].child = heap[j].child /\ g[j].prev = heap[j].prev
               /\ g[j].next = IF j = c THEN e ELSE heap[j].next
    <3>1. j \in 1..e /\ j # e BY <1>2 DEF e
    <3>2. g[j] = IF j = c THEN [heap[j] EXCEPT !.next = e] ELSE heap[j] BY <1>17, <3>1
    <3>3. heap[j] \in Item BY <1>2 DEF n
    <3>4. /\ [heap[j] EXCEPT !.next = e].child = heap[j].child /\ [heap[j] EXCEPT !.next = e].prev = heap[j].prev
          /\ [heap[j] EXCEPT !.next = e].next = e
      BY <3>3 DEF Item
    <3>5. CASE j = c
      <4>1. g[j] = [heap[j] EXCEPT !.next = e] BY <3>2, <3>5
      <4> QED BY <3>4, <3>5, <4>1
    <3>6. CASE j # c
      <4>1. g[j] = heap[j] BY <3>2, <3>6
      <4> QED BY <3>6, <4>1
    <3> QED BY <3>5, <3>6
  <2> HIDE DEF New
  <2>2. Len(g) = Len(heap) + 1 BY <1>17 DEF e, n
  <2> QED BY <1>17, <2>1, <2>2 DEF AttachedTo, n
<1>19. Numbered(g) /\ Frames(g, s, Len(g)) /\ Rings(g, s)
  <2>1. /\ s[d].item = f.item /\ s[d].cur = e /\ s[d].head = (IF f.head = 0 THEN e ELSE f.head)
    BY <1>10, <1>11
  <2> HIDE DEF New
  <2>2. Numbered(heap) /\ Frames(heap, stack, Len(heap)) /\ Rings(heap, stack) /\ Len(stack) # 0
    BY <1>1, <1>2, <1>3 DEF d, n
  <2>3. AttachedTo(heap, g, stack[Len(stack)].cur) BY <1>18 DEF c, f, d
  <2>4. s \in Seq(Frame) /\ Len(s) = Len(stack) /\ \A k \in 1..Len(stack) : k # Len(stack) => s[k] = stack[k]
    BY <1>11 DEF d
  <2>5. /\ s[Len(stack)].item = stack[Len(stack)].item /\ s[Len(stack)].cur = Len(heap) + 1
        /\ s[Len(stack)].head = IF stack[Len(stack)].head = 0 THEN Len(heap) + 1 ELSE stack[Len(stack)].head
    BY <2>1 DEF d, f, e, n
  <2> QED BY <2>2, <2>3, <2>4, <2>5, AttachKeeps
<1>20. live \cup {e} = 1..e BY <1>1, <1>2 DEF e
<1>21. s[d].head # 0 BY <1>4, <1>10, <1>11
<1>22. s[d].cur = e BY <1>10, <1>11
<1> QED BY <1>1, <1>3, <1>4, <1>11, <1>17, <1>19, <1>20, <1>21, <1>22 DEF e, n, d

\* An element allocated and attached, and the parse going on or giving up.
LEMMA ParseGrows ==
  ASSUME ParseInv, pc = "element", NEW b \in BOOLEAN, StackGrown(stack'), HeapGrown(b, heap'),
         live' = live \cup {Len(heap) + 1}, target' = Len(heap) + 1, pc' \in {"value", "fail"},
         UNCHANGED <<content, strict, depth>>, offset' \in 1..Len(content), oom' \in BOOLEAN
  PROVE  ParseInv'
<1>1. /\ Numbered(heap') /\ Frames(heap', stack', Len(heap')) /\ Rings(heap', stack')
      /\ Len(heap') = Len(heap) + 1 /\ live' = 1..Len(heap') /\ Len(heap') \in Nat
      /\ Len(stack') = Len(stack) /\ Len(stack') # 0 /\ depth = Len(stack)
      /\ stack'[Len(stack')].cur = Len(heap') /\ stack'[Len(stack')].head # 0
      /\ heap'[Len(heap')].child = 0 /\ heap'[Len(heap')].next = 0
  BY AttachTree
<1>2. TreeAt(heap', stack', live', Running(pc'))
  <2>1. TreeAt(heap', stack', 1..Len(heap'), Running(pc')) BY <1>1, MakeTree
  <2> QED BY <1>1, <2>1
<1>3. ReadAt(content', offset', depth', strict', oom', pc') BY DEF ParseInv, ReadAt
<1>4. PlaceAt(heap', stack', live', pc', target', offset', depth', content')
  <2>1. target' = Len(heap') /\ Len(heap') # 0 /\ depth' = Len(stack')
    <3>1. Len(heap) \in Nat BY ReadFacts
    <3> QED BY <1>1, <3>1
  <2>2. pc' = "value" \/ pc' = "fail" OBVIOUS
  <2> QED BY <1>1, <2>1, <2>2 DEF PlaceAt, Running
<1> QED BY <1>2, <1>3, <1>4 DEF ParseInv

\* Allocating the next item of a container keeps it, its name included.
LEMMA ParseElements ==
  ASSUME ParseInv, Parser!Element
  PROVE  ParseInv'
<1> DEFINE name == Parser!SkipBlanks(offset + 1)
           colon == Parser!SkipBlanks(name + 1)
           Grow(b) == /\ StackGrown(stack') /\ HeapGrown(b, heap')
                      /\ live' = live \cup {Len(heap) + 1} /\ target' = Len(heap) + 1
                      /\ UNCHANGED <<content, strict, depth>>
<1>1. pc = "element" BY DEF Parser!Element
<1>2. offset + 1 \in 1..Len(content)
  <2>1. offset < Len(content) BY <1>1 DEF ParseInv, PlaceAt
  <2> QED BY <2>1, ReadFacts
<1>3. name \in 1..Len(content) BY <1>2, SkipIs, ReadFacts
<1>4. ASSUME Parser!Has(name, "s") PROVE colon \in 1..Len(content)
  <2>1. name + 1 \in 1..Len(content) BY <1>3, <1>4, HasBefore, ReadFacts
  <2> QED BY <2>1, SkipIs, ReadFacts
<1>5. ASSUME Parser!Has(name, "s"), Parser!Has(colon, ":") PROVE Parser!SkipBlanks(colon + 1) \in 1..Len(content)
  <2>1. colon + 1 \in 1..Len(content) BY <1>4, <1>5, HasBefore, ReadFacts
  <2> QED BY <2>1, SkipIs, ReadFacts
<1> DEFINE i == Len(heap) + 1
           S == [stack EXCEPT ![Len(stack)].cur = i,
                              ![Len(stack)].head = IF Parser!Top.head = 0 THEN i ELSE @]
           bare == Parser!Attached(i)
           named == [bare EXCEPT ![i].string = TRUE]
           To(h) == stack' = S /\ heap' = h /\ live' = live \cup {i} /\ target' = i
           More == (UNCHANGED <<content, strict>>) /\ depth' = depth /\ oom' = oom
<1>a. \/ Parser!OutOfMemory
      \/ To(bare) /\ offset' = name /\ pc' = "value" /\ More
      \/ To(bare) /\ offset' = name /\ pc' = "fail" /\ More
      \/ To(bare) /\ offset' = name /\ pc' = "fail" /\ oom' = TRUE /\ (UNCHANGED <<content, strict>>) /\ depth' = depth
      \/ Parser!Has(name, "s") /\ To(named) /\ offset' = colon /\ pc' = "fail" /\ More
      \/ /\ Parser!Has(name, "s") /\ Parser!Has(colon, ":") /\ To(named)
         /\ offset' = Parser!SkipBlanks(colon + 1) /\ pc' = "value" /\ More
  BY Zenon DEF Parser!Element, Parser!Fail, Parser!input, Parser!NULL
<1>b. StackGrown(S)
  <2>1. stack[Len(stack)] \in Frame
    <3>1. stack \in Seq(Frame) /\ Len(stack) \in Nat /\ Len(stack) # 0 BY <1>1, ReadFacts DEF ParseInv, PlaceAt
    <3> QED BY <3>1
  <2>2. Parser!Top = stack[Len(stack)] BY DEF Parser!Top, Parser!Last
  <2>3. Len(stack) \in 1..Len(stack) /\ stack \in Seq(Frame) BY <1>1, ReadFacts DEF ParseInv, PlaceAt
  <2> QED BY <2>1, <2>2, <2>3 DEF StackGrown, Frame
<1>c. HeapGrown(FALSE, bare) /\ HeapGrown(TRUE, named) BY DEF HeapGrown
<1> HIDE DEF S, bare, named, name, colon
<1>6. \/ Parser!OutOfMemory
      \/ Grow(FALSE) /\ offset' = name /\ pc' \in {"value", "fail"} /\ (oom' = oom \/ oom' = TRUE)
      \/ Parser!Has(name, "s") /\ Grow(TRUE) /\ offset' = colon /\ pc' = "fail" /\ oom' = oom
      \/ /\ Parser!Has(name, "s") /\ Parser!Has(colon, ":") /\ Grow(TRUE)
         /\ offset' = Parser!SkipBlanks(colon + 1) /\ pc' = "value" /\ oom' = oom
  <2>1. To(bare) /\ UNCHANGED <<content, strict, depth>> => Grow(FALSE) BY <1>b, <1>c
  <2>2. To(named) /\ UNCHANGED <<content, strict, depth>> => Grow(TRUE) BY <1>b, <1>c
  <2> HIDE DEF To, Grow, i
  <2> QED BY <1>a, <2>1, <2>2
<1>7. oom \in BOOLEAN BY ReadFacts
<1>8. CASE Parser!OutOfMemory BY <1>8, ParseGivesUp
<1>9. CASE Grow(FALSE) /\ offset' = name /\ pc' \in {"value", "fail"} /\ (oom' = oom \/ oom' = TRUE)
  <2>1. oom' \in BOOLEAN /\ FALSE \in BOOLEAN BY <1>7, <1>9
  <2> QED BY <1>1, <1>3, <1>9, <2>1, ParseGrows
<1>10. CASE Parser!Has(name, "s") /\ Grow(TRUE) /\ offset' = colon /\ pc' = "fail" /\ oom' = oom
  <2>1. oom' \in BOOLEAN /\ TRUE \in BOOLEAN /\ pc' \in {"value", "fail"} /\ colon \in 1..Len(content) BY <1>4, <1>7, <1>10
  <2> QED BY <1>1, <1>10, <2>1, ParseGrows
<1>11. CASE /\ Parser!Has(name, "s") /\ Parser!Has(colon, ":") /\ Grow(TRUE)
            /\ offset' = Parser!SkipBlanks(colon + 1) /\ pc' = "value" /\ oom' = oom
  <2>1. oom' \in BOOLEAN /\ TRUE \in BOOLEAN /\ pc' \in {"value", "fail"} /\ offset' \in 1..Len(content) BY <1>5, <1>7, <1>11
  <2> QED BY <1>1, <1>11, <2>1, ParseGrows
<1> QED BY <1>6, <1>8, <1>9, <1>10, <1>11

\* A call that fails deletes its list and returns to its caller: what the
\* caller holds is left.
LEMMA ParseUnwinds ==
  ASSUME ParseInv, Parser!Unwind
  PROVE  ParseInv'
<1> DEFINE d == Len(stack)
           p == stack[d].item
<1>1. /\ pc = "fail" /\ stack # << >> /\ live' = live \ Parser!Chain(Parser!Top.head)
      /\ stack' = Parser!Front(stack) /\ UNCHANGED <<content, strict, offset, depth, heap, pc, target, oom>>
  BY DEF Parser!Unwind, Parser!input
<1>2. stack \in Seq(Frame) /\ d \in Nat /\ Numbered(heap) /\ Rings(heap, stack) BY ReadFacts
<1>3. d # 0 BY <1>1, <1>2, EmptySeq
<1>4. PICK m \in Nat : live = 1..m /\ Frames(heap, stack, m) BY DEF ParseInv, TreeAt
<1>5. /\ stack' \in Seq(Frame) /\ Len(stack') = d - 1 /\ \A k \in 1..Len(stack') : stack'[k] = stack[k]
  BY <1>1, <1>2, <1>3, FrontIs
<1>6. /\ Frames(heap, stack', p) /\ Rings(heap, stack') /\ p \in 1..m
      /\ (1..m) \ ReachOf(heap, stack[d].head) = 1..p
  BY <1>2, <1>3, <1>4, <1>5, PopKeeps
<1>7. live' = 1..p
  <2>1. Parser!Top = stack[d] BY DEF Parser!Top, Parser!Last
  <2>2. Parser!Chain(stack[d].head) = ReachOf(heap, stack[d].head) BY ChainIs
  <2> QED BY <1>1, <1>4, <1>6, <2>1, <2>2
<1>8. p \in Nat BY <1>4, <1>6
<1>9. ~ Running(pc') BY <1>1 DEF Running
<1>10. TreeAt(heap', stack', live', Running(pc'))
  <2>1. TreeAt(heap, stack', 1..p, Running(pc')) BY <1>2, <1>6, <1>8, <1>9, MakeTree
  <2> QED BY <1>1, <1>7, <2>1
<1>11. ReadAt(content', offset', depth', strict', oom', pc') BY <1>1 DEF ParseInv, ReadAt
<1>12. PlaceAt(heap', stack', live', pc', target', offset', depth', content') BY <1>1, <1>9 DEF PlaceAt
<1> QED BY <1>10, <1>11, <1>12 DEF ParseInv

\* cJSON_ParseWithOpts() deletes the root item at last, and nothing is left.
LEMMA ParseDeletes ==
  ASSUME ParseInv, Parser!DeleteRoot
  PROVE  ParseInv'
<1>1. /\ pc = "fail" /\ stack = << >> /\ live' = (IF live = {} THEN {} ELSE live \ Parser!Chain(1))
      /\ pc' = "false" /\ UNCHANGED <<content, strict, offset, depth, stack, heap, target, oom>>
  BY DEF Parser!DeleteRoot, Parser!input
<1>2. Numbered(heap) /\ Rings(heap, stack) /\ Len(heap) \in Nat BY ReadFacts
<1>3. PICK m \in Nat : live = 1..m /\ Frames(heap, stack, m) BY DEF ParseInv, TreeAt
<1>4. Len(stack) = 0 /\ 1..0 = {} /\ 1..Len(stack) = {} BY <1>1
<1>5. live' = 1..0
  <2>1. CASE live = {} BY <1>1, <1>4, <2>1
  <2>2. CASE live # {}
    <3>1. m # 0 BY <1>3, <1>4, <2>2
    <3>2. ReachOf(heap, 1) = 1..m BY <1>3, <1>4, <3>1 DEF Frames
    <3>3. Parser!Chain(1) = 1..m BY <3>2, ChainIs
    <3> QED BY <1>1, <1>3, <1>4, <2>2, <3>3
  <2> QED BY <2>1, <2>2
<1>6. Frames(heap, stack, 0)
  <2>1. stack \in Seq(Frame) /\ 0 \in 0..Len(heap) BY <1>2, ReadFacts
  <2> QED BY <1>4, <2>1 DEF Frames
<1>7. ~ Running(pc') BY <1>1 DEF Running
<1>8. TreeAt(heap', stack', live', Running(pc'))
  <2>1. TreeAt(heap, stack, 1..0, Running(pc')) BY <1>2, <1>6, <1>7, MakeTree
  <2> QED BY <1>1, <1>5, <2>1
<1>9. ReadAt(content', offset', depth', strict', oom', pc') BY <1>1 DEF ParseInv, ReadAt
<1>10. PlaceAt(heap', stack', live', pc', target', offset', depth', content') BY <1>1, <1>4, <1>5, <1>7 DEF PlaceAt
<1> QED BY <1>8, <1>9, <1>10 DEF ParseInv

\* Every step of parsing keeps it.
LEMMA ParseSteps ==
  ASSUME ParseInv, Parser!Next
  PROVE  ParseInv'
BY ParseStarts, ParseScalars, ParseStrings, ParseFindsNothing, ParseOpens, ParseElements, ParseAfterElement,
   ParseAfterRoot, ParseUnwinds, ParseDeletes DEF Parser!Next, Kinds

\* A step of another part keeps it.
LEMMA ParseStutters ==
  ASSUME ParseInv, UNCHANGED parseVars
  PROVE  ParseInv'
<1>1. ReadAt(content', offset', depth', strict', oom', pc') BY DEF ParseInv, parseVars
<1>2. TreeAt(heap', stack', live', Running(pc')) BY DEF ParseInv, parseVars
<1>3. PlaceAt(heap', stack', live', pc', target', offset', depth', content') BY DEF ParseInv, parseVars
<1> QED BY <1>1, <1>2, <1>3 DEF ParseInv

\* What the invariant says of the parser's properties.
LEMMA ParseInvShows ==
  ASSUME ParseInv
  PROVE  Parser!TypeOK /\ Parser!NothingLeaks /\ Parser!ListsAreRings
<1>1. PICK m \in Nat : live = 1..m /\ Frames(heap, stack, m) BY DEF ParseInv, TreeAt
<1>2. /\ Numbered(heap) /\ Rings(heap, stack) /\ stack \in Seq(Frame) /\ Len(stack) \in Nat /\ Len(heap) \in Nat
      /\ heap \in Seq(Item) /\ DOMAIN heap = 1..Len(heap) /\ DOMAIN stack = 1..Len(stack)
  BY ReadFacts DEF Numbered
<1>3. Parser!TypeOK
  <2>1. ASSUME NEW k \in DOMAIN stack PROVE stack[k].item \in live /\ stack[k].head \in live \cup {0}
    <3>1. k \in 1..Len(stack) BY <1>2
    <3>2. stack[k].item \in 1..m /\ (stack[k].head # 0 => stack[k].head \in 1..m) BY <1>1, <1>2, <3>1, FrameFacts
    <3> QED BY <1>1, <3>2
  <2>2. live \subseteq DOMAIN heap
    <3>1. m <= Len(heap) BY <1>1 DEF Frames
    <3> QED BY <1>1, <1>2, <3>1
  <2>3. /\ offset \in 1..Len(content) /\ depth \in 0..NestingLimit /\ strict \in BOOLEAN /\ oom \in BOOLEAN
        /\ pc \in {"start", "value", "element", "after", "fail", "true", "false"}
    BY DEF ParseInv, ReadAt
  <2> QED BY <2>1, <2>2, <2>3 DEF Parser!TypeOK, Parser!NULL
<1>4. ASSUME pc = "true" PROVE live = 1..Len(heap) /\ ReachOf(heap, 1) = 1..Len(heap)
  <2>1. Running(pc) /\ Len(heap) # 0 /\ Len(stack) = 0 BY <1>4 DEF ParseInv, PlaceAt, Running
  <2>2. live = 1..Len(heap) /\ Frames(heap, stack, Len(heap)) BY <2>1, WholeTree
  <2> QED BY <2>1, <2>2 DEF Frames
<1>5. Parser!NothingLeaks
  <2>1. pc = "false" => live = {} BY DEF ParseInv, PlaceAt
  <2>2. pc = "true" => live = Parser!Chain(1) /\ live = DOMAIN heap BY <1>2, <1>4, ChainIs
  <2> QED BY <2>1, <2>2 DEF Parser!NothingLeaks
<1>6. Parser!ListsAreRings
  <2> SUFFICES ASSUME pc = "true", NEW i \in live, heap[i].child # 0
               PROVE  /\ heap[heap[i].child].prev \in live /\ heap[heap[heap[i].child].prev].next = 0
                      /\ \A k \in live : heap[k].next # 0 => heap[heap[k].next].prev = k
    BY DEF Parser!ListsAreRings, Parser!NULL
  <2>1. live = 1..Len(heap) /\ i \in 1..Len(heap) BY <1>4
  <2>2. \A k \in live : heap[k].next # 0 => heap[heap[k].next].prev = k BY <1>2, <2>1 DEF Rings, Behind
  <2>3. heap[i].child = i + 1 /\ i + 1 \in 1..Len(heap) BY <1>2, <2>1 DEF Numbered
  <2>4. heap[i + 1].prev \in ReachOf(heap, i + 1) /\ heap[heap[i + 1].prev].next = 0 BY <1>2, <2>1 DEF Rings, RingAt
  <2>5. ReachOf(heap, i + 1) \subseteq (i + 1)..Len(heap) BY <1>2, <2>3, ReachWithin
  <2>6. heap[i + 1].prev \in 1..Len(heap) BY <1>2, <2>1, <2>3, <2>4, <2>5
  <2> QED BY <2>1, <2>2, <2>3, <2>4, <2>6
<1> QED BY <1>3, <1>5, <1>6

---------------------------------------------------------------------------
(* The parts together.  A step of cJSON is one of its part, and leaves the  *)
(* variables of the others alone, so each part keeps its own invariant.     *)

\* Whatever part a behaviour is of, cJSON_Minify()'s variables behave as
\* cJSON_Minify() specifies: those of another part stay where a call on an
\* empty text begins.
LEMMA MinifyAmongOthers == CJsonSpec => Spec
<1>1. CJsonInit => Init
  <2> SUFFICES ASSUME NoMinify PROVE Init BY DEF CJsonInit
  <2>1. 0 \in 0..MaxLength BY MaxLengthAssumption
  <2>2. text \in [1..0 -> Chars]
    <3>1. text = << >> /\ 1..0 = {} BY DEF NoMinify
    <3>2. [x \in {} |-> x] = << >> /\ [x \in {} |-> x] \in [{} -> Chars] OBVIOUS
    <3> QED BY <3>1, <3>2
  <2> QED BY <2>1, <2>2 DEF Init, NoMinify
<1>2. [CJsonNext /\ UNCHANGED part]_allVars => [Next]_vars BY DEF CJsonNext, allVars
<1> QED BY <1>1, <1>2, PTL DEF CJsonSpec, Spec

\* What each part keeps.
PartsInv ==
  /\ part = "print" => PrintInv /\ TextInv
  /\ part = "parse" => ParseInv
  /\ part = "string" => StringInv /\ BackInv

\* Every step of every part keeps it.
LEMMA PartsKept == CJsonSpec => []PartsInv
<1>1. CJsonInit => PartsInv
  BY PrintInitially, TextInitially, ParseInitially, StringInitially, BackInitially DEF CJsonInit, PartsInv
<1>2. PartsInv /\ [CJsonNext /\ UNCHANGED part]_allVars => PartsInv'
  <2> SUFFICES ASSUME PartsInv, [CJsonNext /\ UNCHANGED part]_allVars PROVE PartsInv' OBVIOUS
  <2>1. part' = part BY DEF allVars
  <2>2. ASSUME part = "print" PROVE PrintInv' /\ TextInv'
    <3>1. PrintInv /\ TextInv BY <2>2 DEF PartsInv
    <3>2. Printer!Next \/ UNCHANGED printVars BY <2>2 DEF CJsonNext, allVars
    <3> QED BY <3>1, <3>2, PrintSteps, PrintStutters, TextSteps, TextStutters
  <2>3. ASSUME part = "parse" PROVE ParseInv'
    <3>1. ParseInv BY <2>3 DEF PartsInv
    <3>2. Parser!Next \/ UNCHANGED parseVars BY <2>3 DEF CJsonNext, allVars
    <3> QED BY <3>1, <3>2, ParseSteps, ParseStutters
  <2>4. ASSUME part = "string" PROVE StringInv' /\ BackInv'
    <3>1. StringInv /\ BackInv BY <2>4 DEF PartsInv
    <3>2. Strings!Next \/ UNCHANGED stringVars BY <2>4 DEF CJsonNext, allVars
    <3> QED BY <3>1, <3>2, StringSteps, StringStutters, BackSteps, BackStutters
  <2> QED BY <2>1, <2>2, <2>3, <2>4 DEF PartsInv
<1> QED BY <1>1, <1>2, PTL DEF CJsonSpec

\* For items of every shape, texts of every length and buffers of every size:
\* print_value() and its like write only into the block ensure() gave them and
\* measure only what they wrote, update_offset() finds its zero, and the copy
\* of a reallocation by hand reads past its source only if the prebuffer was 0;
\* parse_string() and print_string_ptr() write no more than they allocated; and
\* cJSON_Minify() stays in its buffer.
THEOREM PartsStayInside == CJsonSpec => []StaysInside
<1>1. PartsInv /\ TypeOK => StaysInside
  <2>1. StringInv => Strings!TypeOK /\ Strings!WritesWithinRoom /\ Strings!PrintFillsRoom BY DEF StringInv
  <2> QED BY <2>1, PrintInvShows DEF PartsInv, StaysInside
<1> QED BY <1>1, PartsKept, MinifyAmongOthers, MinifyStaysInside, PTL

\* For every item, text and nesting limit, and wherever an allocation fails: a
\* print that fails leaves no block and one that succeeds leaves its caller's;
\* a parse that fails has deleted every item it allocated, one that succeeds
\* returns them all in one tree whose lists are closed as the list functions
\* need them, and none is used after it was deleted.
THEOREM PartsLeakNothing == CJsonSpec => []NothingLeaks
<1>1. PartsInv => NothingLeaks BY PrintInvShows, ParseInvShows DEF PartsInv, NothingLeaks
<1> QED BY <1>1, PartsKept, PTL

\* For items of every shape and depth, buffers of every size, and wherever a
\* put makes the buffer move: a print that succeeds gives its caller the text
\* of the item, ended by a zero, and only if all in it is valid; and
\* cJSON_PrintPreallocated() succeeds on a valid item whenever the buffer has
\* five bytes more than the text and its zero.  For strings of every length:
\* what print_string_ptr() writes parse_string() accepts, and it reads back the
\* same C string.
THEOREM PartsPrintTheText == CJsonSpec => []PrintsTheText
<1>1. PartsInv => PrintsTheText BY TextInvShows DEF PartsInv, BackInv, PrintsTheText
<1> QED BY <1>1, PartsKept, PTL
=============================================================================
