----------------------------- MODULE CJsonPrint -----------------------------
(***************************************************************************)
(* How cJSON prints an item into a buffer that grows under it: cJSON_Print *)
(* and cJSON_PrintUnformatted (print()), cJSON_PrintBuffered and           *)
(* cJSON_PrintPreallocated.  The recursion over the item is a list of what *)
(* is still to be done to the print buffer, in its order: "put" is an      *)
(* ensure() with what is then written and by how much the offset goes on,  *)
(* "measure" is update_offset(), which looks for the next zero, "loop" is  *)
(* the rest of the loop over the items of a container, and "invalid" is an *)
(* item that cannot be printed.  Memory that was not written yet holds     *)
(* Garbage.  Scalars are printed as short texts; the letters of one do not *)
(* matter, only how much room it asks for.                                 *)
(***************************************************************************)
EXTENDS Naturals, Sequences

CONSTANTS
  Items,        \* the items to print, and the items in them
  DefaultSize,  \* default_buffer_size of print() (256)
  Sizes,        \* sizes the caller gives the other two entry points
  IntMax        \* INT_MAX

Nul == "nul"
Garbage == "?"
Entries == {"print", "buffered", "preallocated"}

VARIABLES
  item, format, entry, size,  \* the call: what, how, through which entry, its size
  realloc,    \* is there a reallocate hook (not after cJSON_InitHooks with others)
  ops,        \* what is still to be done to the buffer
  buf,        \* the memory behind p->buffer, from 0
  length,     \* p->length
  offset,     \* p->offset
  live,       \* blocks cJSON allocated and has not freed
  overread,   \* a copy read past the end of the old block
  st          \* "start", "run"; "failed", "lost" (failed, p->buffer is NULL); what it returned

vars == <<item, format, entry, size, realloc, ops, buf, length, offset, live, overread, st>>
call == <<item, format, entry, size, realloc>>

---------------------------------------------------------------------------
(* What print_value() and the functions under it do to the buffer.         *)
Times(c, n) == [k \in 1..n |-> c]
Put(need, cells, advance) == <<[op |-> "put", need |-> need, cells |-> cells, adv |-> advance]>>
Measure == <<[op |-> "measure"]>>
Invalid == <<[op |-> "invalid"]>>
Loop(i, depth, k) == <<[op |-> "loop", item |-> i, depth |-> depth, k |-> k]>>
When(b, s) == IF b THEN s ELSE << >>

Word(i) == CASE i.kind = "null"   -> <<"n", "u", "l", "l">>
             [] i.kind = "number" -> <<"4", "2">>
             [] i.kind = "string" -> <<"q", "s", "q">>
             [] i.kind = "empty"  -> <<"q", "q">>
Key == <<"q", "k", "q">>

\* Mutant: a literal copied without its zero.
PutWordOpen(word) == Put(Len(word) + 1, word, 0)

\* print_string_ptr() and the literals: the text and its zero.
PutWord(word) == Put(Len(word) + 1, word \o <<Nul>>, 0)
\* print_number() also moves the offset itself.
PutNumber(word) == Put(Len(word) + 1, word \o <<Nul>>, Len(word))
ArraySeparator(f) ==
  LET text == <<",">> \o When(f, <<" ">>) IN Put(Len(text) + 1, text \o <<Nul>>, Len(text))

ObjectOpens(f) == LET text == <<"{">> \o When(f, <<"newline">>) IN Put(Len(text) + 1, text, Len(text))
Indent(f, depth) == When(f, Put(depth, Times("tab", depth), depth))
Colon(f) == LET text == <<":">> \o When(f, <<"tab">>) IN Put(Len(text), text, Len(text))
ObjectSeparator(f, more) ==
  LET text == When(more, <<",">>) \o When(f, <<"newline">>)
  IN  Put(Len(text) + 1, text \o <<Nul>>, Len(text))
ObjectCloses(f, depth) ==
  Put(IF f THEN depth + 1 ELSE 2, When(f, Times("tab", depth - 1)) \o <<"}", Nul>>, 0)

PrintArray(i, depth) ==
  Put(1, <<"[">>, 1) \o When(i.kids # << >>, Loop(i, depth, 1)) \o Put(2, <<"]", Nul>>, 0)

PrintObject(i, f, depth) ==
  ObjectOpens(f) \o When(i.kids # << >>, Loop(i, depth, 1)) \o ObjectCloses(f, depth + 1)

PrintValue(i, f, depth) ==
  CASE i.kind = "array"   -> PrintArray(i, depth)
    [] i.kind = "object"  -> PrintObject(i, f, depth)
    [] i.kind = "number"  -> PutNumber(Word(i))
    [] i.kind = "invalid" -> Invalid
    [] OTHER              -> PutWord(Word(i))

\* One turn of the loops of print_array() and print_object(), for item k of i.
ArrayTurn(i, f, depth, k) ==
  PrintValue(i.kids[k], f, depth + 1) \o Measure \o When(k < Len(i.kids), ArraySeparator(f))

ObjectTurn(i, f, depth, k) ==
  Indent(f, depth + 1) \o PutWord(Key) \o Measure \o Colon(f)
  \o PrintValue(i.kids[k], f, depth + 1) \o Measure
  \o ObjectSeparator(f, k < Len(i.kids))

Turn(i, f, depth, k) ==
  (IF i.kind = "array" THEN ArrayTurn(i, f, depth, k) ELSE ObjectTurn(i, f, depth, k))
  \o When(k < Len(i.kids), Loop(i, depth, k + 1))

---------------------------------------------------------------------------
(* Every variable has its type; at most one block is allocated.           *)
TypeOK ==
  /\ item \in Items /\ format \in BOOLEAN /\ entry \in Entries /\ realloc \in BOOLEAN
  /\ size \in Sizes \union {DefaultSize}
  /\ length \in Nat /\ offset \in Nat
  /\ live \in 0..1
  /\ overread \in BOOLEAN
  /\ st \in {"start", "run", "failed", "lost", "true", "false"}

Init ==
  /\ item \in Items /\ format \in BOOLEAN /\ entry \in Entries /\ realloc \in BOOLEAN
  /\ size \in IF entry = "print" THEN {DefaultSize} ELSE Sizes
  /\ ops = << >>
  /\ buf = << >>
  /\ length = 0 /\ offset = 0
  /\ live = 0
  /\ overread = FALSE
  /\ st = "start"

\* Memory of n cells, the first ones taken over from old.
Block(n, old) == [k \in 0..(n - 1) |-> IF k \in DOMAIN old THEN old[k] ELSE Garbage]
First(m, old) == [k \in 0..(m - 1) |-> IF k \in DOMAIN old THEN old[k] ELSE Garbage]

\* The entry points set the buffer up; print() measures once more at the end.
Begin ==
  /\ st = "start"
  /\ ops' = PrintValue(item, format, 0) \o When(entry = "print", Measure)
  /\ buf' = Block(size, << >>)
  /\ length' = size
  /\ live' = IF entry = "preallocated" THEN 0 ELSE 1
  /\ st' = "run"
  /\ UNCHANGED <<call, offset, overread>>

BeginFails ==
  /\ st = "start"
  /\ entry # "preallocated"
  /\ st' = "false"
  /\ UNCHANGED <<call, ops, buf, length, offset, live, overread>>

---------------------------------------------------------------------------
Op == Head(ops)

\* print_array() and print_object() come to their next item.
NextItem ==
  /\ st = "run" /\ ops # << >> /\ Op.op = "loop"
  /\ ops' = Turn(Op.item, format, Op.depth, Op.k) \o Tail(ops)
  /\ UNCHANGED <<call, buf, length, offset, live, overread, st>>

---------------------------------------------------------------------------
(* ensure()                                                                *)
Putting == st = "run" /\ ops # << >> /\ Op.op = "put"
\* Mutant: the growth factor applied before the test.
NeededTwice == Op.need * 2 + offset + 1
Needed == Op.need + offset + 1
NewSize == IF Needed > IntMax \div 2 THEN IntMax ELSE Needed * 2

\* Mutant: ensure() that takes a buffer exactly full for large enough.
FitsExactly == Needed <= length + 2

Fits == Needed <= length
Refused ==
  \/ length > 0 /\ offset >= length
  \/ Op.need > IntMax
  \/ ~ Fits /\ entry = "preallocated"
  \/ ~ Fits /\ Needed > IntMax

\* Writing: a cell past the block would become a new element of buf.
Written(b) ==
  [k \in DOMAIN b \union offset..(offset + Len(Op.cells) - 1) |->
     IF k \in offset..(offset + Len(Op.cells) - 1) THEN Op.cells[k - offset + 1] ELSE b[k]]

PutFits ==
  /\ Putting /\ ~ Refused /\ Fits
  /\ buf' = Written(buf)
  /\ offset' = offset + Op.adv
  /\ ops' = Tail(ops)
  /\ UNCHANGED <<call, length, live, overread, st>>

\* Mutants: the manual copy one byte too long, or two too short.
CopyLengthLong == offset + 2
CopyLengthShort == IF offset = 0 THEN 0 ELSE offset - 1

\* realloc() keeps all of the old block, the manual copy what lies before
\* the offset and one byte more.
CopyLength == offset + 1
Moved == Block(NewSize, IF realloc THEN buf ELSE First(CopyLength, buf))
PutGrows ==
  /\ Putting /\ ~ Refused /\ ~ Fits
  /\ buf' = Written(Moved)
  /\ length' = NewSize
  /\ offset' = offset + Op.adv
  /\ ops' = Tail(ops)
  /\ overread' = (overread \/ (~ realloc /\ CopyLength > length))
  /\ UNCHANGED <<call, live, st>>

\* Mutant: the old block is kept when no new one is to be had.
OutOfMemoryKeeps ==
  /\ Putting /\ ~ Refused /\ ~ Fits
  /\ buf' = << >> /\ length' = 0
  /\ st' = "lost"
  /\ UNCHANGED <<call, ops, offset, live, overread>>

\* No new block: the old one is freed and p->buffer is NULL.
OutOfMemory ==
  /\ Putting /\ ~ Refused /\ ~ Fits
  /\ buf' = << >> /\ length' = 0
  /\ live' = live - 1
  /\ st' = "lost"
  /\ UNCHANGED <<call, ops, offset, overread>>

PutRefused ==
  /\ Putting /\ Refused
  /\ st' = "failed"
  /\ UNCHANGED <<call, ops, buf, length, offset, live, overread>>

\* update_offset(): strlen() from the offset.
EndAt(b, from) == CHOOSE k \in from..(length - 1) :
                    b[k] = Nul /\ \A j \in from..(k - 1) : b[j] # Nul
UpdateOffset ==
  /\ st = "run" /\ ops # << >> /\ Op.op = "measure"
  /\ offset' = EndAt(buf, offset)
  /\ ops' = Tail(ops)
  /\ UNCHANGED <<call, buf, length, live, overread, st>>

\* print_value() of an item whose type it does not know.
PrintInvalid ==
  /\ st = "run" /\ ops # << >> /\ Op.op = "invalid"
  /\ st' = "failed"
  /\ UNCHANGED <<call, ops, buf, length, offset, live, overread>>

---------------------------------------------------------------------------
(* The entry points return.                                                *)
\* Mutant: a failed print frees its buffer whether it still has it or not.
ReturnFailedTwice ==
  /\ st \in {"failed", "lost"}
  /\ live' = IF entry # "preallocated" THEN live - 1 ELSE live
  /\ st' = "false"
  /\ UNCHANGED <<call, ops, buf, length, offset, overread>>

\* A failed print frees what it allocated, if it still has it.
ReturnFailed ==
  /\ st \in {"failed", "lost"}
  /\ live' = IF st = "failed" /\ entry # "preallocated" THEN live - 1 ELSE live
  /\ st' = "false"
  /\ UNCHANGED <<call, ops, buf, length, offset, overread>>

\* print() hands out a block of just the right size.
Shrinks ==
  /\ st = "run" /\ ops = << >> /\ entry = "print"
  /\ buf' = [First(offset + 1, buf) EXCEPT ![offset] = IF realloc THEN @ ELSE Nul]
  /\ length' = offset + 1
  /\ st' = "true"
  /\ UNCHANGED <<call, ops, offset, live, overread>>
ShrinkFails ==
  /\ st = "run" /\ ops = << >> /\ entry = "print"
  /\ st' = "failed"
  /\ UNCHANGED <<call, ops, buf, length, offset, live, overread>>

ReturnBuffer ==
  /\ st = "run" /\ ops = << >> /\ entry # "print"
  /\ st' = "true"
  /\ UNCHANGED <<call, ops, buf, length, offset, live, overread>>

Next ==
  \/ Begin \/ BeginFails \/ NextItem
  \/ PutFits \/ PutGrows \/ OutOfMemory \/ PutRefused \/ UpdateOffset \/ PrintInvalid
  \/ ReturnFailed \/ Shrinks \/ ShrinkFails \/ ReturnBuffer

Spec == Init /\ [][Next]_vars

---------------------------------------------------------------------------
(* The reference: the text of an item, at a depth of nesting.              *)
Joined(seqs) ==
  LET joined[n \in 0..Len(seqs)] == IF n = 0 THEN << >> ELSE joined[n - 1] \o seqs[n]
  IN  joined[Len(seqs)]
Kids(i) == IF i.kind \in {"array", "object"} THEN i.kids ELSE << >>

\* Item k of container i, whose own text is t, with what stands around it.
PartText(i, f, d, k, t) ==
  LET more == k < Len(i.kids)
  IN  IF i.kind = "array" THEN t \o When(more, <<",">> \o When(f, <<" ">>))
      ELSE When(f, Times("tab", d + 1)) \o Key \o (<<":">> \o When(f, <<"tab">>))
           \o t \o (When(more, <<",">>) \o When(f, <<"newline">>))

\* The text of i, given the texts of the items in it; what is invalid has none.
ItemText(i, f, d, texts) ==
  LET parts == Joined([k \in 1..Len(Kids(i)) |-> PartText(i, f, d, k, texts[k])])
  IN  CASE i.kind = "array"   -> <<"[">> \o parts \o <<"]">>
        [] i.kind = "object"  -> (<<"{">> \o When(f, <<"newline">>)) \o parts
                                 \o (When(f, Times("tab", d)) \o <<"}">>)
        [] i.kind = "invalid" -> << >>
        [] OTHER              -> Word(i)

Text(f) ==
  LET text[i \in Items] ==
        [d \in Nat |-> ItemText(i, f, d, [k \in 1..Len(Kids(i)) |-> text[Kids(i)[k]][d + 1]])]
  IN  text

Valid == LET valid[i \in Items] ==
               i.kind # "invalid" /\ \A k \in 1..Len(Kids(i)) : valid[Kids(i)[k]]
         IN  valid

(* What the caller gets is the text of the item, ended by a zero, however  *)
(* often the buffer moved on the way; and it gets none of an invalid item. *)
PrintsTheText ==
  st = "true" =>
    LET text == Text(format)[item][0]
    IN  /\ Valid[item]
        /\ \A k \in 1..Len(text) : k - 1 \in DOMAIN buf /\ buf[k - 1] = text[k]
        /\ Len(text) \in DOMAIN buf /\ buf[Len(text)] = Nul

(* Nothing is written past the block ensure() returned, although           *)
(* print_object() asks for no more than it writes and counts no zero.      *)
WrittenInside == st \in {"run", "true"} => DOMAIN buf = 0..(length - 1)

(* update_offset() finds a zero before it runs into memory nobody wrote:   *)
(* whatever moves in between, the zero of the last piece is still there.   *)
MeasuresWritten ==
  st = "run" /\ ops # << >> /\ Op.op = "measure" =>
    \E k \in offset..(length - 1) :
      /\ buf[k] = Nul
      /\ \A j \in offset..(k - 1) : buf[j] # Garbage

(* On every path, with every allocation failing that can, the caller of a  *)
(* successful print owns one block and nothing else is left allocated.     *)
NoLeak ==
  /\ st = "false" => live = 0
  /\ st = "true" => live = IF entry = "preallocated" THEN 0 ELSE 1

(* The manual copy reads one byte past the offset.  That byte is inside    *)
(* the old block, except in cJSON_PrintBuffered() with a prebuffer of 0.   *)
OverreadOnlyIfEmpty == overread => entry = "buffered" /\ size = 0

(* cJSON_PrintPreallocated() succeeds when the buffer has 5 bytes more     *)
(* than the text and its zero, as cJSON.h advises.                         *)
FiveBytesMore ==
  entry = "preallocated" /\ st = "false" /\ Valid[item] =>
    size < Len(Text(format)[item][0]) + 1 + 5
============================================================================
