----------------------------- MODULE CJsonParse -----------------------------
(***************************************************************************)
(* cJSON_ParseWithOpts(), the parser behind cJSON_Parse(), which           *)
(* OnReceiveMessage() calls on every text the server sends.  A cell of the *)
(* text is a punctuation mark, a whole string "s", a whole literal or      *)
(* number "n", a blank, or a character that starts nothing ("x"); the      *)
(* text ends with the zero that ParseWithOpts counts in the length.  The   *)
(* recursion of parse_value(), parse_array() and parse_object() is the     *)
(* stack of the containers being built; every allocation may fail.         *)
(***************************************************************************)
EXTENDS Naturals, Sequences, SequencesExt

CONSTANTS
  Texts,         \* the texts to parse, without their zero
  NestingLimit   \* CJSON_NESTING_LIMIT

Cells == {"[", "]", "{", "}", ",", ":", "s", "n", "blank", "x"}
Nul == "nul"
NULL == 0

VARIABLES
  text,      \* input_buffer->content, its zero included
  strict,    \* require_null_terminated
  offset,    \* input_buffer->offset, from 1
  depth,     \* input_buffer->depth
  stack,     \* the containers being parsed, the innermost last
  heap,      \* the items allocated so far, by their number
  live,      \* the items not deleted
  pc, target, \* what comes next, and the item it is for
  oom        \* some allocation failed

vars == <<text, strict, offset, depth, stack, heap, live, pc, target, oom>>
input == <<text, strict>>

New == [type |-> "invalid", child |-> NULL, next |-> NULL, prev |-> NULL,
        string |-> FALSE, valuestring |-> FALSE]
Openers == [array |-> "[", object |-> "{"]
Closers == [array |-> "]", object |-> "}"]

(* The reader stays in the text, and nothing in use has been deleted.      *)
TypeOK ==
  /\ offset \in 1..Len(text)
  /\ depth \in 0..NestingLimit
  /\ \A k \in DOMAIN stack : stack[k].item \in live /\ stack[k].head \in live \union {NULL}
  /\ live \subseteq DOMAIN heap
  /\ pc \in {"start", "value", "element", "after", "fail", "true", "false"}
  /\ strict \in BOOLEAN /\ oom \in BOOLEAN

Init ==
  /\ \E t \in Texts : text = Append(t, Nul)
  /\ strict \in BOOLEAN
  /\ offset = 1
  /\ depth = 0
  /\ stack = << >>
  /\ heap = << >>
  /\ live = {}
  /\ pc = "start"
  /\ target = NULL
  /\ oom = FALSE

---------------------------------------------------------------------------
(* The buffer: a cell can be read up to the zero.  Skipping blanks also    *)
(* skips the zero, and steps back to it.                                   *)
CanAccess(o) == o <= Len(text)
Has(o, c) == CanAccess(o) /\ text[o] = c
IsBlank(o) == text[o] \in {"blank", Nul}

\* Mutant: skipping that does not step back from the end.
SkipPastEnd(o) ==
  IF ~ CanAccess(o) THEN o
  ELSE CHOOSE k \in o..(Len(text) + 1) :
         /\ \A j \in o..(k - 1) : IsBlank(j)
         /\ k = Len(text) + 1 \/ ~ IsBlank(k)

SkipBlanks(o) ==
  IF ~ CanAccess(o) THEN o
  ELSE LET k == CHOOSE k \in o..(Len(text) + 1) :
                  /\ \A j \in o..(k - 1) : IsBlank(j)
                  /\ k = Len(text) + 1 \/ ~ IsBlank(k)
       IN  IF k = Len(text) + 1 THEN k - 1 ELSE k

Top == Last(stack)
Fail == pc' = "fail"
Failing == Fail /\ UNCHANGED <<input, offset, depth, stack, heap, live, target>>
OutOfMemory == oom' = TRUE /\ Failing
Rejected == Failing /\ UNCHANGED oom

Start ==
  /\ pc = "start"
  /\ \/ /\ heap' = <<New>> /\ live' = {1} /\ target' = 1
        /\ offset' = SkipBlanks(offset)
        /\ pc' = "value"
        /\ UNCHANGED <<input, depth, stack, oom>>
     \/ OutOfMemory

---------------------------------------------------------------------------
(* parse_value() *)
Parsed(i, type) == heap' = [heap EXCEPT ![i].type = type]

ParseScalar ==
  /\ pc = "value"
  /\ Has(offset, "n")
  /\ Parsed(target, "scalar")
  /\ offset' = offset + 1
  /\ pc' = "after"
  /\ UNCHANGED <<input, depth, stack, live, target, oom>>

ParseString ==
  /\ pc = "value"
  /\ Has(offset, "s")
  /\ \/ /\ heap' = [heap EXCEPT ![target].type = "string", ![target].valuestring = TRUE]
        /\ offset' = offset + 1
        /\ pc' = "after"
        /\ UNCHANGED <<input, depth, stack, live, target, oom>>
     \/ OutOfMemory

\* Mutant: the first element's prev is left as it is.
RingedNot(head, cur) == heap
Ringed(head, cur) == IF head = NULL THEN heap ELSE [heap EXCEPT ![head].prev = cur]

\* The end of parse_array() and parse_object(), at their closing mark.
Close(kind, item, head, cur, o, d, frames) ==
  /\ heap' = [Ringed(head, cur) EXCEPT ![item].type = kind, ![item].child = head]
  /\ depth' = d - 1
  /\ offset' = o + 1
  /\ stack' = frames
  /\ target' = item
  /\ pc' = "after"
  /\ UNCHANGED <<input, live, oom>>

\* Mutant: the nesting is not counted.
TooDeepNever == FALSE
TooDeep == depth >= NestingLimit

\* The beginning of the two: an empty container ends at once.
Open(kind) ==
  /\ pc = "value"
  /\ Has(offset, Openers[kind])
  /\ IF TooDeep THEN Rejected
     ELSE LET o == SkipBlanks(offset + 1)
          IN  IF Has(o, Closers[kind])
              THEN Close(kind, target, NULL, NULL, o, depth + 1, stack)
              ELSE /\ depth' = depth + 1
                   /\ offset' = o - 1
                   /\ stack' = Append(stack, [kind |-> kind, item |-> target,
                                              head |-> NULL, cur |-> NULL])
                   /\ pc' = IF CanAccess(o) THEN "element" ELSE "fail"
                   /\ UNCHANGED <<input, heap, live, target, oom>>

ParseNothing ==
  /\ pc = "value"
  /\ ~ \E c \in {"n", "s", "[", "{"} : Has(offset, c)
  /\ Rejected

---------------------------------------------------------------------------
(* One turn of the loop over the elements: allocate, attach, and for an    *)
(* object parse the name and the colon.                                    *)
\* Mutant: the new item is not linked behind the last one.
AttachedLoose(i) == [k \in 1..i |-> IF k = i THEN New ELSE heap[k]]

Attached(i) ==
  [k \in 1..i |-> IF k = i THEN [New EXCEPT !.prev = Top.cur]
                  ELSE IF k = Top.cur THEN [heap[k] EXCEPT !.next = i]
                  ELSE heap[k]]

Element ==
  /\ pc = "element"
  /\ LET i == Len(heap) + 1
         name == SkipBlanks(offset + 1)     \* a name in an object, the value in an array
         colon == SkipBlanks(name + 1)
         grown(h) == stack' = [stack EXCEPT ![Len(stack)].cur = i,
                                            ![Len(stack)].head = IF Top.head = NULL THEN i ELSE @]
                     /\ heap' = h /\ live' = live \union {i} /\ target' = i
         bare == Attached(i)
         named == [bare EXCEPT ![i].string = TRUE]
     IN  \/ OutOfMemory
         \/ /\ Top.kind = "array"
            /\ grown(bare) /\ offset' = name /\ pc' = "value"
            /\ UNCHANGED <<input, depth, oom>>
         \/ /\ Top.kind = "object"
            /\ ~ Has(name, "s")
            /\ grown(bare) /\ offset' = name /\ Fail
            /\ UNCHANGED <<input, depth, oom>>
         \/ /\ Top.kind = "object"          \* no memory for the name
            /\ Has(name, "s")
            /\ grown(bare) /\ offset' = name /\ Fail /\ oom' = TRUE
            /\ UNCHANGED <<input, depth>>
         \/ /\ Top.kind = "object"
            /\ Has(name, "s")
            /\ ~ Has(colon, ":")
            /\ grown(named) /\ offset' = colon /\ Fail
            /\ UNCHANGED <<input, depth, oom>>
         \/ /\ Top.kind = "object"
            /\ Has(name, "s")
            /\ Has(colon, ":")
            /\ grown(named) /\ offset' = SkipBlanks(colon + 1) /\ pc' = "value"
            /\ UNCHANGED <<input, depth, oom>>

\* After a value in a container: a comma, the closing mark, or an error.
AfterElement ==
  /\ pc = "after"
  /\ stack # << >>
  /\ LET o == SkipBlanks(offset)
     IN  \/ /\ Has(o, ",")
            /\ offset' = o /\ pc' = "element"
            /\ UNCHANGED <<input, depth, stack, heap, live, target, oom>>
         \/ /\ ~ Has(o, ",")
            /\ Has(o, Closers[Top.kind])
            /\ Close(Top.kind, Top.item, Top.head, Top.cur, o, depth, Front(stack))
         \/ /\ ~ Has(o, ",") /\ ~ Has(o, Closers[Top.kind])
            /\ offset' = o /\ Fail
            /\ UNCHANGED <<input, depth, stack, heap, live, target, oom>>

\* After the root: with require_null_terminated only blanks may follow.
AfterRoot ==
  /\ pc = "after"
  /\ stack = << >>
  /\ offset' = IF strict THEN SkipBlanks(offset) ELSE offset
  /\ pc' = IF strict /\ ~ Has(offset', Nul) THEN "fail" ELSE "true"
  /\ UNCHANGED <<input, depth, stack, heap, live, target, oom>>

---------------------------------------------------------------------------
(* cJSON_Delete(): an item, what hangs below it, and what follows it.      *)
Chain(i) ==
  LET chain[j \in 0..Len(heap)] ==
        IF j = NULL THEN {} ELSE {j} \union chain[heap[j].child] \union chain[heap[j].next]
  IN  chain[i]

\* Mutant: a failed container leaves its elements behind.
UnwindKeeps ==
  /\ pc = "fail"
  /\ stack # << >>
  /\ stack' = Front(stack)
  /\ UNCHANGED <<input, offset, depth, heap, live, pc, target, oom>>

\* Every container on the way out deletes the elements it has so far.
Unwind ==
  /\ pc = "fail"
  /\ stack # << >>
  /\ live' = live \ Chain(Top.head)
  /\ stack' = Front(stack)
  /\ UNCHANGED <<input, offset, depth, heap, pc, target, oom>>

DeleteRoot ==
  /\ pc = "fail"
  /\ stack = << >>
  /\ live' = IF live = {} THEN {} ELSE live \ Chain(1)
  /\ pc' = "false"
  /\ UNCHANGED <<input, offset, depth, stack, heap, target, oom>>

Next ==
  \/ Start \/ ParseScalar \/ ParseString \/ ParseNothing
  \/ (\E kind \in {"array", "object"} : Open(kind))
  \/ Element \/ AfterElement \/ AfterRoot \/ Unwind \/ DeleteRoot

Spec == Init /\ [][Next]_vars

---------------------------------------------------------------------------
(* The reference grammar: is the text from i to j a value of at most d      *)
(* levels, or the elements of an array, or the members of an object?       *)
Blank(i, j) == \A k \in i..j : text[k] = "blank"
Grammar ==
  LET is[what \in {"value", "array", "object"}, i \in Nat, j \in Nat, d \in Nat] ==
        LET Padded(from, to) == \E a, b \in from..to : /\ Blank(from, a - 1) /\ Blank(b + 1, to)
                                                       /\ is["value", a, b, d]
            One(from, to) == IF what = "array" THEN Padded(from, to)
                             ELSE \E a, c \in from..to :
                                    /\ Blank(from, a - 1) /\ text[a] = "s"
                                    /\ a < c /\ Blank(a + 1, c - 1) /\ text[c] = ":"
                                    /\ Padded(c + 1, to)
        IN  IF what = "value"
            THEN \/ i = j /\ text[i] \in {"s", "n"}
                 \/ /\ i < j /\ d > 0
                    /\ \E kind \in {"array", "object"} :
                         /\ text[i] = Openers[kind] /\ text[j] = Closers[kind]
                         /\ Blank(i + 1, j - 1) \/ is[kind, i + 1, j - 1, d - 1]
            ELSE \/ One(i, j)
                 \/ \E c \in i..j : text[c] = "," /\ One(i, c - 1) /\ is[what, c + 1, j, d]
  IN  is
Value(i, j, d) == Grammar["value", i, j, d]

End == Len(text) - 1        \* the last cell before the zero
Accepted ==
  \E a, b \in 1..End : /\ Blank(1, a - 1) /\ Value(a, b, NestingLimit)
                       /\ strict => Blank(b + 1, End)

\* The text of an item and of what follows it, without blanks.
Unparsed(item, rest) ==
  LET text_of[i \in 0..Len(heap), more \in BOOLEAN] ==
        IF i = NULL THEN << >>
        ELSE (IF heap[i].string THEN <<"s", ":">> ELSE << >>)
             \o (CASE heap[i].type = "scalar" -> <<"n">>
                   [] heap[i].type = "string" -> <<"s">>
                   [] OTHER -> <<Openers[heap[i].type]>> \o text_of[heap[i].child, TRUE]
                               \o <<Closers[heap[i].type]>>)
             \o (IF more /\ heap[i].next # NULL THEN <<",">> \o text_of[heap[i].next, TRUE]
                 ELSE << >>)
  IN  text_of[item, rest]

(* The parser takes exactly the texts of the grammar nested no deeper than *)
(* the limit (with anything behind them unless strict), and rejects a text *)
(* of the grammar only when memory runs out.                               *)
AcceptsTheGrammar ==
  /\ pc = "true" => Accepted
  /\ pc = "false" => oom \/ ~ Accepted

(* The tree it returns says what the text says, and the nesting counter is *)
(* back at zero.                                                           *)
TreeOfTheText ==
  pc = "true" =>
    /\ Unparsed(1, FALSE) = SelectSeq(SubSeq(text, 1, offset - 1), LAMBDA c : c # "blank")
    /\ depth = 0

(* The lists it builds are the ones the other functions expect: the first  *)
(* element's prev is the last one, every other prev the element before.    *)
ListsAreRings ==
  pc = "true" =>
    \A i \in live :
      heap[i].child # NULL =>
        LET first == heap[i].child
        IN  /\ heap[first].prev \in live /\ heap[heap[first].prev].next = NULL
            /\ \A k \in live : heap[k].next # NULL => heap[heap[k].next].prev = k

(* A parse that fails, at whatever token or allocation, frees every item   *)
(* exactly once; one that succeeds returns all it allocated.               *)
NothingLeaks ==
  /\ pc = "false" => live = {}
  /\ pc = "true" => live = Chain(1) /\ live = DOMAIN heap
============================================================================
