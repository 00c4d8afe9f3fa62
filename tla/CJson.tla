------------------------------- MODULE CJson -------------------------------
(***************************************************************************)
(* The parts of src/json/cJSON.c side by side: cJSON_Minify() (CJsonMinify), *)
(* the tree functions (CJsonList), printing (CJsonPrint), parsing           *)
(* (CJsonParse) and strings (CJsonString).  A behaviour is one of one part, *)
(* fixed at the start; the variables of the others are not used.            *)
(***************************************************************************)
EXTENDS CJsonMinify, FiniteSets

CONSTANTS
    Nodes, None,             \* the items of CJsonList
    PrintItems,              \* what is printed, with the items in it
    Height,                  \* how deep items are nested in each of them
    BufferSizes,             \* sizes of the buffers callers bring
    DefaultSize, IntMax,     \* default_buffer_size of print(), INT_MAX
    ParseTexts,              \* what is parsed, as CJsonParse's cells
    NestingLimit,            \* CJSON_NESTING_LIMIT
    StringTexts              \* the string literals

ASSUME NodesAssumption == IsFiniteSet(Nodes) /\ None \notin Nodes \cup {"a", "A"}

\* An item to print is of a kind print_value() knows, or "invalid"; a container
\* holds items, and none holds itself.
ASSUME PrintItemsAssumption ==
    \A i \in PrintItems :
        /\ i.kind \in {"null", "number", "string", "empty", "array", "object", "invalid"}
        /\ i.kind \in {"array", "object"} => i.kids \in Seq(PrintItems)
ASSUME HeightAssumption ==
    /\ Height \in [PrintItems -> Nat]
    /\ \A i \in PrintItems : i.kind \in {"array", "object"} =>
          \A k \in 1..Len(i.kids) : Height[i.kids[k]] < Height[i]

\* The sizes are ints.
ASSUME SizesAssumption ==
    /\ IntMax \in Nat /\ BufferSizes \subseteq 0..IntMax
    /\ DefaultSize \in Nat \ {0}

ASSUME ParseAssumption == NestingLimit \in Nat /\ \A t \in ParseTexts : t \in Seq(STRING)

ASSUME StringTextsAssumption == \A t \in StringTexts : t.src \in Seq(0..255)

-----------------------------------------------------------------------------
VARIABLES
    part,     \* the part this behaviour is of
    next, prev, child, string, allocated, call,
    item, format, entry, size, realloc, ops, buffer, length, written, blocks, overread, printing,
    content, strict, offset, depth, stack, heap, live, pc, target, oom,
    literal, closed, inp, pos, end, room, out, first, st

listVars == <<next, prev, child, string, allocated, call>>
printVars == <<item, format, entry, size, realloc, ops, buffer, length, written, blocks,
               overread, printing>>
parseVars == <<content, strict, offset, depth, stack, heap, live, pc, target, oom>>
stringVars == <<literal, closed, inp, pos, end, room, out, first, st>>
allVars == <<part, vars, listVars, printVars, parseVars, stringVars>>

List == INSTANCE CJsonList WITH live <- allocated
Printer == INSTANCE CJsonPrint WITH
    Items <- PrintItems, Sizes <- BufferSizes,
    buf <- buffer, offset <- written, live <- blocks, st <- printing
Parser == INSTANCE CJsonParse WITH Texts <- ParseTexts, text <- content
Strings == INSTANCE CJsonString WITH Texts <- StringTexts

NoMinify ==
    /\ text = << >> /\ buf = Terminated(<< >>)
    /\ json = 1 /\ into = 1 /\ mode = "scan"
NoPrint ==
    /\ item = 0 /\ format = 0 /\ entry = 0 /\ size = 0 /\ realloc = 0 /\ ops = 0
    /\ buffer = 0 /\ length = 0 /\ written = 0 /\ blocks = 0 /\ overread = 0 /\ printing = 0
NoParse ==
    /\ content = 0 /\ strict = 0 /\ offset = 0 /\ depth = 0 /\ stack = 0
    /\ heap = 0 /\ live = 0 /\ pc = 0 /\ target = 0 /\ oom = 0
NoString ==
    /\ literal = 0 /\ closed = 0 /\ inp = 0 /\ pos = 0 /\ end = 0 /\ room = 0
    /\ out = 0 /\ first = 0 /\ st = 0

CJsonInit ==
    /\ List!Init
    /\ \/ part = "minify" /\ Init /\ NoPrint /\ NoParse /\ NoString
       \/ part = "list" /\ NoMinify /\ NoPrint /\ NoParse /\ NoString
       \/ part = "print" /\ Printer!Init /\ NoMinify /\ NoParse /\ NoString
       \/ part = "parse" /\ Parser!Init /\ NoMinify /\ NoPrint /\ NoString
       \/ part = "string" /\ Strings!Init /\ NoMinify /\ NoPrint /\ NoParse

CJsonNext ==
    \/ part = "minify" /\ Next /\ UNCHANGED <<listVars, printVars, parseVars, stringVars>>
    \/ part = "list" /\ List!Next /\ UNCHANGED <<vars, printVars, parseVars, stringVars>>
    \/ part = "print" /\ Printer!Next /\ UNCHANGED <<vars, listVars, parseVars, stringVars>>
    \/ part = "parse" /\ Parser!Next /\ UNCHANGED <<vars, listVars, printVars, stringVars>>
    \/ part = "string" /\ Strings!Next /\ UNCHANGED <<vars, listVars, printVars, parseVars>>

CJsonSpec == CJsonInit /\ [][CJsonNext /\ UNCHANGED part]_allVars

\* The last call does not matter for what may happen next.
View == <<part, vars, next, prev, child, string, allocated, printVars, parseVars, stringVars>>

-----------------------------------------------------------------------------
(* The properties, by concern; UnreadIntact and MinifiedUnlessBackslashQuote *)
(* are those of CJsonMinify.                                                *)

\* Every list ends, can be walked backwards, and finds its last item through
\* the first one's prev; no item is in two lists, or twice in one; nothing
\* points to a freed item.
ListShape == List!TypeOK /\ List!ListShape /\ List!InOneList

\* The pointer functions implement the operations on sequences.
ImplementsTree == List!ImplementsTree

\* What the caller of a print gets is the text of the item, ended by a zero,
\* however often the buffer moved; with the five bytes cJSON.h advises
\* cJSON_PrintPreallocated() succeeds; a printed string parses back.
PrintsTheText ==
    /\ part = "print" => Printer!PrintsTheText /\ Printer!FiveBytesMore
    /\ part = "string" => Strings!PrintParsesBack

\* A text is accepted exactly if the grammar has it, but for lack of memory,
\* and becomes the tree, or the string, that it stands for.
ParsesTheText ==
    /\ part = "parse" => Parser!AcceptsTheGrammar /\ Parser!TreeOfTheText
    /\ part = "string" => Strings!StringMeaning

\* Nothing is written past the block ensure() returned or the room a string was
\* measured to need, nothing unwritten is read, and the manual copy overreads
\* only with a prebuffer of 0.
StaysInside ==
    /\ part = "print" => /\ Printer!TypeOK
                         /\ Printer!WrittenInside
                         /\ Printer!MeasuresWritten
                         /\ Printer!OverreadOnlyIfEmpty
    /\ part = "string" => /\ Strings!TypeOK
                          /\ Strings!WritesWithinRoom
                          /\ Strings!PrintFillsRoom
    /\ part = "minify" => TypeOK

\* Wherever an allocation or the text fails, a print leaves one block, its
\* caller's, or none, and a parse leaves the items of its tree, in lists closed
\* as CJsonList needs them, or none.
NothingLeaks ==
    /\ part = "print" => Printer!NoLeak
    /\ part = "parse" => Parser!TypeOK /\ Parser!NothingLeaks /\ Parser!ListsAreRings
=============================================================================
