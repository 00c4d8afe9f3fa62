----------------------------- MODULE CJsonList -----------------------------
(***************************************************************************)
(* The tree functions of src/json/cJSON.c on their pointers.  The items of *)
(* an array or object are a list by next, ended by NULL; prev points back, *)
(* and that of the first item to the last, so that an item is appended     *)
(* without a walk.                                                         *)
(*                                                                         *)
(* An item is a member of Nodes; memory is never short.  Callers add an    *)
(* item that is in no list, never below itself.  References to items       *)
(* (cJSON_IsReference), which the program does not use, are left out.      *)
(***************************************************************************)
EXTENDS Integers, Sequences, FiniteSets

CONSTANTS Nodes, None

Names == {"a", "A"}

VARIABLES
    next, prev, child,  \* the pointers
    string,             \* the key
    live,               \* allocated
    call                \* history: the last call

vars == <<next, prev, child, string, live, call>>

Pointer == Nodes \cup {None}

Init ==
    /\ next = [i \in Nodes |-> None] /\ prev = [i \in Nodes |-> None]
    /\ child = [i \in Nodes |-> None]
    /\ string = [i \in Nodes |-> None]
    /\ live = {}
    /\ call = << >>

-----------------------------------------------------------------------------
(* Reading.                                                                 *)

\* get_array_item(): the item a number of steps after the first, or None.
Follow(i) == IF i = None THEN None ELSE next[i]
get_array_item(p, which) ==
    LET at[k \in 0..which] == IF k = 0 THEN child[p] ELSE Follow(at[k - 1])
    IN  at[which]

\* cJSON_GetArraySize() counts along next to the end of the list; Bound is more
\* than any list can hold.
Bound == Cardinality(Nodes) + 1
GetArraySize(p) ==
    CHOOSE n \in 0..Bound : /\ n = Bound \/ get_array_item(p, n) = None
                            /\ \A k \in 0..(n - 1) : get_array_item(p, k) # None

\* The list of p.
Items(p) == [k \in 1..GetArraySize(p) |-> get_array_item(p, k - 1)]

Lower(n) == IF n = "A" THEN "a" ELSE n

\* get_object_item().  case_insensitive_strcmp() finds NULL different from
\* every name; strcmp() is not called for it, and the search ends.
Stops(i, n, exact) ==
    \/ i = None
    \/ IF string[i] = None THEN exact
       ELSE IF exact THEN string[i] = n ELSE Lower(string[i]) = Lower(n)
get_object_item(p, n, exact) ==
    LET stop == CHOOSE k \in 0..Bound :
                  /\ k = Bound \/ Stops(get_array_item(p, k), n, exact)
                  /\ \A j \in 0..(k - 1) : ~Stops(get_array_item(p, j), n, exact)
        i == get_array_item(p, stop)
    IN  IF i = None \/ string[i] = None THEN None ELSE i

\* What cJSON_Delete() frees: an item, what is under it and its successors; the
\* least set that holds i and, with an item, its child and next.
Chained(S) == \A j \in S \cap Nodes : child[j] \in S /\ next[j] \in S
Chain(i) == {j \in Nodes : \A S \in SUBSET Pointer : i \in S /\ Chained(S) => j \in S}

-----------------------------------------------------------------------------
(* Writing: the assignments to the pointers, in the order of the code.      *)

\* add_item_to_array() and suffix_object().
add_item_to_array(p, i) ==
    IF child[p] = None
      THEN /\ child' = [child EXCEPT ![p] = i]
           /\ prev' = [prev EXCEPT ![i] = i]
           /\ next' = [next EXCEPT ![i] = None]
      ELSE LET last == prev[child[p]]
           IN  /\ next' = [next EXCEPT ![last] = i]
               /\ prev' = [prev EXCEPT ![i] = last, ![child[p]] = i]
               /\ UNCHANGED child

\* cJSON_DetachItemViaPointer().
DetachKeepsLast(p, i) ==                \* slip: the last item is not one of its own
    /\ next' = [j \in Nodes |-> CASE j = i -> None
                                  [] i # child[p] /\ j = prev[i] -> next[i]
                                  [] OTHER -> next[j]]
    /\ prev' = [j \in Nodes |-> CASE j = i -> None
                                  [] j = next[i] -> prev[i]
                                  [] OTHER -> prev[j]]
    /\ child' = IF i = child[p] THEN [child EXCEPT ![p] = next[i]] ELSE child
DetachKeepsNext(p, i) ==                \* slip: item->next is not cleared
    /\ next' = [j \in Nodes |-> IF i # child[p] /\ j = prev[i] THEN next[i] ELSE next[j]]
    /\ prev' = [j \in Nodes |-> CASE j = i -> None
                                  [] j = next[i] -> prev[i]
                                  [] i # child[p] /\ next[i] = None /\ j = child[p] -> prev[i]
                                  [] OTHER -> prev[j]]
    /\ child' = IF i = child[p] THEN [child EXCEPT ![p] = next[i]] ELSE child
DetachItemViaPointer(p, i) ==
    /\ next' = [j \in Nodes |-> CASE j = i -> None
                                  [] i # child[p] /\ j = prev[i] -> next[i]
                                  [] OTHER -> next[j]]
    /\ prev' = [j \in Nodes |-> CASE j = i -> None
                                  [] j = next[i] -> prev[i]
                                  [] i # child[p] /\ next[i] = None /\ j = child[p] -> prev[i]
                                  [] OTHER -> prev[j]]
    /\ child' = IF i = child[p] THEN [child EXCEPT ![p] = next[i]] ELSE child

\* cJSON_InsertItemInArray() in front of item after.
InsertAlwaysFirst(p, after, i) ==       \* slip: the first item is not told apart
    /\ prev' = [prev EXCEPT ![i] = prev[after], ![after] = i]
    /\ child' = [child EXCEPT ![p] = i]
    /\ next' = [next EXCEPT ![i] = after]
InsertBefore(p, after, i) ==
    /\ prev' = [prev EXCEPT ![i] = prev[after], ![after] = i]
    /\ IF after = child[p]
         THEN /\ child' = [child EXCEPT ![p] = i]
              /\ next' = [next EXCEPT ![i] = after]
         ELSE /\ next' = [next EXCEPT ![i] = after, ![prev[after]] = i]
              /\ UNCHANGED child

\* cJSON_ReplaceItemViaPointer(): r is linked in place of i, and i deleted.
ReplacePrev(p, i, r) ==
    LET only == child[p] = i /\ prev[i] = i
        last == child[p] # i /\ next[i] = None
    IN  [prev EXCEPT ![r] = IF only THEN r ELSE prev[i],
                     ![IF next[i] = None THEN r ELSE next[i]] = IF next[i] = None THEN @ ELSE r,
                     ![IF last THEN child[p] ELSE r] = IF last THEN r ELSE @]
ReplaceKeepsChild(p, i, r) ==           \* slip: parent->child stays
    LET gone == {i} \cup Chain(child[i])
    IN  /\ prev' = [j \in Nodes |-> IF j \in gone THEN None ELSE ReplacePrev(p, i, r)[j]]
        /\ next' = [j \in Nodes |-> CASE j \in gone -> None
                                      [] j = r -> next[i]
                                      [] child[p] # i /\ j = prev[i] -> r
                                      [] OTHER -> next[j]]
        /\ child' = [j \in Nodes |-> IF j \in gone THEN None ELSE child[j]]
        /\ live' = live \ gone
ReplaceItemViaPointer(p, i, r) ==
    LET gone == {i} \cup Chain(child[i])
    IN  /\ prev' = [j \in Nodes |-> IF j \in gone THEN None ELSE ReplacePrev(p, i, r)[j]]
        /\ next' = [j \in Nodes |-> CASE j \in gone -> None
                                      [] j = r -> next[i]
                                      [] child[p] # i /\ j = prev[i] -> r
                                      [] OTHER -> next[j]]
        /\ child' = [j \in Nodes |-> CASE j \in gone -> None
                                       [] j = p /\ child[p] = i -> r
                                       [] OTHER -> child[j]]
        /\ live' = live \ gone

-----------------------------------------------------------------------------
(* The functions of the interface.                                          *)

Tree == INSTANCE JsonTree WITH items <- [p \in Nodes |-> Items(p)], name <- string

\* The callers' part: an item they add is in no list yet, and not added below
\* itself.
MayAdd(p, i) == Tree!MayAdd(p, i)

\* cJSON_CreateObject() and the others.
Create(i) ==
    /\ i \notin live
    /\ live' = live \cup {i}
    /\ call' = <<"Create", i>>
    /\ UNCHANGED <<next, prev, child, string>>

\* cJSON_AddItemToArray(), or with a name cJSON_AddItemToObject().
Add(p, i, n) ==
    /\ add_item_to_array(p, i)
    /\ string' = IF n = None THEN string ELSE [string EXCEPT ![i] = n]
    /\ call' = <<"Add", p, i, n>>
    /\ UNCHANGED live

InsertItemInArray(p, which, i) ==
    /\ IF get_array_item(p, which) = None
         THEN add_item_to_array(p, i)
         ELSE InsertBefore(p, get_array_item(p, which), i)
    /\ call' = <<"Insert", p, which, i>>
    /\ UNCHANGED <<string, live>>

DetachItemFromArray(p, which) ==
    /\ get_array_item(p, which) # None
    /\ DetachItemViaPointer(p, get_array_item(p, which))
    /\ call' = <<"Detach", p, which>>
    /\ UNCHANGED <<string, live>>

DetachItemFromObject(p, n, exact) ==
    /\ get_object_item(p, n, exact) # None
    /\ DetachItemViaPointer(p, get_object_item(p, n, exact))
    /\ call' = <<"DetachNamed", p, n, exact>>
    /\ UNCHANGED <<string, live>>

ReplaceItemInArray(p, which, i) ==
    /\ get_array_item(p, which) # None
    /\ ReplaceItemViaPointer(p, get_array_item(p, which), i)
    /\ string' = [j \in Nodes |-> IF j \in live' THEN string[j] ELSE None]
    /\ call' = <<"Replace", p, which, i>>

\* replace_item_in_object() names the replacement before it searches.
ReplaceItemInObject(p, n, exact, i) ==
    /\ IF get_object_item(p, n, exact) = None
         THEN UNCHANGED <<next, prev, child, live>>
         ELSE ReplaceItemViaPointer(p, get_object_item(p, n, exact), i)
    /\ string' = [j \in Nodes |-> IF j = i THEN n
                                  ELSE IF j \in live' THEN string[j] ELSE None]
    /\ call' = <<"ReplaceNamed", p, n, exact, i>>

\* cJSON_Delete() of an item that is in no list.
Delete(i) ==
    /\ Tree!Root(i)
    /\ live' = live \ Chain(i)
    /\ LET Kept(f) == [j \in Nodes |-> IF j \in Chain(i) THEN None ELSE f[j]]
       IN  /\ next' = Kept(next) /\ prev' = Kept(prev) /\ child' = Kept(child)
           /\ string' = Kept(string)
    /\ call' = <<"Delete", i>>

-----------------------------------------------------------------------------
Next ==
    \/ \E i \in Nodes : Create(i) \/ Delete(i)
    \/ \E p \in live :
          \/ \E which \in 0..Len(Items(p)) : DetachItemFromArray(p, which)
          \/ \E n \in Names, exact \in BOOLEAN : DetachItemFromObject(p, n, exact)
    \/ \E p, i \in live :
          /\ MayAdd(p, i)
          /\ \/ \E n \in Names \cup {None} : Add(p, i, n)
             \/ \E which \in 0..Len(Items(p)) :
                   InsertItemInArray(p, which, i) \/ ReplaceItemInArray(p, which, i)
             \/ \E n \in Names, exact \in BOOLEAN : ReplaceItemInObject(p, n, exact, i)

Spec == Init /\ [][Next]_vars

\* The last call does not matter for what may happen next.
View == <<next, prev, child, string, live>>

-----------------------------------------------------------------------------
(* Properties.                                                              *)

\* Pointers point to items or nowhere, and nothing points to a freed item.
TypeOK ==
    /\ live \subseteq Nodes
    /\ \A i \in Nodes : {next[i], prev[i], child[i]} \subseteq live \cup {None}
    /\ \A i \in Nodes : string[i] \in Names \cup {None}
    /\ \A i \in Nodes \ live : next[i] = None /\ prev[i] = None /\ child[i] = None

\* Every list ends, can be walked backwards, and finds its last item through
\* the first one's prev, whatever was inserted, detached or replaced at its
\* ends before.
ListShape ==
    \A p \in live :
        LET s == Items(p)
        IN  /\ Len(s) =< Cardinality(Nodes)
            /\ \A k \in 2..Len(s) : prev[s[k]] = s[k - 1]
            /\ s # << >> => prev[s[1]] = s[Len(s)]

\* No item is in two lists, or twice in one.
InOneList ==
    \A p, q \in live : \A j \in 1..Len(Items(p)), k \in 1..Len(Items(q)) :
        Items(p)[j] = Items(q)[k] => p = q /\ j = k

\* The pointer functions implement the operations on sequences that they
\* stand for.
ImplementsTree == Tree!Spec
=============================================================================
