------------------------------ MODULE JsonTree ------------------------------
(***************************************************************************)
(* What the tree functions of cJSON promise: every array or object is a    *)
(* sequence of items, and a call does to the sequence what its name says   *)
(* and touches no other.  The last call is part of the state, so that an   *)
(* implementation must keep the promise of the very function called.       *)
(***************************************************************************)
EXTENDS Integers, Sequences, SequencesExt

CONSTANTS Nodes, Names, None

VARIABLES
    live,    \* allocated items
    items,   \* items[p]: the items in p, in order
    name,    \* name[i]: the key of i, or None
    call     \* the last call: the function and its arguments

tree == <<live, items, name, call>>

Init ==
    /\ live = {}
    /\ items = [p \in Nodes |-> << >>]
    /\ name = [i \in Nodes |-> None]
    /\ call = << >>

\* Names are compared with or without regard to case.
Lower(n) == IF n = "A" THEN "a" ELSE n

Root(i) == i \in live /\ \A p \in Nodes : ~Contains(items[p], i)

\* An item and all that is in it at any depth: the least set that holds i and,
\* with an item, the items in that.
Under(i) ==
    LET Holds == UNION {{<<p, items[p][k]>> : k \in 1..Len(items[p])} : p \in Nodes}
        Whole(S) == \A e \in Holds : e[1] \in S => e[2] \in S
    IN  {j \in Nodes : \A S \in SUBSET Nodes : i \in S /\ Whole(S) => j \in S}

\* The callers' part: an item is added somewhere if it is nowhere yet, and
\* never below itself.
MayAdd(p, i) == p \in live /\ Root(i) /\ p \notin Under(i)

\* Which item of p a name stands for, 0 if none: the first that has it.  A
\* search with regard to case ends at an item without a name.
Lookup(p, n, exact) ==
    LET s == items[p]
        Is(i) == IF exact THEN name[i] \in {n, None}
                          ELSE name[i] # None /\ Lower(name[i]) = Lower(n)
        k == SelectInSeq(s, Is)
    IN  IF k # 0 /\ name[s[k]] # None THEN k ELSE 0

Create(i) ==
    /\ call' = <<"Create", i>>
    /\ i \notin live
    /\ live' = live \cup {i}
    /\ UNCHANGED <<items, name>>

\* At the end, with a new name if p is an object, ...
Add(p, i, n) ==
    /\ call' = <<"Add", p, i, n>>
    /\ MayAdd(p, i)
    /\ items' = [items EXCEPT ![p] = Append(@, i)]
    /\ name' = IF n = None THEN name ELSE [name EXCEPT ![i] = n]
    /\ live' = live

\* ... or in front of item which (counted from 0), if there is one.
Insert(p, which, i) ==
    /\ call' = <<"Insert", p, which, i>>
    /\ MayAdd(p, i)
    /\ items' = [items EXCEPT ![p] = IF which < Len(@) THEN InsertAt(@, which + 1, i)
                                                       ELSE Append(@, i)]
    /\ UNCHANGED <<live, name>>

Removed(p, k) ==
    /\ k # 0
    /\ items' = [items EXCEPT ![p] = RemoveAt(@, k)]
    /\ UNCHANGED <<live, name>>

Detach(p, which) ==
    /\ call' = <<"Detach", p, which>>
    /\ which < Len(items[p])
    /\ Removed(p, which + 1)

DetachNamed(p, n, exact) ==
    /\ call' = <<"DetachNamed", p, n, exact>>
    /\ Removed(p, Lookup(p, n, exact))

\* Item k of p is deleted with what is under it, and i, named n, is there
\* instead.
Replaced(p, k, i, n) ==
    LET gone == Under(items[p][k])
    IN  /\ live' = live \ gone
        /\ items' = [j \in Nodes |-> IF j = p THEN [items[p] EXCEPT ![k] = i]
                                     ELSE IF j \in gone THEN << >> ELSE items[j]]
        /\ name' = [j \in Nodes |-> IF j = i THEN n
                                    ELSE IF j \in gone THEN None ELSE name[j]]

Replace(p, which, i) ==
    /\ call' = <<"Replace", p, which, i>>
    /\ MayAdd(p, i)
    /\ which < Len(items[p])
    /\ Replaced(p, which + 1, i, name[i])

\* A replacement gets its name even if there is nothing to replace.
ReplaceNamed(p, n, exact, i) ==
    /\ call' = <<"ReplaceNamed", p, n, exact, i>>
    /\ MayAdd(p, i)
    /\ IF Lookup(p, n, exact) = 0
         THEN name' = [name EXCEPT ![i] = n] /\ UNCHANGED <<live, items>>
         ELSE Replaced(p, Lookup(p, n, exact), i, n)

Delete(i) ==
    /\ call' = <<"Delete", i>>
    /\ Root(i)
    /\ live' = live \ Under(i)
    /\ items' = [j \in Nodes |-> IF j \in Under(i) THEN << >> ELSE items[j]]
    /\ name' = [j \in Nodes |-> IF j \in Under(i) THEN None ELSE name[j]]

Next ==
    \/ \E i \in Nodes : Create(i) \/ Delete(i)
    \/ \E p \in live :
          \/ \E which \in 0..Len(items[p]) : Detach(p, which)
          \/ \E n \in Names, exact \in BOOLEAN : DetachNamed(p, n, exact)
    \/ \E p, i \in live :
          \/ \E n \in Names \cup {None} : Add(p, i, n)
          \/ \E which \in 0..Len(items[p]) : Insert(p, which, i) \/ Replace(p, which, i)
          \/ \E n \in Names, exact \in BOOLEAN : ReplaceNamed(p, n, exact, i)

Spec == Init /\ [][Next]_tree
=============================================================================
