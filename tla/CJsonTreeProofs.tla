-------------------------- MODULE CJsonTreeProofs ---------------------------
(***************************************************************************)
(* Proofs about the tree functions of cJSON, for any set of items: the     *)
(* pointer functions keep the shape of the lists, and implement the         *)
(* operations of JsonTree on plain sequences.  The invariant, Represents,   *)
(* says which sequences the pointers stand for.  And about printing a tree: *)
(* the print stays in its buffer, leaks nothing and gives the item's text.  *)
(***************************************************************************)
EXTENDS CJson, SequenceTheorems, FiniteSetTheorems, FunctionTheorems,
        WellFoundedInduction, TLAPS

\* Every nonempty set of naturals has a least element.
LEMMA LeastNatural ==
  ASSUME NEW S, S \subseteq Nat, S # {}
  PROVE  \E m \in S : \A k \in S : m <= k
<1> DEFINE R == OpToRel(<, Nat)
<1>1. IsWellFoundedOn(R, Nat) BY NatLessThanWellFounded
<1>2. \A a, b \in Nat : a < b => <<a, b>> \in R BY DEF OpToRel
<1> HIDE DEF R
<1>3. \E x \in S : \A y \in S : ~ (<<y, x>> \in R) BY <1>1, WFMin
<1>4. PICK x \in S : \A y \in S : ~ (<<y, x>> \in R) BY <1>3
<1>5. ASSUME NEW y \in S PROVE x <= y
  <2>1. x \in Nat /\ y \in Nat OBVIOUS
  <2>2. ~ (<<y, x>> \in R) BY <1>4
  <2>3. ~ (y < x) BY <1>2, <2>1, <2>2
  <2> QED BY <2>1, <2>3
<1> QED BY <1>5

\* Induction over the naturals, for a set in place of a predicate.
LEMMA SetInduction ==
  ASSUME NEW P, 0 \in P, \A n \in Nat : n \in P => n + 1 \in P
  PROVE  Nat \subseteq P
<1> SUFFICES ASSUME Nat \ P # {} PROVE FALSE OBVIOUS
<1>1. PICK m \in Nat \ P : \A k \in Nat \ P : m <= k BY LeastNatural
<1>2. m # 0 /\ m - 1 \in Nat OBVIOUS
<1>3. m - 1 \in P BY <1>1, <1>2
<1> QED BY <1>2, <1>3

\* A loop over n turns, each of which is a function of the last one's result,
\* has a result after every turn.
Turns(F, S) == F \in [Nat -> [S -> S]]

\* f[k] is what x has become after the first k functions of F.
Results(f, n, S, x, F) ==
  f \in [0..n -> S] /\ f[0] = x /\ \A k \in 1..n : f[k] = F[k][f[k - 1]]

\* Applying finitely many functions one after the other has a result after
\* each.
LEMMA Iterates ==
  ASSUME NEW S, NEW x \in S, NEW F, Turns(F, S), NEW n \in Nat
  PROVE  \E f : Results(f, n, S, x, F)
<1> DEFINE P == {m \in Nat : \E f : Results(f, m, S, x, F)}
<1>1. 0 \in P
  <2>1. Results([k \in 0..0 |-> x], 0, S, x, F) BY DEF Results
  <2> QED BY <2>1
<1>2. ASSUME NEW m \in Nat, m \in P PROVE m + 1 \in P
  <2>1. PICK f : Results(f, m, S, x, F) BY <1>2
  <2> DEFINE g == [k \in 0..(m + 1) |-> IF k = m + 1 THEN F[m + 1][f[m]] ELSE f[k]]
  <2>2. F[m + 1][f[m]] \in S BY <2>1 DEF Results, Turns
  <2>3. g \in [0..(m + 1) -> S] BY <2>1, <2>2 DEF Results
  <2>4. \A k \in 0..m : g[k] = f[k] OBVIOUS
  <2>5. g[m + 1] = F[m + 1][g[m]] OBVIOUS
  <2> HIDE DEF g
  <2>6. ASSUME NEW k \in 1..(m + 1) PROVE g[k] = F[k][g[k - 1]]
    <3>1. CASE k = m + 1 BY <2>5, <3>1
    <3>2. CASE k \in 1..m
      <4>1. k \in 0..m /\ k - 1 \in 0..m BY <3>2
      <4> QED BY <2>1, <2>4, <3>2, <4>1 DEF Results
    <3> QED BY <3>1, <3>2
  <2>7. Results(g, m + 1, S, x, F) BY <2>1, <2>3, <2>4, <2>6 DEF Results
  <2> QED BY <2>7
<1> HIDE DEF P
<1>3. Nat \subseteq P BY <1>1, <1>2, SetInduction
<1>4. n \in P BY <1>3
<1> QED BY <1>4 DEF P

-----------------------------------------------------------------------------
(* Walking along the links.                                                *)

\* get_array_item() with the pointers as parameters.
Walks(nx, head, w, f) ==
  f = [k \in 0..w |-> IF k = 0 THEN head ELSE IF f[k - 1] = None THEN None ELSE nx[f[k - 1]]]

\* The item w links after head: the loop of get_array_item(), for links nx.
AtOf(nx, head, w) == (CHOOSE f : Walks(nx, head, w, f))[w]

\* get_array_item() follows the links from the container's child, now and
\* after a step.
LEMMA AtOfIs ==
  \A p \in Nodes, w \in Nat :
    /\ List!get_array_item(p, w) = AtOf(next, child[p], w)
    /\ List!get_array_item(p, w)' = AtOf(next', child'[p], w)
BY DEF List!get_array_item, List!Follow, AtOf, Walks

\* The loop of get_array_item() has a position after every turn.
LEMMA WalkExists ==
  ASSUME NEW nx \in [Nodes -> List!Pointer], NEW head \in List!Pointer, NEW w \in Nat
  PROVE  \E f \in [0..w -> List!Pointer] : Walks(nx, head, w, f)
<1> DEFINE S == List!Pointer
           F == [k \in Nat |-> [i \in S |-> IF i = None THEN None ELSE nx[i]]]
<1>1. Turns(F, S) BY DEF List!Pointer, Turns
<1>2. \A k \in Nat, i \in S : F[k][i] = IF i = None THEN None ELSE nx[i] OBVIOUS
<1> HIDE DEF F
<1>3. PICK f : Results(f, w, S, head, F)
  <2>1. head \in S OBVIOUS
  <2> HIDE DEF S
  <2> QED BY <1>1, <2>1, Iterates
<1>4. \A k \in 1..w : f[k] = IF f[k - 1] = None THEN None ELSE nx[f[k - 1]]
  <2> SUFFICES ASSUME NEW k \in 1..w
               PROVE  f[k] = IF f[k - 1] = None THEN None ELSE nx[f[k - 1]]
    OBVIOUS
  <2>1. k \in Nat /\ k - 1 \in 0..w /\ f[k - 1] \in S BY <1>3 DEF Results
  <2> QED BY <1>2, <1>3, <2>1 DEF Results
<1>5. \A k \in 0..w : f[k] = IF k = 0 THEN head
                             ELSE IF f[k - 1] = None THEN None ELSE nx[f[k - 1]]
  BY <1>3, <1>4 DEF Results
<1>6. Walks(nx, head, w, f) BY <1>3, <1>5 DEF Walks, Results
<1> QED BY <1>3, <1>6 DEF Results

\* Walks of different length agree as far as both go.
LEMMA WalksAgree ==
  ASSUME NEW nx, NEW head, NEW w \in Nat, NEW v \in Nat, NEW f, NEW g,
         Walks(nx, head, w, f), Walks(nx, head, v, g)
  PROVE  \A k \in Nat : k <= w /\ k <= v => f[k] = g[k]
<1> DEFINE P == {k \in Nat : k <= w /\ k <= v => f[k] = g[k]}
<1>0. /\ \A k \in 0..w : f[k] = IF k = 0 THEN head
                               ELSE IF f[k - 1] = None THEN None ELSE nx[f[k - 1]]
      /\ \A k \in 0..v : g[k] = IF k = 0 THEN head
                               ELSE IF g[k - 1] = None THEN None ELSE nx[g[k - 1]]
  BY DEF Walks
<1>1. 0 \in P BY <1>0
<1>2. ASSUME NEW k \in Nat, k \in P PROVE k + 1 \in P
  <2> SUFFICES ASSUME k + 1 <= w, k + 1 <= v PROVE f[k + 1] = g[k + 1] OBVIOUS
  <2>1. f[k] = g[k] BY <1>2
  <2>2. k + 1 \in 0..w /\ k + 1 \in 0..v /\ k + 1 # 0 /\ (k + 1) - 1 = k OBVIOUS
  <2> QED BY <1>0, <2>1, <2>2
<1> HIDE DEF P
<1>3. Nat \subseteq P BY <1>1, <1>2, SetInduction
<1> QED BY <1>3 DEF P

\* One turn of get_array_item() follows one link, and stays at the end of the
\* list.
LEMMA AtOfSteps ==
  ASSUME NEW nx \in [Nodes -> List!Pointer], NEW head \in List!Pointer
  PROVE  /\ AtOf(nx, head, 0) = head
         /\ \A k \in Nat : /\ AtOf(nx, head, k) \in List!Pointer
                           /\ AtOf(nx, head, k + 1) = IF AtOf(nx, head, k) = None THEN None
                                                       ELSE nx[AtOf(nx, head, k)]
<1> DEFINE W(w) == CHOOSE f : Walks(nx, head, w, f)
<1>1. \A w \in Nat : Walks(nx, head, w, W(w)) BY WalkExists
<1>2. \A w \in Nat : AtOf(nx, head, w) = W(w)[w] BY DEF AtOf
<1> HIDE DEF W
<1>3. \A w \in Nat : W(w)[w] \in List!Pointer
  <2> TAKE w \in Nat
  <2>1. PICK f \in [0..w -> List!Pointer] : Walks(nx, head, w, f) BY WalkExists
  <2>2. f[w] = W(w)[w] BY <1>1, <2>1, WalksAgree
  <2> QED BY <2>2
<1>4. W(0)[0] = head
  <2>1. Walks(nx, head, 0, W(0)) BY <1>1
  <2> QED BY <2>1 DEF Walks
<1>5. ASSUME NEW k \in Nat PROVE W(k + 1)[k + 1] = IF W(k)[k] = None THEN None ELSE nx[W(k)[k]]
  <2>1. k + 1 \in Nat OBVIOUS
  <2>2. Walks(nx, head, k + 1, W(k + 1)) /\ Walks(nx, head, k, W(k)) BY <1>1, <2>1
  <2>3. W(k + 1)[k] = W(k)[k] BY <2>1, <2>2, WalksAgree
  <2>4. k + 1 \in 0..(k + 1) /\ k + 1 # 0 /\ (k + 1) - 1 = k OBVIOUS
  <2>5. \A j \in 0..(k + 1) : W(k + 1)[j] = IF j = 0 THEN head
            ELSE IF W(k + 1)[j - 1] = None THEN None ELSE nx[W(k + 1)[j - 1]]
    BY <2>2 DEF Walks
  <2>6. W(k + 1)[k + 1] = IF W(k + 1)[k] = None THEN None ELSE nx[W(k + 1)[k]]
    BY <2>4, <2>5
  <2> QED BY <2>3, <2>6
<1>6. \A k \in Nat : k + 1 \in Nat OBVIOUS
<1> QED BY <1>2, <1>3, <1>4, <1>5, <1>6

\* The bound of the walks is more than there are items.
LEMMA BoundIs ==
  List!Bound = Cardinality(Nodes) + 1 /\ Cardinality(Nodes) \in Nat /\ List!Bound' = List!Bound
<1>1. List!Cardinality(Nodes) = Cardinality(Nodes) BY DEF List!Cardinality, Cardinality
<1>2. Cardinality(Nodes) \in Nat BY NodesAssumption, FS_CardinalityType
<1> QED BY <1>1, <1>2 DEF List!Bound

\* The number of items cJSON_GetArraySize() counts from head, at most Bound.
SizeOf(nx, head) ==
  CHOOSE n \in 0..List!Bound : /\ n = List!Bound \/ AtOf(nx, head, n) = None
                               /\ \A k \in 0..(n - 1) : AtOf(nx, head, k) # None

\* The items of the list that begins at head.
ItemsOf(nx, head) == [k \in 1..SizeOf(nx, head) |-> AtOf(nx, head, k - 1)]

\* A container's items are the walk along its links, now and after a step.
LEMMA ItemsOfIs ==
  ASSUME NEW p \in Nodes
  PROVE  /\ List!Items(p) = ItemsOf(next, child[p])
         /\ List!Items(p)' = ItemsOf(next', child'[p])
<1>0. List!Bound \in Nat /\ List!Bound' = List!Bound
  BY BoundIs
<1>1. List!GetArraySize(p) = SizeOf(next, child[p])
  <2>1. \A n \in 0..List!Bound : List!get_array_item(p, n) = AtOf(next, child[p], n)
    BY <1>0, AtOfIs
  <2>2. \A n \in 0..List!Bound : \A k \in 0..(n - 1) : k \in 0..List!Bound BY <1>0
  <2>3. \A n \in 0..List!Bound :
          (/\ n = List!Bound \/ List!get_array_item(p, n) = None
           /\ \A k \in 0..(n - 1) : List!get_array_item(p, k) # None)
          <=> (/\ n = List!Bound \/ AtOf(next, child[p], n) = None
               /\ \A k \in 0..(n - 1) : AtOf(next, child[p], k) # None)
    BY <2>1, <2>2
  <2> QED BY <2>3 DEF List!GetArraySize, SizeOf
<1>2. List!GetArraySize(p)' = SizeOf(next', child'[p])
  <2>1. \A n \in 0..List!Bound : List!get_array_item(p, n)' = AtOf(next', child'[p], n)
    BY <1>0, AtOfIs
  <2>2. \A n \in 0..List!Bound : \A k \in 0..(n - 1) : k \in 0..List!Bound BY <1>0
  <2>3. \A n \in 0..List!Bound :
          (/\ n = List!Bound \/ List!get_array_item(p, n)' = None
           /\ \A k \in 0..(n - 1) : List!get_array_item(p, k)' # None)
          <=> (/\ n = List!Bound \/ AtOf(next', child'[p], n) = None
               /\ \A k \in 0..(n - 1) : AtOf(next', child'[p], k) # None)
    BY <2>1, <2>2
  <2> QED BY <1>0, <2>3 DEF List!GetArraySize, SizeOf
<1> QED BY <1>1, <1>2, AtOfIs DEF List!Items, ItemsOf

\* No item occurs twice.
Distinct(s) == \A j, k \in 1..Len(s) : s[j] = s[k] => j = k

\* Following nx runs through s and ends at its last item.
Along(nx, s) == \A k \in 1..Len(s) : nx[s[k]] = IF k = Len(s) THEN None ELSE s[k + 1]

\* The first item of a list, None for an empty one: what a child pointer
\* holds.
HeadOf(s) == IF Len(s) = 0 THEN None ELSE s[1]

\* A list without repetitions is no longer than there are items.
LEMMA ListBound ==
  ASSUME NEW s \in Seq(Nodes), Distinct(s)
  PROVE  Len(s) \in Nat /\ Cardinality(Nodes) \in Nat /\ Len(s) <= Cardinality(Nodes)
<1>1. Len(s) \in Nat /\ s \in [1..Len(s) -> Nodes] OBVIOUS
<1>2. s \in Injection(1..Len(s), Nodes) BY <1>1 DEF Injection, IsInjective, Distinct
<1>3. Cardinality(1..Len(s)) <= Cardinality(Nodes) BY <1>2, FS_Injection, NodesAssumption
<1>4. Cardinality(1..Len(s)) = Len(s) BY <1>1, FS_Interval
<1> QED BY <1>1, <1>3, <1>4, FS_CardinalityType, NodesAssumption

\* Walking along the links of s, from its head, visits exactly s.
LEMMA ListWalk ==
  ASSUME NEW nx \in [Nodes -> List!Pointer], NEW s \in Seq(Nodes), Distinct(s), Along(nx, s)
  PROVE  /\ \A k \in Nat : AtOf(nx, HeadOf(s), k) = IF k < Len(s) THEN s[k + 1] ELSE None
         /\ ItemsOf(nx, HeadOf(s)) = s
<1> DEFINE Spot(k) == AtOf(nx, HeadOf(s), k)
           P == {k \in Nat : Spot(k) = IF k < Len(s) THEN s[k + 1] ELSE None}
<1>0. Len(s) \in Nat /\ Len(s) <= Cardinality(Nodes) /\ Cardinality(Nodes) \in Nat BY ListBound
<1>1. HeadOf(s) \in List!Pointer
  BY <1>0 DEF HeadOf, List!Pointer
<1>2. /\ Spot(0) = HeadOf(s)
      /\ \A k \in Nat : Spot(k + 1) = IF Spot(k) = None THEN None ELSE nx[Spot(k)]
  BY <1>1, AtOfSteps
<1>n. \A k \in 1..Len(s) : s[k] \in Nodes /\ s[k] # None BY NodesAssumption
<1> HIDE DEF Spot
<1>3. 0 \in P
  <2>1. Spot(0) = IF Len(s) = 0 THEN None ELSE s[1] BY <1>2 DEF HeadOf
  <2>2. Spot(0) = IF 0 < Len(s) THEN s[0 + 1] ELSE None BY <1>0, <2>1
  <2> QED BY <2>2
<1>4. ASSUME NEW k \in Nat, k \in P PROVE k + 1 \in P
  <2>1. Spot(k) = IF k < Len(s) THEN s[k + 1] ELSE None BY <1>4
  <2>2. CASE k < Len(s)
    <3>1. k + 1 \in 1..Len(s) BY <1>0, <2>2
    <3>2. Spot(k + 1) = nx[s[k + 1]] BY <1>2, <1>n, <2>1, <2>2, <3>1
    <3>3. nx[s[k + 1]] = IF k + 1 = Len(s) THEN None ELSE s[k + 1 + 1] BY <3>1 DEF Along
    <3> QED BY <1>0, <2>2, <3>1, <3>2, <3>3
  <2>3. CASE ~ (k < Len(s)) BY <1>0, <1>2, <2>1, <2>3
  <2> QED BY <2>2, <2>3
<1> HIDE DEF P
<1>5. Nat \subseteq P BY <1>3, <1>4, SetInduction
<1>6. \A k \in Nat : Spot(k) = IF k < Len(s) THEN s[k + 1] ELSE None BY <1>5 DEF P
<1>7. SizeOf(nx, HeadOf(s)) = Len(s)
  <2> DEFINE Is(n) == /\ n = List!Bound \/ Spot(n) = None
                      /\ \A k \in 0..(n - 1) : Spot(k) # None
  <2>1. Len(s) \in 0..List!Bound BY <1>0, BoundIs
  <2>2. Is(Len(s))
    <3>1. Spot(Len(s)) = None BY <1>0, <1>6
    <3>2. \A k \in 0..(Len(s) - 1) : Spot(k) # None BY <1>0, <1>6, <1>n
    <3> QED BY <3>1, <3>2
  <2>3. ASSUME NEW n \in 0..List!Bound, Is(n) PROVE n = Len(s)
    <3>0. List!Bound = Cardinality(Nodes) + 1 /\ n \in Nat BY <1>0, BoundIs
    <3>1. ~ (n < Len(s))
      <4> SUFFICES ASSUME n < Len(s) PROVE FALSE OBVIOUS
      <4>1. Spot(n) = s[n + 1] /\ n + 1 \in 1..Len(s) BY <1>0, <1>6, <3>0
      <4>2. n # List!Bound BY <1>0, <3>0
      <4> QED BY <1>n, <2>3, <4>1, <4>2
    <3>2. ~ (n > Len(s))
      <4> SUFFICES ASSUME n > Len(s) PROVE FALSE OBVIOUS
      <4>1. Len(s) \in 0..(n - 1) BY <1>0, <3>0
      <4> QED BY <1>0, <1>6, <2>3, <4>1
    <3> QED BY <1>0, <3>0, <3>1, <3>2
  <2>4. SizeOf(nx, HeadOf(s)) = CHOOSE n \in 0..List!Bound : Is(n) BY DEF SizeOf, Spot
  <2> HIDE DEF Is
  <2> QED BY <2>1, <2>2, <2>3, <2>4
<1>8. ItemsOf(nx, HeadOf(s)) = s
  <2>1. ItemsOf(nx, HeadOf(s)) = [k \in 1..Len(s) |-> Spot(k - 1)] BY <1>7 DEF ItemsOf, Spot
  <2>2. \A k \in 1..Len(s) : Spot(k - 1) = s[k] BY <1>0, <1>6
  <2>3. s = [k \in 1..Len(s) |-> s[k]] OBVIOUS
  <2> QED BY <2>1, <2>2, <2>3
<1> QED BY <1>6, <1>8 DEF Spot

-----------------------------------------------------------------------------
(* What it means that pointers represent lists, and that relinking one list *)
(* leaves the others alone.                                                *)

\* Container p holds item j.
Holds(f, p, j) == \E k \in 1..Len(f[p]) : f[p][k] = j

\* No container holds item i.
Free(f, i) == \A p \in Nodes : ~ Holds(f, p, i)

\* Every item's prev is the item before it, the first one's is the last item.
Back(pv, s) == \A k \in 1..Len(s) : pv[s[k]] = IF k = 1 THEN s[Len(s)] ELSE s[k - 1]

\* No item is in two lists, or twice in one.
Once(f) == \A p, q \in Nodes : \A j \in 1..Len(f[p]), k \in 1..Len(f[q]) :
             f[p][j] = f[q][k] => p = q /\ j = k

\* The pointers next, prev and child represent the lists f: the representation
\* invariant of cJSON's trees.
Represents(nx, pv, ch, f) ==
  /\ nx \in [Nodes -> List!Pointer]
  /\ pv \in [Nodes -> List!Pointer]
  /\ ch \in [Nodes -> List!Pointer]
  /\ f \in [Nodes -> Seq(Nodes)]
  /\ Once(f)
  /\ \A p \in Nodes : ch[p] = HeadOf(f[p])
  /\ \A p \in Nodes : Along(nx, f[p])
  /\ \A p \in Nodes : Back(pv, f[p])
  /\ \A i \in Nodes : Free(f, i) => nx[i] = None /\ pv[i] = None

\* The lists that are represented are the ones that are read.
LEMMA ItemsAre ==
  ASSUME NEW nx, NEW pv, NEW ch, NEW f, Represents(nx, pv, ch, f), NEW p \in Nodes
  PROVE  /\ ItemsOf(nx, ch[p]) = f[p]
         /\ \A k \in Nat : AtOf(nx, ch[p], k) = IF k < Len(f[p]) THEN f[p][k + 1] ELSE None
<1>1. f[p] \in Seq(Nodes) /\ Along(nx, f[p]) /\ ch[p] = HeadOf(f[p]) /\ nx \in [Nodes -> List!Pointer]
  BY DEF Represents
<1>2. Distinct(f[p]) BY DEF Represents, Once, Distinct
<1> QED BY <1>1, <1>2, ListWalk

\* One list changes, to s, and the pointers of its old and new items with it.
Changes(nx, pv, ch, f, nx2, pv2, ch2, p, s) ==
  /\ nx2 \in [Nodes -> List!Pointer] /\ pv2 \in [Nodes -> List!Pointer]
  /\ ch2 \in [Nodes -> List!Pointer]
  /\ s \in Seq(Nodes) /\ Distinct(s)
  /\ \A k \in 1..Len(s) : \A q \in Nodes \ {p} : ~ Holds(f, q, s[k])
  /\ ch2[p] = HeadOf(s) /\ \A q \in Nodes \ {p} : ch2[q] = ch[q]
  /\ Along(nx2, s) /\ Back(pv2, s)
  /\ \A j \in Nodes : (\A k \in 1..Len(s) : s[k] # j) =>
       IF Holds(f, p, j) THEN nx2[j] = None /\ pv2[j] = None
                         ELSE nx2[j] = nx[j] /\ pv2[j] = pv[j]

\* A step that relinks one list only, as Changes describes, represents the
\* changed list and leaves the others as they were.
LEMMA ListChanges ==
  ASSUME NEW nx, NEW pv, NEW ch, NEW f, Represents(nx, pv, ch, f),
         NEW nx2, NEW pv2, NEW ch2, NEW p \in Nodes, NEW s,
         Changes(nx, pv, ch, f, nx2, pv2, ch2, p, s)
  PROVE  Represents(nx2, pv2, ch2, [f EXCEPT ![p] = s])
<1>0. /\ nx2 \in [Nodes -> List!Pointer] /\ pv2 \in [Nodes -> List!Pointer]
      /\ ch2 \in [Nodes -> List!Pointer] /\ s \in Seq(Nodes) /\ Distinct(s)
      /\ \A k \in 1..Len(s) : \A q \in Nodes \ {p} : ~ Holds(f, q, s[k])
      /\ ch2[p] = HeadOf(s) /\ \A q \in Nodes \ {p} : ch2[q] = ch[q]
      /\ Along(nx2, s) /\ Back(pv2, s)
      /\ \A j \in Nodes : (\A k \in 1..Len(s) : s[k] # j) =>
           IF Holds(f, p, j) THEN nx2[j] = None /\ pv2[j] = None
                             ELSE nx2[j] = nx[j] /\ pv2[j] = pv[j]
  BY DEF Changes
<1> DEFINE g == [f EXCEPT ![p] = s]
<1>1. f \in [Nodes -> Seq(Nodes)] BY DEF Represents
<1>2. g \in [Nodes -> Seq(Nodes)] /\ g[p] = s /\ \A q \in Nodes \ {p} : g[q] = f[q] BY <1>0, <1>1
<1> HIDE DEF g
<1>o. Once(f) BY DEF Represents
<1>3. ASSUME NEW q \in Nodes, q # p, NEW k \in 1..Len(f[q])
      PROVE  nx2[f[q][k]] = nx[f[q][k]] /\ pv2[f[q][k]] = pv[f[q][k]]
  <2>1. f[q][k] \in Nodes BY <1>1
  <2>2. Holds(f, q, f[q][k]) BY DEF Holds
  <2>3. \A j \in 1..Len(s) : s[j] # f[q][k] BY <1>0, <1>3, <2>2
  <2>4. ~ Holds(f, p, f[q][k]) BY <1>3, <1>o DEF Holds, Once
  <2> QED BY <1>0, <2>1, <2>3, <2>4
<1>4. Once(g)
  <2> SUFFICES ASSUME NEW q \in Nodes, NEW r \in Nodes, NEW j \in 1..Len(g[q]), NEW k \in 1..Len(g[r]),
                      g[q][j] = g[r][k]
               PROVE  q = r /\ j = k
    BY DEF Once
  <2>1. CASE q = p /\ r = p BY <1>0, <1>2, <2>1 DEF Distinct
  <2>2. CASE q # p /\ r # p
    <3>1. g[q] = f[q] /\ g[r] = f[r] BY <1>2, <2>2
    <3> QED BY <1>o, <3>1 DEF Once
  <2>3. CASE q = p /\ r # p
    <3>1. Holds(f, r, g[r][k]) BY <1>2, <2>3 DEF Holds
    <3>2. ~ Holds(f, r, s[j]) BY <1>0, <1>2, <2>3
    <3> QED BY <1>2, <2>3, <3>1, <3>2
  <2>4. CASE q # p /\ r = p
    <3>1. Holds(f, q, g[q][j]) BY <1>2, <2>4 DEF Holds
    <3>2. ~ Holds(f, q, s[k]) BY <1>0, <1>2, <2>4
    <3> QED BY <1>2, <2>4, <3>1, <3>2
  <2> QED BY <2>1, <2>2, <2>3, <2>4
<1>5. \A q \in Nodes : ch2[q] = HeadOf(g[q])
  <2>1. \A q \in Nodes : ch[q] = HeadOf(f[q]) BY DEF Represents
  <2> QED BY <1>0, <1>2, <2>1
<1>6. ASSUME NEW q \in Nodes PROVE Along(nx2, g[q]) /\ Back(pv2, g[q])
  <2>1. CASE q = p BY <1>0, <1>2, <2>1
  <2>2. CASE q # p
    <3>1. Along(nx, f[q]) /\ Back(pv, f[q]) BY DEF Represents
    <3>2. Along(nx2, f[q]) BY <1>3, <2>2, <3>1 DEF Along
    <3>3. Back(pv2, f[q]) BY <1>3, <2>2, <3>1 DEF Back
    <3> QED BY <1>2, <2>2, <3>2, <3>3
  <2> QED BY <2>1, <2>2
<1>7. ASSUME NEW i \in Nodes, Free(g, i) PROVE nx2[i] = None /\ pv2[i] = None
  <2>1. \A k \in 1..Len(s) : s[k] # i BY <1>2, <1>7 DEF Free, Holds
  <2>2. CASE Holds(f, p, i) BY <1>0, <2>1, <2>2
  <2>3. CASE ~ Holds(f, p, i)
    <3>1. Free(f, i)
      <4> SUFFICES ASSUME NEW q \in Nodes PROVE ~ Holds(f, q, i) BY DEF Free
      <4>1. CASE q = p BY <2>3, <4>1
      <4>2. CASE q # p
        <5>1. ~ Holds(g, q, i) BY <1>7 DEF Free
        <5>2. g[q] = f[q] BY <1>2, <4>2
        <5> QED BY <5>1, <5>2 DEF Holds
      <4> QED BY <4>1, <4>2
    <3>2. nx[i] = None /\ pv[i] = None BY <3>1 DEF Represents
    <3> QED BY <1>0, <2>1, <2>3, <3>2
  <2> QED BY <2>2, <2>3
<1>8. Represents(nx2, pv2, ch2, g) BY <1>0, <1>2, <1>4, <1>5, <1>6, <1>7 DEF Represents
<1> QED BY <1>8 DEF g

-----------------------------------------------------------------------------
(* The relinking of each function.                                         *)

\* What is known of the list of p.
LEMMA ListFacts ==
  ASSUME NEW nx, NEW pv, NEW ch, NEW f, Represents(nx, pv, ch, f), NEW p \in Nodes
  PROVE  /\ f \in [Nodes -> Seq(Nodes)] /\ f[p] \in Seq(Nodes) /\ Len(f[p]) \in Nat
         /\ Distinct(f[p])
         /\ \A k \in 1..Len(f[p]) : f[p][k] \in Nodes /\ f[p][k] # None
         /\ ch[p] = IF Len(f[p]) = 0 THEN None ELSE f[p][1]
         /\ \A k \in 1..Len(f[p]) : nx[f[p][k]] = IF k = Len(f[p]) THEN None ELSE f[p][k + 1]
         /\ \A k \in 1..Len(f[p]) : pv[f[p][k]] = IF k = 1 THEN f[p][Len(f[p])] ELSE f[p][k - 1]
         /\ \A k \in 1..Len(f[p]) : \A q \in Nodes \ {p} : ~ Holds(f, q, f[p][k])
         /\ \A j \in Nodes : Holds(f, p, j) <=> \E k \in 1..Len(f[p]) : f[p][k] = j
<1>1. f \in [Nodes -> Seq(Nodes)] /\ f[p] \in Seq(Nodes) /\ Len(f[p]) \in Nat BY DEF Represents
<1>2. Distinct(f[p]) BY DEF Represents, Once, Distinct
<1>3. \A k \in 1..Len(f[p]) : f[p][k] \in Nodes /\ f[p][k] # None BY <1>1, NodesAssumption
<1>4. ch[p] = IF Len(f[p]) = 0 THEN None ELSE f[p][1] BY DEF Represents, HeadOf
<1>5. Along(nx, f[p]) /\ Back(pv, f[p]) BY DEF Represents
<1>6. \A k \in 1..Len(f[p]) : \A q \in Nodes \ {p} : ~ Holds(f, q, f[p][k])
  BY DEF Represents, Once, Holds
<1> QED BY <1>1, <1>2, <1>3, <1>4, <1>5, <1>6 DEF Along, Back, Holds

\* add_item_to_array() appends: its relinking through the first item's prev
\* reaches the last item.
LEMMA AppendRep ==
  ASSUME NEW f, Represents(next, prev, child, f), NEW p \in Nodes, NEW i \in Nodes, Free(f, i),
         List!add_item_to_array(p, i)
  PROVE  Represents(next', prev', child', [f EXCEPT ![p] = Append(f[p], i)])
<1> DEFINE s == f[p]
           n == Len(s)
           t == Append(s, i)
<1>1. /\ s \in Seq(Nodes) /\ n \in Nat /\ Distinct(s)
      /\ \A k \in 1..n : s[k] \in Nodes /\ s[k] # None
      /\ child[p] = IF n = 0 THEN None ELSE s[1]
      /\ \A k \in 1..n : next[s[k]] = IF k = n THEN None ELSE s[k + 1]
      /\ \A k \in 1..n : prev[s[k]] = IF k = 1 THEN s[n] ELSE s[k - 1]
      /\ \A k \in 1..n : \A q \in Nodes \ {p} : ~ Holds(f, q, s[k])
      /\ \A j \in Nodes : Holds(f, p, j) <=> \E k \in 1..n : s[k] = j
  <2>1. s \in Seq(Nodes) /\ n \in Nat /\ Distinct(s) BY ListFacts
  <2>2. \A k \in 1..n : s[k] \in Nodes /\ s[k] # None BY ListFacts
  <2>3. child[p] = IF n = 0 THEN None ELSE s[1] BY ListFacts
  <2>4. \A k \in 1..n : next[s[k]] = IF k = n THEN None ELSE s[k + 1]
    <3>1. Along(next, f[p]) BY DEF Represents
    <3> QED BY <3>1 DEF Along
  <2>5. \A k \in 1..n : prev[s[k]] = IF k = 1 THEN s[n] ELSE s[k - 1]
    <3>1. Back(prev, f[p]) BY DEF Represents
    <3> QED BY <3>1 DEF Back
  <2>6. \A k \in 1..n : \A q \in Nodes \ {p} : ~ Holds(f, q, s[k]) BY ListFacts
  <2>7. \A j \in Nodes : Holds(f, p, j) <=> \E k \in 1..n : s[k] = j BY ListFacts
  <2> QED BY <2>1, <2>2, <2>3, <2>4, <2>5, <2>6, <2>7
<1>2. /\ next \in [Nodes -> List!Pointer] /\ prev \in [Nodes -> List!Pointer]
      /\ child \in [Nodes -> List!Pointer] /\ next[i] = None
      /\ i # None /\ i \in List!Pointer /\ None \in List!Pointer
  BY NodesAssumption DEF Represents, List!Pointer
<1>3. \A k \in 1..n : s[k] # i BY <1>1 DEF Free, Holds
<1> HIDE DEF s
<1>4. /\ t \in Seq(Nodes) /\ Len(t) = n + 1
      /\ \A k \in 1..(n + 1) : t[k] = IF k = n + 1 THEN i ELSE s[k]
  BY <1>1
<1> HIDE DEF t, n
<1>5. Distinct(t) BY <1>1, <1>3, <1>4 DEF Distinct, n
<1>6. \A k \in 1..Len(t) : \A q \in Nodes \ {p} : ~ Holds(f, q, t[k])
  BY <1>1, <1>4 DEF Free
<1>7. CASE n = 0
  <2>1. /\ child' = [child EXCEPT ![p] = i] /\ prev' = [prev EXCEPT ![i] = i]
        /\ next' = [next EXCEPT ![i] = None]
    BY <1>1, <1>7 DEF List!add_item_to_array
  <2>2. t[1] = i /\ Len(t) = 1 BY <1>4, <1>7
  <2>3. /\ next' \in [Nodes -> List!Pointer] /\ prev' \in [Nodes -> List!Pointer]
        /\ child' \in [Nodes -> List!Pointer]
    BY <1>2, <2>1
  <2>4. child'[p] = HeadOf(t) /\ \A q \in Nodes \ {p} : child'[q] = child[q]
    BY <1>2, <2>1, <2>2 DEF HeadOf
  <2>5. Along(next', t) BY <1>2, <2>1, <2>2 DEF Along
  <2>6. Back(prev', t) BY <1>2, <2>1, <2>2 DEF Back
  <2>7. \A j \in Nodes : (\A k \in 1..Len(t) : t[k] # j) =>
           IF Holds(f, p, j) THEN next'[j] = None /\ prev'[j] = None
                             ELSE next'[j] = next[j] /\ prev'[j] = prev[j]
    BY <1>1, <1>2, <1>7, <2>1, <2>2
  <2>8. Changes(next, prev, child, f, next', prev', child', p, t)
    BY <1>4, <1>5, <1>6, <2>3, <2>4, <2>5, <2>6, <2>7 DEF Changes
  <2> QED BY <2>8, ListChanges DEF t, s
<1>8. CASE n # 0
  <2>0. 1 \in 1..n /\ n \in 1..n /\ child[p] = s[1] /\ child[p] # None /\ prev[child[p]] = s[n]
        /\ s[n] \in Nodes /\ s[1] \in Nodes /\ s[n] # i /\ s[1] # i
    BY <1>1, <1>3, <1>8
  <2>1. /\ child' = child /\ next' = [next EXCEPT ![s[n]] = i]
        /\ prev' = [prev EXCEPT ![i] = s[n], ![s[1]] = i]
    BY <2>0 DEF List!add_item_to_array
  <2>2. /\ \A j \in Nodes : next'[j] = IF j = s[n] THEN i ELSE next[j]
        /\ \A j \in Nodes : prev'[j] = IF j = s[1] THEN i ELSE IF j = i THEN s[n] ELSE prev[j]
    BY <1>2, <2>0, <2>1
  <2>3. /\ next' \in [Nodes -> List!Pointer] /\ prev' \in [Nodes -> List!Pointer]
        /\ child' \in [Nodes -> List!Pointer]
    BY <1>2, <2>0, <2>1 DEF List!Pointer
  <2>4. child'[p] = HeadOf(t) /\ \A q \in Nodes \ {p} : child'[q] = child[q]
    BY <1>1, <1>4, <1>8, <2>0, <2>1 DEF HeadOf
  <2>5. Along(next', t)
    <3> SUFFICES ASSUME NEW k \in 1..(n + 1) PROVE next'[t[k]] = IF k = n + 1 THEN None ELSE t[k + 1]
      BY <1>4 DEF Along
    <3>1. CASE k = n + 1 BY <1>2, <1>4, <2>0, <2>2, <3>1
    <3>2. CASE k = n BY <1>1, <1>4, <2>0, <2>2, <3>2
    <3>3. CASE k < n
      <4>1. k \in 1..n /\ k + 1 \in 1..n /\ k + 1 # n + 1 /\ k # n /\ k # n + 1 BY <1>1, <3>3
      <4>2. s[k] # s[n]
        <5>1. \A a, b \in 1..n : s[a] = s[b] => a = b BY <1>1 DEF Distinct, n
        <5> QED BY <2>0, <4>1, <5>1
      <4>3. t[k] = s[k] /\ t[k + 1] = s[k + 1] BY <1>4, <4>1
      <4>4. s[k] \in Nodes /\ next[s[k]] = s[k + 1] BY <1>1, <4>1
      <4>5. s[k] # i BY <1>3, <4>1
      <4>6. next'[s[k]] = next[s[k]] BY <2>2, <4>2, <4>4, <4>5
      <4> QED BY <4>1, <4>3, <4>4, <4>6
    <3> QED BY <1>1, <3>1, <3>2, <3>3
  <2>6. Back(prev', t)
    <3> SUFFICES ASSUME NEW k \in 1..(n + 1) PROVE prev'[t[k]] = IF k = 1 THEN t[n + 1] ELSE t[k - 1]
      BY <1>4 DEF Back
    <3>1. CASE k = n + 1
      <4>1. t[k] = i /\ k # 1 /\ k - 1 = n /\ k - 1 # n + 1 /\ n \in 1..(n + 1) BY <1>1, <1>4, <1>8, <3>1
      <4> QED BY <1>1, <1>4, <2>0, <2>2, <4>1
    <3>2. CASE k = 1
      <4>1. t[k] = s[1] /\ t[n + 1] = i BY <1>1, <1>4, <1>8, <3>2
      <4> QED BY <2>0, <2>2, <3>2, <4>1
    <3>3. CASE k # 1 /\ k # n + 1
      <4>1. k \in 1..n /\ k - 1 \in 1..n /\ k - 1 # n + 1 /\ k - 1 \in 1..(n + 1) BY <1>1, <3>3
      <4>2. s[k] # s[1] /\ s[k] # i BY <1>1, <1>3, <2>0, <3>3, <4>1 DEF Distinct, n
      <4> QED BY <1>1, <1>4, <2>2, <3>3, <4>1, <4>2
    <3> QED BY <1>1, <3>1, <3>2, <3>3
  <2>7. \A j \in Nodes : (\A k \in 1..Len(t) : t[k] # j) =>
           IF Holds(f, p, j) THEN next'[j] = None /\ prev'[j] = None
                             ELSE next'[j] = next[j] /\ prev'[j] = prev[j]
    <3> SUFFICES ASSUME NEW j \in Nodes, \A k \in 1..Len(t) : t[k] # j
                 PROVE  ~ Holds(f, p, j) /\ next'[j] = next[j] /\ prev'[j] = prev[j]
      OBVIOUS
    <3>1. \A k \in 1..n : k \in 1..(n + 1) /\ k # n + 1 BY <1>1
    <3>2. n + 1 \in 1..(n + 1) BY <1>1
    <3>3. j # i /\ \A k \in 1..n : s[k] # j BY <1>4, <3>1, <3>2
    <3> QED BY <1>1, <2>0, <2>2, <3>3
  <2>8. Changes(next, prev, child, f, next', prev', child', p, t)
    BY <1>4, <1>5, <1>6, <2>3, <2>4, <2>5, <2>6, <2>7 DEF Changes
  <2> QED BY <2>8, ListChanges DEF t, s
<1> QED BY <1>7, <1>8

\* t is s with i put in at place m.
Inserted(s, m, i, t) ==
  \A k \in 1..Len(t) : t[k] = IF k < m THEN s[k] ELSE IF k = m THEN i ELSE s[k - 1]

\* cJSON_InsertItemInArray() puts the item in front of the one it found, at
\* the head of the list too.
LEMMA InsertRep ==
  ASSUME NEW f, Represents(next, prev, child, f), NEW p \in Nodes, NEW i \in Nodes, Free(f, i),
         NEW m \in 1..Len(f[p]), List!InsertBefore(p, f[p][m], i),
         NEW t \in Seq(Nodes), Len(t) = Len(f[p]) + 1,
         Inserted(f[p], m, i, t)
  PROVE  Represents(next', prev', child', [f EXCEPT ![p] = t])
<1> DEFINE s == f[p]
           n == Len(s)
<1>1. /\ s \in Seq(Nodes) /\ n \in Nat /\ Distinct(s)
      /\ \A k \in 1..n : s[k] \in Nodes /\ s[k] # None
      /\ child[p] = IF n = 0 THEN None ELSE s[1]
      /\ \A k \in 1..n : next[s[k]] = IF k = n THEN None ELSE s[k + 1]
      /\ \A k \in 1..n : prev[s[k]] = IF k = 1 THEN s[n] ELSE s[k - 1]
      /\ \A k \in 1..n : \A q \in Nodes \ {p} : ~ Holds(f, q, s[k])
      /\ \A j \in Nodes : Holds(f, p, j) <=> \E k \in 1..n : s[k] = j
  <2>1. s \in Seq(Nodes) /\ n \in Nat /\ Distinct(s) BY ListFacts
  <2>2. \A k \in 1..n : s[k] \in Nodes /\ s[k] # None BY ListFacts
  <2>3. child[p] = IF n = 0 THEN None ELSE s[1] BY ListFacts
  <2>4. \A k \in 1..n : next[s[k]] = IF k = n THEN None ELSE s[k + 1]
    <3>1. Along(next, f[p]) BY DEF Represents
    <3> QED BY <3>1 DEF Along
  <2>5. \A k \in 1..n : prev[s[k]] = IF k = 1 THEN s[n] ELSE s[k - 1]
    <3>1. Back(prev, f[p]) BY DEF Represents
    <3> QED BY <3>1 DEF Back
  <2>6. \A k \in 1..n : \A q \in Nodes \ {p} : ~ Holds(f, q, s[k]) BY ListFacts
  <2>7. \A j \in Nodes : Holds(f, p, j) <=> \E k \in 1..n : s[k] = j BY ListFacts
  <2> QED BY <2>1, <2>2, <2>3, <2>4, <2>5, <2>6, <2>7
<1>2. /\ next \in [Nodes -> List!Pointer] /\ prev \in [Nodes -> List!Pointer]
      /\ child \in [Nodes -> List!Pointer]
      /\ i # None /\ i \in List!Pointer
  BY NodesAssumption DEF Represents, List!Pointer
<1>3. \A k \in 1..n : s[k] # i BY <1>1 DEF Free, Holds
<1>d. \A j, k \in 1..n : s[j] = s[k] => j = k BY <1>1 DEF Distinct
<1>4. /\ Len(t) = n + 1 /\ m \in 1..n /\ m \in Nat
      /\ \A k \in 1..(n + 1) : t[k] = IF k < m THEN s[k] ELSE IF k = m THEN i ELSE s[k - 1]
      /\ List!InsertBefore(p, s[m], i)
  BY DEF Inserted
<1> HIDE DEF s, n
<1>0. child[p] = s[1] /\ 1 \in 1..n /\ n \in 1..n BY <1>1, <1>4
<1>i. \A k \in 1..(n + 1) : /\ k < m => k \in 1..n
                            /\ k > m => k - 1 \in 1..n
  BY <1>1, <1>4
<1>5. Distinct(t)
  <2> SUFFICES ASSUME NEW j \in 1..(n + 1), NEW k \in 1..(n + 1), t[j] = t[k] PROVE j = k
    BY <1>4 DEF Distinct
  <2>1. j \in Nat /\ k \in Nat OBVIOUS
  <2>2. CASE j = m BY <1>3, <1>4, <1>i, <2>1, <2>2
  <2>3. CASE k = m BY <1>3, <1>4, <1>i, <2>1, <2>3
  <2>4. CASE j # m /\ k # m
    <3> DEFINE a == IF j < m THEN j ELSE j - 1
               b == IF k < m THEN k ELSE k - 1
    <3>1. a \in 1..n /\ b \in 1..n /\ t[j] = s[a] /\ t[k] = s[b] BY <1>4, <1>i, <2>1, <2>4
    <3>2. a = b BY <1>d, <3>1
    <3> QED BY <1>4, <2>1, <2>4, <3>2
  <2> QED BY <2>2, <2>3, <2>4
<1>6. \A k \in 1..Len(t) : \A q \in Nodes \ {p} : ~ Holds(f, q, t[k])
  <2> SUFFICES ASSUME NEW k \in 1..(n + 1), NEW q \in Nodes \ {p} PROVE ~ Holds(f, q, t[k])
    BY <1>4
  <2>1. CASE k = m BY <1>4, <2>1 DEF Free
  <2>2. CASE k < m
    <3>1. k \in 1..n /\ t[k] = s[k] BY <1>4, <1>i, <2>2
    <3> QED BY <1>1, <3>1
  <2>3. CASE k > m
    <3>1. k - 1 \in 1..n /\ t[k] = s[k - 1] BY <1>4, <1>i, <2>3
    <3> QED BY <1>1, <3>1
  <2> QED BY <1>4, <2>1, <2>2, <2>3
<1>7. /\ \A j \in Nodes : prev'[j] = IF j = s[m] THEN i ELSE IF j = i THEN prev[s[m]] ELSE prev[j]
      /\ prev' \in [Nodes -> List!Pointer]
  <2>1. prev' = [prev EXCEPT ![i] = prev[s[m]], ![s[m]] = i] BY <1>4 DEF List!InsertBefore
  <2>2. s[m] \in Nodes /\ s[m] # i /\ prev[s[m]] \in List!Pointer BY <1>1, <1>2, <1>3, <1>4
  <2> QED BY <1>2, <2>1, <2>2
<1>8. /\ child' = IF m = 1 THEN [child EXCEPT ![p] = i] ELSE child
      /\ next' \in [Nodes -> List!Pointer]
      /\ \A j \in Nodes : next'[j] = IF j = i THEN s[m]
                                     ELSE IF m # 1 /\ j = s[m - 1] THEN i ELSE next[j]
  <2>1. CASE m = 1
    <3>1. child' = [child EXCEPT ![p] = i] /\ next' = [next EXCEPT ![i] = s[m]]
      BY <1>0, <1>4, <2>1 DEF List!InsertBefore
    <3>2. s[m] \in List!Pointer BY <1>1, <1>4 DEF List!Pointer
    <3> QED BY <1>2, <2>1, <3>1, <3>2
  <2>2. CASE m # 1
    <3>1. m - 1 \in 1..n /\ prev[s[m]] = s[m - 1] BY <1>1, <1>4, <2>2
    <3>2. s[m] # child[p] BY <1>0, <1>4, <1>d, <2>2
    <3>3. child' = child /\ next' = [next EXCEPT ![i] = s[m], ![s[m - 1]] = i]
      BY <1>4, <3>1, <3>2 DEF List!InsertBefore
    <3>4. s[m] \in List!Pointer /\ s[m - 1] \in Nodes /\ s[m - 1] # i
      BY <1>1, <1>3, <1>4, <3>1 DEF List!Pointer
    <3> QED BY <1>2, <2>2, <3>3, <3>4
  <2> QED BY <2>1, <2>2
<1>9. /\ child' \in [Nodes -> List!Pointer] /\ child'[p] = HeadOf(t)
      /\ \A q \in Nodes \ {p} : child'[q] = child[q]
  <2>1. t[1] = IF m = 1 THEN i ELSE s[1] BY <1>1, <1>4
  <2>2. HeadOf(t) = t[1] BY <1>1, <1>4 DEF HeadOf
  <2> QED BY <1>0, <1>2, <1>8, <2>1, <2>2
<1>10. Along(next', t)
  <2> SUFFICES ASSUME NEW k \in 1..(n + 1) PROVE next'[t[k]] = IF k = n + 1 THEN None ELSE t[k + 1]
    BY <1>4 DEF Along
  <2>0. k \in Nat OBVIOUS
  <2>1. CASE k = m
    <3>1. t[k] = i /\ k # n + 1 /\ k + 1 \in 1..(n + 1) /\ t[k + 1] = s[m] BY <1>1, <1>4, <2>1
    <3> QED BY <1>8, <3>1
  <2>2. CASE k + 1 = m
    <3>1. k \in 1..n /\ t[k] = s[m - 1] /\ k # n + 1 /\ t[k + 1] = i /\ m # 1 /\ s[m - 1] \in Nodes
      BY <1>1, <1>4, <2>0, <2>2
    <3>2. s[m - 1] # i BY <1>3, <2>2, <3>1
    <3>3. next'[s[m - 1]] = i BY <1>8, <3>1, <3>2
    <3> QED BY <3>1, <3>3
  <2>3. CASE k < m /\ k + 1 # m
    <3>0. k \in 1..n /\ k # n /\ k + 1 \in 1..n /\ k + 1 < m /\ k + 1 \in 1..(n + 1) /\ k # n + 1
      <4>1. n \in Nat /\ m \in Nat /\ m <= n BY <1>1, <1>4
      <4> QED BY <2>0, <2>3, <4>1
    <3>5. t[k] = s[k] BY <1>4, <2>3
    <3>1. k \in 1..n /\ t[k] = s[k] /\ k # n /\ k + 1 \in 1..n /\ k + 1 < m /\ k + 1 \in 1..(n + 1) /\ k # n + 1
      BY <3>0, <3>5
    <3>2. m - 1 \in 1..n /\ k # m - 1 BY <1>1, <1>4, <2>0, <2>3
    <3>3. s[k] # i /\ s[k] # s[m - 1] /\ s[k] \in Nodes BY <1>1, <1>3, <1>d, <3>1, <3>2
    <3>4. next'[t[k]] = next[s[k]] BY <1>8, <3>1, <3>3
    <3> QED BY <1>1, <1>4, <3>1, <3>4
  <2>4. CASE k > m
    <3>1. k - 1 \in 1..n /\ t[k] = s[k - 1] /\ ~ (k + 1 < m) /\ k + 1 # m
      BY <1>1, <1>4, <2>0, <2>4
    <3>2. m # 1 => m - 1 \in 1..n /\ m - 1 # k - 1 BY <1>1, <1>4, <2>0, <2>4
    <3>3. s[k - 1] # i /\ (m # 1 => s[k - 1] # s[m - 1]) /\ s[k - 1] \in Nodes
      BY <1>1, <1>3, <1>d, <3>1, <3>2
    <3>4. next'[t[k]] = next[s[k - 1]] BY <1>8, <3>1, <3>3
    <3>5. next[s[k - 1]] = IF k - 1 = n THEN None ELSE s[(k - 1) + 1] BY <1>1, <3>1
    <3>6. k # n + 1 => k + 1 \in 1..(n + 1) /\ t[k + 1] = s[(k + 1) - 1] BY <1>1, <1>4, <2>0, <3>1
    <3> QED BY <1>1, <2>0, <3>4, <3>5, <3>6
  <2> QED BY <1>4, <2>0, <2>1, <2>2, <2>3, <2>4
<1>11. Back(prev', t)
  <2> SUFFICES ASSUME NEW k \in 1..(n + 1) PROVE prev'[t[k]] = IF k = 1 THEN t[n + 1] ELSE t[k - 1]
    BY <1>4 DEF Back
  <2>0. k \in Nat /\ n + 1 \in 1..(n + 1) /\ n + 1 > m /\ t[n + 1] = s[n] BY <1>1, <1>4
  <2>1. CASE k = m
    <3>1. t[k] = i /\ i # s[m] BY <1>3, <1>4, <2>1
    <3>2. prev'[t[k]] = prev[s[m]] BY <1>7, <3>1
    <3>3. k # 1 => t[k - 1] = s[m - 1] BY <1>1, <1>4, <2>0, <2>1
    <3> QED BY <1>1, <1>4, <2>0, <2>1, <3>2, <3>3
  <2>2. CASE k = m + 1
    <3>1. t[k] = s[m] /\ k # 1 /\ k - 1 \in 1..(n + 1) /\ t[k - 1] = i BY <1>1, <1>4, <2>0, <2>2
    <3>2. s[m] \in Nodes BY <1>1, <1>4
    <3>3. prev'[s[m]] = i BY <1>7, <3>2
    <3> QED BY <3>1, <3>3
  <2>3. CASE k < m
    <3>1. k \in 1..n /\ t[k] = s[k] BY <1>4, <1>i, <2>3
    <3>2. s[k] # i /\ s[k] # s[m] /\ s[k] \in Nodes
      <4>1. s[k] # i /\ s[k] \in Nodes BY <1>1, <1>3, <3>1
      <4>2. k # m /\ m \in 1..n BY <1>4, <2>0, <2>3
      <4> QED BY <1>d, <3>1, <4>1, <4>2
    <3>3. prev'[t[k]] = prev[s[k]] BY <1>7, <3>1, <3>2
    <3>5. k # 1 => k - 1 \in 1..(n + 1) /\ k - 1 < m BY <1>1, <1>4, <2>0, <2>3
    <3>4. k # 1 => k - 1 \in 1..(n + 1) /\ t[k - 1] = s[k - 1] BY <1>4, <3>5
    <3> QED BY <1>1, <2>0, <3>1, <3>3, <3>4
  <2>4. CASE k > m + 1
    <3>1. k - 1 \in 1..n /\ t[k] = s[k - 1] /\ k - 1 # m /\ k # 1 /\ k - 1 # 1 BY <1>1, <1>4, <2>0, <2>4
    <3>2. s[k - 1] # i /\ s[k - 1] # s[m] /\ s[k - 1] \in Nodes BY <1>1, <1>3, <1>4, <1>d, <3>1
    <3>3. prev'[t[k]] = prev[s[k - 1]] BY <1>7, <3>1, <3>2
    <3>4. prev[s[k - 1]] = s[(k - 1) - 1] BY <1>1, <3>1
    <3>5. k - 1 \in 1..(n + 1) /\ t[k - 1] = s[(k - 1) - 1] BY <1>1, <1>4, <2>0, <2>4
    <3> QED BY <3>1, <3>3, <3>4, <3>5
  <2> QED BY <1>4, <2>0, <2>1, <2>2, <2>3, <2>4
<1>12. \A j \in Nodes : (\A k \in 1..Len(t) : t[k] # j) =>
         IF Holds(f, p, j) THEN next'[j] = None /\ prev'[j] = None
                           ELSE next'[j] = next[j] /\ prev'[j] = prev[j]
  <2> SUFFICES ASSUME NEW j \in Nodes, \A k \in 1..(n + 1) : t[k] # j
               PROVE  ~ Holds(f, p, j) /\ next'[j] = next[j] /\ prev'[j] = prev[j]
    BY <1>4
  <2>1. t[m] = i /\ m \in 1..(n + 1) BY <1>1, <1>4
  <2>2. ASSUME NEW k \in 1..n PROVE s[k] # j
    <3>1. CASE k < m
      <4>1. k \in 1..(n + 1) /\ t[k] = s[k] BY <1>1, <1>4, <3>1
      <4> QED BY <4>1
    <3>2. CASE ~ (k < m)
      <4>1. k + 1 \in 1..(n + 1) /\ ~ (k + 1 < m) /\ k + 1 # m /\ (k + 1) - 1 = k BY <1>1, <1>4, <3>2
      <4>2. t[k + 1] = s[k] BY <1>4, <4>1
      <4> QED BY <4>1, <4>2
    <3> QED BY <3>1, <3>2
  <2>3. m # 1 => m - 1 \in 1..n BY <1>1, <1>4
  <2> QED BY <1>1, <1>4, <1>7, <1>8, <2>1, <2>2, <2>3
<1>13. Changes(next, prev, child, f, next', prev', child', p, t)
  BY <1>5, <1>6, <1>7, <1>8, <1>9, <1>10, <1>11, <1>12 DEF Changes
<1> QED BY <1>13, ListChanges

\* cJSON_DetachItemViaPointer() takes the item out, be it the first, the last,
\* the only one or between others.
LEMMA DetachRep ==
  ASSUME NEW f, Represents(next, prev, child, f), NEW p \in Nodes,
         NEW m \in 1..Len(f[p]), List!DetachItemViaPointer(p, f[p][m]),
         NEW t \in Seq(Nodes), Len(t) = Len(f[p]) - 1,
         \A k \in 1..Len(t) : t[k] = IF k < m THEN f[p][k] ELSE f[p][k + 1]
  PROVE  Represents(next', prev', child', [f EXCEPT ![p] = t])
<1> DEFINE s == f[p]
           n == Len(s)
           i == s[m]
<1>1. /\ s \in Seq(Nodes) /\ n \in Nat /\ Distinct(s)
      /\ \A k \in 1..n : s[k] \in Nodes /\ s[k] # None
      /\ child[p] = IF n = 0 THEN None ELSE s[1]
      /\ \A k \in 1..n : next[s[k]] = IF k = n THEN None ELSE s[k + 1]
      /\ \A k \in 1..n : prev[s[k]] = IF k = 1 THEN s[n] ELSE s[k - 1]
      /\ \A k \in 1..n : \A q \in Nodes \ {p} : ~ Holds(f, q, s[k])
      /\ \A j \in Nodes : Holds(f, p, j) <=> \E k \in 1..n : s[k] = j
  <2>1. s \in Seq(Nodes) /\ n \in Nat /\ Distinct(s) BY ListFacts
  <2>2. \A k \in 1..n : s[k] \in Nodes /\ s[k] # None BY ListFacts
  <2>3. child[p] = IF n = 0 THEN None ELSE s[1] BY ListFacts
  <2>4. \A k \in 1..n : next[s[k]] = IF k = n THEN None ELSE s[k + 1]
    <3>1. Along(next, f[p]) BY DEF Represents
    <3> QED BY <3>1 DEF Along
  <2>5. \A k \in 1..n : prev[s[k]] = IF k = 1 THEN s[n] ELSE s[k - 1]
    <3>1. Back(prev, f[p]) BY DEF Represents
    <3> QED BY <3>1 DEF Back
  <2>6. \A k \in 1..n : \A q \in Nodes \ {p} : ~ Holds(f, q, s[k]) BY ListFacts
  <2>7. \A j \in Nodes : Holds(f, p, j) <=> \E k \in 1..n : s[k] = j BY ListFacts
  <2> QED BY <2>1, <2>2, <2>3, <2>4, <2>5, <2>6, <2>7
<1>2. /\ next \in [Nodes -> List!Pointer] /\ prev \in [Nodes -> List!Pointer]
      /\ child \in [Nodes -> List!Pointer]
  BY DEF Represents
<1>d. \A j, k \in 1..n : s[j] = s[k] => j = k BY <1>1 DEF Distinct
<1>4. /\ Len(t) = n - 1 /\ m \in 1..n /\ m \in Nat
      /\ \A k \in 1..(n - 1) : t[k] = IF k < m THEN s[k] ELSE s[k + 1]
      /\ List!DetachItemViaPointer(p, i)
  OBVIOUS
<1> HIDE DEF s, n
<1>0. /\ child[p] = s[1] /\ 1 \in 1..n /\ n \in 1..n /\ i \in Nodes /\ i # None
      /\ next[i] = (IF m = n THEN None ELSE s[m + 1])
      /\ prev[i] = (IF m = 1 THEN s[n] ELSE s[m - 1])
  BY <1>1, <1>4
<1>3. /\ i = child[p] <=> m = 1
      /\ m # n => m + 1 \in 1..n
      /\ m # 1 => m - 1 \in 1..n
      /\ next[i] = None <=> m = n
  BY <1>0, <1>1, <1>4, <1>d
<1>i. \A k \in 1..(n - 1) : k \in 1..n /\ k + 1 \in 1..n /\ k + 1 # k
  BY <1>1, <1>4
<1>5. Distinct(t)
  <2> SUFFICES ASSUME NEW j \in 1..(n - 1), NEW k \in 1..(n - 1), t[j] = t[k] PROVE j = k
    BY <1>4 DEF Distinct
  <2>1. j \in Nat /\ k \in Nat OBVIOUS
  <2> DEFINE a == IF j < m THEN j ELSE j + 1
             b == IF k < m THEN k ELSE k + 1
  <2>2. a \in 1..n /\ b \in 1..n /\ t[j] = s[a] /\ t[k] = s[b] BY <1>4, <1>i, <2>1
  <2>3. a = b BY <1>d, <2>2
  <2> QED BY <1>4, <2>1, <2>3
<1>6. \A k \in 1..Len(t) : \A q \in Nodes \ {p} : ~ Holds(f, q, t[k])
  <2> SUFFICES ASSUME NEW k \in 1..(n - 1), NEW q \in Nodes \ {p} PROVE ~ Holds(f, q, t[k])
    BY <1>4
  <2>1. CASE k < m
    <3>1. k \in 1..n /\ t[k] = s[k] BY <1>4, <1>i, <2>1
    <3> QED BY <1>1, <3>1
  <2>2. CASE ~ (k < m)
    <3>1. k + 1 \in 1..n /\ t[k] = s[k + 1] BY <1>4, <1>i, <2>2
    <3> QED BY <1>1, <3>1
  <2> QED BY <2>1, <2>2
<1>7. /\ \A j \in Nodes : next'[j] = IF j = i THEN None
                                     ELSE IF m # 1 /\ j = s[m - 1] THEN next[i] ELSE next[j]
      /\ next' \in [Nodes -> List!Pointer]
  <2>1. next' = [j \in Nodes |-> CASE j = i -> None
                                   [] i # child[p] /\ j = prev[i] -> next[i]
                                   [] OTHER -> next[j]]
    BY <1>4 DEF List!DetachItemViaPointer
  <2>2. m # 1 => i # prev[i] BY <1>0, <1>3, <1>4, <1>d
  <2>3. next' = [j \in Nodes |-> IF j = i THEN None
                                   ELSE IF i # child[p] /\ j = prev[i] THEN next[i] ELSE next[j]]
    BY <1>3, <2>1, <2>2
  <2>4. next[i] \in List!Pointer /\ None \in List!Pointer BY <1>0, <1>2 DEF List!Pointer
  <2> QED BY <1>0, <1>2, <1>3, <2>3, <2>4
<1>8. /\ \A j \in Nodes : prev'[j] = IF j = i THEN None
                                     ELSE IF m # n /\ j = s[m + 1] THEN prev[i]
                                     ELSE IF m # 1 /\ m = n /\ j = s[1] THEN prev[i] ELSE prev[j]
      /\ prev' \in [Nodes -> List!Pointer]
  <2>1. prev' = [j \in Nodes |-> CASE j = i -> None
                                   [] j = next[i] -> prev[i]
                                   [] i # child[p] /\ next[i] = None /\ j = child[p] -> prev[i]
                                   [] OTHER -> prev[j]]
    BY <1>4 DEF List!DetachItemViaPointer
  <2>2. m # n => i # next[i] BY <1>0, <1>3, <1>4, <1>d
  <2>3. \A j \in Nodes : j # None BY NodesAssumption
  <2>4. prev' = [j \in Nodes |-> IF j = i THEN None
                                   ELSE IF j = next[i] THEN prev[i]
                                   ELSE IF i # child[p] /\ next[i] = None /\ j = child[p] THEN prev[i]
                                   ELSE prev[j]]
    BY <1>0, <1>3, <2>1, <2>2, <2>3
  <2>5. prev[i] \in List!Pointer /\ None \in List!Pointer BY <1>0, <1>2 DEF List!Pointer
  <2> QED BY <1>0, <1>2, <1>3, <2>3, <2>4, <2>5
<1>9. /\ child' \in [Nodes -> List!Pointer] /\ child'[p] = HeadOf(t)
      /\ \A q \in Nodes \ {p} : child'[q] = child[q]
  <2>1. child' = IF m = 1 THEN [child EXCEPT ![p] = next[i]] ELSE child
    BY <1>3, <1>4 DEF List!DetachItemViaPointer
  <2>2. HeadOf(t) = IF m = 1 THEN next[i] ELSE s[1]
    <3>1. CASE n = 1 BY <1>0, <1>3, <1>4, <3>1 DEF HeadOf
    <3>2. CASE n # 1
      <4>1. 1 \in 1..(n - 1) /\ n - 1 # 0 BY <1>1, <1>4, <3>2
      <4>2. HeadOf(t) = t[1] BY <1>4, <4>1 DEF HeadOf
      <4> QED BY <1>0, <1>4, <3>2, <4>1, <4>2
    <3> QED BY <3>1, <3>2
  <2>3. next[i] \in List!Pointer BY <1>0, <1>2
  <2> QED BY <1>0, <1>2, <2>1, <2>2, <2>3
<1>10. Along(next', t)
  <2> SUFFICES ASSUME NEW k \in 1..(n - 1) PROVE next'[t[k]] = IF k = n - 1 THEN None ELSE t[k + 1]
    BY <1>4 DEF Along
  <2>0. k \in Nat /\ n \in Nat BY <1>1
  <2>1. CASE k + 1 = m
    <3>1. k \in 1..n /\ t[k] = s[m - 1] /\ m # 1 /\ m - 1 = k BY <1>1, <1>4, <2>0, <2>1
    <3>2. s[m - 1] # i /\ s[m - 1] \in Nodes BY <1>1, <1>4, <1>d, <3>1
    <3>3. next'[t[k]] = next[i] BY <1>7, <3>1, <3>2
    <3>4. k # n - 1 => k + 1 \in 1..(n - 1) /\ t[k + 1] = s[m + 1]
      <4>1. k # n - 1 => k + 1 \in 1..(n - 1) BY <2>0
      <4>2. ~ (k + 1 < m) BY <1>4, <2>0, <2>1
      <4> QED BY <1>4, <2>1, <4>1, <4>2
    <3> QED BY <1>0, <1>1, <1>4, <2>0, <2>1, <3>3, <3>4
  <2>2. CASE k + 1 < m
    <3>0. /\ k \in 1..n /\ k # n /\ k # n - 1 /\ k + 1 \in 1..(n - 1)
          /\ m - 1 \in 1..n /\ k # m - 1 /\ k # m /\ k < m
      <4>1. m \in Nat /\ m <= n BY <1>1, <1>4
      <4> QED BY <2>0, <2>2, <4>1
    <3>5. t[k] = s[k] /\ t[k + 1] = s[k + 1] BY <1>4, <2>2, <3>0
    <3>1. k \in 1..n /\ t[k] = s[k] /\ k # n /\ k # n - 1 /\ k + 1 \in 1..(n - 1) /\ t[k + 1] = s[k + 1]
          /\ m - 1 \in 1..n /\ k # m - 1 /\ k # m
      BY <3>0, <3>5
    <3>2. s[k] # i /\ s[k] # s[m - 1] /\ s[k] \in Nodes BY <1>1, <1>4, <1>d, <3>1
    <3>3. next'[t[k]] = next[s[k]] BY <1>7, <3>1, <3>2
    <3> QED BY <1>1, <3>1, <3>3
  <2>3. CASE k >= m
    <3>1. k + 1 \in 1..n /\ t[k] = s[k + 1] /\ k + 1 # m BY <1>1, <1>4, <1>i, <2>0, <2>3
    <3>2. m # 1 => m - 1 \in 1..n /\ m - 1 # k + 1 BY <1>1, <1>4, <2>0, <2>3
    <3>3. s[k + 1] # i /\ (m # 1 => s[k + 1] # s[m - 1]) /\ s[k + 1] \in Nodes
      BY <1>1, <1>4, <1>d, <3>1, <3>2
    <3>4. next'[t[k]] = next[s[k + 1]] BY <1>7, <3>1, <3>3
    <3>5. next[s[k + 1]] = IF k + 1 = n THEN None ELSE s[(k + 1) + 1] BY <1>1, <3>1
    <3>6. k # n - 1 => k + 1 \in 1..(n - 1) /\ ~ (k + 1 < m) BY <1>1, <1>4, <2>0, <2>3
    <3>7. k # n - 1 => t[k + 1] = s[(k + 1) + 1] BY <1>4, <3>6
    <3> QED BY <1>1, <2>0, <3>4, <3>5, <3>7
  <2> QED BY <1>4, <2>0, <2>1, <2>2, <2>3
<1>11. Back(prev', t)
  <2> SUFFICES ASSUME NEW k \in 1..(n - 1) PROVE prev'[t[k]] = IF k = 1 THEN t[n - 1] ELSE t[k - 1]
    BY <1>4 DEF Back
  <2>0. k \in Nat /\ n \in Nat /\ n - 1 \in 1..(n - 1) /\ n - 1 \in 1..n /\ 1 \in 1..(n - 1) BY <1>1
  <2>l. t[n - 1] = IF m = n THEN s[n - 1] ELSE s[n]
    <3>1. n - 1 < m <=> m = n BY <1>4, <2>0
    <3>2. (n - 1) + 1 = n BY <2>0
    <3> QED BY <1>4, <2>0, <3>1, <3>2
  <2>1. CASE k = m
    <3>1. k + 1 \in 1..n /\ t[k] = s[m + 1] /\ m # n /\ m + 1 \in 1..n BY <1>1, <1>4, <1>i, <2>0, <2>1
    <3>2. s[m + 1] # i /\ s[m + 1] \in Nodes BY <1>1, <1>4, <1>d, <3>1
    <3>3. prev'[t[k]] = prev[i] BY <1>8, <3>1, <3>2
    <3>4. k # 1 => k - 1 \in 1..(n - 1) /\ k - 1 < m BY <1>4, <2>0, <2>1
    <3>5. k # 1 => t[k - 1] = s[m - 1] BY <1>4, <2>1, <3>4
    <3> QED BY <1>0, <2>1, <2>l, <3>1, <3>3, <3>5
  <2>2. CASE k > m
    <3>0. k + 1 \in 1..n /\ ~ (k < m) BY <1>4, <1>i, <2>0, <2>2
    <3>1. k + 1 \in 1..n /\ t[k] = s[k + 1] /\ m # n /\ m + 1 \in 1..n /\ k + 1 # m + 1 /\ k + 1 # m /\ k + 1 # 1
          /\ k # 1
      BY <1>4, <2>0, <2>2, <3>0
    <3>2. s[k + 1] # i /\ s[k + 1] # s[m + 1] /\ s[k + 1] \in Nodes BY <1>1, <1>4, <1>d, <3>1
    <3>3. prev'[t[k]] = prev[s[k + 1]] BY <1>8, <3>1, <3>2
    <3>4. prev[s[k + 1]] = s[(k + 1) - 1] BY <1>1, <3>1
    <3>5. k - 1 \in 1..(n - 1) /\ ~ (k - 1 < m) /\ (k - 1) + 1 = (k + 1) - 1 BY <1>4, <2>0, <2>2
    <3>6. t[k - 1] = s[(k - 1) + 1] BY <1>4, <3>5
    <3> QED BY <3>1, <3>3, <3>4, <3>5, <3>6
  <2>3. CASE k < m
    <3>1. k \in 1..n /\ t[k] = s[k] /\ k # m BY <1>1, <1>4, <2>0, <2>3
    <3>2. m # n => m + 1 \in 1..n /\ m + 1 # k BY <1>1, <1>4, <2>0, <2>3
    <3>3. s[k] # i /\ (m # n => s[k] # s[m + 1]) /\ s[k] \in Nodes BY <1>1, <1>4, <1>d, <3>1, <3>2
    <3>4. CASE k = 1
      <4>1. m # 1 /\ m - 1 \in 1..n BY <1>3, <1>4, <2>3, <3>4
      <4>2. CASE m = n BY <1>0, <1>8, <2>l, <3>1, <3>3, <3>4, <4>1, <4>2
      <4>3. CASE m # n BY <1>0, <1>1, <1>8, <2>l, <3>1, <3>3, <3>4, <4>1, <4>3
      <4> QED BY <4>2, <4>3
    <3>5. CASE k # 1
      <4>1. s[k] # s[1] BY <1>0, <1>d, <3>1, <3>5
      <4>2. prev'[t[k]] = prev[s[k]] BY <1>8, <3>1, <3>3, <4>1
      <4>3. k - 1 \in 1..(n - 1) /\ k - 1 < m BY <1>4, <2>0, <2>3, <3>5
      <4>4. t[k - 1] = s[k - 1] BY <1>4, <4>3
      <4> QED BY <1>1, <3>1, <3>5, <4>2, <4>4
    <3> QED BY <3>4, <3>5
  <2> QED BY <1>4, <2>0, <2>1, <2>2, <2>3
<1>12. \A j \in Nodes : (\A k \in 1..Len(t) : t[k] # j) =>
         IF Holds(f, p, j) THEN next'[j] = None /\ prev'[j] = None
                           ELSE next'[j] = next[j] /\ prev'[j] = prev[j]
  <2> SUFFICES ASSUME NEW j \in Nodes, \A k \in 1..(n - 1) : t[k] # j
               PROVE  IF Holds(f, p, j) THEN next'[j] = None /\ prev'[j] = None
                           ELSE next'[j] = next[j] /\ prev'[j] = prev[j]
    BY <1>4
  <2>1. ASSUME NEW k \in 1..n, k # m PROVE s[k] # j
    <3>1. CASE k < m
      <4>1. k \in 1..(n - 1) /\ t[k] = s[k] BY <1>1, <1>4, <3>1
      <4> QED BY <4>1
    <3>2. CASE k > m
      <4>1. k - 1 \in 1..(n - 1) /\ ~ (k - 1 < m) /\ (k - 1) + 1 = k BY <1>1, <1>4, <3>2
      <4>2. t[k - 1] = s[k] BY <1>4, <4>1
      <4> QED BY <4>1, <4>2
    <3> QED BY <1>4, <2>1, <3>1, <3>2
  <2>2. CASE j = i
    <3>1. Holds(f, p, j) BY <1>1, <1>4, <2>2
    <3> QED BY <1>7, <1>8, <2>2, <3>1
  <2>3. CASE j # i
    <3>1. ~ Holds(f, p, j) BY <1>1, <2>1, <2>3
    <3>2. m # 1 => s[m - 1] # j BY <1>0, <1>1, <1>3, <1>4, <2>1
    <3>3. m # n => s[m + 1] # j BY <1>0, <1>1, <1>3, <1>4, <2>1
    <3>4. m # 1 => s[1] # j BY <1>0, <1>4, <2>1
    <3> QED BY <1>7, <1>8, <2>3, <3>1, <3>2, <3>3, <3>4
  <2> QED BY <2>2, <2>3
<1>13. Changes(next, prev, child, f, next', prev', child', p, t)
  BY <1>5, <1>6, <1>7, <1>8, <1>9, <1>10, <1>11, <1>12 DEF Changes
<1> QED BY <1>13, ListChanges

\* The pointers after item m of p has been unlinked and r linked in its place.
Relinked(f, p, m, r, nx2, pv2, ch2) ==
  /\ nx2 \in [Nodes -> List!Pointer] /\ pv2 \in [Nodes -> List!Pointer]
  /\ ch2 \in [Nodes -> List!Pointer]
  /\ \A j \in Nodes : nx2[j] = IF j = f[p][m] THEN None
                                ELSE IF j = r THEN next[f[p][m]]
                                ELSE IF m # 1 /\ j = f[p][m - 1] THEN r ELSE next[j]
  /\ \A j \in Nodes : pv2[j] = IF j = f[p][m] THEN None
                                ELSE IF j = r THEN IF Len(f[p]) = 1 THEN r ELSE prev[f[p][m]]
                                ELSE IF m # Len(f[p]) /\ j = f[p][m + 1] THEN r
                                ELSE IF m # 1 /\ m = Len(f[p]) /\ j = f[p][1] THEN r ELSE prev[j]
  /\ \A j \in Nodes : ch2[j] = IF j = p /\ m = 1 THEN r ELSE child[j]

\* The relinking of cJSON_ReplaceItemViaPointer() puts the new item in the old
\* one's place.
LEMMA ReplaceRep ==
  ASSUME NEW f, Represents(next, prev, child, f), NEW p \in Nodes, NEW r \in Nodes, Free(f, r),
         NEW m \in 1..Len(f[p]), NEW nx2, NEW pv2, NEW ch2, Relinked(f, p, m, r, nx2, pv2, ch2)
  PROVE  Represents(nx2, pv2, ch2, [f EXCEPT ![p] = [f[p] EXCEPT ![m] = r]])
<1>r. /\ nx2 \in [Nodes -> List!Pointer] /\ pv2 \in [Nodes -> List!Pointer]
      /\ ch2 \in [Nodes -> List!Pointer]
      /\ \A j \in Nodes : ch2[j] = IF j = p /\ m = 1 THEN r ELSE child[j]
  BY DEF Relinked
<1> DEFINE s == f[p]
           n == Len(s)
           i == s[m]
           t == [s EXCEPT ![m] = r]
<1>1. /\ s \in Seq(Nodes) /\ n \in Nat /\ Distinct(s)
      /\ \A k \in 1..n : s[k] \in Nodes /\ s[k] # None
      /\ child[p] = IF n = 0 THEN None ELSE s[1]
      /\ \A k \in 1..n : next[s[k]] = IF k = n THEN None ELSE s[k + 1]
      /\ \A k \in 1..n : prev[s[k]] = IF k = 1 THEN s[n] ELSE s[k - 1]
      /\ \A k \in 1..n : \A q \in Nodes \ {p} : ~ Holds(f, q, s[k])
      /\ \A j \in Nodes : Holds(f, p, j) <=> \E k \in 1..n : s[k] = j
  <2>1. /\ f[p] \in Seq(Nodes) /\ Len(f[p]) \in Nat /\ Distinct(f[p])
        /\ \A k \in 1..Len(f[p]) : f[p][k] \in Nodes /\ f[p][k] # None
        /\ child[p] = IF Len(f[p]) = 0 THEN None ELSE f[p][1]
    BY ListFacts
  <2>2. \A k \in 1..Len(f[p]) : next[f[p][k]] = IF k = Len(f[p]) THEN None ELSE f[p][k + 1]
    BY ListFacts
  <2>3. \A k \in 1..Len(f[p]) : prev[f[p][k]] = IF k = 1 THEN f[p][Len(f[p])] ELSE f[p][k - 1]
    BY ListFacts
  <2>4. /\ \A k \in 1..Len(f[p]) : \A q \in Nodes \ {p} : ~ Holds(f, q, f[p][k])
        /\ \A j \in Nodes : Holds(f, p, j) <=> \E k \in 1..Len(f[p]) : f[p][k] = j
    BY ListFacts
  <2> QED BY <2>1, <2>2, <2>3, <2>4
<1>3. \A k \in 1..n : s[k] # r BY <1>1 DEF Free, Holds
<1>d. \A j, k \in 1..n : s[j] = s[k] => j = k BY <1>1 DEF Distinct
<1>t. t \in Seq(Nodes) /\ Len(t) = n BY <1>1
<1>4. /\ m \in 1..n /\ m \in Nat
      /\ \A k \in 1..n : t[k] = IF k = m THEN r ELSE s[k]
  BY <1>1
<1>7. \A j \in Nodes : nx2[j] = IF j = i THEN None ELSE IF j = r THEN next[i]
                                ELSE IF m # 1 /\ j = s[m - 1] THEN r ELSE next[j]
  BY DEF Relinked
<1>8. \A j \in Nodes : pv2[j] = IF j = i THEN None
                                ELSE IF j = r THEN IF n = 1 THEN r ELSE prev[i]
                                ELSE IF m # n /\ j = s[m + 1] THEN r
                                ELSE IF m # 1 /\ m = n /\ j = s[1] THEN r ELSE prev[j]
  BY DEF Relinked
<1> HIDE DEF s, n, t
<1>0. /\ child[p] = s[1] /\ 1 \in 1..n /\ n \in 1..n /\ i \in Nodes /\ i # r
      /\ next[i] = (IF m = n THEN None ELSE s[m + 1])
      /\ prev[i] = (IF m = 1 THEN s[n] ELSE s[m - 1])
      /\ m # n => m + 1 \in 1..n
      /\ m # 1 => m - 1 \in 1..n
  BY <1>1, <1>3, <1>4
<1>5. Distinct(t)
  <2> SUFFICES ASSUME NEW j \in 1..n, NEW k \in 1..n, t[j] = t[k] PROVE j = k
    BY <1>t DEF Distinct
  <2> QED BY <1>3, <1>4, <1>d
<1>6. \A k \in 1..Len(t) : \A q \in Nodes \ {p} : ~ Holds(f, q, t[k])
  <2> SUFFICES ASSUME NEW k \in 1..n, NEW q \in Nodes \ {p} PROVE ~ Holds(f, q, t[k])
    BY <1>t
  <2>1. CASE k = m BY <1>4, <2>1 DEF Free
  <2>2. CASE k # m BY <1>1, <1>4, <2>2
  <2> QED BY <2>1, <2>2
<1>9. ch2[p] = HeadOf(t) /\ \A q \in Nodes \ {p} : ch2[q] = child[q]
  <2>1. HeadOf(t) = t[1] BY <1>0, <1>1, <1>t DEF HeadOf
  <2> QED BY <1>0, <1>4, <1>r, <2>1
<1>10. Along(nx2, t)
  <2> SUFFICES ASSUME NEW k \in 1..n PROVE nx2[t[k]] = IF k = n THEN None ELSE t[k + 1]
    BY <1>t DEF Along
  <2>0. k \in Nat /\ (k # n => k + 1 \in 1..n) /\ k + 1 # k BY <1>1
  <2>1. CASE k = m
    <3>1. t[k] = r /\ (k # n => t[k + 1] = s[m + 1]) BY <1>4, <2>0, <2>1
    <3> QED BY <1>0, <1>7, <2>1, <3>1
  <2>2. CASE k + 1 = m
    <3>0. k # m /\ m # 1 /\ k # n /\ m - 1 = k BY <1>1, <1>4, <2>0, <2>2
    <3>1. k # m /\ t[k] = s[m - 1] /\ m # 1 /\ k # n /\ t[k + 1] = r /\ m - 1 = k BY <1>4, <2>2, <3>0
    <3>2. s[m - 1] # i /\ s[m - 1] # r /\ s[m - 1] \in Nodes BY <1>1, <1>3, <1>4, <1>d, <3>1
    <3> QED BY <1>7, <3>1, <3>2
  <2>3. CASE k # m /\ k + 1 # m
    <3>1. t[k] = s[k] /\ (k # n => t[k + 1] = s[k + 1]) BY <1>4, <2>0, <2>3
    <3>2. m # 1 => m - 1 # k BY <1>4, <2>0, <2>3
    <3>3. s[k] # i /\ s[k] # r /\ s[k] \in Nodes /\ (m # 1 => s[k] # s[m - 1])
      BY <1>0, <1>1, <1>3, <1>4, <1>d, <2>3, <3>2
    <3>4. nx2[t[k]] = next[s[k]] BY <1>7, <3>1, <3>3
    <3> QED BY <1>1, <3>1, <3>4
  <2> QED BY <2>1, <2>2, <2>3
<1>11. Back(pv2, t)
  <2> SUFFICES ASSUME NEW k \in 1..n PROVE pv2[t[k]] = IF k = 1 THEN t[n] ELSE t[k - 1]
    BY <1>t DEF Back
  <2>0. k \in Nat /\ (k # 1 => k - 1 \in 1..n) /\ k - 1 # k BY <1>1
  <2>1. CASE k = m
    <3>1. t[k] = r /\ (k # 1 => t[k - 1] = s[m - 1]) BY <1>4, <2>0, <2>1
    <3>2. pv2[t[k]] = IF n = 1 THEN r ELSE prev[i] BY <1>0, <1>8, <3>1
    <3>3. CASE n = 1 BY <1>4, <2>1, <3>1, <3>2, <3>3
    <3>4. CASE n # 1 /\ m # 1 BY <1>0, <2>1, <3>1, <3>2, <3>4
    <3>5. CASE n # 1 /\ m = 1 BY <1>0, <1>4, <2>1, <3>1, <3>2, <3>5
    <3> QED BY <3>3, <3>4, <3>5
  <2>2. CASE k # m /\ m # n /\ k = m + 1
    <3>1. t[k] = s[m + 1] /\ k # 1 /\ k - 1 = m /\ t[k - 1] = r BY <1>1, <1>4, <2>0, <2>2
    <3>2. s[m + 1] # i /\ s[m + 1] # r /\ s[m + 1] \in Nodes BY <1>0, <1>1, <1>3, <1>4, <1>d, <2>2
    <3> QED BY <1>8, <2>2, <3>1, <3>2
  <2>3. CASE k # m /\ ~ (m # n /\ k = m + 1) /\ k = 1 /\ m = n
    <3>1. t[k] = s[1] /\ t[n] = r /\ m # 1 BY <1>0, <1>4, <2>3
    <3>2. s[1] # i /\ s[1] # r /\ s[1] \in Nodes BY <1>0, <1>1, <1>3, <1>4, <1>d, <2>3
    <3> QED BY <1>8, <2>3, <3>1, <3>2
  <2>4. CASE k # m /\ ~ (m # n /\ k = m + 1) /\ ~ (k = 1 /\ m = n)
    <3>1. t[k] = s[k] /\ s[k] # i /\ s[k] # r /\ s[k] \in Nodes BY <1>1, <1>3, <1>4, <1>d, <2>4
    <3>2. m # n => s[k] # s[m + 1] BY <1>0, <1>d, <2>4
    <3>3. m = n => s[k] # s[1] BY <1>0, <1>d, <2>4
    <3>4. pv2[t[k]] = prev[s[k]] BY <1>8, <3>1, <3>2, <3>3
    <3>5. k = 1 => t[n] = s[n] BY <1>0, <1>4, <2>4
    <3>6. k # 1 => k - 1 # m
      <4> SUFFICES ASSUME k # 1, k - 1 = m PROVE FALSE OBVIOUS
      <4>1. k = m + 1 /\ m # n BY <1>1, <1>4, <2>0
      <4> QED BY <2>4, <4>1
    <3>7. k # 1 => t[k - 1] = s[k - 1] BY <1>4, <2>0, <3>6
    <3> QED BY <1>1, <3>4, <3>5, <3>7
  <2> QED BY <2>1, <2>2, <2>3, <2>4
<1>12. \A j \in Nodes : (\A k \in 1..Len(t) : t[k] # j) =>
         IF Holds(f, p, j) THEN nx2[j] = None /\ pv2[j] = None
                           ELSE nx2[j] = next[j] /\ pv2[j] = prev[j]
  <2> SUFFICES ASSUME NEW j \in Nodes, \A k \in 1..n : t[k] # j
               PROVE  IF Holds(f, p, j) THEN nx2[j] = None /\ pv2[j] = None
                           ELSE nx2[j] = next[j] /\ pv2[j] = prev[j]
    BY <1>t
  <2>1. j # r /\ \A k \in 1..n : k # m => s[k] # j BY <1>4
  <2>2. CASE j = i
    <3>1. Holds(f, p, j) BY <1>1, <1>4, <2>2
    <3> QED BY <1>7, <1>8, <2>2, <3>1
  <2>3. CASE j # i
    <3>1. ~ Holds(f, p, j) BY <1>1, <2>1, <2>3
    <3>2. m # 1 => s[m - 1] # j BY <1>0, <1>1, <1>4, <2>1
    <3>3. m # n => s[m + 1] # j BY <1>0, <1>1, <1>4, <2>1
    <3>4. m # 1 => s[1] # j BY <1>0, <1>4, <2>1
    <3> QED BY <1>7, <1>8, <2>1, <2>3, <3>1, <3>2, <3>3, <3>4
  <2> QED BY <2>2, <2>3
<1>13. Changes(next, prev, child, f, nx2, pv2, ch2, p, t)
  BY <1>r, <1>t, <1>5, <1>6, <1>9, <1>10, <1>11, <1>12 DEF Changes
<1> QED BY <1>13, ListChanges DEF t, s

\* The items of G lose their pointers, and with them their lists, if all that
\* they hold and all that holds them is in G.
Apart(f, G) ==
  /\ G \subseteq Nodes
  /\ \A q \in Nodes, j \in Nodes : Holds(f, q, j) => (q \in G <=> j \in G)

\* h with the items of G reset, as when their memory is freed.
Cleared(h, G, e) == [j \in Nodes |-> IF j \in G THEN e ELSE h[j]]

\* Freeing items that no remaining list holds and that hold no remaining item
\* leaves the other lists represented.
LEMMA ClearRep ==
  ASSUME NEW nx, NEW pv, NEW ch, NEW f, Represents(nx, pv, ch, f), NEW G, Apart(f, G)
  PROVE  Represents(Cleared(nx, G, None), Cleared(pv, G, None), Cleared(ch, G, None),
                    Cleared(f, G, << >>))
<1> DEFINE nx2 == [j \in Nodes |-> IF j \in G THEN None ELSE nx[j]]
           pv2 == [j \in Nodes |-> IF j \in G THEN None ELSE pv[j]]
           ch2 == [j \in Nodes |-> IF j \in G THEN None ELSE ch[j]]
           g == [j \in Nodes |-> IF j \in G THEN << >> ELSE f[j]]
<1>a. G \subseteq Nodes /\ \A q \in Nodes, j \in Nodes : Holds(f, q, j) => (q \in G <=> j \in G)
  BY DEF Apart
<1>1. /\ f \in [Nodes -> Seq(Nodes)] /\ nx \in [Nodes -> List!Pointer]
      /\ pv \in [Nodes -> List!Pointer] /\ ch \in [Nodes -> List!Pointer] /\ Once(f)
  BY DEF Represents
<1>2. /\ nx2 \in [Nodes -> List!Pointer] /\ pv2 \in [Nodes -> List!Pointer]
      /\ ch2 \in [Nodes -> List!Pointer] /\ g \in [Nodes -> Seq(Nodes)]
  <2>1. None \in List!Pointer BY DEF List!Pointer
  <2>2. << >> \in Seq(Nodes) OBVIOUS
  <2> QED BY <1>1, <2>1, <2>2
<1>3. /\ \A j \in Nodes : j \in G => nx2[j] = None /\ pv2[j] = None /\ ch2[j] = None /\ g[j] = << >>
      /\ \A j \in Nodes : j \notin G => nx2[j] = nx[j] /\ pv2[j] = pv[j] /\ ch2[j] = ch[j] /\ g[j] = f[j]
  OBVIOUS
<1> HIDE DEF nx2, pv2, ch2, g
<1>e. Len(<< >>) = 0 /\ 1..Len(<< >>) = {} OBVIOUS
<1>4. \A q \in Nodes : \A k \in 1..Len(g[q]) : q \notin G /\ g[q] = f[q] /\ k \in 1..Len(f[q])
  BY <1>3, <1>e
<1>5. Once(g) BY <1>1, <1>4 DEF Once
<1>6. \A q \in Nodes : ch2[q] = HeadOf(g[q])
  <2>1. \A q \in Nodes : ch[q] = HeadOf(f[q]) BY DEF Represents
  <2>2. HeadOf(<< >>) = None BY <1>e DEF HeadOf
  <2> QED BY <1>3, <2>1, <2>2
<1>7. ASSUME NEW q \in Nodes PROVE Along(nx2, g[q]) /\ Back(pv2, g[q])
  <2>1. CASE q \in G BY <1>3, <1>e, <2>1 DEF Along, Back
  <2>2. CASE q \notin G
    <3>1. Along(nx, f[q]) /\ Back(pv, f[q]) /\ g[q] = f[q] BY <1>3, <2>2 DEF Represents
    <3>2. \A k \in 1..Len(f[q]) : f[q][k] \in Nodes /\ Holds(f, q, f[q][k]) BY <1>1 DEF Holds
    <3>3. \A k \in 1..Len(f[q]) : f[q][k] \in Nodes /\ f[q][k] \notin G BY <1>a, <2>2, <3>2
    <3>4. \A k \in 1..Len(f[q]) : nx2[f[q][k]] = nx[f[q][k]] /\ pv2[f[q][k]] = pv[f[q][k]]
      BY <1>3, <3>3
    <3> QED BY <3>1, <3>4 DEF Along, Back
  <2> QED BY <2>1, <2>2
<1>8. ASSUME NEW i \in Nodes, Free(g, i) PROVE nx2[i] = None /\ pv2[i] = None
  <2>1. CASE i \in G BY <1>3, <2>1
  <2>2. CASE i \notin G
    <3>1. Free(f, i)
      <4> SUFFICES ASSUME NEW q \in Nodes, Holds(f, q, i) PROVE FALSE BY DEF Free
      <4>1. q \notin G BY <1>a, <2>2
      <4>2. Holds(g, q, i) BY <1>3, <4>1 DEF Holds
      <4> QED BY <1>8, <4>2 DEF Free
    <3>2. nx[i] = None /\ pv[i] = None BY <3>1 DEF Represents
    <3> QED BY <1>3, <2>2, <3>2
  <2> QED BY <2>1, <2>2
<1>9. Represents(nx2, pv2, ch2, g) BY <1>2, <1>5, <1>6, <1>7, <1>8 DEF Represents
<1> QED BY <1>9 DEF nx2, pv2, ch2, g, Cleared

-----------------------------------------------------------------------------
(* What is below an item, and what cJSON_Delete() visits.                  *)

\* What an item of S holds is in S.
Closed(f, S) == \A q \in S, j \in Nodes : Holds(f, q, j) => j \in S

\* The item i and all items below it: the least closed set with i.
UnderOf(f, i) == {j \in Nodes : \A S \in SUBSET Nodes : i \in S /\ Closed(f, S) => j \in S}
\* No item is below itself: every set of items has one that is in none of them.
Acyclic(f) == \A S \in SUBSET Nodes : S # {} => \E j \in S : \A q \in S : ~ Holds(f, q, j)

\* Below i: i itself, closed, least, and everything but i is held by something
\* below i.
LEMMA UnderFacts ==
  ASSUME NEW f, NEW i \in Nodes
  PROVE  /\ UnderOf(f, i) \subseteq Nodes /\ i \in UnderOf(f, i)
         /\ Closed(f, UnderOf(f, i))
         /\ \A S \in SUBSET Nodes : i \in S /\ Closed(f, S) => UnderOf(f, i) \subseteq S
         /\ \A j \in UnderOf(f, i) : j # i => \E q \in UnderOf(f, i) : Holds(f, q, j)
<1> DEFINE U == UnderOf(f, i)
<1>1. U \subseteq Nodes /\ i \in U BY DEF UnderOf
<1>2. Closed(f, U) BY DEF UnderOf, Closed
<1>3. \A S \in SUBSET Nodes : i \in S /\ Closed(f, S) => U \subseteq S BY DEF UnderOf
<1> HIDE DEF U
<1>4. ASSUME NEW j \in U, j # i PROVE \E q \in U : Holds(f, q, j)
  <2> SUFFICES ASSUME \A q \in U : ~ Holds(f, q, j) PROVE FALSE OBVIOUS
  <2>1. U \ {j} \in SUBSET Nodes /\ i \in U \ {j} BY <1>1, <1>4
  <2>2. Closed(f, U \ {j}) BY <1>2 DEF Closed
  <2>3. U \subseteq U \ {j} BY <1>3, <2>1, <2>2
  <2> QED BY <2>3
<1> QED BY <1>1, <1>2, <1>3, <1>4 DEF U

\* The container that holds i is not below i.
LEMMA ParentOutside ==
  ASSUME NEW f, Acyclic(f), NEW p \in Nodes, NEW i \in Nodes, Holds(f, p, i)
  PROVE  p \notin UnderOf(f, i)
<1> SUFFICES ASSUME p \in UnderOf(f, i) PROVE FALSE OBVIOUS
<1> DEFINE U == UnderOf(f, i)
<1>1. U \in SUBSET Nodes /\ U # {} BY UnderFacts
<1>2. PICK j \in U : \A q \in U : ~ Holds(f, q, j) BY <1>1 DEF Acyclic
<1>3. j # i BY <1>2
<1> QED BY <1>2, <1>3, UnderFacts

\* Holding less keeps the trees acyclic.
LEMMA AcyclicLess ==
  ASSUME NEW f, NEW g, Acyclic(f), \A q, j \in Nodes : Holds(g, q, j) => Holds(f, q, j)
  PROVE  Acyclic(g)
<1> SUFFICES ASSUME NEW S \in SUBSET Nodes, S # {} PROVE \E j \in S : \A q \in S : ~ Holds(g, q, j)
  BY DEF Acyclic
<1>1. PICK j \in S : \A q \in S : ~ Holds(f, q, j) BY DEF Acyclic
<1> QED BY <1>1

\* Adding i to a container that is not below i keeps the trees acyclic.
LEMMA AcyclicAdd ==
  ASSUME NEW f, NEW g, Acyclic(f), NEW p \in Nodes, NEW i \in Nodes, p \notin UnderOf(f, i),
         \A q, j \in Nodes : Holds(g, q, j) => Holds(f, q, j) \/ (q = p /\ j = i)
  PROVE  Acyclic(g)
<1> SUFFICES ASSUME NEW S \in SUBSET Nodes, S # {} PROVE \E j \in S : \A q \in S : ~ Holds(g, q, j)
  BY DEF Acyclic
<1> DEFINE U == UnderOf(f, i)
<1>u. U \subseteq Nodes /\ i \in U /\ Closed(f, U) BY UnderFacts
<1>p. p \notin U OBVIOUS
<1> HIDE DEF U
<1>1. CASE S \ U # {}
  <2>1. S \ U \in SUBSET Nodes OBVIOUS
  <2>2. PICK j \in S \ U : \A q \in S \ U : ~ Holds(f, q, j) BY <1>1, <2>1 DEF Acyclic
  <2>3. j \in Nodes /\ j # i BY <1>u, <2>2
  <2>4. ASSUME NEW q \in S, Holds(g, q, j) PROVE FALSE
    <3>1. q \in Nodes /\ Holds(f, q, j) BY <2>3, <2>4
    <3>2. q \in U BY <2>2, <3>1
    <3> QED BY <1>u, <2>2, <2>3, <3>1, <3>2 DEF Closed
  <2> QED BY <2>2, <2>4
<1>2. CASE S \ U = {}
  <2>1. PICK j \in S : \A q \in S : ~ Holds(f, q, j) BY DEF Acyclic
  <2>2. p \notin S BY <1>2, <1>p
  <2>3. \A q \in S : q \in Nodes /\ q # p /\ j \in Nodes BY <2>2
  <2> QED BY <2>1, <2>3
<1> QED BY <1>1, <1>2

\* cJSON_Delete() walks a list to its end.
LEMMA ChainHolds ==
  ASSUME NEW f, Represents(next, prev, child, f), NEW S \in SUBSET List!Pointer, List!Chained(S),
         NEW q \in Nodes, child[q] \in S
  PROVE  \A j \in Nodes : Holds(f, q, j) => j \in S
<1> DEFINE s == f[q]
           P == {k \in Nat : k \in 1..Len(s) => s[k] \in S}
<1>1. /\ s \in Seq(Nodes) /\ Len(s) \in Nat
      /\ \A k \in 1..Len(s) : s[k] \in Nodes
      /\ child[q] = IF Len(s) = 0 THEN None ELSE s[1]
      /\ \A k \in 1..Len(s) : next[s[k]] = IF k = Len(s) THEN None ELSE s[k + 1]
  BY ListFacts
<1>h. \A j \in Nodes : Holds(f, q, j) => \E k \in 1..Len(s) : s[k] = j BY DEF Holds
<1> HIDE DEF s
<1>2. 0 \in P OBVIOUS
<1>3. ASSUME NEW k \in Nat, k \in P PROVE k + 1 \in P
  <2> SUFFICES ASSUME k + 1 \in 1..Len(s) PROVE s[k + 1] \in S OBVIOUS
  <2>1. CASE k = 0 BY <1>1, <2>1
  <2>2. CASE k # 0
    <3>1. k \in 1..Len(s) /\ k # Len(s) BY <1>1, <2>2
    <3>2. s[k] \in S \cap Nodes BY <1>1, <1>3, <3>1
    <3>3. next[s[k]] \in S BY <3>2 DEF List!Chained
    <3> QED BY <1>1, <3>1, <3>3
  <2> QED BY <2>1, <2>2
<1> HIDE DEF P
<1>4. Nat \subseteq P BY <1>2, <1>3, SetInduction
<1>5. \A k \in 1..Len(s) : s[k] \in S BY <1>1, <1>4 DEF P
<1> QED BY <1>h, <1>5

\* Where next and child of an item lead.
LEMMA Leads ==
  ASSUME NEW f, Represents(next, prev, child, f), NEW j \in Nodes
  PROVE  /\ child[j] = None \/ (child[j] \in Nodes /\ Holds(f, j, child[j]))
         /\ child[j] = None => \A k \in Nodes : ~ Holds(f, j, k)
         /\ Free(f, j) => next[j] = None
         /\ \A q \in Nodes : Holds(f, q, j) => next[j] = None \/ (next[j] \in Nodes /\ Holds(f, q, next[j]))
<1>1. child[j] = None \/ (child[j] \in Nodes /\ Holds(f, j, child[j])) BY ListFacts
<1>2. child[j] = None => \A k \in Nodes : ~ Holds(f, j, k)
  <2>1. /\ child[j] = IF Len(f[j]) = 0 THEN None ELSE f[j][1]
        /\ \A k \in 1..Len(f[j]) : f[j][k] # None
        /\ Len(f[j]) \in Nat
    BY ListFacts
  <2>2. child[j] = None => Len(f[j]) = 0 BY <2>1
  <2> QED BY <2>2 DEF Holds
<1>3. Free(f, j) => next[j] = None BY DEF Represents
<1>4. ASSUME NEW q \in Nodes, Holds(f, q, j)
      PROVE  next[j] = None \/ (next[j] \in Nodes /\ Holds(f, q, next[j]))
  <2>1. PICK k \in 1..Len(f[q]) : f[q][k] = j BY <1>4 DEF Holds
  <2>2. next[j] = (IF k = Len(f[q]) THEN None ELSE f[q][k + 1]) /\ Len(f[q]) \in Nat
    BY <2>1, ListFacts
  <2>3. k # Len(f[q]) => k + 1 \in 1..Len(f[q]) BY <2>2
  <2>4. k # Len(f[q]) => f[q][k + 1] \in Nodes BY <2>3, ListFacts
  <2> QED BY <2>2, <2>3, <2>4 DEF Holds
<1> QED BY <1>1, <1>2, <1>3, <1>4

\* What cJSON_Delete() visits from an item in no list is the item and all
\* below it.
LEMMA ChainOfFree ==
  ASSUME NEW f, Represents(next, prev, child, f), NEW i \in Nodes, Free(f, i)
  PROVE  List!Chain(i) = UnderOf(f, i)
<1> DEFINE U == UnderOf(f, i)
<1>u. /\ U \subseteq Nodes /\ i \in U /\ Closed(f, U)
      /\ \A S \in SUBSET Nodes : i \in S /\ Closed(f, S) => U \subseteq S
      /\ \A j \in U : j # i => \E q \in U : Holds(f, q, j)
  BY UnderFacts
<1> HIDE DEF U
<1>1. ASSUME NEW S \in SUBSET List!Pointer, i \in S, List!Chained(S) PROVE U \subseteq S
  <2>1. S \cap Nodes \in SUBSET Nodes /\ i \in S \cap Nodes BY <1>1
  <2>2. Closed(f, S \cap Nodes)
    <3> SUFFICES ASSUME NEW q \in S \cap Nodes, NEW j \in Nodes, Holds(f, q, j) PROVE j \in S
      BY DEF Closed
    <3>1. child[q] \in S BY <1>1 DEF List!Chained
    <3> QED BY <1>1, <3>1, ChainHolds
  <2>3. U \subseteq S \cap Nodes BY <1>u, <2>1, <2>2
  <2> QED BY <2>3
<1>2. U \cup {None} \in SUBSET List!Pointer /\ i \in U \cup {None} BY <1>u DEF List!Pointer
<1>3. List!Chained(U \cup {None})
  <2> SUFFICES ASSUME NEW j \in (U \cup {None}) \cap Nodes
               PROVE  child[j] \in U \cup {None} /\ next[j] \in U \cup {None}
    BY DEF List!Chained
  <2>1. j \in U /\ j \in Nodes BY NodesAssumption
  <2>2. child[j] \in U \cup {None} BY <1>u, <2>1, Leads DEF Closed
  <2>3. next[j] \in U \cup {None}
    <3>1. CASE j = i BY <3>1, Leads
    <3>2. CASE j # i
      <4>1. PICK q \in U : Holds(f, q, j) BY <1>u, <2>1, <3>2
      <4>2. q \in Nodes BY <1>u, <4>1
      <4>3. next[j] = None \/ (next[j] \in Nodes /\ Holds(f, q, next[j])) BY <2>1, <4>1, <4>2, Leads
      <4> QED BY <1>u, <4>1, <4>3 DEF Closed
    <3> QED BY <3>1, <3>2
  <2> QED BY <2>2, <2>3
<1>4. \A j \in Nodes : j \in U \cup {None} => j \in U BY NodesAssumption
<1>5. List!Chain(i) \subseteq U BY <1>2, <1>3, <1>4 DEF List!Chain
<1>6. U \subseteq List!Chain(i) BY <1>1, <1>u DEF List!Chain
<1> QED BY <1>5, <1>6 DEF U

\* What cJSON_Delete() visits below an item, with the item, is all below it.
LEMMA ChainOfChild ==
  ASSUME NEW f, Represents(next, prev, child, f), Acyclic(f), NEW i \in Nodes
  PROVE  {i} \cup List!Chain(child[i]) = UnderOf(f, i)
<1> DEFINE U == UnderOf(f, i)
<1>u. /\ U \subseteq Nodes /\ i \in U /\ Closed(f, U)
      /\ \A S \in SUBSET Nodes : i \in S /\ Closed(f, S) => U \subseteq S
      /\ \A j \in U : j # i => \E q \in U : Holds(f, q, j)
  BY UnderFacts
<1>a. \A q \in U : ~ Holds(f, q, i) BY <1>u, ParentOutside
<1> HIDE DEF U
<1>1. ASSUME NEW S \in SUBSET List!Pointer, child[i] \in S, List!Chained(S) PROVE U \ {i} \subseteq S
  <2> DEFINE T == {i} \cup (S \cap Nodes)
  <2>1. T \in SUBSET Nodes /\ i \in T OBVIOUS
  <2>2. Closed(f, T)
    <3> SUFFICES ASSUME NEW q \in T, NEW j \in Nodes, Holds(f, q, j) PROVE j \in S
      BY DEF Closed
    <3>1. child[q] \in S BY <1>1 DEF List!Chained
    <3> QED BY <1>1, <3>1, ChainHolds
  <2>3. U \subseteq T BY <1>u, <2>1, <2>2
  <2> QED BY <2>3
<1> DEFINE V == (U \ {i}) \cup {None}
<1>2. V \in SUBSET List!Pointer BY <1>u DEF List!Pointer
<1>3. \A j \in U : child[j] \in V
  <2> TAKE j \in U
  <2>1. child[j] = None \/ (child[j] \in Nodes /\ Holds(f, j, child[j])) BY <1>u, Leads
  <2> QED BY <1>a, <1>u, <2>1 DEF Closed
<1>4. List!Chained(V)
  <2> SUFFICES ASSUME NEW j \in V \cap Nodes PROVE child[j] \in V /\ next[j] \in V
    BY DEF List!Chained
  <2>1. j \in U /\ j \in Nodes /\ j # i BY NodesAssumption
  <2>2. child[j] \in V BY <1>3, <2>1
  <2>3. PICK q \in U : Holds(f, q, j) BY <1>u, <2>1
  <2>4. q \in Nodes BY <1>u, <2>3
  <2>5. next[j] = None \/ (next[j] \in Nodes /\ Holds(f, q, next[j])) BY <2>1, <2>3, <2>4, Leads
  <2>6. next[j] \in V BY <1>a, <1>u, <2>3, <2>5 DEF Closed
  <2> QED BY <2>2, <2>6
<1>5. \A j \in Nodes : j \in V => j \in U BY NodesAssumption
<1>6. child[i] \in V BY <1>3, <1>u
<1> HIDE DEF V
<1>7. List!Chain(child[i]) \subseteq U BY <1>2, <1>4, <1>5, <1>6 DEF List!Chain
<1>8. U \ {i} \subseteq List!Chain(child[i]) BY <1>1, <1>u DEF List!Chain
<1> QED BY <1>7, <1>8, <1>u DEF U

-----------------------------------------------------------------------------
(* The operations of JsonTree.                                             *)

\* The lists of all containers, as the pointers give them: the refinement
\* mapping of CJsonList to JsonTree.
Lists == [p \in Nodes |-> List!Items(p)]

\* What removing the item at m leaves of a sequence.
LEMMA RemovedSeq ==
  ASSUME NEW s \in Seq(Nodes), NEW m \in 1..Len(s)
  PROVE  /\ List!Tree!RemoveAt(s, m) \in Seq(Nodes)
         /\ Len(List!Tree!RemoveAt(s, m)) = Len(s) - 1
         /\ \A k \in 1..(Len(s) - 1) : List!Tree!RemoveAt(s, m)[k] = IF k < m THEN s[k] ELSE s[k + 1]
<1> DEFINE a == SubSeq(s, 1, m - 1)
           b == SubSeq(s, m + 1, Len(s))
<1>0. Len(s) \in Nat /\ m \in Nat OBVIOUS
<1>1. a \in Seq(Nodes) /\ Len(a) = m - 1 /\ \A k \in 1..(m - 1) : a[k] = s[k]
  BY <1>0, SubSeqProperties
<1>2. b \in Seq(Nodes) /\ Len(b) = Len(s) - m /\ \A k \in 1..(Len(s) - m) : b[k] = s[m + k]
  BY <1>0, SubSeqProperties
<1>3. List!Tree!RemoveAt(s, m) = a \o b BY DEF List!Tree!RemoveAt
<1> HIDE DEF a, b
<1>4. /\ a \o b \in Seq(Nodes) /\ Len(a \o b) = Len(s) - 1
      /\ \A k \in 1..(Len(s) - 1) : (a \o b)[k] = IF k <= m - 1 THEN a[k] ELSE b[k - (m - 1)]
  <2>1. /\ a \o b \in Seq(Nodes) /\ Len(a \o b) = Len(a) + Len(b)
        /\ \A k \in 1..(Len(a) + Len(b)) : (a \o b)[k] = IF k <= Len(a) THEN a[k] ELSE b[k - Len(a)]
    BY <1>1, <1>2, ConcatProperties
  <2>2. Len(a) + Len(b) = Len(s) - 1 BY <1>0, <1>1, <1>2
  <2> QED BY <1>1, <2>1, <2>2
<1>5. ASSUME NEW k \in 1..(Len(s) - 1) PROVE (a \o b)[k] = IF k < m THEN s[k] ELSE s[k + 1]
  <2>1. CASE k < m BY <1>0, <1>1, <1>4, <2>1
  <2>2. CASE ~ (k < m)
    <3>1. k - (m - 1) \in 1..(Len(s) - m) /\ m + (k - (m - 1)) = k + 1 BY <1>0, <2>2
    <3> QED BY <1>0, <1>2, <1>4, <2>2, <3>1
  <2> QED BY <2>1, <2>2
<1> QED BY <1>3, <1>4, <1>5

\* What inserting an item at m makes of a sequence.
LEMMA InsertedSeq ==
  ASSUME NEW s \in Seq(Nodes), NEW m \in 1..Len(s), NEW i \in Nodes
  PROVE  /\ List!Tree!InsertAt(s, m, i) \in Seq(Nodes)
         /\ Len(List!Tree!InsertAt(s, m, i)) = Len(s) + 1
         /\ \A k \in 1..(Len(s) + 1) : List!Tree!InsertAt(s, m, i)[k] =
                IF k < m THEN s[k] ELSE IF k = m THEN i ELSE s[k - 1]
<1> DEFINE a == SubSeq(s, 1, m - 1)
           b == SubSeq(s, m, Len(s))
           c == a \o <<i>>
<1>0. Len(s) \in Nat /\ m \in Nat OBVIOUS
<1>1. a \in Seq(Nodes) /\ Len(a) = m - 1 /\ \A k \in 1..(m - 1) : a[k] = s[k]
  BY <1>0, SubSeqProperties
<1>2. b \in Seq(Nodes) /\ Len(b) = Len(s) - m + 1 /\ \A k \in 1..(Len(s) - m + 1) : b[k] = s[(m - 1) + k]
  BY <1>0, SubSeqProperties
<1>3. List!Tree!InsertAt(s, m, i) = c \o b BY DEF List!Tree!InsertAt
<1> HIDE DEF a, b
<1>4. c \in Seq(Nodes) /\ Len(c) = m /\ \A k \in 1..m : c[k] = IF k < m THEN s[k] ELSE i
  BY <1>0, <1>1, ConcatProperties
<1> HIDE DEF c
<1>5. /\ c \o b \in Seq(Nodes) /\ Len(c \o b) = Len(s) + 1
      /\ \A k \in 1..(Len(s) + 1) : (c \o b)[k] = IF k <= m THEN c[k] ELSE b[k - m]
  <2>1. /\ c \o b \in Seq(Nodes) /\ Len(c \o b) = Len(c) + Len(b)
        /\ \A k \in 1..(Len(c) + Len(b)) : (c \o b)[k] = IF k <= Len(c) THEN c[k] ELSE b[k - Len(c)]
    BY <1>2, <1>4, ConcatProperties
  <2>2. Len(c) + Len(b) = Len(s) + 1 BY <1>0, <1>2, <1>4
  <2> QED BY <1>4, <2>1, <2>2
<1>6. ASSUME NEW k \in 1..(Len(s) + 1)
      PROVE (c \o b)[k] = IF k < m THEN s[k] ELSE IF k = m THEN i ELSE s[k - 1]
  <2>1. CASE k <= m BY <1>0, <1>4, <1>5, <2>1
  <2>2. CASE ~ (k <= m)
    <3>1. k - m \in 1..(Len(s) - m + 1) /\ (m - 1) + (k - m) = k - 1 BY <1>0, <2>2
    <3> QED BY <1>0, <1>2, <1>5, <2>2, <3>1
  <2> QED BY <2>1, <2>2
<1> QED BY <1>3, <1>5, <1>6

\* The tree of JsonTree, in the terms used here.
LEMMA TreeIs ==
  ASSUME Lists \in [Nodes -> Seq(Nodes)], NEW i \in Nodes
  PROVE  /\ List!Tree!Under(i) = UnderOf(Lists, i)
         /\ List!Tree!Root(i) <=> i \in allocated /\ Free(Lists, i)
         /\ \A p \in Nodes : Lists[p] = List!Items(p)
<1>1. List!Tree!Root(i) <=> i \in allocated /\ Free(Lists, i)
  BY DEF List!Tree!Root, List!Tree!Contains, Free, Holds, Lists
<1>2. List!Tree!Under(i) = UnderOf(Lists, i)
  <2> DEFINE E == UNION {{<<p, Lists[p][k]>> : k \in 1..Len(Lists[p])} : p \in Nodes}
             Whole(S) == \A e \in E : e[1] \in S => e[2] \in S
  <2>0. \A p \in Nodes : \A k \in 1..Len(Lists[p]) : Lists[p][k] \in Nodes OBVIOUS
  <2>1. ASSUME NEW S \in SUBSET Nodes PROVE Whole(S) <=> Closed(Lists, S)
    <3>1. ASSUME Whole(S), NEW q \in S, NEW j \in Nodes, Holds(Lists, q, j) PROVE j \in S
      <4>1. PICK k \in 1..Len(Lists[q]) : Lists[q][k] = j BY <3>1 DEF Holds
      <4>2. <<q, j>> \in E BY <4>1
      <4> QED BY <3>1, <4>2
    <3>2. ASSUME Closed(Lists, S), NEW e \in E, e[1] \in S PROVE e[2] \in S
      <4>1. PICK q \in Nodes : e \in {<<q, Lists[q][k]>> : k \in 1..Len(Lists[q])} OBVIOUS
      <4>2. PICK k \in 1..Len(Lists[q]) : e = <<q, Lists[q][k]>> BY <4>1
      <4>3. e[1] = q /\ e[2] = Lists[q][k] BY <4>2
      <4>4. Holds(Lists, q, e[2]) BY <4>3 DEF Holds
      <4> QED BY <2>0, <3>2, <4>3, <4>4 DEF Closed
    <3> HIDE DEF E
    <3> QED BY <3>1, <3>2 DEF Closed
  <2>2. List!Tree!Under(i) = {j \in Nodes : \A S \in SUBSET Nodes : i \in S /\ Whole(S) => j \in S}
    BY DEF List!Tree!Under, Lists
  <2> HIDE DEF Whole
  <2> QED BY <2>1, <2>2 DEF UnderOf
<1>3. \A p \in Nodes : Lists[p] = List!Items(p) BY DEF Lists
<1> QED BY <1>1, <1>2, <1>3

\* Lists that the pointers represent are the lists the walks find.
LEMMA ListsAre ==
  /\ \A f : Represents(next, prev, child, f) => Lists = f
  /\ \A f : Represents(next', prev', child', f) => Lists' = f
<1>1. ASSUME NEW f, Represents(next, prev, child, f) PROVE Lists = f
  <2>1. \A p \in Nodes : List!Items(p) = f[p] BY <1>1, ItemsAre, ItemsOfIs
  <2>2. f \in [Nodes -> Seq(Nodes)] BY <1>1 DEF Represents
  <2> QED BY <2>1, <2>2 DEF Lists
<1>2. ASSUME NEW f, Represents(next', prev', child', f) PROVE Lists' = f
  <2>1. \A p \in Nodes : List!Items(p)' = f[p] BY <1>2, ItemsAre, ItemsOfIs
  <2>2. f \in [Nodes -> Seq(Nodes)] BY <1>2 DEF Represents
  <2> QED BY <2>1, <2>2 DEF Lists
<1> QED BY <1>1, <1>2

\* get_array_item() reads the list.
LEMMA ArrayItem ==
  ASSUME Represents(next, prev, child, Lists), NEW p \in Nodes, NEW k \in Nat
  PROVE  List!get_array_item(p, k) = IF k < Len(Lists[p]) THEN Lists[p][k + 1] ELSE None
BY ItemsAre, AtOfIs

\* The search of get_object_item() finds the item that JsonTree's does.
LEMMA ObjectItem ==
  ASSUME Represents(next, prev, child, Lists), NEW p \in Nodes,
         NEW x \in List!Names, NEW exact \in BOOLEAN
  PROVE  /\ List!Tree!Lookup(p, x, exact) \in 0..Len(Lists[p])
         /\ List!get_object_item(p, x, exact) =
              IF List!Tree!Lookup(p, x, exact) = 0 THEN None ELSE Lists[p][List!Tree!Lookup(p, x, exact)]
<1> DEFINE s == Lists[p]
           n == Len(s)
           Is(i) == IF exact THEN string[i] \in {x, None}
                    ELSE string[i] # None /\ List!Tree!Lower(string[i]) = List!Tree!Lower(x)
           I == {k \in 1..n : Is(s[k])}
           Spot(k) == List!get_array_item(p, k)
           Stop(k) == List!Stops(Spot(k), x, exact)
           Ends(k) == (k = List!Bound \/ Stop(k)) /\ \A j \in 0..(k - 1) : ~ Stop(j)
<1>1. s \in Seq(Nodes) /\ n \in Nat /\ \A k \in 1..n : s[k] \in Nodes /\ s[k] # None BY ListFacts
<1>2. \A k \in Nat : Spot(k) = IF k < n THEN s[k + 1] ELSE None BY ArrayItem
<1>b. List!Bound \in Nat /\ n < List!Bound
  <2>1. Distinct(s) BY ListFacts
  <2> QED BY <1>1, <2>1, ListBound, BoundIs
<1>s. s = List!Items(p) /\ (\A k \in 1..n : List!Items(p)[k] = s[k]) BY DEF Lists
<1> HIDE DEF s, n
<1>3. List!Tree!Lookup(p, x, exact) =
        LET k == IF I # {} THEN CHOOSE a \in I : \A b \in I : a =< b ELSE 0
        IN  IF k # 0 /\ string[s[k]] # None THEN k ELSE 0
  BY <1>s DEF List!Tree!Lookup, List!Tree!SelectInSeq, List!Tree!Min, n
<1>4. \A k \in 0..(n - 1) : Stop(k) <=> k + 1 \in I
  <2> TAKE k \in 0..(n - 1)
  <2>1. k + 1 \in 1..n /\ Spot(k) = s[k + 1] /\ s[k + 1] # None BY <1>1, <1>2
  <2> QED BY <2>1 DEF List!Stops, List!Lower, List!Tree!Lower
<1>5. Stop(n) BY <1>1, <1>2 DEF List!Stops
<1>6. List!get_object_item(p, x, exact) =
        LET i == Spot(CHOOSE k \in 0..List!Bound : Ends(k))
        IN  IF i = None \/ string[i] = None THEN None ELSE i
  BY DEF List!get_object_item
<1>i. I \subseteq 1..n OBVIOUS
<1> HIDE DEF I, Stop
<1>u. ASSUME NEW j \in 0..List!Bound, NEW k \in 0..List!Bound, Ends(j), Ends(k), j # List!Bound, k # List!Bound
      PROVE  j = k
  <2>1. ~ (j < k)
    <3> SUFFICES ASSUME j < k PROVE FALSE OBVIOUS
    <3>1. j \in 0..(k - 1) BY <1>b
    <3> QED BY <1>u, <3>1
  <2>2. ~ (k < j)
    <3> SUFFICES ASSUME k < j PROVE FALSE OBVIOUS
    <3>1. k \in 0..(j - 1) BY <1>b
    <3> QED BY <1>u, <3>1
  <2> QED BY <2>1, <2>2
<1>v. ~ Ends(List!Bound)
  <2>1. n \in 0..(List!Bound - 1) BY <1>1, <1>b
  <2> QED BY <1>5, <2>1
<1>c. ASSUME NEW k \in 0..List!Bound, Ends(k) PROVE k = CHOOSE j \in 0..List!Bound : Ends(j)
  <2> HIDE DEF Ends
  <2> QED BY <1>c, <1>u, <1>v
<1>7. CASE I = {}
  <2>1. n \in 0..List!Bound BY <1>1, <1>b
  <2>2. Ends(n) BY <1>4, <1>5, <1>7
  <2>3. Spot(n) = None BY <1>1, <1>2
  <2>4. n = CHOOSE j \in 0..List!Bound : Ends(j) BY <1>c, <2>1, <2>2
  <2>5. List!get_object_item(p, x, exact) = None BY <1>6, <2>3, <2>4
  <2>6. List!Tree!Lookup(p, x, exact) = 0 BY <1>3, <1>7
  <2> QED BY <1>1, <2>5, <2>6 DEF s, n
<1>8. CASE I # {}
  <2> DEFINE k == CHOOSE a \in I : \A b \in I : a =< b
  <2>0. I \subseteq Nat BY <1>1, <1>i
  <2>1. \E a \in I : \A b \in I : a =< b BY <1>8, <2>0, LeastNatural
  <2>2. k \in I /\ \A b \in I : k =< b BY <2>1
  <2>3. List!Tree!Lookup(p, x, exact) = IF k # 0 /\ string[s[k]] # None THEN k ELSE 0 BY <1>3, <1>8
  <2> HIDE DEF k
  <2>4. k \in 1..n /\ k - 1 \in 0..(n - 1) /\ k - 1 \in 0..List!Bound /\ k - 1 \in Nat /\ (k - 1) + 1 = k /\ k # 0
        /\ k - 1 < n
    BY <1>1, <1>b, <1>i, <2>2
  <2>5. Ends(k - 1)
    <3>1. Stop(k - 1) BY <1>4, <2>2, <2>4
    <3>2. ASSUME NEW j \in 0..((k - 1) - 1) PROVE ~ Stop(j)
      <4>1. j \in 0..(n - 1) /\ j + 1 < k BY <1>1, <2>4
      <4>2. j + 1 \notin I BY <2>2, <2>4, <4>1
      <4> QED BY <1>4, <4>1, <4>2
    <3> QED BY <3>1, <3>2
  <2>6. Spot(k - 1) = s[k] BY <1>2, <2>4
  <2>7. k - 1 = CHOOSE j \in 0..List!Bound : Ends(j) BY <1>c, <2>4, <2>5
  <2>8. List!get_object_item(p, x, exact) = IF s[k] = None \/ string[s[k]] = None THEN None ELSE s[k]
    BY <1>6, <2>6, <2>7
  <2>9. s[k] # None BY <1>1, <2>4
  <2>10. k \in 0..n /\ 0 \in 0..n BY <1>1, <2>4
  <2> QED BY <2>3, <2>4, <2>8, <2>9, <2>10 DEF s, n
<1> QED BY <1>7, <1>8

-----------------------------------------------------------------------------
(* Replacing frees what was replaced.                                      *)

\* An item's parent, but for i's, is below i exactly if the item is.
LEMMA UnderWhole ==
  ASSUME NEW f, Once(f), NEW i \in Nodes, NEW q \in Nodes, NEW j \in Nodes, Holds(f, q, j), j # i
  PROVE  q \in UnderOf(f, i) <=> j \in UnderOf(f, i)
<1>1. q \in UnderOf(f, i) => j \in UnderOf(f, i) BY UnderFacts DEF Closed
<1>2. ASSUME j \in UnderOf(f, i) PROVE q \in UnderOf(f, i)
  <2>1. PICK r \in UnderOf(f, i) : Holds(f, r, j) BY <1>2, UnderFacts
  <2>2. r \in Nodes BY <2>1, UnderFacts
  <2>3. r = q BY <2>1, <2>2 DEF Once, Holds
  <2> QED BY <2>1, <2>3
<1> QED BY <1>1, <1>2

\* cJSON_ReplaceItemViaPointer() links r in the place of item m of p, and
\* deletes that item with all that is under it.
Instead(f, p, m, r, G) ==
  [j \in Nodes |-> IF j = p THEN [f[p] EXCEPT ![m] = r] ELSE IF j \in G THEN << >> ELSE f[j]]

\* cJSON_ReplaceItemViaPointer() as a whole: the new item takes the place, the
\* old one is freed with all below it, and nothing else changes.
LEMMA ReplaceAllRep ==
  ASSUME Represents(next, prev, child, Lists), Acyclic(Lists),
         NEW p \in Nodes, NEW r \in Nodes, Free(Lists, r), p \notin UnderOf(Lists, r),
         NEW m \in 1..Len(Lists[p]), NEW i, i = Lists[p][m], List!ReplaceItemViaPointer(p, i, r),
         NEW G, G = UnderOf(Lists, i), NEW g, g = Instead(Lists, p, m, r, G)
  PROVE  /\ Represents(next', prev', child', g)
         /\ Acyclic(g)
         /\ allocated' = allocated \ G
         /\ G \subseteq Nodes /\ r \notin G /\ p \notin G
         /\ \A q \in Nodes, j \in Nodes : Holds(g, q, j) =>
              j = r \/ (Holds(Lists, q, j) /\ q \notin G /\ j \notin G)
         /\ g[p] # << >>
<1> DEFINE s == Lists[p]
           n == Len(s)
<1>1. /\ Lists \in [Nodes -> Seq(Nodes)]
      /\ s \in Seq(Nodes) /\ n \in Nat /\ Distinct(s)
      /\ \A k \in 1..n : s[k] \in Nodes /\ s[k] # None
      /\ child[p] = IF n = 0 THEN None ELSE s[1]
      /\ \A k \in 1..n : next[s[k]] = IF k = n THEN None ELSE s[k + 1]
      /\ \A k \in 1..n : prev[s[k]] = IF k = 1 THEN s[n] ELSE s[k - 1]
      /\ \A k \in 1..n : \A q \in Nodes \ {p} : ~ Holds(Lists, q, s[k])
      /\ \A j \in Nodes : Holds(Lists, p, j) <=> \E k \in 1..n : s[k] = j
  BY ListFacts
<1>2. /\ next \in [Nodes -> List!Pointer] /\ prev \in [Nodes -> List!Pointer]
      /\ child \in [Nodes -> List!Pointer] /\ Once(Lists)
      /\ r \in List!Pointer /\ None \in List!Pointer /\ r # None
  BY NodesAssumption DEF Represents, List!Pointer
<1>3. \A k \in 1..n : s[k] # r BY <1>1 DEF Free, Holds
<1>d. \A j, k \in 1..n : s[j] = s[k] => j = k BY <1>1 DEF Distinct
<1>4. m \in 1..n /\ m \in Nat /\ i = s[m] OBVIOUS
<1> HIDE DEF s, n
<1>x. /\ 1 \in 1..n /\ n \in 1..n /\ n # 0
      /\ m # n => m + 1 \in 1..n
      /\ m # 1 => m - 1 \in 1..n
  <2>1. n \in Nat /\ m \in 1..n BY <1>1, <1>4
  <2> QED BY <2>1
<1>0. /\ child[p] = s[1] /\ 1 \in 1..n /\ n \in 1..n /\ i \in Nodes /\ i # r /\ i # None
      /\ next[i] = (IF m = n THEN None ELSE s[m + 1])
      /\ prev[i] = (IF m = 1 THEN s[n] ELSE s[m - 1])
      /\ m # n => m + 1 \in 1..n
      /\ m # 1 => m - 1 \in 1..n
  <2>1. i \in Nodes /\ i # r /\ i # None BY <1>1, <1>3, <1>4
  <2>2. child[p] = s[1] BY <1>1, <1>x
  <2>3. next[i] = (IF m = n THEN None ELSE s[m + 1]) BY <1>1, <1>4
  <2>4. prev[i] = (IF m = 1 THEN s[n] ELSE s[m - 1]) BY <1>1, <1>4
  <2> QED BY <1>x, <2>1, <2>2, <2>3, <2>4
<1>5. /\ child[p] = i <=> m = 1
      /\ next[i] = None <=> m = n
      /\ child[p] = i /\ prev[i] = i <=> n = 1
  <2>1. child[p] = i <=> m = 1 BY <1>0, <1>4, <1>d
  <2>2. next[i] = None <=> m = n BY <1>0, <1>1
  <2>3. m = 1 => (prev[i] = i <=> n = 1) BY <1>0, <1>4, <1>d
  <2>4. n = 1 => m = 1 BY <1>4
  <2> QED BY <2>1, <2>2, <2>3, <2>4
<1>6. Holds(Lists, p, i) BY <1>0, <1>1, <1>4
<1>7. /\ G \subseteq Nodes /\ i \in G /\ p \notin G /\ r \notin G
  <2>1. G \subseteq Nodes /\ i \in G /\ p \notin G BY <1>0, <1>6, UnderFacts, ParentOutside
  <2>2. r \notin G
    <3> SUFFICES ASSUME r \in G PROVE FALSE OBVIOUS
    <3>1. \E q \in G : Holds(Lists, q, r) BY <1>0, UnderFacts
    <3> QED BY <2>1, <3>1 DEF Free
  <2> QED BY <2>1, <2>2
<1>8. \A k \in 1..n : s[k] \in G => k = m
  <2> SUFFICES ASSUME NEW k \in 1..n, k # m PROVE s[k] \notin G OBVIOUS
  <2>1. s[k] \in Nodes /\ s[k] # i BY <1>1, <1>4, <1>d
  <2>2. Holds(Lists, p, s[k]) BY <1>1, <2>1
  <2> QED BY <1>0, <1>2, <1>7, <2>1, <2>2, UnderWhole
<1>9. {i} \cup List!Chain(child[i]) = G BY <1>0, ChainOfChild
<1> DEFINE nx2 == [j \in Nodes |-> IF j = i THEN None ELSE IF j = r THEN next[i]
                                   ELSE IF m # 1 /\ j = s[m - 1] THEN r ELSE next[j]]
           pv2 == [j \in Nodes |-> IF j = i THEN None
                                   ELSE IF j = r THEN IF n = 1 THEN r ELSE prev[i]
                                   ELSE IF m # n /\ j = s[m + 1] THEN r
                                   ELSE IF m # 1 /\ m = n /\ j = s[1] THEN r ELSE prev[j]]
           ch2 == [j \in Nodes |-> IF j = p /\ m = 1 THEN r ELSE child[j]]
           g1 == [Lists EXCEPT ![p] = [Lists[p] EXCEPT ![m] = r]]
<1>10. Represents(nx2, pv2, ch2, g1)
  <2>1. /\ nx2 \in [Nodes -> List!Pointer] /\ pv2 \in [Nodes -> List!Pointer]
        /\ ch2 \in [Nodes -> List!Pointer]
    BY <1>0, <1>2
  <2>2. /\ \A j \in Nodes : nx2[j] = IF j = i THEN None ELSE IF j = r THEN next[i]
                                     ELSE IF m # 1 /\ j = s[m - 1] THEN r ELSE next[j]
        /\ \A j \in Nodes : pv2[j] = IF j = i THEN None
                                ELSE IF j = r THEN IF n = 1 THEN r ELSE prev[i]
                                ELSE IF m # n /\ j = s[m + 1] THEN r
                                ELSE IF m # 1 /\ m = n /\ j = s[1] THEN r ELSE prev[j]
        /\ \A j \in Nodes : ch2[j] = IF j = p /\ m = 1 THEN r ELSE child[j]
    OBVIOUS
  <2> HIDE DEF nx2, pv2, ch2
  <2>3. Relinked(Lists, p, m, r, nx2, pv2, ch2) BY <1>4, <2>1, <2>2 DEF s, n, Relinked
  <2> QED BY <2>3, ReplaceRep
<1>11. next' = [j \in Nodes |-> IF j \in G THEN None ELSE nx2[j]]
  <2>1. next' = [j \in Nodes |-> CASE j \in G -> None
                                   [] j = r -> next[i]
                                   [] child[p] # i /\ j = prev[i] -> r
                                   [] OTHER -> next[j]]
    BY <1>9 DEF List!ReplaceItemViaPointer
  <2>2. m # 1 => prev[i] = s[m - 1] /\ prev[i] \notin G /\ prev[i] # r BY <1>0, <1>3, <1>4, <1>8
  <2>3. \A j \in Nodes : j \in G => j # r /\ ~ (child[p] # i /\ j = prev[i]) BY <1>5, <1>7, <2>2
  <2>4. \A j \in Nodes : j = r => ~ (child[p] # i /\ j = prev[i]) BY <1>5, <2>2
  <2>5. \A j \in Nodes : next'[j] = IF j \in G THEN None ELSE IF j = r THEN next[i]
                                    ELSE IF child[p] # i /\ j = prev[i] THEN r ELSE next[j]
    BY <2>1, <2>3, <2>4
  <2>6. \A j \in Nodes : next'[j] = IF j \in G THEN None ELSE nx2[j]
    BY <1>5, <1>7, <2>2, <2>5
  <2> HIDE DEF nx2
  <2> QED BY <2>1, <2>6
<1>12. prev' = [j \in Nodes |-> IF j \in G THEN None ELSE pv2[j]]
  <2>1. prev' = [j \in Nodes |-> IF j \in G THEN None ELSE List!ReplacePrev(p, i, r)[j]]
    BY <1>9 DEF List!ReplaceItemViaPointer
  <2>s. /\ m # n => next[i] = s[m + 1] /\ s[m + 1] \in Nodes /\ s[m + 1] # r
        /\ child[p] \in Nodes /\ child[p] # r
    BY <1>0, <1>1, <1>3, <1>4
  <2>2. ASSUME NEW j \in Nodes, j \notin G PROVE List!ReplacePrev(p, i, r)[j] = pv2[j]
    <3> DEFINE a == IF next[i] = None THEN r ELSE next[i]
               last == child[p] # i /\ next[i] = None
               b == IF last THEN child[p] ELSE r
    <3>1. List!ReplacePrev(p, i, r) =
            [prev EXCEPT ![r] = IF n = 1 THEN r ELSE prev[i],
                         ![a] = IF next[i] = None THEN @ ELSE r,
                         ![b] = IF last THEN r ELSE @]
      BY <1>5 DEF List!ReplacePrev
    <3>2. CASE m # n
      <4>1. a = s[m + 1] /\ a \in Nodes /\ a # r /\ ~ last /\ b = r /\ next[i] # None
        BY <1>5, <2>s, <3>2
      <4> HIDE DEF a, b, last
      <4>2. List!ReplacePrev(p, i, r)[j] = IF j = r THEN IF n = 1 THEN r ELSE prev[i]
                                           ELSE IF j = a THEN r ELSE prev[j]
        BY <1>2, <3>1, <4>1
      <4> QED BY <1>7, <2>2, <3>2, <4>1, <4>2
    <3>3. CASE m = n /\ m # 1
      <4>1. a = r /\ last /\ b = s[1] /\ next[i] = None /\ b # r /\ b \in Nodes BY <1>0, <1>5, <2>s, <3>3
      <4> HIDE DEF a, b, last
      <4>2. List!ReplacePrev(p, i, r)[j] = IF j = r THEN IF n = 1 THEN r ELSE prev[i]
                                           ELSE IF j = b THEN r ELSE prev[j]
        BY <1>2, <3>1, <4>1
      <4> QED BY <1>7, <2>2, <3>3, <4>1, <4>2
    <3>4. CASE m = n /\ m = 1
      <4>1. a = r /\ ~ last /\ b = r /\ next[i] = None BY <1>0, <1>5, <3>4
      <4> HIDE DEF a, b, last
      <4>2. List!ReplacePrev(p, i, r)[j] = IF j = r THEN IF n = 1 THEN r ELSE prev[i] ELSE prev[j]
        BY <1>2, <3>1, <4>1
      <4> QED BY <1>7, <2>2, <3>4, <4>1, <4>2
    <3> QED BY <3>2, <3>3, <3>4
  <2> HIDE DEF pv2
  <2> QED BY <2>1, <2>2
<1>13. child' = [j \in Nodes |-> IF j \in G THEN None ELSE ch2[j]] /\ allocated' = allocated \ G
  <2>1. child' = [j \in Nodes |-> CASE j \in G -> None
                                   [] j = p /\ child[p] = i -> r
                                   [] OTHER -> child[j]] /\ allocated' = allocated \ G
    BY <1>9 DEF List!ReplaceItemViaPointer
  <2> QED BY <1>5, <1>7, <2>1
<1>g1. /\ g1 \in [Nodes -> Seq(Nodes)] /\ \A q \in Nodes \ {p} : g1[q] = Lists[q]
       /\ Len(g1[p]) = n /\ \A k \in 1..n : g1[p][k] = IF k = m THEN r ELSE s[k]
  BY <1>1, <1>4 DEF s, n
<1>n. n # 0 BY <1>0
<1>e. Len(<< >>) = 0 OBVIOUS
<1> HIDE DEF nx2, pv2, ch2, g1
<1>14. ASSUME NEW q \in Nodes, NEW j \in Nodes, Holds(g1, q, j)
       PROVE  /\ q \in G <=> j \in G
              /\ (q = p /\ j = r) \/ (Holds(Lists, q, j) /\ j # i)
  <2>1. CASE q = p
    <3>1. PICK k \in 1..n : g1[p][k] = j BY <1>14, <1>g1, <2>1 DEF Holds
    <3>2. CASE k = m BY <1>7, <1>g1, <2>1, <3>1, <3>2
    <3>3. CASE k # m
      <4>0. j = s[k] /\ j # i BY <1>4, <1>d, <1>g1, <3>1, <3>3
      <4>1. j = s[k] /\ j # i /\ Holds(Lists, p, j) BY <1>1, <4>0
      <4>2. j \notin G BY <1>8, <3>3, <4>1
      <4> QED BY <1>7, <2>1, <4>1, <4>2
    <3> QED BY <3>2, <3>3
  <2>2. CASE q # p
    <3>1. Holds(Lists, q, j) BY <1>14, <1>g1, <2>2 DEF Holds
    <3>2. j # i BY <1>1, <1>4, <2>2, <3>1
    <3>3. q \in G <=> j \in G BY <1>0, <1>2, <3>1, <3>2, UnderWhole
    <3> QED BY <3>1, <3>2, <3>3
  <2> QED BY <2>1, <2>2
<1>15. g = [j \in Nodes |-> IF j \in G THEN << >> ELSE g1[j]]
  BY <1>1, <1>7 DEF g1, Instead
<1>16. Represents(next', prev', child', g)
  <2>1. Apart(g1, G) BY <1>7, <1>14 DEF Apart
  <2>3. Represents(Cleared(nx2, G, None), Cleared(pv2, G, None), Cleared(ch2, G, None),
                   Cleared(g1, G, << >>))
    BY <1>10, <2>1, ClearRep
  <2> QED BY <1>11, <1>12, <1>13, <1>15, <2>3 DEF Cleared
<1>17. ASSUME NEW q \in Nodes, NEW j \in Nodes, Holds(g, q, j)
       PROVE  q \notin G /\ Holds(g1, q, j)
  <2>1. g[q] = IF q \in G THEN << >> ELSE g1[q] BY <1>15
  <2> QED BY <1>17, <1>e, <2>1 DEF Holds
<1>18. Acyclic(g)
  <2>1. \A q, j \in Nodes : Holds(g, q, j) => Holds(Lists, q, j) \/ (q = p /\ j = r)
    BY <1>14, <1>17
  <2> QED BY <2>1, AcyclicAdd
<1>19. \A q \in Nodes, j \in Nodes : Holds(g, q, j) =>
              j = r \/ (Holds(Lists, q, j) /\ q \notin G /\ j \notin G)
  BY <1>14, <1>17
<1>20. g[p] # << >> BY <1>7, <1>15, <1>e, <1>g1, <1>n
<1> QED BY <1>7, <1>13, <1>16, <1>18, <1>19, <1>20

-----------------------------------------------------------------------------
(* The invariant, and one lemma for each function.                         *)

\* The inductive invariant of the lists.
Listed(f, a, st2) ==
  /\ a \in SUBSET Nodes
  /\ st2 \in [Nodes -> List!Names \cup {None}]
  /\ Acyclic(f)
  /\ \A i \in Nodes \ a : st2[i] = None /\ f[i] = << >> /\ Free(f, i)

\* The invariant of the tree functions: the pointers represent the lists, and
\* the lists are of allocated items, acyclic, with names for items of
\* containers only.
ListInv == Represents(next, prev, child, Lists) /\ Listed(Lists, allocated, string)

\* A step that represents lists with these properties keeps the invariant, and
\* these are its lists afterwards.
LEMMA ListKept ==
  ASSUME NEW g, Represents(next', prev', child', g), Listed(g, allocated', string')
  PROVE  ListInv' /\ Lists' = g
<1>1. Lists' = g BY ListsAre
<1> QED BY <1>1 DEF ListInv

\* cJSON_CreateObject() and its like allocate an item in no list.
LEMMA CreateStep ==
  ASSUME ListInv, NEW i \in Nodes, List!Create(i)
  PROVE  ListInv' /\ List!Tree!Create(i)
<1>1. /\ i \notin allocated /\ allocated' = allocated \cup {i} /\ call' = <<"Create", i>>
      /\ next' = next /\ prev' = prev /\ child' = child /\ string' = string
  BY DEF List!Create
<1>2. Represents(next', prev', child', Lists) BY <1>1 DEF ListInv
<1>3. Listed(Lists, allocated', string') BY <1>1 DEF ListInv, Listed
<1>4. ListInv' /\ Lists' = Lists BY <1>2, <1>3, ListKept
<1> QED BY <1>1, <1>4 DEF List!Tree!Create, Lists

\* What a caller guarantees when it adds an item: both allocated, the item in
\* no list, and the container not below it.
LEMMA MayAddIs ==
  ASSUME ListInv, NEW p \in Nodes, NEW i \in Nodes, List!MayAdd(p, i)
  PROVE  /\ p \in allocated /\ i \in allocated /\ Free(Lists, i)
         /\ p \notin UnderOf(Lists, i) /\ p # i
         /\ Lists \in [Nodes -> Seq(Nodes)]
<1>1. Lists \in [Nodes -> Seq(Nodes)] BY DEF ListInv, Represents
<1>2. p \in allocated /\ List!Tree!Root(i) /\ p \notin List!Tree!Under(i)
  BY DEF List!MayAdd, List!Tree!MayAdd
<1>3. p \in allocated /\ i \in allocated /\ Free(Lists, i) /\ p \notin UnderOf(Lists, i)
  BY <1>1, <1>2, TreeIs
<1>4. i \in UnderOf(Lists, i) BY UnderFacts
<1> QED BY <1>1, <1>3, <1>4

\* The list of p becomes t, of its items and i.
LEMMA ListedAdd ==
  ASSUME NEW f \in [Nodes -> Seq(Nodes)], NEW a, NEW st2, Listed(f, a, st2),
         NEW p \in Nodes, p \in a, NEW i \in Nodes, i \in a, p \notin UnderOf(f, i), NEW t,
         \A k \in 1..Len(t) : t[k] = i \/ Holds(f, p, t[k]),
         NEW st3 \in [Nodes -> List!Names \cup {None}], \A j \in Nodes \ {i} : st3[j] = st2[j]
  PROVE  Listed([f EXCEPT ![p] = t], a, st3)
<1> DEFINE g == [f EXCEPT ![p] = t]
<1>1. g[p] = t /\ \A q \in Nodes \ {p} : g[q] = f[q] OBVIOUS
<1> HIDE DEF g
<1>2. \A q, j \in Nodes : Holds(g, q, j) => Holds(f, q, j) \/ (q = p /\ j = i)
  <2> SUFFICES ASSUME NEW q \in Nodes, NEW j \in Nodes, Holds(g, q, j)
               PROVE  Holds(f, q, j) \/ (q = p /\ j = i)
    OBVIOUS
  <2>1. CASE q = p BY <1>1, <2>1 DEF Holds
  <2>2. CASE q # p BY <1>1, <2>2 DEF Holds
  <2> QED BY <2>1, <2>2
<1>3. Acyclic(g) BY <1>2, AcyclicAdd DEF Listed
<1>4. ASSUME NEW j \in Nodes \ a PROVE st3[j] = None /\ g[j] = << >> /\ Free(g, j)
  <2>1. st2[j] = None /\ f[j] = << >> /\ Free(f, j) BY DEF Listed
  <2>2. j # p /\ j # i OBVIOUS
  <2>3. Free(g, j) BY <1>2, <2>1, <2>2 DEF Free
  <2> QED BY <1>1, <2>1, <2>2, <2>3
<1>5. Listed(g, a, st3) BY <1>3, <1>4 DEF Listed
<1> QED BY <1>5 DEF g

\* Appending keeps the invariant, whatever name the item is given.
LEMMA AppendStep ==
  ASSUME ListInv, NEW p \in Nodes, NEW i \in Nodes, List!MayAdd(p, i), List!add_item_to_array(p, i),
         allocated' = allocated, string' \in [Nodes -> List!Names \cup {None}],
         \A j \in Nodes \ {i} : string'[j] = string[j]
  PROVE  ListInv' /\ Lists' = [Lists EXCEPT ![p] = Append(Lists[p], i)]
<1>1. /\ p \in allocated /\ i \in allocated /\ Free(Lists, i)
      /\ p \notin UnderOf(Lists, i) /\ p # i
      /\ Lists \in [Nodes -> Seq(Nodes)]
  BY MayAddIs
<1> DEFINE t == Append(Lists[p], i)
<1>2. Represents(next', prev', child', [Lists EXCEPT ![p] = t]) BY <1>1, AppendRep DEF ListInv
<1>3. \A k \in 1..Len(t) : t[k] = i \/ Holds(Lists, p, t[k])
  <2> SUFFICES ASSUME NEW k \in 1..Len(t) PROVE t[k] = i \/ Holds(Lists, p, t[k]) OBVIOUS
  <2>1. Lists[p] \in Seq(Nodes) BY <1>1
  <2>2. k = Len(Lists[p]) + 1 \/ k \in 1..Len(Lists[p]) BY <2>1
  <2>3. CASE k = Len(Lists[p]) + 1 BY <2>1, <2>3
  <2>4. CASE k \in 1..Len(Lists[p])
    <3>1. t[k] = Lists[p][k] BY <2>1, <2>4
    <3> QED BY <2>4, <3>1 DEF Holds
  <2> QED BY <2>2, <2>3, <2>4
<1> HIDE DEF t
<1>4. Listed([Lists EXCEPT ![p] = t], allocated, string') BY <1>1, <1>3, ListedAdd DEF ListInv
<1>5. ListInv' /\ Lists' = [Lists EXCEPT ![p] = t] BY <1>2, <1>4, ListKept
<1> QED BY <1>5 DEF t

\* cJSON_AddItemToArray() and cJSON_AddItemToObject() append to the
\* container's sequence.
LEMMA AddStep ==
  ASSUME ListInv, NEW p \in Nodes, NEW i \in Nodes, List!MayAdd(p, i),
         NEW x \in List!Names \cup {None}, List!Add(p, i, x)
  PROVE  ListInv' /\ List!Tree!Add(p, i, x)
<1>1. /\ List!add_item_to_array(p, i) /\ allocated' = allocated /\ call' = <<"Add", p, i, x>>
      /\ string' = IF x = None THEN string ELSE [string EXCEPT ![i] = x]
  BY DEF List!Add
<1>2. string \in [Nodes -> List!Names \cup {None}] BY DEF ListInv, Listed
<1>3. string' \in [Nodes -> List!Names \cup {None}] /\ \A j \in Nodes \ {i} : string'[j] = string[j]
  BY <1>1, <1>2
<1>4. ListInv' /\ Lists' = [Lists EXCEPT ![p] = Append(Lists[p], i)] BY <1>1, <1>3, AppendStep
<1>5. List!Tree!MayAdd(p, i) BY DEF List!MayAdd
<1> QED BY <1>1, <1>4, <1>5 DEF List!Tree!Add, Lists

\* cJSON_InsertItemInArray() inserts into the container's sequence, or appends
\* beyond its end.
LEMMA InsertStep ==
  ASSUME ListInv, NEW p \in Nodes, NEW i \in Nodes, List!MayAdd(p, i),
         NEW w \in Nat, List!InsertItemInArray(p, w, i)
  PROVE  ListInv' /\ List!Tree!Insert(p, w, i)
<1>0. /\ p \in allocated /\ i \in allocated /\ Free(Lists, i)
      /\ p \notin UnderOf(Lists, i) /\ p # i
      /\ Lists \in [Nodes -> Seq(Nodes)] /\ Lists[p] \in Seq(Nodes) /\ Len(Lists[p]) \in Nat
      /\ \A k \in 1..Len(Lists[p]) : Lists[p][k] # None
  BY MayAddIs, NodesAssumption
<1>1. /\ IF List!get_array_item(p, w) = None THEN List!add_item_to_array(p, i)
         ELSE List!InsertBefore(p, List!get_array_item(p, w), i)
      /\ allocated' = allocated /\ string' = string /\ call' = <<"Insert", p, w, i>>
  BY DEF List!InsertItemInArray
<1>2. List!get_array_item(p, w) = IF w < Len(Lists[p]) THEN Lists[p][w + 1] ELSE None
  BY ArrayItem DEF ListInv
<1>3. string \in [Nodes -> List!Names \cup {None}] BY DEF ListInv, Listed
<1>4. List!Tree!MayAdd(p, i) BY DEF List!MayAdd
<1>5. CASE ~ (w < Len(Lists[p]))
  <2>1. List!add_item_to_array(p, i) BY <1>1, <1>2, <1>5
  <2>2. ListInv' /\ Lists' = [Lists EXCEPT ![p] = Append(Lists[p], i)] BY <1>1, <1>3, <2>1, AppendStep
  <2> QED BY <1>0, <1>1, <1>4, <1>5, <2>2 DEF List!Tree!Insert, Lists
<1>6. CASE w < Len(Lists[p])
  <2> DEFINE t == List!Tree!InsertAt(Lists[p], w + 1, i)
  <2>1. w + 1 \in 1..Len(Lists[p]) BY <1>0, <1>6
  <2>2. List!InsertBefore(p, Lists[p][w + 1], i) BY <1>0, <1>1, <1>2, <1>6, <2>1
  <2>3. /\ t \in Seq(Nodes) /\ Len(t) = Len(Lists[p]) + 1
        /\ \A k \in 1..Len(t) : t[k] = IF k < w + 1 THEN Lists[p][k]
                                       ELSE IF k = w + 1 THEN i ELSE Lists[p][k - 1]
    <3>1. /\ t \in Seq(Nodes) /\ Len(t) = Len(Lists[p]) + 1
          /\ \A k \in 1..(Len(Lists[p]) + 1) : t[k] = IF k < w + 1 THEN Lists[p][k]
                                       ELSE IF k = w + 1 THEN i ELSE Lists[p][k - 1]
      BY <1>0, <2>1, InsertedSeq
    <3> HIDE DEF t
    <3> QED BY <3>1
  <2> HIDE DEF t
  <2>4. Represents(next', prev', child', [Lists EXCEPT ![p] = t])
    BY <1>0, <2>1, <2>2, <2>3, InsertRep DEF ListInv, Inserted
  <2>5. \A k \in 1..Len(t) : t[k] = i \/ Holds(Lists, p, t[k])
    <3> SUFFICES ASSUME NEW k \in 1..Len(t) PROVE t[k] = i \/ Holds(Lists, p, t[k]) OBVIOUS
    <3>1. CASE k < w + 1
      <4>1. k \in 1..Len(Lists[p]) /\ t[k] = Lists[p][k] BY <1>0, <2>1, <2>3, <3>1
      <4> QED BY <4>1 DEF Holds
    <3>2. CASE k = w + 1 BY <2>3, <3>2
    <3>3. CASE k > w + 1
      <4>1. k - 1 \in 1..Len(Lists[p]) /\ t[k] = Lists[p][k - 1] BY <1>0, <2>1, <2>3, <3>3
      <4> QED BY <4>1 DEF Holds
    <3> QED BY <2>1, <2>3, <3>1, <3>2, <3>3
  <2>6. Listed([Lists EXCEPT ![p] = t], allocated, string') BY <1>0, <1>1, <1>3, <2>5, ListedAdd DEF ListInv
  <2>7. ListInv' /\ Lists' = [Lists EXCEPT ![p] = t] BY <1>1, <2>4, <2>6, ListKept
  <2>8. Lists' = [Lists EXCEPT ![p] = IF w < Len(Lists[p]) THEN List!Tree!InsertAt(Lists[p], w + 1, i)
                                                            ELSE Append(Lists[p], i)]
    BY <1>6, <2>7 DEF t
  <2> QED BY <1>0, <1>1, <1>4, <2>7, <2>8 DEF List!Tree!Insert, Lists
<1> QED BY <1>5, <1>6

\* cJSON_DetachItemViaPointer() removes one item of the container's sequence.
LEMMA RemovedStep ==
  ASSUME ListInv, NEW p \in Nodes, NEW m \in 1..Len(Lists[p]),
         List!DetachItemViaPointer(p, Lists[p][m]), allocated' = allocated, string' = string
  PROVE  ListInv' /\ List!Tree!Removed(p, m)
<1> DEFINE t == List!Tree!RemoveAt(Lists[p], m)
<1>0. /\ Lists \in [Nodes -> Seq(Nodes)] /\ Lists[p] \in Seq(Nodes) /\ Len(Lists[p]) \in Nat /\ m # 0
      /\ Represents(next, prev, child, Lists)
  BY DEF ListInv, Represents
<1>1. /\ t \in Seq(Nodes) /\ Len(t) = Len(Lists[p]) - 1
      /\ \A k \in 1..Len(t) : t[k] = IF k < m THEN Lists[p][k] ELSE Lists[p][k + 1]
  <2>1. /\ t \in Seq(Nodes) /\ Len(t) = Len(Lists[p]) - 1
        /\ \A k \in 1..(Len(Lists[p]) - 1) : t[k] = IF k < m THEN Lists[p][k] ELSE Lists[p][k + 1]
    BY <1>0, RemovedSeq
  <2> HIDE DEF t
  <2> QED BY <2>1
<1> HIDE DEF t
<1>2. Represents(next', prev', child', [Lists EXCEPT ![p] = t]) BY <1>0, <1>1, DetachRep
<1> DEFINE g == [Lists EXCEPT ![p] = t]
<1>3. g[p] = t /\ \A q \in Nodes \ {p} : g[q] = Lists[q] BY <1>0
<1> HIDE DEF g
<1>4. \A q, j \in Nodes : Holds(g, q, j) => Holds(Lists, q, j)
  <2> SUFFICES ASSUME NEW q \in Nodes, NEW j \in Nodes, Holds(g, q, j) PROVE Holds(Lists, q, j)
    OBVIOUS
  <2>1. CASE q = p
    <3>1. PICK k \in 1..Len(t) : t[k] = j BY <1>3, <2>1 DEF Holds
    <3>2. k \in 1..Len(Lists[p]) /\ k + 1 \in 1..Len(Lists[p]) BY <1>0, <1>1
    <3> QED BY <1>1, <2>1, <3>1, <3>2 DEF Holds
  <2>2. CASE q # p BY <1>3, <2>2 DEF Holds
  <2> QED BY <2>1, <2>2
<1>5. Acyclic(g) BY <1>4, AcyclicLess DEF ListInv, Listed
<1>6. Listed(g, allocated', string')
  <2>1. Listed(Lists, allocated, string) BY DEF ListInv
  <2>2. ASSUME NEW j \in Nodes \ allocated PROVE string[j] = None /\ g[j] = << >> /\ Free(g, j)
    <3>1. string[j] = None /\ Lists[j] = << >> /\ Free(Lists, j) BY <2>1 DEF Listed
    <3>2. j # p BY <1>0, <3>1
    <3> QED BY <1>3, <1>4, <3>1, <3>2 DEF Free
  <2> QED BY <1>5, <2>1, <2>2 DEF Listed
<1>7. ListInv' /\ Lists' = [Lists EXCEPT ![p] = t] BY <1>2, <1>6, ListKept DEF g
<1> QED BY <1>0, <1>7 DEF List!Tree!Removed, Lists, t

\* cJSON_DetachItemFromArray() removes the item at an index, if there is one.
LEMMA DetachStep ==
  ASSUME ListInv, NEW p \in Nodes, NEW w \in Nat, List!DetachItemFromArray(p, w)
  PROVE  ListInv' /\ List!Tree!Detach(p, w)
<1>1. /\ List!get_array_item(p, w) # None /\ List!DetachItemViaPointer(p, List!get_array_item(p, w))
      /\ call' = <<"Detach", p, w>> /\ string' = string /\ allocated' = allocated
  BY DEF List!DetachItemFromArray
<1>2. List!get_array_item(p, w) = IF w < Len(Lists[p]) THEN Lists[p][w + 1] ELSE None
  BY ArrayItem DEF ListInv
<1>3. w < Len(Lists[p]) BY <1>1, <1>2
<1>4. Len(Lists[p]) \in Nat BY DEF ListInv, Represents
<1>5. w + 1 \in 1..Len(Lists[p]) BY <1>3, <1>4
<1>6. List!DetachItemViaPointer(p, Lists[p][w + 1]) BY <1>1, <1>2, <1>3
<1>7. ListInv' /\ List!Tree!Removed(p, w + 1) BY <1>1, <1>5, <1>6, RemovedStep
<1> QED BY <1>1, <1>3, <1>7 DEF List!Tree!Detach, Lists

\* cJSON_DetachItemFromObject() removes the first item with the name, if there
\* is one.
LEMMA DetachNamedStep ==
  ASSUME ListInv, NEW p \in Nodes, NEW x \in List!Names, NEW exact \in BOOLEAN,
         List!DetachItemFromObject(p, x, exact)
  PROVE  ListInv' /\ List!Tree!DetachNamed(p, x, exact)
<1> DEFINE k == List!Tree!Lookup(p, x, exact)
<1>1. /\ List!get_object_item(p, x, exact) # None
      /\ List!DetachItemViaPointer(p, List!get_object_item(p, x, exact))
      /\ call' = <<"DetachNamed", p, x, exact>> /\ string' = string /\ allocated' = allocated
  BY DEF List!DetachItemFromObject
<1>2. /\ k \in 0..Len(Lists[p])
      /\ List!get_object_item(p, x, exact) = IF k = 0 THEN None ELSE Lists[p][k]
  BY ObjectItem DEF ListInv
<1>3. Len(Lists[p]) \in Nat BY DEF ListInv, Represents
<1> HIDE DEF k
<1>4. k # 0 /\ k \in 1..Len(Lists[p]) BY <1>1, <1>2, <1>3
<1>5. List!DetachItemViaPointer(p, Lists[p][k]) BY <1>1, <1>2, <1>4
<1>6. ListInv' /\ List!Tree!Removed(p, k) BY <1>1, <1>4, <1>5, RemovedStep
<1> QED BY <1>1, <1>6 DEF List!Tree!DetachNamed, k

\* cJSON_ReplaceItemViaPointer() replaces one item of the container's sequence
\* and frees the old one.
LEMMA ReplacedStep ==
  ASSUME ListInv, NEW p \in Nodes, NEW r \in Nodes, List!MayAdd(p, r), NEW m \in 1..Len(Lists[p]),
         List!ReplaceItemViaPointer(p, Lists[p][m], r),
         NEW x \in List!Names \cup {None},
         string' = [j \in Nodes |-> IF j = r THEN x ELSE IF j \in allocated' THEN string[j] ELSE None]
  PROVE  ListInv' /\ List!Tree!Replaced(p, m, r, x)
<1>0. /\ p \in allocated /\ r \in allocated /\ Free(Lists, r)
      /\ p \notin UnderOf(Lists, r) /\ p # r
      /\ Lists \in [Nodes -> Seq(Nodes)]
      /\ Represents(next, prev, child, Lists) /\ Listed(Lists, allocated, string)
  BY MayAddIs DEF ListInv
<1> DEFINE i == Lists[p][m]
           G == UnderOf(Lists, i)
           g == [j \in Nodes |-> IF j = p THEN [Lists[p] EXCEPT ![m] = r]
                                 ELSE IF j \in G THEN << >> ELSE Lists[j]]
<1>1. /\ Represents(next', prev', child', g)
      /\ Acyclic(g)
      /\ allocated' = allocated \ G
      /\ G \subseteq Nodes /\ r \notin G /\ p \notin G
      /\ \A q \in Nodes, j \in Nodes : Holds(g, q, j) =>
              j = r \/ (Holds(Lists, q, j) /\ q \notin G /\ j \notin G)
  <2>1. g = Instead(Lists, p, m, r, G) BY DEF Instead
  <2>2. Acyclic(Lists) BY <1>0 DEF Listed
  <2>3. i = Lists[p][m] /\ G = UnderOf(Lists, i) /\ List!ReplaceItemViaPointer(p, i, r) OBVIOUS
  <2> HIDE DEF i, G, g
  <2> QED BY <1>0, <2>1, <2>2, <2>3, ReplaceAllRep
<1>i. i \in Nodes BY <1>0
<1>2. g[p] = [Lists[p] EXCEPT ![m] = r] /\ \A q \in Nodes \ {p} : g[q] = IF q \in G THEN << >> ELSE Lists[q]
  BY <1>0
<1>t. /\ G = List!Tree!Under(Lists[p][m])
      /\ g = [j \in Nodes |-> IF j = p THEN [Lists[p] EXCEPT ![m] = r]
                                 ELSE IF j \in G THEN << >> ELSE Lists[j]]
  BY <1>0, <1>i, TreeIs
<1> HIDE DEF G, g, i
<1>3. Listed(g, allocated', string')
  <2>1. allocated' \in SUBSET Nodes BY <1>0, <1>1 DEF Listed
  <2>2. string' \in [Nodes -> List!Names \cup {None}] BY <1>0 DEF Listed
  <2>3. ASSUME NEW j \in Nodes \ allocated' PROVE string'[j] = None /\ g[j] = << >> /\ Free(g, j)
    <3>1. j # r /\ j # p /\ (j \in G \/ j \notin allocated) BY <1>0, <1>1
    <3>2. string'[j] = None BY <3>1
    <3>3. j \notin allocated => Lists[j] = << >> /\ Free(Lists, j) BY <1>0 DEF Listed
    <3>4. g[j] = << >> BY <1>2, <3>1, <3>3
    <3>5. Free(g, j) BY <1>1, <3>1, <3>3 DEF Free
    <3> QED BY <3>2, <3>4, <3>5
  <2> QED BY <1>1, <2>1, <2>2, <2>3 DEF Listed
<1>4. ListInv' /\ Lists' = g BY <1>1, <1>3, ListKept
<1>5. string' = [j \in Nodes |-> IF j = r THEN x ELSE IF j \in G THEN None ELSE string[j]]
  <2>1. \A j \in Nodes : j \notin allocated => string[j] = None BY <1>0 DEF Listed
  <2> QED BY <1>0, <1>1, <2>1
<1> QED BY <1>1, <1>4, <1>5, <1>t DEF List!Tree!Replaced, Lists

\* cJSON_ReplaceItemInArray() replaces the item at an index, if there is one.
LEMMA ReplaceStep ==
  ASSUME ListInv, NEW p \in Nodes, NEW i \in Nodes, List!MayAdd(p, i),
         NEW w \in Nat, List!ReplaceItemInArray(p, w, i)
  PROVE  ListInv' /\ List!Tree!Replace(p, w, i)
<1>1. /\ List!get_array_item(p, w) # None
      /\ List!ReplaceItemViaPointer(p, List!get_array_item(p, w), i)
      /\ string' = [j \in Nodes |-> IF j \in allocated' THEN string[j] ELSE None]
      /\ call' = <<"Replace", p, w, i>>
  BY DEF List!ReplaceItemInArray
<1>2. List!get_array_item(p, w) = IF w < Len(Lists[p]) THEN Lists[p][w + 1] ELSE None
  BY ArrayItem DEF ListInv
<1>3. w < Len(Lists[p]) BY <1>1, <1>2
<1>4. Len(Lists[p]) \in Nat /\ Lists \in [Nodes -> Seq(Nodes)] BY DEF ListInv, Represents
<1>5. w + 1 \in 1..Len(Lists[p]) BY <1>3, <1>4
<1>6. List!ReplaceItemViaPointer(p, Lists[p][w + 1], i) BY <1>1, <1>2, <1>3
<1>7. string[i] \in List!Names \cup {None} BY DEF ListInv, Listed
<1>8. i \in allocated'
  <2>1. i \in allocated /\ Free(Lists, i) BY MayAddIs
  <2>2. allocated' = allocated \ ({Lists[p][w + 1]} \cup List!Chain(child[Lists[p][w + 1]]))
    BY <1>6 DEF List!ReplaceItemViaPointer
  <2>3. Lists[p][w + 1] \in Nodes /\ Holds(Lists, p, Lists[p][w + 1]) BY <1>4, <1>5 DEF Holds
  <2>4. allocated' = allocated \ UnderOf(Lists, Lists[p][w + 1])
    BY <2>2, <2>3, ChainOfChild DEF ListInv, Listed
  <2>5. i # Lists[p][w + 1] BY <2>1, <2>3 DEF Free
  <2>6. UnderOf(Lists, Lists[p][w + 1]) \subseteq Nodes BY <2>3, UnderFacts
  <2>7. i \notin UnderOf(Lists, Lists[p][w + 1]) BY <2>1, <2>3, <2>5, <2>6, UnderFacts DEF Free
  <2> QED BY <2>1, <2>4, <2>7
<1>9. string' = [j \in Nodes |-> IF j = i THEN string[i] ELSE IF j \in allocated' THEN string[j] ELSE None]
  BY <1>1, <1>8
<1>10. ListInv' /\ List!Tree!Replaced(p, w + 1, i, string[i])
  <2> DEFINE x == string[i]
  <2>1. x \in List!Names \cup {None} BY <1>7
  <2>2. string' = [j \in Nodes |-> IF j = i THEN x ELSE IF j \in allocated' THEN string[j] ELSE None] BY <1>9
  <2> HIDE DEF x
  <2>3. ListInv' /\ List!Tree!Replaced(p, w + 1, i, x) BY <1>5, <1>6, <2>1, <2>2, ReplacedStep
  <2> QED BY <2>3 DEF x
<1>11. List!Tree!MayAdd(p, i) BY DEF List!MayAdd
<1>12. w < Len(List!Items(p)) BY <1>3 DEF Lists
<1> QED BY <1>1, <1>10, <1>11, <1>12 DEF List!Tree!Replace, Lists

\* cJSON_ReplaceItemInObject() replaces the first item with the name, and
\* gives the new one the name either way.
LEMMA ReplaceNamedStep ==
  ASSUME ListInv, NEW p \in Nodes, NEW i \in Nodes, List!MayAdd(p, i),
         NEW x \in List!Names, NEW exact \in BOOLEAN, List!ReplaceItemInObject(p, x, exact, i)
  PROVE  ListInv' /\ List!Tree!ReplaceNamed(p, x, exact, i)
<1> DEFINE k == List!Tree!Lookup(p, x, exact)
<1>1. /\ IF List!get_object_item(p, x, exact) = None
           THEN next' = next /\ prev' = prev /\ child' = child /\ allocated' = allocated
           ELSE List!ReplaceItemViaPointer(p, List!get_object_item(p, x, exact), i)
      /\ string' = [j \in Nodes |-> IF j = i THEN x ELSE IF j \in allocated' THEN string[j] ELSE None]
      /\ call' = <<"ReplaceNamed", p, x, exact, i>>
  BY DEF List!ReplaceItemInObject
<1>2. /\ k \in 0..Len(Lists[p])
      /\ List!get_object_item(p, x, exact) = IF k = 0 THEN None ELSE Lists[p][k]
  BY ObjectItem DEF ListInv
<1>3. /\ Len(Lists[p]) \in Nat /\ Lists \in [Nodes -> Seq(Nodes)]
      /\ \A j \in 1..Len(Lists[p]) : Lists[p][j] # None
  BY NodesAssumption DEF ListInv, Represents
<1>4. List!Tree!MayAdd(p, i) /\ i \in allocated BY MayAddIs DEF List!MayAdd
<1>5. CASE k = 0
  <2>1. next' = next /\ prev' = prev /\ child' = child /\ allocated' = allocated BY <1>1, <1>2, <1>5
  <2>2. \A j \in Nodes : j \notin allocated => string[j] = None BY DEF ListInv, Listed
  <2>3. string \in [Nodes -> List!Names \cup {None}] BY DEF ListInv, Listed
  <2>4. string' = [string EXCEPT ![i] = x] BY <1>1, <2>1, <2>2, <2>3
  <2>5. Represents(next', prev', child', Lists) BY <2>1 DEF ListInv
  <2>6. Listed(Lists, allocated', string') BY <1>4, <2>1, <2>3, <2>4 DEF ListInv, Listed
  <2>7. ListInv' /\ Lists' = Lists BY <2>5, <2>6, ListKept
  <2> QED BY <1>1, <1>4, <1>5, <2>1, <2>4, <2>7 DEF List!Tree!ReplaceNamed, Lists
<1>6. CASE k # 0
  <2>1. k \in 1..Len(Lists[p]) BY <1>2, <1>3, <1>6
  <2>2. List!ReplaceItemViaPointer(p, Lists[p][k], i) BY <1>1, <1>2, <1>3, <1>6, <2>1
  <2>3. x \in List!Names \cup {None} OBVIOUS
  <2> HIDE DEF k
  <2>4. ListInv' /\ List!Tree!Replaced(p, k, i, x) BY <1>1, <2>1, <2>2, <2>3, ReplacedStep
  <2> QED BY <1>1, <1>4, <1>6, <2>4 DEF List!Tree!ReplaceNamed, k
<1> QED BY <1>5, <1>6

\* cJSON_Delete() frees the item with all below it, and nothing else.
LEMMA DeleteStep ==
  ASSUME ListInv, NEW i \in Nodes, List!Delete(i)
  PROVE  ListInv' /\ List!Tree!Delete(i)
<1> DEFINE G == UnderOf(Lists, i)
           g == [j \in Nodes |-> IF j \in G THEN << >> ELSE Lists[j]]
<1>0. /\ Represents(next, prev, child, Lists) /\ Listed(Lists, allocated, string)
      /\ Lists \in [Nodes -> Seq(Nodes)] /\ Once(Lists)
  BY DEF ListInv, Represents
<1>1. List!Tree!Root(i) BY DEF List!Delete
<1>2. i \in allocated /\ Free(Lists, i) /\ List!Tree!Under(i) = G BY <1>0, <1>1, TreeIs
<1>3. List!Chain(i) = G BY <1>0, <1>2, ChainOfFree
<1>4. /\ allocated' = allocated \ G
      /\ next' = [j \in Nodes |-> IF j \in G THEN None ELSE next[j]]
      /\ prev' = [j \in Nodes |-> IF j \in G THEN None ELSE prev[j]]
      /\ child' = [j \in Nodes |-> IF j \in G THEN None ELSE child[j]]
      /\ string' = [j \in Nodes |-> IF j \in G THEN None ELSE string[j]]
      /\ call' = <<"Delete", i>>
  BY <1>3 DEF List!Delete
<1>5. G \subseteq Nodes BY UnderFacts
<1>g. g = [j \in Nodes |-> IF j \in G THEN << >> ELSE Lists[j]] OBVIOUS
<1>6. \A q \in Nodes, j \in Nodes : Holds(Lists, q, j) => (q \in G <=> j \in G)
  BY <1>0, <1>2, UnderWhole DEF Free
<1> HIDE DEF G
<1>7. Apart(Lists, G) BY <1>5, <1>6 DEF Apart
<1>8. Represents(next', prev', child', g)
  <2>1. Represents(Cleared(next, G, None), Cleared(prev, G, None), Cleared(child, G, None),
                   Cleared(Lists, G, << >>))
    BY <1>0, <1>7, ClearRep
  <2> QED BY <1>4, <2>1 DEF Cleared
<1> HIDE DEF g
<1>9. \A q, j \in Nodes : Holds(g, q, j) => Holds(Lists, q, j) /\ q \notin G
  <2> SUFFICES ASSUME NEW q \in Nodes, NEW j \in Nodes, Holds(g, q, j) PROVE Holds(Lists, q, j) /\ q \notin G
    OBVIOUS
  <2>1. g[q] = IF q \in G THEN << >> ELSE Lists[q] BY <1>g
  <2>2. Len(<< >>) = 0 OBVIOUS
  <2> QED BY <2>1, <2>2 DEF Holds
<1>10. Acyclic(g) BY <1>0, <1>9, AcyclicLess DEF Listed
<1>11. Listed(g, allocated', string')
  <2>1. allocated' \in SUBSET Nodes BY <1>0, <1>4 DEF Listed
  <2>2. string' \in [Nodes -> List!Names \cup {None}] BY <1>0, <1>4 DEF Listed
  <2>3. ASSUME NEW j \in Nodes \ allocated' PROVE string'[j] = None /\ g[j] = << >> /\ Free(g, j)
    <3>1. j \in G \/ j \notin allocated BY <1>4
    <3>2. j \notin allocated => string[j] = None /\ Lists[j] = << >> /\ Free(Lists, j) BY <1>0 DEF Listed
    <3>3. string'[j] = None /\ g[j] = << >> BY <1>4, <1>g, <3>1, <3>2
    <3>4. Free(g, j) BY <1>6, <1>9, <3>1, <3>2 DEF Free
    <3> QED BY <3>3, <3>4
  <2> QED BY <1>10, <2>1, <2>2, <2>3 DEF Listed
<1>12. ListInv' /\ Lists' = g BY <1>8, <1>11, ListKept
<1> QED BY <1>1, <1>2, <1>4, <1>12, <1>g DEF List!Tree!Delete, Lists

-----------------------------------------------------------------------------
(* The theorems.                                                           *)

\* Before the first call there are no items, and no lists.
LEMMA ListInitially ==
  ASSUME List!Init
  PROVE  ListInv /\ List!Tree!Init
<1> DEFINE f == [p \in Nodes |-> << >>]
<1>1. /\ next = [i \in Nodes |-> None] /\ prev = [i \in Nodes |-> None]
      /\ child = [i \in Nodes |-> None] /\ string = [i \in Nodes |-> None]
      /\ allocated = {} /\ call = << >>
  BY DEF List!Init
<1>2. f \in [Nodes -> Seq(Nodes)] /\ \A p \in Nodes : Len(f[p]) = 0 /\ f[p] = << >> OBVIOUS
<1>3. None \in List!Pointer BY DEF List!Pointer
<1> HIDE DEF f
<1>4. \A p, j \in Nodes : ~ Holds(f, p, j) BY <1>2 DEF Holds
<1>5. Represents(next, prev, child, f)
  <2>1. /\ next \in [Nodes -> List!Pointer] /\ prev \in [Nodes -> List!Pointer]
        /\ child \in [Nodes -> List!Pointer]
    BY <1>1, <1>3
  <2>2. Once(f) BY <1>2 DEF Once
  <2>3. \A p \in Nodes : child[p] = HeadOf(f[p]) BY <1>1, <1>2 DEF HeadOf
  <2>4. \A p \in Nodes : Along(next, f[p]) /\ Back(prev, f[p]) BY <1>2 DEF Along, Back
  <2> QED BY <1>1, <1>2, <2>1, <2>2, <2>3, <2>4 DEF Represents
<1>6. Lists = f BY <1>5, ListsAre
<1>7. Acyclic(f) BY <1>4 DEF Acyclic
<1>8. Listed(f, allocated, string) BY <1>1, <1>2, <1>4, <1>7 DEF Listed, Free
<1>9. ListInv BY <1>5, <1>6, <1>8 DEF ListInv
<1>10. List!Tree!Init BY <1>1, <1>6 DEF List!Tree!Init, Lists, f
<1> QED BY <1>9, <1>10

\* Every call keeps the invariant, and is the operation of JsonTree.
LEMMA ListSteps ==
  ASSUME ListInv, List!Next
  PROVE  ListInv' /\ List!Tree!Next
<1>a. allocated \subseteq Nodes /\ \A p \in allocated : Lists[p] = List!Items(p) /\ Len(Lists[p]) \in Nat
  <2>1. allocated \subseteq Nodes BY DEF ListInv, Listed
  <2>2. \A p \in Nodes : Lists[p] = List!Items(p) /\ Lists[p] \in Seq(Nodes) BY DEF ListInv, Represents, Lists
  <2> QED BY <2>1, <2>2
<1>1. ASSUME NEW i \in Nodes, List!Create(i) \/ List!Delete(i)
      PROVE  ListInv' /\ (List!Tree!Create(i) \/ List!Tree!Delete(i))
  BY <1>1, CreateStep, DeleteStep
<1>2. ASSUME NEW p \in allocated, NEW w \in 0..Len(List!Items(p)), List!DetachItemFromArray(p, w)
      PROVE  ListInv' /\ List!Tree!Detach(p, w)
  BY <1>2, <1>a, DetachStep
<1>3. ASSUME NEW p \in allocated, NEW x \in List!Names, NEW e \in BOOLEAN, List!DetachItemFromObject(p, x, e)
      PROVE  ListInv' /\ List!Tree!DetachNamed(p, x, e)
  BY <1>3, <1>a, DetachNamedStep
<1>4. ASSUME NEW p \in allocated, NEW i \in allocated, List!MayAdd(p, i),
             NEW x \in List!Names \cup {None}, List!Add(p, i, x)
      PROVE  ListInv' /\ List!Tree!Add(p, i, x)
  BY <1>4, <1>a, AddStep
<1>5. ASSUME NEW p \in allocated, NEW i \in allocated, List!MayAdd(p, i),
             NEW w \in 0..Len(List!Items(p)), List!InsertItemInArray(p, w, i)
      PROVE  ListInv' /\ List!Tree!Insert(p, w, i)
  BY <1>5, <1>a, InsertStep
<1>6. ASSUME NEW p \in allocated, NEW i \in allocated, List!MayAdd(p, i),
             NEW w \in 0..Len(List!Items(p)), List!ReplaceItemInArray(p, w, i)
      PROVE  ListInv' /\ List!Tree!Replace(p, w, i)
  BY <1>6, <1>a, ReplaceStep
<1>7. ASSUME NEW p \in allocated, NEW i \in allocated, List!MayAdd(p, i),
             NEW x \in List!Names, NEW e \in BOOLEAN, List!ReplaceItemInObject(p, x, e, i)
      PROVE  ListInv' /\ List!Tree!ReplaceNamed(p, x, e, i)
  BY <1>7, <1>a, ReplaceNamedStep
<1>8. CASE \E i \in Nodes : List!Create(i) \/ List!Delete(i)
  BY <1>1, <1>8 DEF List!Tree!Next
<1>9. CASE \E p \in allocated :
             \/ \E w \in 0..Len(List!Items(p)) : List!DetachItemFromArray(p, w)
             \/ \E x \in List!Names, e \in BOOLEAN : List!DetachItemFromObject(p, x, e)
  <2>1. PICK p \in allocated :
             \/ \E w \in 0..Len(List!Items(p)) : List!DetachItemFromArray(p, w)
             \/ \E x \in List!Names, e \in BOOLEAN : List!DetachItemFromObject(p, x, e)
    BY <1>9
  <2>2. ListInv' /\ (\/ \E w \in 0..Len(List!Items(p)) : List!Tree!Detach(p, w)
                     \/ \E x \in List!Names, e \in BOOLEAN : List!Tree!DetachNamed(p, x, e))
    BY <1>2, <1>3, <2>1
  <2>3. Lists[p] = List!Items(p) BY <1>a
  <2>4. \/ \E w \in 0..Len(Lists[p]) : List!Tree!Detach(p, w)
        \/ \E x \in List!Names, e \in BOOLEAN : List!Tree!DetachNamed(p, x, e)
    BY <2>2, <2>3
  <2> QED BY <2>2, <2>4 DEF List!Tree!Next, Lists
<1>10. CASE \E p, i \in allocated :
          /\ List!MayAdd(p, i)
          /\ \/ \E x \in List!Names \cup {None} : List!Add(p, i, x)
             \/ \E w \in 0..Len(List!Items(p)) :
                   List!InsertItemInArray(p, w, i) \/ List!ReplaceItemInArray(p, w, i)
             \/ \E x \in List!Names, e \in BOOLEAN : List!ReplaceItemInObject(p, x, e, i)
  <2>1. PICK p \in allocated, i \in allocated :
          /\ List!MayAdd(p, i)
          /\ \/ \E x \in List!Names \cup {None} : List!Add(p, i, x)
             \/ \E w \in 0..Len(List!Items(p)) :
                   List!InsertItemInArray(p, w, i) \/ List!ReplaceItemInArray(p, w, i)
             \/ \E x \in List!Names, e \in BOOLEAN : List!ReplaceItemInObject(p, x, e, i)
    BY <1>10
  <2>2. /\ ListInv'
        /\ \/ \E x \in List!Names \cup {None} : List!Tree!Add(p, i, x)
           \/ \E w \in 0..Len(List!Items(p)) : List!Tree!Insert(p, w, i) \/ List!Tree!Replace(p, w, i)
           \/ \E x \in List!Names, e \in BOOLEAN : List!Tree!ReplaceNamed(p, x, e, i)
    BY <1>4, <1>5, <1>6, <1>7, <2>1
  <2>3. Lists[p] = List!Items(p) BY <1>a
  <2>4. \/ \E x \in List!Names \cup {None} : List!Tree!Add(p, i, x)
        \/ \E w \in 0..Len(Lists[p]) : List!Tree!Insert(p, w, i) \/ List!Tree!Replace(p, w, i)
        \/ \E x \in List!Names, e \in BOOLEAN : List!Tree!ReplaceNamed(p, x, e, i)
    BY <2>2, <2>3
  <2> QED BY <2>2, <2>4 DEF List!Tree!Next, Lists
<1> QED BY <1>8, <1>9, <1>10 DEF List!Next

\* What changes no pointer changes no list.
LEMMA ListStutters ==
  ASSUME ListInv, UNCHANGED listVars
  PROVE  ListInv' /\ UNCHANGED List!Tree!tree
<1>1. /\ next' = next /\ prev' = prev /\ child' = child /\ string' = string
      /\ allocated' = allocated /\ call' = call
  BY DEF listVars
<1>2. Represents(next', prev', child', Lists) /\ Listed(Lists, allocated', string') BY <1>1 DEF ListInv
<1>3. ListInv' /\ Lists' = Lists BY <1>2, ListKept
<1> QED BY <1>1, <1>3 DEF List!Tree!tree, Lists

\* The invariant gives the shape of the lists that the runs check.
LEMMA ListInvShows ==
  ASSUME ListInv
  PROVE  ListShape
<1>0. /\ Represents(next, prev, child, Lists) /\ Listed(Lists, allocated, string)
      /\ Lists \in [Nodes -> Seq(Nodes)] /\ Once(Lists)
  BY DEF ListInv, Represents
<1>i. \A p \in Nodes : List!Items(p) = Lists[p] BY DEF Lists
<1>a. allocated \subseteq Nodes BY <1>0 DEF Listed
<1>h. \A p, j \in Nodes : Holds(Lists, p, j) => p \in allocated /\ j \in allocated
  <2>1. \A p \in Nodes : p \notin allocated => Lists[p] = << >> BY <1>0 DEF Listed
  <2>2. \A j \in Nodes : j \notin allocated => Free(Lists, j) BY <1>0 DEF Listed
  <2>3. Len(<< >>) = 0 OBVIOUS
  <2> QED BY <2>1, <2>2, <2>3 DEF Free, Holds
<1>1. List!TypeOK
  <2>1. ASSUME NEW j \in Nodes PROVE next[j] \in allocated \cup {None} /\ prev[j] \in allocated \cup {None}
    <3>1. CASE Free(Lists, j) BY <1>0, <3>1 DEF Represents
    <3>2. CASE ~ Free(Lists, j)
      <4>1. PICK q \in Nodes : Holds(Lists, q, j) BY <3>2 DEF Free
      <4>2. PICK k \in 1..Len(Lists[q]) : Lists[q][k] = j BY <4>1 DEF Holds
      <4>3. Len(Lists[q]) \in Nat /\ \A m \in 1..Len(Lists[q]) : Lists[q][m] \in Nodes /\ Lists[q][m] \in allocated
        BY <1>0, <1>h DEF Holds
      <4>4. /\ next[j] = IF k = Len(Lists[q]) THEN None ELSE Lists[q][k + 1]
            /\ prev[j] = IF k = 1 THEN Lists[q][Len(Lists[q])] ELSE Lists[q][k - 1]
        BY <1>0, <4>2 DEF Represents, Along, Back
      <4>5. /\ k # Len(Lists[q]) => k + 1 \in 1..Len(Lists[q])
            /\ k # 1 => k - 1 \in 1..Len(Lists[q])
            /\ Len(Lists[q]) \in 1..Len(Lists[q])
        BY <4>3
      <4> QED BY <4>3, <4>4, <4>5
    <3> QED BY <3>1, <3>2
  <2>2. \A j \in Nodes : child[j] = None \/ (child[j] \in Nodes /\ Holds(Lists, j, child[j]))
    BY <1>0, Leads
  <2>3. \A j \in Nodes : child[j] \in allocated \cup {None} BY <1>h, <2>2
  <2>4. \A j \in Nodes \ allocated : next[j] = None /\ prev[j] = None
    BY <1>0 DEF Listed, Represents
  <2>5. \A j \in Nodes \ allocated : child[j] = None BY <1>h, <2>2
  <2>6. \A j \in Nodes : string[j] \in List!Names \cup {None} BY <1>0 DEF Listed
  <2> QED BY <1>a, <2>1, <2>3, <2>4, <2>5, <2>6 DEF List!TypeOK
<1>2. List!ListShape
  <2> SUFFICES ASSUME NEW p \in allocated
               PROVE  LET s == List!Items(p)
                      IN  /\ Len(s) =< List!Cardinality(Nodes)
                          /\ \A k \in 2..Len(s) : prev[s[k]] = s[k - 1]
                          /\ s # << >> => prev[s[1]] = s[Len(s)]
    BY DEF List!ListShape
  <2>1. p \in Nodes /\ List!Items(p) = Lists[p] /\ Lists[p] \in Seq(Nodes) /\ Len(Lists[p]) \in Nat
    BY <1>0, <1>a, <1>i
  <2>2. Distinct(Lists[p]) /\ Back(prev, Lists[p])
    <3>1. Distinct(Lists[p]) BY <1>0, <2>1, ListFacts
    <3>2. Back(prev, Lists[p]) BY <1>0, <2>1 DEF Represents
    <3> QED BY <3>1, <3>2
  <2>3. Len(Lists[p]) <= Cardinality(Nodes) BY <2>1, <2>2, ListBound
  <2>4. List!Cardinality(Nodes) = Cardinality(Nodes) BY DEF List!Cardinality, Cardinality
  <2>5. \A k \in 2..Len(Lists[p]) : prev[Lists[p][k]] = Lists[p][k - 1]
    <3> TAKE k \in 2..Len(Lists[p])
    <3>1. k \in 1..Len(Lists[p]) /\ k # 1 BY <2>1
    <3> QED BY <2>2, <3>1 DEF Back
  <2>6. Lists[p] # << >> => prev[Lists[p][1]] = Lists[p][Len(Lists[p])]
    <3> SUFFICES ASSUME Lists[p] # << >> PROVE prev[Lists[p][1]] = Lists[p][Len(Lists[p])] OBVIOUS
    <3>1. 1 \in 1..Len(Lists[p]) BY <2>1
    <3> QED BY <2>2, <3>1 DEF Back
  <2> QED BY <2>1, <2>3, <2>4, <2>5, <2>6
<1>3. List!InOneList BY <1>0, <1>a, <1>i DEF List!InOneList, Once
<1> QED BY <1>1, <1>2, <1>3 DEF ListShape

\* The tree functions keep their invariant.
LEMMA CJsonListInvariant ==
  CJsonSpec => []ListInv
<1>1. CJsonInit => ListInv BY ListInitially DEF CJsonInit
<1>2. ListInv /\ [CJsonNext /\ UNCHANGED part]_allVars => ListInv'
  <2> SUFFICES ASSUME ListInv, [CJsonNext /\ UNCHANGED part]_allVars PROVE ListInv' OBVIOUS
  <2>1. CASE List!Next BY <2>1, ListSteps
  <2>2. CASE UNCHANGED listVars BY <2>2, ListStutters
  <2>3. CJsonNext => List!Next \/ UNCHANGED listVars BY DEF CJsonNext
  <2>4. UNCHANGED allVars => UNCHANGED listVars BY DEF allVars
  <2> QED BY <2>1, <2>2, <2>3, <2>4
<1> QED BY <1>1, <1>2, PTL DEF CJsonSpec

\* For any number of items and calls: every list of cJSON ends, can be walked
\* backwards and finds its last item through the first one's prev; no item is
\* in two lists, or twice in one; nothing points to a freed item.
THEOREM ListsKeepTheirShape ==
  CJsonSpec => []ListShape
BY CJsonListInvariant, ListInvShows, PTL

\* For any number of items and calls: the pointer functions of cJSON (add,
\* insert, detach, replace, delete) implement JsonTree's operations on plain
\* sequences, under the mapping that walks the links.
THEOREM ListsImplementSequences ==
  CJsonSpec => ImplementsTree
<1>1. CJsonInit => List!Tree!Init BY ListInitially DEF CJsonInit
<1>2. ListInv /\ [CJsonNext /\ UNCHANGED part]_allVars => [List!Tree!Next]_(List!Tree!tree)
  <2> SUFFICES ASSUME ListInv, [CJsonNext /\ UNCHANGED part]_allVars
               PROVE  List!Tree!Next \/ UNCHANGED List!Tree!tree
    OBVIOUS
  <2>1. CASE List!Next BY <2>1, ListSteps
  <2>2. CASE UNCHANGED listVars BY <2>2, ListStutters
  <2>3. CJsonNext => List!Next \/ UNCHANGED listVars BY DEF CJsonNext
  <2>4. UNCHANGED allVars => UNCHANGED listVars BY DEF allVars
  <2> QED BY <2>1, <2>2, <2>3, <2>4
<1> QED BY <1>1, <1>2, CJsonListInvariant, PTL DEF CJsonSpec, ImplementsTree, List!ImplementsTree, List!Tree!Spec

-----------------------------------------------------------------------------
(* Printing.  What is left of a print is a list of pieces to put and of    *)
(* offsets to measure; the invariant is about that list and the buffer.    *)

\* The cells a print writes.
Letters == {"nul", "[", "]", "{", "}", ",", ":", " ", "newline", "tab",
            "n", "u", "l", "4", "2", "q", "s", "k"}

\* What is left to do of a print: pieces to put, offsets to measure, an item
\* that makes it fail, the turns of a container's loop.
OpSet ==
  [op : {"put"}, need : Nat, cells : Seq(Letters), adv : Nat] \cup [op : {"measure"}]
  \cup [op : {"invalid"}] \cup [op : {"loop"}, item : PrintItems, depth : Nat, k : Nat]
\* What is written fits what ensure() is asked for; a loop has items to go.
Fine(o) ==
  /\ o.op = "put" => Len(o.cells) <= o.need + 1
  /\ o.op = "loop" => o.item.kind \in {"array", "object"} /\ o.k \in 1..Len(o.item.kids)
\* A piece that leaves a zero at or after the new offset, with nothing unwritten before it.
Ender(o) ==
  \/ o.op = "invalid"
  \/ /\ o.op = "put"
     /\ \E m \in 1..Len(o.cells) : o.cells[m] = "nul" /\ o.adv < m

\* A list of things to do in which every measure follows a piece that leaves a
\* zero for it.
Sound(s) ==
  /\ s \in Seq(OpSet)
  /\ \A k \in 1..Len(s) : Fine(s[k])
  /\ \A k \in 1..(Len(s) - 1) : s[k + 1].op = "measure" => Ender(s[k])

\* The list does not begin with a measure.
Opens(s) == Len(s) # 0 => s[1].op # "measure"

\* The list ends with a piece that a measure may follow.
Ends(s) == Len(s) # 0 /\ Ender(s[Len(s)])

\* Sound lists may be joined when the second does not begin with a measure, or
\* the first ends for one.
LEMMA SoundJoin ==
  ASSUME NEW a, NEW b, Sound(a), Sound(b), Opens(b) \/ Ends(a)
  PROVE  /\ Sound(a \o b)
         /\ Opens(a) /\ Opens(b) => Opens(a \o b)
         /\ Opens(a) /\ Len(a) # 0 => Opens(a \o b)
         /\ Ends(b) => Ends(a \o b)
         /\ Len(a \o b) = Len(a) + Len(b)
<1>1. a \in Seq(OpSet) /\ b \in Seq(OpSet) /\ Len(a) \in Nat /\ Len(b) \in Nat BY DEF Sound
<1> DEFINE c == a \o b
<1>2. /\ c \in Seq(OpSet) /\ Len(c) = Len(a) + Len(b)
      /\ \A k \in 1..(Len(a) + Len(b)) : c[k] = IF k <= Len(a) THEN a[k] ELSE b[k - Len(a)]
  BY <1>1, ConcatProperties
<1> HIDE DEF c
<1>3. \A k \in 1..Len(a) : c[k] = a[k] BY <1>1, <1>2
<1>4. \A k \in 1..Len(b) : c[Len(a) + k] = b[k]
  <2> TAKE k \in 1..Len(b)
  <2>1. Len(a) + k \in 1..(Len(a) + Len(b)) /\ ~ (Len(a) + k <= Len(a)) /\ (Len(a) + k) - Len(a) = k BY <1>1
  <2> QED BY <1>2, <2>1
<1>5. ASSUME NEW k \in 1..Len(c) PROVE Fine(c[k])
  <2>1. CASE k <= Len(a) BY <1>1, <1>3, <2>1 DEF Sound
  <2>2. CASE ~ (k <= Len(a))
    <3>1. k - Len(a) \in 1..Len(b) BY <1>1, <1>2, <2>2
    <3>2. c[k] = b[k - Len(a)] BY <1>2, <2>2
    <3> QED BY <3>1, <3>2 DEF Sound
  <2> QED BY <2>1, <2>2
<1>6. ASSUME NEW k \in 1..(Len(c) - 1), c[k + 1].op = "measure" PROVE Ender(c[k])
  <2>0. k \in Nat OBVIOUS
  <2>1. CASE k + 1 <= Len(a)
    <3>1. k \in 1..(Len(a) - 1) /\ k \in 1..Len(a) /\ k + 1 \in 1..Len(a) BY <1>1, <2>0, <2>1
    <3> QED BY <1>3, <1>6, <3>1 DEF Sound
  <2>2. CASE k = Len(a)
    <3>1. 1 \in 1..Len(b) /\ k \in 1..Len(a) /\ Len(b) # 0 BY <1>1, <1>2, <2>2
    <3>2. c[k + 1] = b[1] /\ c[k] = a[Len(a)] BY <1>3, <1>4, <2>2, <3>1
    <3>3. ~ Opens(b) BY <1>6, <3>1, <3>2 DEF Opens
    <3> QED BY <3>2, <3>3 DEF Ends
  <2>3. CASE k > Len(a)
    <3> DEFINE m == k - Len(a)
    <3>1. m \in 1..(Len(b) - 1) /\ m \in 1..Len(b) /\ m + 1 \in 1..Len(b) /\ Len(a) + m = k /\ Len(a) + (m + 1) = k + 1
      BY <1>1, <1>2, <2>0, <2>3
    <3> HIDE DEF m
    <3>2. c[k] = b[m] /\ c[k + 1] = b[m + 1] BY <1>4, <3>1
    <3> QED BY <1>6, <3>1, <3>2 DEF Sound
  <2> QED BY <1>1, <2>0, <2>1, <2>2, <2>3
<1>7. Sound(c) BY <1>2, <1>5, <1>6 DEF Sound
<1>8. Opens(a) /\ Len(a) # 0 => Opens(c)
  <2>1. Len(a) # 0 => 1 \in 1..Len(a) BY <1>1
  <2> QED BY <1>3, <2>1 DEF Opens
<1>9. Opens(a) /\ Opens(b) => Opens(c)
  <2>1. CASE Len(a) # 0 BY <1>8, <2>1
  <2>2. CASE Len(a) = 0
    <3>1. Len(b) # 0 => 1 \in 1..Len(b) BY <1>1
    <3>2. Len(b) # 0 => c[1] = b[1] BY <1>4, <2>2, <3>1
    <3> QED BY <1>1, <1>2, <2>2, <3>2 DEF Opens
  <2> QED BY <2>1, <2>2
<1>10. Ends(b) => Ends(c)
  <2>1. Len(b) # 0 => Len(b) \in 1..Len(b) BY <1>1
  <2>2. Len(b) # 0 => c[Len(a) + Len(b)] = b[Len(b)] BY <1>4, <2>1
  <2>3. Len(b) # 0 => Len(c) # 0 BY <1>1, <1>2
  <2> QED BY <1>2, <2>2, <2>3 DEF Ends
<1> QED BY <1>2, <1>7, <1>8, <1>9, <1>10 DEF c

\* One thing to do is a sound list.
LEMMA SoundOne ==
  ASSUME NEW o \in OpSet, Fine(o)
  PROVE  /\ Sound(<<o>>) /\ Len(<<o>>) = 1
         /\ o.op # "measure" => Opens(<<o>>)
         /\ Ender(o) => Ends(<<o>>)
BY DEF Sound, Opens, Ends

\* Nothing to do is sound.
LEMMA SoundEmpty == Sound(<< >>) /\ Opens(<< >>) /\ Len(<< >>) = 0
BY DEF Sound, Opens

\* A put whose cells fit what it asks of ensure() is sound.
LEMMA SoundPut ==
  ASSUME NEW n \in Nat, NEW c \in Seq(Letters), NEW d \in Nat, Len(c) <= n + 1
  PROVE  /\ Sound(Printer!Put(n, c, d)) /\ Opens(Printer!Put(n, c, d)) /\ Len(Printer!Put(n, c, d)) = 1
         /\ (\E m \in 1..Len(c) : c[m] = "nul" /\ d < m)
              => Ends(Printer!Put(n, c, d))
<1> DEFINE o == [op |-> "put", need |-> n, cells |-> c, adv |-> d]
<1>1. o \in OpSet /\ o.op = "put" /\ o.cells = c /\ o.adv = d /\ o.need = n BY DEF OpSet
<1>2. Printer!Put(n, c, d) = <<o>> BY DEF Printer!Put
<1> HIDE DEF o
<1>3. Fine(o) BY <1>1 DEF Fine
<1>4. (\E m \in 1..Len(c) : c[m] = "nul" /\ d < m) => Ender(o)
  BY <1>1 DEF Ender
<1> QED BY <1>1, <1>2, <1>3, <1>4, SoundOne

\* A measure alone is sound; what precedes it is the matter of SoundJoin.
LEMMA SoundMeasure == Sound(Printer!Measure) /\ Len(Printer!Measure) = 1
<1> DEFINE o == [op |-> "measure"]
<1>1. o \in OpSet /\ o.op = "measure" BY DEF OpSet
<1>2. Printer!Measure = <<o>> BY DEF Printer!Measure
<1> HIDE DEF o
<1>3. Fine(o) BY <1>1 DEF Fine
<1> QED BY <1>1, <1>2, <1>3, SoundOne

\* An item that fails is sound, and nothing after it is done.
LEMMA SoundInvalid ==
  Sound(Printer!Invalid) /\ Opens(Printer!Invalid) /\ Ends(Printer!Invalid) /\ Len(Printer!Invalid) = 1
<1> DEFINE o == [op |-> "invalid"]
<1>1. o \in OpSet /\ o.op = "invalid" BY DEF OpSet
<1>2. Printer!Invalid = <<o>> BY DEF Printer!Invalid
<1> HIDE DEF o
<1>3. Fine(o) /\ Ender(o) BY <1>1 DEF Fine, Ender
<1> QED BY <1>1, <1>2, <1>3, SoundOne

\* The turns that a container has left are sound.
LEMMA SoundLoop ==
  ASSUME NEW i \in PrintItems, i.kind \in {"array", "object"}, NEW d \in Nat, NEW k \in 1..Len(i.kids)
  PROVE  Sound(Printer!Loop(i, d, k)) /\ Opens(Printer!Loop(i, d, k)) /\ Len(Printer!Loop(i, d, k)) = 1
<1> DEFINE o == [op |-> "loop", item |-> i, depth |-> d, k |-> k]
<1>1. o \in OpSet /\ o.op = "loop" /\ o.item = i /\ o.k = k BY DEF OpSet
<1>2. Printer!Loop(i, d, k) = <<o>> BY DEF Printer!Loop
<1> HIDE DEF o
<1>3. Fine(o) BY <1>1 DEF Fine
<1> QED BY <1>1, <1>2, <1>3, SoundOne

\* A sound list that can follow anything.
Piece(s) == Sound(s) /\ Opens(s) /\ Len(s) # 0

\* A sequence of cells.
Text(c) == c \in Seq(Letters)

\* The cells end with a zero.
Zero(c) == Len(c) # 0 /\ c[Len(c)] = "nul"

\* Cells can be joined, and end as the last ones do.
LEMMA TextJoin ==
  ASSUME NEW a, NEW b, Text(a), Text(b)
  PROVE  /\ Text(a \o b) /\ Len(a \o b) = Len(a) + Len(b) /\ Len(a) \in Nat /\ Len(b) \in Nat
         /\ Zero(b) => Zero(a \o b)
<1>1. a \in Seq(Letters) /\ b \in Seq(Letters) /\ Len(a) \in Nat /\ Len(b) \in Nat BY DEF Text
<1> DEFINE c == a \o b
<1>2. /\ c \in Seq(Letters) /\ Len(c) = Len(a) + Len(b)
      /\ \A k \in 1..(Len(a) + Len(b)) : c[k] = IF k <= Len(a) THEN a[k] ELSE b[k - Len(a)]
  BY <1>1, ConcatProperties
<1> HIDE DEF c
<1>3. Zero(b) => Zero(c)
  <2> SUFFICES ASSUME Zero(b) PROVE Zero(c) OBVIOUS
  <2>1. Len(b) # 0 /\ b[Len(b)] = "nul" BY DEF Zero
  <2>2. Len(a) + Len(b) \in 1..(Len(a) + Len(b)) /\ ~ (Len(a) + Len(b) <= Len(a))
        /\ (Len(a) + Len(b)) - Len(a) = Len(b) /\ Len(a) + Len(b) # 0
    BY <1>1, <2>1
  <2> QED BY <1>2, <2>1, <2>2 DEF Zero
<1> QED BY <1>1, <1>2, <1>3 DEF Text, c

\* The cells that print_value(), print_array() and print_object() write.
LEMMA Texts ==
  /\ Text(<<",">>) /\ Text(<<" ">>) /\ Text(<<"{">>) /\ Text(<<"newline">>) /\ Text(<<":">>)
  /\ Text(<<"tab">>) /\ Text(<< >>) /\ Text(<<"nul">>) /\ Text(<<"}", "nul">>) /\ Text(<<"]", "nul">>)
  /\ Text(<<"[">>) /\ Text(<<"q", "k", "q">>) /\ Text(<<"n", "u", "l", "l">>) /\ Text(<<"4", "2">>)
  /\ Text(<<"q", "s", "q">>) /\ Text(<<"q", "q">>)
  /\ Zero(<<"nul">>) /\ Zero(<<"}", "nul">>) /\ Zero(<<"]", "nul">>)
  /\ Len(<<"nul">>) = 1 /\ Len(<<"}", "nul">>) = 2 /\ Len(<<"]", "nul">>) = 2 /\ Len(<<"[">>) = 1
  /\ Len(<< >>) = 0
  /\ \A d \in Nat : Text(Printer!Times("tab", d)) /\ Len(Printer!Times("tab", d)) = d
<1>1. /\ Text(<<",">>) /\ Text(<<" ">>) /\ Text(<<"{">>) /\ Text(<<"newline">>) /\ Text(<<":">>)
      /\ Text(<<"tab">>) /\ Text(<< >>) /\ Text(<<"nul">>)
  BY DEF Text, Letters
<1>2. Text(<<"}", "nul">>) /\ Text(<<"]", "nul">>) BY DEF Text, Letters
<1>3. Text(<<"[">>) /\ Text(<<"4", "2">>) /\ Text(<<"q", "q">>) BY DEF Text, Letters
<1>4. Text(<<"q", "k", "q">>) BY DEF Text, Letters
<1>5. Text(<<"q", "s", "q">>) BY DEF Text, Letters
<1>6. Text(<<"n", "u", "l", "l">>) BY DEF Text, Letters
<1>7. Zero(<<"nul">>) /\ Zero(<<"}", "nul">>) /\ Zero(<<"]", "nul">>) BY DEF Zero
<1>8. Len(<<"nul">>) = 1 /\ Len(<<"}", "nul">>) = 2 /\ Len(<<"]", "nul">>) = 2 /\ Len(<<"[">>) = 1 OBVIOUS
<1>9. ASSUME NEW d \in Nat PROVE Text(Printer!Times("tab", d)) /\ Len(Printer!Times("tab", d)) = d
  <2>1. "tab" \in Letters BY DEF Letters
  <2>2. Printer!Times("tab", d) = [k \in 1..d |-> "tab"] BY DEF Printer!Times
  <2>3. [k \in 1..d |-> "tab"] \in [1..d -> Letters] BY <2>1
  <2>4. Printer!Times("tab", d) \in Seq(Letters) BY <2>2, <2>3
  <2>5. Len(Printer!Times("tab", d)) = d BY <2>2, <2>3, <2>4
  <2> QED BY <2>4, <2>5 DEF Text
<1>10. Len(<< >>) = 0 OBVIOUS
<1> QED BY <1>1, <1>2, <1>3, <1>4, <1>5, <1>6, <1>7, <1>8, <1>9, <1>10

\* Cells that are written on a condition are cells.
LEMMA TextWhen ==
  ASSUME NEW b \in BOOLEAN, NEW c, Text(c)
  PROVE  Text(Printer!When(b, c))
BY Texts DEF Printer!When

\* A put that ends with its zero, and moves the offset no further, is a piece
\* a measure may follow.
LEMMA PutZero ==
  ASSUME NEW c, Text(c), Zero(c), NEW n \in Nat, Len(c) <= n + 1, NEW d \in Nat, d < Len(c)
  PROVE  Piece(Printer!Put(n, c, d)) /\ Ends(Printer!Put(n, c, d))
<1>1. c \in Seq(Letters) /\ Len(c) \in Nat BY DEF Text
<1>2. Len(c) \in 1..Len(c) /\ c[Len(c)] = "nul" BY <1>1 DEF Zero
<1>3. \E m \in 1..Len(c) : c[m] = "nul" /\ d < m BY <1>2
<1>4. /\ Sound(Printer!Put(n, c, d)) /\ Opens(Printer!Put(n, c, d)) /\ Len(Printer!Put(n, c, d)) = 1
      /\ Ends(Printer!Put(n, c, d))
  BY <1>1, <1>3, SoundPut
<1>5. Len(Printer!Put(n, c, d)) # 0 BY <1>4
<1> QED BY <1>4, <1>5 DEF Piece

\* A put whose cells fit is a piece.
LEMMA PutPiece ==
  ASSUME NEW c, Text(c), NEW n \in Nat, Len(c) <= n + 1, NEW d \in Nat
  PROVE  Piece(Printer!Put(n, c, d))
<1>1. c \in Seq(Letters) BY DEF Text
<1>2. Sound(Printer!Put(n, c, d)) /\ Opens(Printer!Put(n, c, d)) /\ Len(Printer!Put(n, c, d)) = 1
  BY <1>1, SoundPut
<1>3. Len(Printer!Put(n, c, d)) # 0 BY <1>2
<1> QED BY <1>2, <1>3 DEF Piece

\* The put of a text and its zero is a piece a measure may follow.
LEMMA SoundText ==
  ASSUME NEW c, Text(c), NEW d \in Nat, d <= Len(c)
  PROVE  /\ Piece(Printer!Put(Len(c) + 1, c \o <<"nul">>, d))
         /\ Ends(Printer!Put(Len(c) + 1, c \o <<"nul">>, d))
         /\ Len(c) \in Nat
<1> DEFINE t == c \o <<"nul">>
<1>0. Text(<<"nul">>) /\ Zero(<<"nul">>) /\ Len(<<"nul">>) = 1 BY Texts
<1>1. Text(t) /\ Zero(t) /\ Len(t) = Len(c) + 1 /\ Len(c) \in Nat BY <1>0, TextJoin
<1> HIDE DEF t
<1>2. Len(c) + 1 \in Nat /\ Len(t) <= (Len(c) + 1) + 1 /\ d < Len(t) BY <1>1
<1> QED BY <1>1, <1>2, PutZero DEF t

\* The puts of a literal and of a number are pieces a measure may follow.
LEMMA SoundWords ==
  ASSUME NEW c, Text(c)
  PROVE  /\ Piece(Printer!PutWord(c)) /\ Ends(Printer!PutWord(c))
         /\ Piece(Printer!PutNumber(c)) /\ Ends(Printer!PutNumber(c))
<1>1. Len(c) \in Nat /\ 0 <= Len(c) BY DEF Text
<1>2. Printer!PutWord(c) = Printer!Put(Len(c) + 1, c \o <<"nul">>, 0) BY DEF Printer!PutWord, Printer!Nul
<1>3. Printer!PutNumber(c) = Printer!Put(Len(c) + 1, c \o <<"nul">>, Len(c))
  BY DEF Printer!PutNumber, Printer!Nul
<1> QED BY <1>1, <1>2, <1>3, SoundText

\* What print_array() and print_object() write around their items is sound,
\* formatted or not, and at every depth.
LEMMA SeparatorsSound ==
  ASSUME NEW f \in BOOLEAN, NEW more \in BOOLEAN, NEW d \in Nat
  PROVE  /\ Piece(Printer!ArraySeparator(f))
         /\ Piece(Printer!ObjectOpens(f))
         /\ Sound(Printer!Indent(f, d)) /\ Opens(Printer!Indent(f, d))
         /\ Piece(Printer!Colon(f))
         /\ Piece(Printer!ObjectSeparator(f, more))
         /\ Piece(Printer!ObjectCloses(f, d + 1)) /\ Ends(Printer!ObjectCloses(f, d + 1))
<1>1. Piece(Printer!ArraySeparator(f))
  <2> DEFINE c == <<",">> \o Printer!When(f, <<" ">>)
  <2>1. Text(c) /\ Len(c) \in Nat BY Texts, TextWhen, TextJoin DEF Text
  <2>2. Printer!ArraySeparator(f) = Printer!Put(Len(c) + 1, c \o <<"nul">>, Len(c))
    BY DEF Printer!ArraySeparator, Printer!Nul
  <2> HIDE DEF c
  <2> QED BY <2>1, <2>2, SoundText
<1>2. Piece(Printer!ObjectOpens(f))
  <2> DEFINE c == <<"{">> \o Printer!When(f, <<"newline">>)
  <2>1. Text(c) /\ Len(c) \in Nat BY Texts, TextWhen, TextJoin DEF Text
  <2>2. Printer!ObjectOpens(f) = Printer!Put(Len(c) + 1, c, Len(c)) BY DEF Printer!ObjectOpens
  <2> HIDE DEF c
  <2>3. Len(c) + 1 \in Nat /\ Len(c) <= (Len(c) + 1) + 1 BY <2>1
  <2> QED BY <2>1, <2>2, <2>3, PutPiece
<1>3. Sound(Printer!Indent(f, d)) /\ Opens(Printer!Indent(f, d))
  <2>1. CASE f
    <3> DEFINE c == Printer!Times("tab", d)
    <3>1. Text(c) /\ Len(c) = d BY Texts
    <3>2. Printer!Indent(f, d) = Printer!Put(d, c, d) BY <2>1 DEF Printer!Indent, Printer!When
    <3> HIDE DEF c
    <3> QED BY <3>1, <3>2, PutPiece DEF Piece
  <2>2. CASE ~ f
    <3>1. Printer!Indent(f, d) = << >> BY <2>2 DEF Printer!Indent, Printer!When
    <3> QED BY <3>1, SoundEmpty
  <2> QED BY <2>1, <2>2
<1>4. Piece(Printer!Colon(f))
  <2> DEFINE c == <<":">> \o Printer!When(f, <<"tab">>)
  <2>1. Text(c) /\ Len(c) \in Nat BY Texts, TextWhen, TextJoin DEF Text
  <2>2. Printer!Colon(f) = Printer!Put(Len(c), c, Len(c)) BY DEF Printer!Colon
  <2> HIDE DEF c
  <2> QED BY <2>1, <2>2, PutPiece
<1>5. Piece(Printer!ObjectSeparator(f, more))
  <2> DEFINE c == Printer!When(more, <<",">>) \o Printer!When(f, <<"newline">>)
  <2>1. Text(c) /\ Len(c) \in Nat BY Texts, TextWhen, TextJoin DEF Text
  <2>2. Printer!ObjectSeparator(f, more) = Printer!Put(Len(c) + 1, c \o <<"nul">>, Len(c))
    BY DEF Printer!ObjectSeparator, Printer!Nul
  <2> HIDE DEF c
  <2> QED BY <2>1, <2>2, SoundText
<1>6. Piece(Printer!ObjectCloses(f, d + 1)) /\ Ends(Printer!ObjectCloses(f, d + 1))
  <2> DEFINE w == Printer!When(f, Printer!Times("tab", (d + 1) - 1))
             c == w \o <<"}", "nul">>
             n == IF f THEN (d + 1) + 1 ELSE 2
  <2>1. Text(w) /\ Len(w) = IF f THEN d ELSE 0
    <3>1. (d + 1) - 1 = d OBVIOUS
    <3> QED BY <3>1, Texts DEF Printer!When
  <2>2. Printer!ObjectCloses(f, d + 1) = Printer!Put(n, c, 0)
    BY DEF Printer!ObjectCloses, Printer!Nul
  <2> HIDE DEF w
  <2>0. Text(<<"}", "nul">>) /\ Zero(<<"}", "nul">>) /\ Len(<<"}", "nul">>) = 2 BY Texts
  <2>3. Text(c) /\ Zero(c) /\ Len(c) = Len(w) + 2 /\ Len(w) \in Nat BY <2>0, <2>1, TextJoin
  <2> HIDE DEF c
  <2>5. n \in Nat /\ Len(c) <= n + 1 /\ 0 < Len(c) BY <2>1, <2>3
  <2> HIDE DEF n
  <2> QED BY <2>2, <2>3, <2>5, PutZero
<1> QED BY <1>1, <1>2, <1>3, <1>4, <1>5, <1>6

\* A piece followed by a sound list is a piece.
LEMMA PieceJoin ==
  ASSUME NEW a, NEW b, Piece(a), Sound(b), Opens(b) \/ Ends(a)
  PROVE  Piece(a \o b) /\ (Ends(b) => Ends(a \o b))
<1>1. Sound(a) /\ Opens(a) /\ Len(a) # 0 BY DEF Piece
<1>2. Sound(a \o b) /\ Opens(a \o b) /\ (Ends(b) => Ends(a \o b)) /\ Len(a \o b) = Len(a) + Len(b)
  BY <1>1, SoundJoin
<1>3. Len(a) \in Nat /\ Len(b) \in Nat BY <1>1 DEF Sound
<1>4. Len(a \o b) # 0 BY <1>1, <1>2, <1>3
<1> QED BY <1>2, <1>4 DEF Piece

\* Containers' loops as an optional part.
LEMMA MaybeLoop ==
  ASSUME NEW i \in PrintItems, i.kind \in {"array", "object"}, NEW d \in Nat, NEW k \in Nat \ {0},
         NEW b \in BOOLEAN, b => k <= Len(i.kids)
  PROVE  Sound(Printer!When(b, Printer!Loop(i, d, k))) /\ Opens(Printer!When(b, Printer!Loop(i, d, k)))
<1>1. Len(i.kids) \in Nat BY PrintItemsAssumption
<1>2. CASE b
  <2>1. k \in 1..Len(i.kids) BY <1>1, <1>2
  <2>2. Sound(Printer!Loop(i, d, k)) /\ Opens(Printer!Loop(i, d, k)) BY <2>1, SoundLoop
  <2> QED BY <1>2, <2>2 DEF Printer!When
<1>3. CASE ~ b BY <1>3, SoundEmpty DEF Printer!When
<1> QED BY <1>2, <1>3

\* What print_value() does for an item, of every kind, is a piece a measure
\* may follow.
LEMMA ValuePiece ==
  ASSUME NEW i \in PrintItems, NEW f \in BOOLEAN, NEW d \in Nat
  PROVE  Piece(Printer!PrintValue(i, f, d)) /\ Ends(Printer!PrintValue(i, f, d))
<1>0. i.kind \in {"null", "number", "string", "empty", "array", "object", "invalid"}
      /\ (i.kind \in {"array", "object"} => i.kids \in Seq(PrintItems))
  BY PrintItemsAssumption
<1>1. ASSUME i.kind \in {"array", "object"}
      PROVE  Sound(Printer!When(i.kids # << >>, Printer!Loop(i, d, 1)))
             /\ Opens(Printer!When(i.kids # << >>, Printer!Loop(i, d, 1)))
  <2>1. i.kids # << >> => 1 <= Len(i.kids) BY <1>0, <1>1
  <2>2. 1 \in Nat \ {0} /\ (i.kids # << >>) \in BOOLEAN OBVIOUS
  <2> DEFINE b == i.kids # << >>
  <2>3. b \in BOOLEAN /\ (b => 1 <= Len(i.kids)) BY <2>1
  <2> HIDE DEF b
  <2>4. Sound(Printer!When(b, Printer!Loop(i, d, 1))) /\ Opens(Printer!When(b, Printer!Loop(i, d, 1)))
    BY <1>1, <2>2, <2>3, MaybeLoop
  <2> QED BY <2>4 DEF b
<1>2. CASE i.kind = "array"
  <2> DEFINE a == Printer!Put(1, <<"[">>, 1)
             w == Printer!When(i.kids # << >>, Printer!Loop(i, d, 1))
             c == Printer!Put(2, <<"]", "nul">>, 0)
  <2>0. Text(<<"[">>) /\ Len(<<"[">>) = 1 /\ Text(<<"]", "nul">>) /\ Zero(<<"]", "nul">>) /\ Len(<<"]", "nul">>) = 2
    BY Texts
  <2>1. Text(<<"[">>) /\ Len(<<"[">>) <= 1 + 1 /\ 1 \in Nat BY <2>0
  <2>2. Piece(a) BY <2>1, PutPiece
  <2>3. Text(<<"]", "nul">>) /\ Zero(<<"]", "nul">>) /\ Len(<<"]", "nul">>) <= 2 + 1 /\ 0 < Len(<<"]", "nul">>)
        /\ 2 \in Nat /\ 0 \in Nat
    BY <2>0
  <2>4. Piece(c) /\ Ends(c) BY <2>3, PutZero
  <2>5. Sound(w) /\ Opens(w) BY <1>1, <1>2
  <2>6. Printer!PrintValue(i, f, d) = (a \o w) \o c
    BY <1>2 DEF Printer!PrintValue, Printer!PrintArray, Printer!Nul
  <2> HIDE DEF a, w, c
  <2>7. Piece(a \o w) BY <2>2, <2>5, PieceJoin
  <2>8. Piece((a \o w) \o c) /\ Ends((a \o w) \o c) BY <2>4, <2>7, PieceJoin DEF Piece
  <2> QED BY <2>6, <2>8
<1>3. CASE i.kind = "object"
  <2> DEFINE a == Printer!ObjectOpens(f)
             w == Printer!When(i.kids # << >>, Printer!Loop(i, d, 1))
             c == Printer!ObjectCloses(f, d + 1)
  <2>2. Piece(a) BY SeparatorsSound
  <2>4. Piece(c) /\ Ends(c) BY SeparatorsSound
  <2>5. Sound(w) /\ Opens(w) BY <1>1, <1>3
  <2>6. Printer!PrintValue(i, f, d) = (a \o w) \o c
    BY <1>3 DEF Printer!PrintValue, Printer!PrintObject
  <2> HIDE DEF a, w, c
  <2>7. Piece(a \o w) BY <2>2, <2>5, PieceJoin
  <2>8. Piece((a \o w) \o c) /\ Ends((a \o w) \o c) BY <2>4, <2>7, PieceJoin DEF Piece
  <2> QED BY <2>6, <2>8
<1>4. CASE i.kind = "number"
  <2>1. Printer!Word(i) = <<"4", "2">> BY <1>4 DEF Printer!Word
  <2>2. Text(<<"4", "2">>) BY Texts
  <2>3. Printer!PrintValue(i, f, d) = Printer!PutNumber(<<"4", "2">>) BY <1>4, <2>1 DEF Printer!PrintValue
  <2> QED BY <2>2, <2>3, SoundWords
<1>5. CASE i.kind = "invalid"
  <2>1. Printer!PrintValue(i, f, d) = Printer!Invalid BY <1>5 DEF Printer!PrintValue
  <2>2. Len(Printer!Invalid) # 0 BY SoundInvalid
  <2> QED BY <2>1, <2>2, SoundInvalid DEF Piece
<1>6. CASE i.kind \in {"null", "string", "empty"}
  <2>1. Text(Printer!Word(i))
    <3>1. CASE i.kind = "null"
      <4>1. Printer!Word(i) = <<"n", "u", "l", "l">> BY <3>1 DEF Printer!Word
      <4> QED BY <4>1, Texts
    <3>2. CASE i.kind = "string"
      <4>1. Printer!Word(i) = <<"q", "s", "q">> BY <3>2 DEF Printer!Word
      <4> QED BY <4>1, Texts
    <3>3. CASE i.kind = "empty"
      <4>1. Printer!Word(i) = <<"q", "q">> BY <3>3 DEF Printer!Word
      <4> QED BY <4>1, Texts
    <3> QED BY <1>6, <3>1, <3>2, <3>3
  <2>2. Printer!PrintValue(i, f, d) = Printer!PutWord(Printer!Word(i)) BY <1>6 DEF Printer!PrintValue
  <2> QED BY <2>1, <2>2, SoundWords
<1> QED BY <1>0, <1>2, <1>3, <1>4, <1>5, <1>6

\* One turn of the loop of print_array() or print_object() is a piece, with
\* the turns that follow.
LEMMA TurnPiece ==
  ASSUME NEW i \in PrintItems, i.kind \in {"array", "object"}, NEW f \in BOOLEAN, NEW d \in Nat,
         NEW k \in 1..Len(i.kids)
  PROVE  Piece(Printer!Turn(i, f, d, k))
<1>0. i.kids \in Seq(PrintItems) /\ Len(i.kids) \in Nat /\ k \in Nat BY PrintItemsAssumption
<1>1. i.kids[k] \in PrintItems BY <1>0
<1> DEFINE v == Printer!PrintValue(i.kids[k], f, d + 1)
           more == k < Len(i.kids)
           l == Printer!When(more, Printer!Loop(i, d, k + 1))
           m == Printer!Measure
<1>2. Piece(v) /\ Ends(v) BY <1>1, ValuePiece
<1>3. Sound(m) BY SoundMeasure
<1>4. Sound(l) /\ Opens(l)
  <2>1. k + 1 \in Nat \ {0} /\ more \in BOOLEAN /\ (more => k + 1 <= Len(i.kids)) BY <1>0
  <2> QED BY <2>1, MaybeLoop
<1>5. more \in BOOLEAN OBVIOUS
<1>6. CASE i.kind = "array"
  <2> DEFINE s == Printer!When(more, Printer!ArraySeparator(f))
  <2>1. Sound(s) /\ Opens(s)
    <3>1. CASE more BY <3>1, SeparatorsSound DEF Printer!When, Piece
    <3>2. CASE ~ more BY <3>2, SoundEmpty DEF Printer!When
    <3> QED BY <3>1, <3>2
  <2>2. Printer!Turn(i, f, d, k) = ((v \o m) \o s) \o l
    BY <1>6 DEF Printer!Turn, Printer!ArrayTurn
  <2> HIDE DEF v, l, m, s, more
  <2>3. Piece(v \o m) BY <1>2, <1>3, PieceJoin
  <2>4. Piece((v \o m) \o s) BY <2>1, <2>3, PieceJoin
  <2>5. Piece(((v \o m) \o s) \o l) BY <1>4, <2>4, PieceJoin
  <2> QED BY <2>2, <2>5
<1>7. CASE i.kind = "object"
  <2> DEFINE t == Printer!Indent(f, d + 1)
             w == Printer!PutWord(Printer!Key)
             c == Printer!Colon(f)
             s == Printer!ObjectSeparator(f, more)
  <2>1. Piece(s) /\ Piece(c) BY <1>5, SeparatorsSound
  <2>2. d + 1 \in Nat OBVIOUS
  <2>3. Sound(t) /\ Opens(t) BY <2>2, <1>5, SeparatorsSound
  <2>4. Piece(w) /\ Ends(w)
    <3>1. Printer!Key = <<"q", "k", "q">> BY DEF Printer!Key
    <3>2. Text(Printer!Key) BY <3>1, Texts
    <3> QED BY <3>2, SoundWords
  <2>5. Printer!Turn(i, f, d, k) = ((((((t \o w) \o m) \o c) \o v) \o m) \o s) \o l
    BY <1>7 DEF Printer!Turn, Printer!ObjectTurn
  <2> HIDE DEF v, l, m, s, more, t, w, c
  <2>6. Sound(w) /\ Opens(w) /\ Ends(w) /\ Len(w) # 0 BY <2>4 DEF Piece
  <2>7. Sound(t \o w) /\ Opens(t \o w) /\ Ends(t \o w) BY <2>3, <2>6, SoundJoin
  <2>8. Piece(t \o w) BY <2>7 DEF Piece, Ends
  <2>9. Piece((t \o w) \o m) BY <1>3, <2>7, <2>8, PieceJoin
  <2>10. Piece(((t \o w) \o m) \o c) BY <2>1, <2>9, PieceJoin DEF Piece
  <2>11. Piece((((t \o w) \o m) \o c) \o v) /\ Ends((((t \o w) \o m) \o c) \o v)
    BY <1>2, <2>10, PieceJoin DEF Piece
  <2>12. Piece(((((t \o w) \o m) \o c) \o v) \o m) BY <1>3, <2>11, PieceJoin
  <2>13. Piece((((((t \o w) \o m) \o c) \o v) \o m) \o s) BY <2>1, <2>12, PieceJoin DEF Piece
  <2>14. Piece(((((((t \o w) \o m) \o c) \o v) \o m) \o s) \o l) BY <1>4, <2>13, PieceJoin
  <2> QED BY <2>5, <2>14
<1> QED BY <1>6, <1>7

\* After its first thing a sound list is sound, and a measure that comes next
\* has its zero.
LEMMA HeadOfSound ==
  ASSUME NEW s, Sound(s), s # << >>
  PROVE  /\ Head(s) \in OpSet /\ Fine(Head(s)) /\ Sound(Tail(s)) /\ Head(s) = s[1]
         /\ Opens(Tail(s)) \/ Ender(Head(s))
<1>1. s \in Seq(OpSet) /\ Len(s) \in Nat /\ Len(s) >= 1 BY DEF Sound
<1>2. Head(s) = s[1] /\ 1 \in 1..Len(s) /\ s[1] \in OpSet BY <1>1
<1>3. Fine(Head(s)) BY <1>2 DEF Sound
<1>4. Tail(s) \in Seq(OpSet) /\ Len(Tail(s)) = Len(s) - 1 /\ \A k \in 1..(Len(s) - 1) : Tail(s)[k] = s[k + 1]
  BY <1>1
<1>5. ASSUME NEW k \in 1..Len(Tail(s)) PROVE Fine(Tail(s)[k])
  <2>1. k \in 1..(Len(s) - 1) /\ k + 1 \in 1..Len(s) BY <1>1, <1>4
  <2> QED BY <1>4, <2>1 DEF Sound
<1>6. ASSUME NEW k \in 1..(Len(Tail(s)) - 1), Tail(s)[k + 1].op = "measure" PROVE Ender(Tail(s)[k])
  <2>1. k \in 1..(Len(s) - 1) /\ k + 1 \in 1..(Len(s) - 1) BY <1>1, <1>4
  <2>2. Tail(s)[k] = s[k + 1] /\ Tail(s)[k + 1] = s[(k + 1) + 1] BY <1>4, <2>1
  <2> QED BY <1>6, <2>1, <2>2 DEF Sound
<1>7. Sound(Tail(s)) BY <1>4, <1>5, <1>6 DEF Sound
<1>8. Opens(Tail(s)) \/ Ender(Head(s))
  <2> SUFFICES ASSUME ~ Opens(Tail(s)) PROVE Ender(Head(s)) OBVIOUS
  <2>1. Len(Tail(s)) # 0 /\ Tail(s)[1].op = "measure" BY DEF Opens
  <2>2. 1 \in 1..(Len(s) - 1) BY <1>1, <1>4, <2>1
  <2>3. s[1 + 1].op = "measure" BY <1>4, <2>1, <2>2
  <2> QED BY <1>2, <2>2, <2>3 DEF Sound
<1> QED BY <1>2, <1>3, <1>7, <1>8

\* Blocks the caller will own or cJSON still has to free.
Owned == IF printing \in {"run", "failed", "true"} /\ entry # "preallocated" THEN 1 ELSE 0

\* The invariant of a print: what is left to do is sound, the buffer has the
\* length the printer believes, a pending measure finds its zero, and the
\* blocks allocated are those it owns.
PrintInv ==
  /\ Printer!TypeOK
  /\ Sound(ops)
  /\ entry = "print" => size = DefaultSize
  /\ printing = "start" => ~ overread /\ written = 0
  /\ printing \in {"run", "true"} => DOMAIN buffer = 0..(length - 1)
  /\ printing = "run" /\ length = 0 => size = 0
  /\ Printer!MeasuresWritten
  /\ Printer!OverreadOnlyIfEmpty
  /\ blocks = Owned

\* Where no measure comes next nothing is to be found.
LEMMA OpensMeasures == Sound(ops) /\ Opens(ops) => Printer!MeasuresWritten
<1> SUFFICES ASSUME Sound(ops), Opens(ops), ops # << >>, Printer!Op.op = "measure" PROVE FALSE
  BY DEF Printer!MeasuresWritten
<1>1. ops \in Seq(OpSet) /\ Len(ops) # 0 BY DEF Sound
<1>2. Head(ops) = ops[1] BY <1>1
<1> QED BY <1>1, <1>2 DEF Opens, Printer!Op

\* A print begins with it.
LEMMA PrintInitially == Printer!Init => PrintInv
<1> SUFFICES ASSUME Printer!Init PROVE PrintInv OBVIOUS
<1> USE DEF Printer!Init
<1>1. Printer!TypeOK
  <2>1. size \in BufferSizes \cup {DefaultSize}
    <3>1. CASE entry = "print" BY <3>1
    <3>2. CASE entry # "print" BY <3>2
    <3> QED BY <3>1, <3>2
  <2>2. length \in Nat /\ written \in Nat /\ blocks \in 0..1 OBVIOUS
  <2>3. overread \in BOOLEAN /\ printing \in {"start", "run", "failed", "lost", "true", "false"} OBVIOUS
  <2>4. item \in PrintItems /\ format \in BOOLEAN /\ entry \in Printer!Entries /\ realloc \in BOOLEAN OBVIOUS
  <2> QED BY <2>1, <2>2, <2>3, <2>4, Zenon DEF Printer!TypeOK
<1>2. Sound(ops) /\ Opens(ops) BY SoundEmpty
<1>3. blocks = Owned BY DEF Owned
<1>4. Printer!MeasuresWritten BY <1>2, OpensMeasures
<1> QED BY <1>1, <1>2, <1>3, <1>4 DEF PrintInv, Printer!OverreadOnlyIfEmpty

\* The steps that leave the buffer alone and end the work.
LEMMA PrintEnds ==
  ASSUME PrintInv,
         Printer!BeginFails \/ Printer!PutRefused \/ Printer!PrintInvalid \/ Printer!ShrinkFails
         \/ Printer!ReturnBuffer
  PROVE  PrintInv'
<1>1. /\ UNCHANGED <<item, format, entry, size, realloc, ops, buffer, length, written, blocks, overread>>
      /\ printing' \in {"failed", "true", "false"}
      /\ printing' = "true" => printing = "run"
      /\ printing' = "failed" => printing = "run"
      /\ printing' = "false" => printing = "start"
  BY DEF Printer!BeginFails, Printer!PutRefused, Printer!PrintInvalid, Printer!ShrinkFails,
         Printer!ReturnBuffer, Printer!call, Printer!Putting
<1> USE <1>1
<1>2. Printer!TypeOK' BY DEF PrintInv, Printer!TypeOK
<1>3. Sound(ops') BY DEF PrintInv
<1>4. (Printer!MeasuresWritten)' BY DEF Printer!MeasuresWritten
<1>5. (blocks = Owned)' BY DEF PrintInv, Owned
<1>6. (Printer!OverreadOnlyIfEmpty)' BY DEF PrintInv, Printer!OverreadOnlyIfEmpty
<1>7. (printing \in {"run", "true"} => DOMAIN buffer = 0..(length - 1))' BY DEF PrintInv
<1> QED BY <1>2, <1>3, <1>4, <1>5, <1>6, <1>7 DEF PrintInv

\* Giving up keeps it, with every block freed that is the printer's.
LEMMA PrintReturns == ASSUME PrintInv, Printer!ReturnFailed PROVE PrintInv'
<1> USE DEF Printer!ReturnFailed, Printer!call
<1>2. Printer!TypeOK' BY DEF PrintInv, Printer!TypeOK, Owned
<1>3. Sound(ops') BY DEF PrintInv
<1>4. (Printer!MeasuresWritten)' BY DEF Printer!MeasuresWritten
<1>5. (blocks = Owned)' BY DEF PrintInv, Owned
<1>6. (Printer!OverreadOnlyIfEmpty)' BY DEF PrintInv, Printer!OverreadOnlyIfEmpty
<1> QED BY <1>2, <1>3, <1>4, <1>5, <1>6 DEF PrintInv

\* Allocating the first buffer, or taking the caller's, keeps it.
LEMMA PrintBegins == ASSUME PrintInv, Printer!Begin PROVE PrintInv'
<1> DEFINE v == Printer!PrintValue(item, format, 0)
           m == Printer!When(entry = "print", Printer!Measure)
<1>1. /\ printing = "start" /\ printing' = "run" /\ ops' = v \o m
      /\ buffer' = Printer!Block(size, << >>) /\ length' = size
      /\ blocks' = IF entry = "preallocated" THEN 0 ELSE 1
      /\ UNCHANGED <<item, format, entry, size, realloc, written, overread>>
  BY DEF Printer!Begin, Printer!call
<1>2. item \in PrintItems /\ format \in BOOLEAN BY DEF PrintInv, Printer!TypeOK
<1>3. Piece(v) /\ Ends(v) BY <1>2, ValuePiece
<1>4. Sound(m)
  <2>1. CASE entry = "print" BY <2>1, SoundMeasure DEF Printer!When
  <2>2. CASE entry # "print" BY <2>2, SoundEmpty DEF Printer!When
  <2> QED BY <2>1, <2>2
<1> HIDE DEF v, m
<1>5. Piece(v \o m) BY <1>3, <1>4, PieceJoin
<1>6. Sound(ops') /\ Opens(ops') BY <1>1, <1>5 DEF Piece
<1>7. (Printer!MeasuresWritten)'
  <2>1. (Sound(ops) /\ Opens(ops) => Printer!MeasuresWritten)' BY OpensMeasures, PTL
  <2> QED BY <1>6, <2>1
<1>8. size \in Nat BY SizesAssumption DEF PrintInv, Printer!TypeOK
<1>9. Printer!TypeOK' BY <1>1, <1>8 DEF PrintInv, Printer!TypeOK
<1>10. (blocks = Owned)' BY <1>1 DEF Owned
<1>11. DOMAIN buffer' = 0..(length' - 1) BY <1>1 DEF Printer!Block
<1>12. (Printer!OverreadOnlyIfEmpty)' BY <1>1 DEF PrintInv, Printer!OverreadOnlyIfEmpty
<1> QED BY <1>1, <1>6, <1>7, <1>9, <1>10, <1>11, <1>12 DEF PrintInv

\* Starting an item or a turn of a loop keeps it.
LEMMA PrintNextItem == ASSUME PrintInv, Printer!NextItem PROVE PrintInv'
<1> DEFINE o == Head(ops)
           t == Printer!Turn(o.item, format, o.depth, o.k)
<1>1. /\ printing = "run" /\ ops # << >> /\ o.op = "loop" /\ ops' = t \o Tail(ops)
      /\ UNCHANGED <<item, format, entry, size, realloc, buffer, length, written, blocks, overread, printing>>
  BY DEF Printer!NextItem, Printer!call, Printer!Op
<1>2. Sound(ops) /\ format \in BOOLEAN BY DEF PrintInv, Printer!TypeOK
<1>3. o \in OpSet /\ Fine(o) /\ Sound(Tail(ops)) /\ (Opens(Tail(ops)) \/ Ender(o)) BY <1>1, <1>2, HeadOfSound
<1> HIDE DEF o
<1>4. Opens(Tail(ops)) BY <1>1, <1>3 DEF Ender
<1>5. o.item \in PrintItems /\ o.depth \in Nat /\ o.item.kind \in {"array", "object"} /\ o.k \in 1..Len(o.item.kids)
  BY <1>1, <1>3 DEF OpSet, Fine
<1>6. Piece(t) BY <1>2, <1>5, TurnPiece
<1> HIDE DEF t
<1>7. Piece(t \o Tail(ops)) BY <1>3, <1>4, <1>6, PieceJoin
<1>8. Sound(ops') /\ Opens(ops') BY <1>1, <1>7 DEF Piece
<1>9. (Printer!MeasuresWritten)'
  <2>1. (Sound(ops) /\ Opens(ops) => Printer!MeasuresWritten)' BY OpensMeasures, PTL
  <2> QED BY <1>8, <2>1
<1>10. Printer!TypeOK' BY <1>1 DEF PrintInv, Printer!TypeOK
<1>11. (blocks = Owned)' BY <1>1 DEF PrintInv, Owned
<1>12. (Printer!OverreadOnlyIfEmpty)' BY <1>1 DEF PrintInv, Printer!OverreadOnlyIfEmpty
<1>13. (printing = "run" /\ length = 0 => size = 0)' BY <1>1 DEF PrintInv
<1>14. (printing \in {"run", "true"} => DOMAIN buffer = 0..(length - 1))' BY <1>1 DEF PrintInv
<1>15. (entry = "print" => size = DefaultSize)' BY <1>1 DEF PrintInv
<1> QED BY <1>1, <1>8, <1>9, <1>10, <1>11, <1>12, <1>13, <1>14, <1>15 DEF PrintInv

\* A piece that ends inside the buffer is found there, and the buffer keeps
\* its length.
LEMMA WrittenCells ==
  ASSUME written \in Nat, NEW n \in Nat, NEW b, DOMAIN b = 0..(n - 1),
         Len(Printer!Op.cells) \in Nat, written + Len(Printer!Op.cells) <= n
  PROVE  /\ DOMAIN Printer!Written(b) = 0..(n - 1)
         /\ \A m \in 1..Len(Printer!Op.cells) : Printer!Written(b)[(written + m) - 1] = Printer!Op.cells[m]
<1> DEFINE l == Len(Printer!Op.cells)
           R == written..((written + l) - 1)
           W == [k \in (0..(n - 1)) \cup R |-> IF k \in R THEN Printer!Op.cells[(k - written) + 1] ELSE b[k]]
<1>1. Printer!Written(b) = W BY DEF Printer!Written
<1>2. l \in Nat /\ written + l <= n OBVIOUS
<1>3. (0..(n - 1)) \cup R = 0..(n - 1) BY <1>2
<1>4. ASSUME NEW m \in 1..l PROVE W[(written + m) - 1] = Printer!Op.cells[m]
  <2>1. (written + m) - 1 \in R /\ (((written + m) - 1) - written) + 1 = m BY <1>2
  <2> HIDE DEF l, R
  <2> QED BY <2>1
<1> HIDE DEF R
<1>5. DOMAIN W = 0..(n - 1) BY <1>3
<1> QED BY <1>1, <1>4, <1>5

\* What a put may rely on: its cells fit what it asks for.
LEMMA PutFacts ==
  ASSUME PrintInv, Printer!Putting
  PROVE  /\ Printer!Op \in [op : {"put"}, need : Nat, cells : Seq(Letters), adv : Nat]
         /\ Len(Printer!Op.cells) <= Printer!Op.need + 1
         /\ Sound(Tail(ops)) /\ (Opens(Tail(ops)) \/ Ender(Printer!Op))
         /\ printing = "run" /\ written \in Nat /\ length \in Nat /\ size \in Nat
         /\ Printer!Needed \in Nat /\ Printer!Needed = (Printer!Op.need + written) + 1
<1>1. Sound(ops) /\ printing = "run" /\ ops # << >> /\ Printer!Op.op = "put" BY DEF PrintInv, Printer!Putting
<1>2. Printer!Op \in OpSet /\ Fine(Printer!Op) /\ Sound(Tail(ops)) /\ (Opens(Tail(ops)) \/ Ender(Printer!Op))
  BY <1>1, HeadOfSound DEF Printer!Op
<1>3. Printer!Op \in [op : {"put"}, need : Nat, cells : Seq(Letters), adv : Nat] BY <1>1, <1>2 DEF OpSet
<1>4. Len(Printer!Op.cells) <= Printer!Op.need + 1 BY <1>1, <1>2 DEF Fine
<1>5. written \in Nat /\ length \in Nat /\ size \in Nat BY SizesAssumption DEF PrintInv, Printer!TypeOK
<1>6. Printer!Needed \in Nat /\ Printer!Needed = (Printer!Op.need + written) + 1 BY <1>3, <1>5 DEF Printer!Needed
<1> QED BY <1>1, <1>2, <1>3, <1>4, <1>5, <1>6

\* After a put into a block of n cells that ensure() found large enough.
LEMMA AfterPut ==
  ASSUME PrintInv, Printer!Putting, NEW n \in Nat, NEW b, DOMAIN b = 0..(n - 1), Printer!Needed <= n,
         buffer' = Printer!Written(b), written' = written + Printer!Op.adv, ops' = Tail(ops), length' = n,
         printing' = printing
  PROVE  /\ written' \in Nat /\ Sound(ops') /\ DOMAIN buffer' = 0..(length' - 1) /\ length' # 0
         /\ (Printer!MeasuresWritten)'
<1> DEFINE c == Printer!Op.cells
<1>0. /\ Printer!Op \in [op : {"put"}, need : Nat, cells : Seq(Letters), adv : Nat]
      /\ Len(Printer!Op.cells) <= Printer!Op.need + 1
      /\ Sound(Tail(ops)) /\ (Opens(Tail(ops)) \/ Ender(Printer!Op))
      /\ written \in Nat /\ Printer!Needed = (Printer!Op.need + written) + 1
  BY PutFacts
<1>1. c \in Seq(Letters) /\ Len(c) \in Nat /\ written + Len(c) <= n /\ n # 0 /\ Printer!Op.adv \in Nat /\ Printer!Op.op = "put"
  BY <1>0
<1>2. /\ DOMAIN buffer' = 0..(n - 1)
      /\ \A m \in 1..Len(c) : buffer'[(written + m) - 1] = c[m]
  BY <1>0, <1>1, WrittenCells
<1>3. written' \in Nat BY <1>0, <1>1
<1>4. Sound(ops') BY <1>0
<1>5. CASE Opens(Tail(ops))
  <2>1. (Sound(ops) /\ Opens(ops) => Printer!MeasuresWritten)' BY OpensMeasures, PTL
  <2>2. (Printer!MeasuresWritten)' BY <1>0, <1>5, <2>1
  <2> QED BY <1>1, <1>2, <1>3, <1>4, <2>2
<1>6. CASE Ender(Printer!Op)
  <2>1. PICK m \in 1..Len(c) : c[m] = "nul" /\ Printer!Op.adv < m BY <1>1, <1>6 DEF Ender
  <2> DEFINE k == (written + m) - 1
             w == written + Printer!Op.adv
  <2>2. k \in w..(n - 1) BY <1>0, <1>1, <2>1
  <2>3. buffer'[k] = "nul" BY <1>2, <2>1
  <2>4. ASSUME NEW j \in w..(k - 1) PROVE buffer'[j] # "?"
    <3> DEFINE p == (j - written) + 1
    <3>1. p \in 1..Len(c) /\ (written + p) - 1 = j BY <1>0, <1>1, <2>1, <2>4
    <3> HIDE DEF p
    <3>2. buffer'[j] = c[p] BY <1>2, <3>1
    <3>3. c[p] \in Letters BY <1>1, <3>1
    <3>4. "?" \notin Letters BY DEF Letters
    <3> QED BY <3>2, <3>3, <3>4
  <2> HIDE DEF k
  <2>5. \E kk \in w..(n - 1) : buffer'[kk] = "nul" /\ \A j \in w..(kk - 1) : buffer'[j] # "?"
    BY <2>2, <2>3, <2>4
  <2> HIDE DEF w
  <2>6. written' = w /\ length' = n BY DEF w
  <2>7. \E kk \in written'..(length' - 1) : buffer'[kk] = "nul" /\ \A j \in written'..(kk - 1) : buffer'[j] # "?"
    BY <2>5, <2>6
  <2>8. (Printer!MeasuresWritten)' BY <2>7 DEF Printer!MeasuresWritten, Printer!Nul, Printer!Garbage
  <2> QED BY <1>1, <1>2, <1>3, <1>4, <2>8
<1> QED BY <1>0, <1>5, <1>6

\* A put for which ensure() finds room keeps it.
LEMMA PrintPutFits == ASSUME PrintInv, Printer!PutFits PROVE PrintInv'
<1>1. /\ Printer!Putting /\ Printer!Needed <= length
      /\ buffer' = Printer!Written(buffer) /\ written' = written + Printer!Op.adv /\ ops' = Tail(ops)
      /\ UNCHANGED <<item, format, entry, size, realloc, length, blocks, overread, printing>>
  BY DEF Printer!PutFits, Printer!Fits, Printer!call
<1>2. printing = "run" /\ length \in Nat BY <1>1, PutFacts
<1>3. DOMAIN buffer = 0..(length - 1) BY <1>2 DEF PrintInv
<1>4. /\ written' \in Nat /\ Sound(ops') /\ DOMAIN buffer' = 0..(length' - 1) /\ length' # 0
      /\ (Printer!MeasuresWritten)'
  BY <1>1, <1>2, <1>3, AfterPut
<1>5. Printer!TypeOK' BY <1>1, <1>4 DEF PrintInv, Printer!TypeOK
<1>6. (blocks = Owned)' BY <1>1 DEF PrintInv, Owned
<1>7. (Printer!OverreadOnlyIfEmpty)' BY <1>1 DEF PrintInv, Printer!OverreadOnlyIfEmpty
<1>8. (entry = "print" => size = DefaultSize)' BY <1>1 DEF PrintInv
<1> QED BY <1>1, <1>2, <1>4, <1>5, <1>6, <1>7, <1>8 DEF PrintInv

\* A put for which ensure() moves the buffer keeps it, by realloc() or by
\* hand.
LEMMA PrintPutGrows == ASSUME PrintInv, Printer!PutGrows PROVE PrintInv'
<1>1. /\ Printer!Putting /\ ~ Printer!Refused /\ ~ Printer!Fits
      /\ buffer' = Printer!Written(Printer!Moved) /\ length' = Printer!NewSize
      /\ written' = written + Printer!Op.adv /\ ops' = Tail(ops)
      /\ overread' = (overread \/ (~ realloc /\ Printer!CopyLength > length))
      /\ UNCHANGED <<item, format, entry, size, realloc, blocks, printing>>
  BY DEF Printer!PutGrows, Printer!call
<1>2. printing = "run" /\ length \in Nat /\ written \in Nat /\ Printer!Needed \in Nat /\ entry # "preallocated"
      /\ Printer!Needed <= IntMax /\ IntMax \in Nat /\ (length > 0 => ~ (written >= length)) /\ Printer!Needed > length
  BY <1>1, PutFacts, SizesAssumption DEF Printer!Refused, Printer!Fits
<1>3. Printer!NewSize \in Nat /\ Printer!Needed <= Printer!NewSize BY <1>2 DEF Printer!NewSize
<1>4. DOMAIN Printer!Moved = 0..(Printer!NewSize - 1) BY DEF Printer!Moved, Printer!Block
<1>5. /\ written' \in Nat /\ Sound(ops') /\ DOMAIN buffer' = 0..(length' - 1) /\ length' # 0
      /\ (Printer!MeasuresWritten)'
  BY <1>1, <1>3, <1>4, AfterPut
<1>6. (Printer!OverreadOnlyIfEmpty)'
  <2>1. overread => entry = "buffered" /\ size = 0 BY DEF PrintInv, Printer!OverreadOnlyIfEmpty
  <2>2. ASSUME Printer!CopyLength > length PROVE entry = "buffered" /\ size = 0
    <3>1. length = 0 BY <1>2, <2>2 DEF Printer!CopyLength
    <3>2. size = 0 /\ (entry = "print" => size = DefaultSize) /\ entry \in Printer!Entries
      BY <1>2, <3>1 DEF PrintInv, Printer!TypeOK
    <3> QED BY <1>2, <3>2, SizesAssumption DEF Printer!Entries
  <2> QED BY <1>1, <2>1, <2>2 DEF Printer!OverreadOnlyIfEmpty
<1>7. Printer!TypeOK'
  <2>1. overread' \in BOOLEAN BY <1>1
  <2>2. length' \in Nat BY <1>1, <1>3
  <2> QED BY <1>1, <1>5, <2>1, <2>2 DEF PrintInv, Printer!TypeOK
<1>8. (blocks = Owned)' BY <1>1 DEF PrintInv, Owned
<1>9. (entry = "print" => size = DefaultSize)' BY <1>1 DEF PrintInv
<1> QED BY <1>1, <1>2, <1>5, <1>6, <1>7, <1>8, <1>9 DEF PrintInv

\* A failed allocation keeps it: ensure() frees the buffer.
LEMMA PrintOutOfMemory == ASSUME PrintInv, Printer!OutOfMemory PROVE PrintInv'
<1>1. /\ Printer!Putting /\ ~ Printer!Refused /\ ~ Printer!Fits /\ length' = 0 /\ blocks' = blocks - 1
      /\ printing' = "lost"
      /\ UNCHANGED <<item, format, entry, size, realloc, ops, written, overread>>
  BY DEF Printer!OutOfMemory, Printer!call
<1>2. printing = "run" BY <1>1, PutFacts
<1>3. entry # "preallocated" BY <1>1 DEF Printer!Refused
<1>4. blocks = 1 BY <1>2, <1>3 DEF PrintInv, Owned
<1>5. blocks' = 0 BY <1>1, <1>4
<1>6. Printer!TypeOK' BY <1>1, <1>5 DEF PrintInv, Printer!TypeOK
<1>7. (blocks = Owned)' BY <1>1, <1>5 DEF Owned
<1>8. (Printer!MeasuresWritten)' BY <1>1 DEF Printer!MeasuresWritten
<1>9. (Printer!OverreadOnlyIfEmpty)' BY <1>1 DEF PrintInv, Printer!OverreadOnlyIfEmpty
<1>10. Sound(ops') BY <1>1 DEF PrintInv
<1>11. (entry = "print" => size = DefaultSize)' BY <1>1 DEF PrintInv
<1> QED BY <1>1, <1>6, <1>7, <1>8, <1>9, <1>10, <1>11 DEF PrintInv

\* update_offset() keeps it: the zero it looks for is there.
LEMMA PrintMeasures == ASSUME PrintInv, Printer!UpdateOffset PROVE PrintInv'
<1>1. /\ printing = "run" /\ ops # << >> /\ Printer!Op.op = "measure"
      /\ written' = Printer!EndAt(buffer, written) /\ ops' = Tail(ops)
      /\ UNCHANGED <<item, format, entry, size, realloc, buffer, length, blocks, overread, printing>>
  BY DEF Printer!UpdateOffset, Printer!call
<1>2. Sound(ops) /\ written \in Nat /\ length \in Nat BY DEF PrintInv, Printer!TypeOK
<1>3. Sound(Tail(ops)) /\ (Opens(Tail(ops)) \/ Ender(Printer!Op)) BY <1>1, <1>2, HeadOfSound DEF Printer!Op
<1>4. Opens(Tail(ops)) BY <1>1, <1>3 DEF Ender
<1>5. Sound(ops') /\ Opens(ops') BY <1>1, <1>3, <1>4
<1>6. (Printer!MeasuresWritten)'
  <2>1. (Sound(ops) /\ Opens(ops) => Printer!MeasuresWritten)' BY OpensMeasures, PTL
  <2> QED BY <1>5, <2>1
<1>7. written' \in Nat
  <2> DEFINE Z == {k \in written..(length - 1) : buffer[k] = "nul"}
  <2>1. Z \subseteq Nat BY <1>2
  <2>2. PICK k \in written..(length - 1) : buffer[k] = "nul"
    BY <1>1 DEF PrintInv, Printer!MeasuresWritten, Printer!Nul
  <2>3. Z # {} BY <2>2
  <2>4. PICK z \in Z : \A y \in Z : z <= y BY <2>1, <2>3, LeastNatural
  <2>5. z \in written..(length - 1) /\ buffer[z] = "nul" OBVIOUS
  <2>6. ASSUME NEW j \in written..(z - 1), buffer[j] = "nul" PROVE FALSE
    <3>1. j \in written..(length - 1) /\ ~ (z <= j) BY <1>2, <2>5, <2>6
    <3> QED BY <2>4, <2>6, <3>1
  <2> HIDE DEF Z
  <2>7. \E y \in written..(length - 1) : buffer[y] = "nul" /\ \A j \in written..(y - 1) : buffer[j] # "nul"
    BY <2>5, <2>6
  <2>8. Printer!EndAt(buffer, written) \in written..(length - 1) BY <2>7 DEF Printer!EndAt, Printer!Nul
  <2> QED BY <1>1, <1>2, <2>8
<1>8. Printer!TypeOK' BY <1>1, <1>7 DEF PrintInv, Printer!TypeOK
<1>9. (blocks = Owned)' BY <1>1 DEF PrintInv, Owned
<1>10. (Printer!OverreadOnlyIfEmpty)' BY <1>1 DEF PrintInv, Printer!OverreadOnlyIfEmpty
<1>11. (printing = "run" /\ length = 0 => size = 0)' BY <1>1 DEF PrintInv
<1>12. (printing \in {"run", "true"} => DOMAIN buffer = 0..(length - 1))' BY <1>1 DEF PrintInv
<1>13. (entry = "print" => size = DefaultSize)' BY <1>1 DEF PrintInv
<1> QED BY <1>1, <1>5, <1>6, <1>8, <1>9, <1>10, <1>11, <1>12, <1>13 DEF PrintInv

\* The final reallocation or copy keeps it.
LEMMA PrintShrinks == ASSUME PrintInv, Printer!Shrinks PROVE PrintInv'
<1>1. /\ printing = "run" /\ length' = written + 1 /\ printing' = "true"
      /\ DOMAIN buffer' = DOMAIN Printer!First(written + 1, buffer)
      /\ UNCHANGED <<item, format, entry, size, realloc, ops, written, blocks, overread>>
  BY DEF Printer!Shrinks, Printer!call
<1>2. written \in Nat BY DEF PrintInv, Printer!TypeOK
<1>3. DOMAIN buffer' = 0..(length' - 1) BY <1>1 DEF Printer!First
<1>4. length' \in Nat BY <1>1, <1>2
<1>5. Printer!TypeOK' BY <1>1, <1>4 DEF PrintInv, Printer!TypeOK
<1>6. (blocks = Owned)' BY <1>1 DEF PrintInv, Owned
<1>7. (Printer!MeasuresWritten)' BY <1>1 DEF Printer!MeasuresWritten
<1>8. (Printer!OverreadOnlyIfEmpty)' BY <1>1 DEF PrintInv, Printer!OverreadOnlyIfEmpty
<1>9. Sound(ops') BY <1>1 DEF PrintInv
<1>10. (entry = "print" => size = DefaultSize)' BY <1>1 DEF PrintInv
<1> QED BY <1>1, <1>3, <1>5, <1>6, <1>7, <1>8, <1>9, <1>10 DEF PrintInv

\* Every step of a print keeps it.
LEMMA PrintSteps == PrintInv /\ Printer!Next => PrintInv'
BY PrintBegins, PrintEnds, PrintNextItem, PrintPutFits, PrintPutGrows, PrintOutOfMemory, PrintMeasures,
   PrintReturns, PrintShrinks DEF Printer!Next

\* A step of another part keeps it.
LEMMA PrintStutters == PrintInv /\ UNCHANGED printVars => PrintInv'
<1> SUFFICES ASSUME PrintInv, UNCHANGED printVars PROVE PrintInv' OBVIOUS
<1>0. UNCHANGED <<item, format, entry, size, realloc, ops, buffer, length, written, blocks, overread, printing>>
  BY DEF printVars
<1>1. Printer!TypeOK' BY <1>0 DEF PrintInv, Printer!TypeOK
<1>2. Sound(ops') BY <1>0 DEF PrintInv
<1>3. (Printer!MeasuresWritten)' BY <1>0 DEF PrintInv, Printer!MeasuresWritten, Printer!Op
<1>4. (blocks = Owned)' BY <1>0 DEF PrintInv, Owned
<1>5. (Printer!OverreadOnlyIfEmpty)' BY <1>0 DEF PrintInv, Printer!OverreadOnlyIfEmpty
<1>6. (printing \in {"run", "true"} => DOMAIN buffer = 0..(length - 1))' BY <1>0 DEF PrintInv
<1>7. (printing = "run" /\ length = 0 => size = 0)' BY <1>0 DEF PrintInv
<1>8. (entry = "print" => size = DefaultSize)' /\ (printing = "start" => ~ overread /\ written = 0)' BY <1>0 DEF PrintInv
<1> QED BY <1>1, <1>2, <1>3, <1>4, <1>5, <1>6, <1>7, <1>8 DEF PrintInv

\* The invariant gives what the runs check of a print.
LEMMA PrintInvShows ==
  PrintInv => /\ Printer!TypeOK /\ Printer!WrittenInside /\ Printer!MeasuresWritten
              /\ Printer!OverreadOnlyIfEmpty /\ Printer!NoLeak
<1>1. PrintInv => Printer!WrittenInside BY DEF PrintInv, Printer!WrittenInside
<1>2. PrintInv => Printer!NoLeak BY DEF PrintInv, Printer!NoLeak, Owned
<1> QED BY <1>1, <1>2 DEF PrintInv

-----------------------------------------------------------------------------
(* The text of an item: what it is, by recursion over the items.           *)

\* The items in an item, and which of them come before it.
KidOf(j, i) == \E k \in 1..Len(Printer!Kids(i)) : j = Printer!Kids(i)[k]

\* The items in an item are items, and less deep.
LEMMA KidsAre ==
  ASSUME NEW i \in PrintItems
  PROVE  /\ Printer!Kids(i) \in Seq(PrintItems) /\ Len(Printer!Kids(i)) \in Nat
         /\ \A k \in 1..Len(Printer!Kids(i)) : /\ Printer!Kids(i)[k] \in PrintItems
                                               /\ Height[Printer!Kids(i)[k]] < Height[i]
         /\ \A j : KidOf(j, i) => j \in PrintItems /\ Height[j] < Height[i]
<1>1. Printer!Kids(i) \in Seq(PrintItems)
  <2>1. CASE i.kind \in {"array", "object"} BY <2>1, PrintItemsAssumption DEF Printer!Kids
  <2>2. CASE i.kind \notin {"array", "object"} BY <2>2 DEF Printer!Kids
  <2> QED BY <2>1, <2>2
<1>2. ASSUME NEW k \in 1..Len(Printer!Kids(i)) PROVE Height[Printer!Kids(i)[k]] < Height[i]
  <2>1. CASE i.kind \in {"array", "object"} BY <1>2, <2>1, HeightAssumption DEF Printer!Kids
  <2>2. CASE i.kind \notin {"array", "object"}
    <3>1. Printer!Kids(i) = << >> BY <2>2 DEF Printer!Kids
    <3>2. Len(<< >>) = 0 OBVIOUS
    <3> QED BY <1>2, <3>1, <3>2
  <2> QED BY <2>1, <2>2
<1> QED BY <1>1, <1>2 DEF KidOf

\* F gives the value of an item from the values of all, and looks only at the
\* values of the items in it.
Local(F, V) ==
  /\ F \in [PrintItems -> [[PrintItems -> V] -> V]]
  /\ \A i \in PrintItems : \A g, h \in [PrintItems -> V] :
       (\A j \in PrintItems : KidOf(j, i) => g[j] = h[j]) => F[i][g] = F[i][h]

\* The functions that satisfy the equation F for items of a height below n.
Below(F, V, n) ==
  {g \in [PrintItems -> V] : \A i \in PrintItems : Height[i] < n => g[i] = F[i][g]}

\* Two of them agree where both satisfy it.
LEMMA BelowAgree ==
  ASSUME NEW F, NEW V, Local(F, V), NEW n \in Nat, NEW m \in Nat, NEW g \in Below(F, V, n),
         NEW h \in Below(F, V, m)
  PROVE  \A i \in PrintItems : Height[i] < n /\ Height[i] < m => g[i] = h[i]
<1> DEFINE P == {k \in Nat : \A i \in PrintItems :
                   Height[i] < k /\ Height[i] < n /\ Height[i] < m => g[i] = h[i]}
<1>0. \A i \in PrintItems : Height[i] \in Nat BY HeightAssumption
<1>1. 0 \in P BY <1>0
<1>2. ASSUME NEW k \in Nat, k \in P PROVE k + 1 \in P
  <2> SUFFICES ASSUME NEW i \in PrintItems, Height[i] < k + 1, Height[i] < n, Height[i] < m
               PROVE  g[i] = h[i]
    OBVIOUS
  <2>1. ASSUME NEW j \in PrintItems, KidOf(j, i) PROVE g[j] = h[j]
    <3>1. Height[j] < Height[i] BY <2>1, KidsAre
    <3>2. Height[j] < k /\ Height[j] < n /\ Height[j] < m BY <1>0, <3>1
    <3> QED BY <1>2, <3>2
  <2>2. g[i] = F[i][g] /\ h[i] = F[i][h] /\ g \in [PrintItems -> V] /\ h \in [PrintItems -> V] BY DEF Below
  <2>3. F[i][g] = F[i][h] BY <2>1, <2>2 DEF Local
  <2> QED BY <2>2, <2>3
<1> HIDE DEF P
<1>3. Nat \subseteq P BY <1>1, <1>2, SetInduction
<1>4. ASSUME NEW i \in PrintItems, Height[i] < n, Height[i] < m PROVE g[i] = h[i]
  <2>1. Height[i] + 1 \in P /\ Height[i] < Height[i] + 1 BY <1>0, <1>3
  <2> QED BY <1>4, <2>1 DEF P
<1> QED BY <1>4

\* For every height there is one.
LEMMA BelowExists ==
  ASSUME NEW F, NEW V, Local(F, V), V # {}, NEW n \in Nat
  PROVE  Below(F, V, n) # {}
<1> DEFINE P == {k \in Nat : Below(F, V, k) # {}}
<1>0. \A i \in PrintItems : Height[i] \in Nat BY HeightAssumption
<1>1. 0 \in P
  <2>1. PICK v \in V : TRUE OBVIOUS
  <2>2. [i \in PrintItems |-> v] \in Below(F, V, 0) BY <1>0 DEF Below
  <2> QED BY <2>2
<1>2. ASSUME NEW k \in Nat, k \in P PROVE k + 1 \in P
  <2>1. PICK g : g \in Below(F, V, k) BY <1>2
  <2> DEFINE h == [i \in PrintItems |-> F[i][g]]
  <2>2. g \in [PrintItems -> V] /\ \A i \in PrintItems : Height[i] < k => g[i] = F[i][g] BY <2>1 DEF Below
  <2>3. h \in [PrintItems -> V] BY <2>2 DEF Local
  <2>4. \A i \in PrintItems : h[i] = F[i][g] OBVIOUS
  <2> HIDE DEF h
  <2>5. ASSUME NEW i \in PrintItems, Height[i] < k + 1 PROVE h[i] = F[i][h]
    <3>1. ASSUME NEW j \in PrintItems, KidOf(j, i) PROVE g[j] = h[j]
      <4>1. Height[j] < Height[i] BY <3>1, KidsAre
      <4>2. Height[j] < k BY <1>0, <2>5, <4>1
      <4> QED BY <2>2, <2>4, <4>2
    <3>2. F[i][g] = F[i][h] BY <2>2, <2>3, <3>1 DEF Local
    <3> QED BY <2>4, <3>2
  <2>6. h \in Below(F, V, k + 1) BY <2>3, <2>5 DEF Below
  <2> QED BY <2>6
<1> HIDE DEF P
<1>3. n \in P BY <1>1, <1>2, SetInduction
<1> QED BY <1>3 DEF P

\* So the equation has a solution: recursion over an item is well defined.
LEMMA ItemRecursion ==
  ASSUME NEW F, NEW V, Local(F, V), V # {}
  PROVE  \E g \in [PrintItems -> V] : \A i \in PrintItems : g[i] = F[i][g]
<1> DEFINE B(i) == CHOOSE h : h \in Below(F, V, Height[i] + 1)
           g == [i \in PrintItems |-> B(i)[i]]
<1>0. \A i \in PrintItems : Height[i] \in Nat /\ Height[i] + 1 \in Nat BY HeightAssumption
<1>1. ASSUME NEW i \in PrintItems PROVE B(i) \in Below(F, V, Height[i] + 1)
  <2>1. Height[i] + 1 \in Nat BY <1>0
  <2>2. Below(F, V, Height[i] + 1) # {} BY <2>1, BelowExists
  <2> QED BY <2>2
<1> HIDE DEF B
<1>2. \A i \in PrintItems : B(i) \in [PrintItems -> V] /\ B(i)[i] = F[i][B(i)]
  BY <1>0, <1>1 DEF Below
<1>3. g \in [PrintItems -> V] BY <1>2
<1>4. \A i \in PrintItems : g[i] = B(i)[i] OBVIOUS
<1> HIDE DEF g
<1>5. ASSUME NEW i \in PrintItems PROVE g[i] = F[i][g]
  <2>1. ASSUME NEW j \in PrintItems, KidOf(j, i) PROVE g[j] = B(i)[j]
    <3>1. Height[j] < Height[i] BY <2>1, KidsAre
    <3>2. Height[j] < Height[j] + 1 /\ Height[j] < Height[i] + 1 BY <1>0, <3>1
    <3>3. B(j)[j] = B(i)[j] BY <1>0, <1>1, <3>2, BelowAgree
    <3> QED BY <1>4, <3>3
  <2>2. F[i][g] = F[i][B(i)] BY <1>2, <1>3, <2>1 DEF Local
  <2> QED BY <1>2, <1>4, <2>2
<1> QED BY <1>3, <1>5

\* Joining sequences one after the other has a result after each.
LEMMA JoinedGrows ==
  ASSUME NEW A, NEW q \in Seq(Seq(A))
  PROVE  \E f : /\ f \in [0..Len(q) -> Seq(A)] /\ f[0] = << >>
                /\ \A n \in 1..Len(q) : f[n] = f[n - 1] \o q[n]
                /\ Printer!Joined(q) = f[Len(q)]
<1> DEFINE l == Len(q)
           B == Seq(A)
           F == [k \in Nat |-> [m \in B |-> IF k \in 1..l THEN m \o q[k] ELSE m]]
<1>1. l \in Nat /\ << >> \in B OBVIOUS
<1>2. \A k \in 1..l : q[k] \in B OBVIOUS
<1>3. Turns(F, B)
  <2>1. ASSUME NEW k \in Nat, NEW m \in B PROVE (IF k \in 1..l THEN m \o q[k] ELSE m) \in B
    <3>1. CASE k \in 1..l BY <1>2, <3>1
    <3>2. CASE k \notin 1..l BY <3>2
    <3> QED BY <3>1, <3>2
  <2> QED BY <2>1 DEF Turns
<1>4. ASSUME NEW k \in 1..l, NEW m \in B PROVE F[k][m] = m \o q[k]
  <2>1. k \in Nat BY <1>1
  <2>2. F[k] = [x \in B |-> IF k \in 1..l THEN x \o q[k] ELSE x] BY <2>1
  <2> HIDE DEF F
  <2>3. F[k] = [x \in B |-> x \o q[k]] BY <2>2
  <2> QED BY <2>3
<1> HIDE DEF F, B
<1>5. PICK f : Results(f, l, B, << >>, F) BY <1>1, <1>3, Iterates
<1>6. f \in [0..l -> B] /\ f[0] = << >> /\ \A k \in 1..l : f[k] = f[k - 1] \o q[k]
  <2>1. f \in [0..l -> B] /\ f[0] = << >> /\ \A k \in 1..l : f[k] = F[k][f[k - 1]] BY <1>5 DEF Results
  <2>2. ASSUME NEW k \in 1..l PROVE f[k] = f[k - 1] \o q[k]
    <3>1. k - 1 \in 0..l BY <1>1
    <3>2. f[k - 1] \in B BY <2>1, <3>1
    <3> QED BY <1>4, <2>1, <3>2
  <2> QED BY <2>1, <2>2
<1> DEFINE G(g) == [n \in 0..l |-> IF n = 0 THEN << >> ELSE g[n - 1] \o q[n]]
           g == CHOOSE g : g = G(g)
<1>7. f = G(f)
  <2>1. ASSUME NEW n \in 0..l PROVE f[n] = G(f)[n]
    <3>1. n = 0 \/ n \in 1..l BY <1>1
    <3> QED BY <1>6, <3>1
  <2>2. f = [n \in 0..l |-> f[n]] BY <1>6
  <2>3. [n \in 0..l |-> f[n]] = G(f) BY <2>1, Zenon
  <2> QED BY <2>2, <2>3
<1>8. Printer!Joined(q) = g[l] BY DEF Printer!Joined
<1>9. g = G(g) BY <1>7
<1> HIDE DEF g
<1>10. g[0] = << >> /\ \A n \in 1..l : g[n] = g[n - 1] \o q[n]
  <2>1. g[0] = << >>
    <3>1. 0 \in 0..l BY <1>1
    <3>2. G(g)[0] = << >> BY <3>1
    <3> QED BY <1>9, <3>2
  <2>2. ASSUME NEW n \in 1..l PROVE g[n] = g[n - 1] \o q[n]
    <3>1. n \in 0..l /\ n # 0 BY <1>1
    <3>2. G(g)[n] = g[n - 1] \o q[n] BY <3>1
    <3> QED BY <1>9, <3>2
  <2> QED BY <2>1, <2>2
<1> DEFINE P == {n \in Nat : n <= l => g[n] = f[n]}
<1>11. 0 \in P BY <1>6, <1>10
<1>12. ASSUME NEW n \in Nat, n \in P PROVE n + 1 \in P
  <2> SUFFICES ASSUME n + 1 <= l PROVE g[n + 1] = f[n + 1] OBVIOUS
  <2>1. n + 1 \in 1..l /\ (n + 1) - 1 = n /\ n <= l BY <1>1
  <2>2. g[n] = f[n] BY <1>12, <2>1
  <2> HIDE DEF P
  <2> QED BY <1>6, <1>10, <2>1, <2>2
<1> HIDE DEF P
<1>13. l \in P BY <1>1, <1>11, <1>12, SetInduction
<1>14. g[l] = f[l] BY <1>1, <1>13 DEF P
<1> QED BY <1>6, <1>8, <1>14 DEF B

\* A join of sequences is a sequence; that of none is empty, that of one is it.
LEMMA JoinedIs ==
  ASSUME NEW A
  PROVE  /\ \A q \in Seq(Seq(A)) : Printer!Joined(q) \in Seq(A)
         /\ Printer!Joined(<< >>) = << >>
         /\ \A x \in Seq(A) : Printer!Joined(<<x>>) = x
<1>1. ASSUME NEW q \in Seq(Seq(A)) PROVE Printer!Joined(q) \in Seq(A)
  <2>1. PICK f : f \in [0..Len(q) -> Seq(A)] /\ Printer!Joined(q) = f[Len(q)] BY JoinedGrows
  <2>2. Len(q) \in 0..Len(q) OBVIOUS
  <2> QED BY <2>1, <2>2
<1>2. Printer!Joined(<< >>) = << >>
  <2>1. << >> \in Seq(Seq(A)) /\ Len(<< >>) = 0 OBVIOUS
  <2> QED BY <2>1, JoinedGrows
<1>3. ASSUME NEW x \in Seq(A) PROVE Printer!Joined(<<x>>) = x
  <2> DEFINE q == <<x>>
  <2>1. q \in Seq(Seq(A)) /\ Len(q) = 1 /\ q[1] = x OBVIOUS
  <2> HIDE DEF q
  <2>2. PICK f : /\ f[0] = << >> /\ \A n \in 1..Len(q) : f[n] = f[n - 1] \o q[n]
                 /\ Printer!Joined(q) = f[Len(q)] BY <2>1, JoinedGrows
  <2>5. 1 \in 1..Len(q) /\ 1 - 1 = 0 BY <2>1
  <2>3. f[1] = << >> \o x
    <3>1. f[1] = f[1 - 1] \o q[1] BY <2>2, <2>5
    <3> QED BY <2>1, <2>2, <2>5, <3>1
  <2>4. << >> \o x = x OBVIOUS
  <2> QED BY <2>1, <2>2, <2>3, <2>4 DEF q
<1> QED BY <1>1, <1>2, <1>3

\* Joining one list of sequences after another joins their joins.
LEMMA JoinedJoin ==
  ASSUME NEW A, NEW a \in Seq(Seq(A)), NEW b \in Seq(Seq(A))
  PROVE  Printer!Joined(a \o b) = Printer!Joined(a) \o Printer!Joined(b)
<1> DEFINE c == a \o b
           m == Len(a)
           n == Len(b)
<1>1. /\ c \in Seq(Seq(A)) /\ Len(c) = m + n /\ m \in Nat /\ n \in Nat
      /\ \A k \in 1..(m + n) : c[k] = IF k <= m THEN a[k] ELSE b[k - m]
  BY ConcatProperties
<1> HIDE DEF c
<1>2. PICK f : /\ f \in [0..m -> Seq(A)] /\ f[0] = << >> /\ \A k \in 1..m : f[k] = f[k - 1] \o a[k]
               /\ Printer!Joined(a) = f[m] BY JoinedGrows
<1>3. PICK g : /\ g \in [0..n -> Seq(A)] /\ g[0] = << >> /\ \A k \in 1..n : g[k] = g[k - 1] \o b[k]
               /\ Printer!Joined(b) = g[n] BY JoinedGrows
<1> DEFINE l == Len(c)
<1>0. PICK h : /\ h \in [0..l -> Seq(A)] /\ h[0] = << >> /\ \A k \in 1..l : h[k] = h[k - 1] \o c[k]
               /\ Printer!Joined(c) = h[l] BY <1>1, JoinedGrows
<1>15. l = m + n BY <1>1
<1> HIDE DEF l, m, n
<1>4. /\ h[0] = << >> /\ \A k \in 1..(m + n) : h[k] = h[k - 1] \o c[k]
      /\ Printer!Joined(c) = h[m + n] BY <1>0, <1>15
<1>5. ASSUME NEW k \in 1..m PROVE h[k] = h[k - 1] \o a[k]
  <2>1. k \in 1..(m + n) /\ k <= m BY <1>1
  <2>2. c[k] = a[k] BY <1>1, <2>1
  <2> QED BY <1>4, <2>1, <2>2
<1>6. ASSUME NEW k \in 1..n PROVE h[m + k] = h[(m + k) - 1] \o b[k]
  <2>1. m + k \in 1..(m + n) /\ ~ (m + k <= m) /\ (m + k) - m = k BY <1>1
  <2> QED BY <1>1, <1>4, <2>1
<1> DEFINE P == {k \in Nat : k <= m => h[k] = f[k]}
           Q == {k \in Nat : k <= n => h[m + k] = f[m] \o g[k]}
<1>7. 0 \in P BY <1>2, <1>4
<1>8. ASSUME NEW k \in Nat, k \in P PROVE k + 1 \in P
  <2> SUFFICES ASSUME k + 1 <= m PROVE h[k + 1] = f[k + 1] OBVIOUS
  <2>1. k + 1 \in 1..m /\ (k + 1) - 1 = k /\ k <= m BY <1>1
  <2>2. h[k] = f[k] BY <1>8, <2>1
  <2> HIDE DEF P, Q
  <2> QED BY <1>2, <1>5, <2>1, <2>2
<1> HIDE DEF P
<1>9. m \in P BY <1>1, <1>7, <1>8, SetInduction
<1>16. m \in 0..m /\ m <= m BY <1>1
<1>10. h[m] = f[m] /\ f[m] \in Seq(A) BY <1>2, <1>9, <1>16 DEF P
<1>11. 0 \in Q
  <2>1. f[m] \o << >> = f[m] BY <1>10, ConcatEmptySeq
  <2>2. m + 0 = m /\ 0 \in Nat BY <1>1
  <2>3. h[m + 0] = f[m] \o g[0] BY <1>3, <1>10, <2>1, <2>2
  <2> QED BY <2>2, <2>3, Zenon
<1>12. ASSUME NEW k \in Nat, k \in Q PROVE k + 1 \in Q
  <2> SUFFICES ASSUME k + 1 <= n PROVE h[m + (k + 1)] = f[m] \o g[k + 1]
    <3>1. k + 1 \in Nat OBVIOUS
    <3> QED BY <3>1, Zenon
  <2>1. k + 1 \in 1..n /\ (k + 1) - 1 = k /\ k <= n /\ k \in 0..n /\ (m + (k + 1)) - 1 = m + k BY <1>1
  <2>2. h[m + k] = f[m] \o g[k] BY <1>12, <2>1
  <2> HIDE DEF P, Q
  <2>3. h[m + (k + 1)] = (f[m] \o g[k]) \o b[k + 1] BY <1>6, <2>1, <2>2
  <2>7. g[k + 1] = g[k] \o b[k + 1] /\ g[k] \in Seq(A)
    <3>1. g[k + 1] = g[(k + 1) - 1] \o b[k + 1] BY <1>3, <2>1
    <3> QED BY <1>3, <2>1, <3>1
  <2>4. b[k + 1] \in Seq(A) BY <2>1 DEF n
  <2> DEFINE x == f[m]
             y == g[k]
             z == b[k + 1]
  <2>5. x \in Seq(A) /\ y \in Seq(A) /\ z \in Seq(A) BY <1>10, <2>4, <2>7
  <2> HIDE DEF x, y, z
  <2>6. (x \o y) \o z = x \o (y \o z) BY <2>5, ConcatAssociative
  <2> QED BY <2>3, <2>6, <2>7 DEF x, y, z
<1> HIDE DEF Q
<1>13. n \in Q BY <1>1, <1>11, <1>12, SetInduction
<1>17. n <= n BY <1>1
<1>14. h[m + n] = f[m] \o g[n] BY <1>13, <1>17 DEF Q
<1> QED BY <1>2, <1>3, <1>4, <1>14 DEF c, m, n

\* What a text is made of: cells, but no zero.
Plain == Letters \ {"nul"}

\* The words, separators and brackets are plain text.
LEMMA PlainTexts ==
  /\ <<",">> \in Seq(Plain) /\ <<" ">> \in Seq(Plain) /\ <<"{">> \in Seq(Plain) /\ <<"newline">> \in Seq(Plain)
  /\ <<":">> \in Seq(Plain) /\ <<"tab">> \in Seq(Plain) /\ << >> \in Seq(Plain) /\ <<"}">> \in Seq(Plain)
  /\ <<"[">> \in Seq(Plain) /\ <<"]">> \in Seq(Plain) /\ Printer!Key \in Seq(Plain)
  /\ \A d \in Nat : Printer!Times("tab", d) \in Seq(Plain) /\ Len(Printer!Times("tab", d)) = d
<1> USE DEF Plain, Letters
<1>1. /\ <<",">> \in Seq(Plain) /\ <<" ">> \in Seq(Plain) /\ <<"{">> \in Seq(Plain) /\ <<"newline">> \in Seq(Plain)
      /\ <<":">> \in Seq(Plain) /\ <<"tab">> \in Seq(Plain) /\ << >> \in Seq(Plain) /\ <<"}">> \in Seq(Plain)
      /\ <<"[">> \in Seq(Plain) /\ <<"]">> \in Seq(Plain)
  OBVIOUS
<1>2. Printer!Key \in Seq(Plain) BY DEF Printer!Key
<1>3. \A d \in Nat : Printer!Times("tab", d) \in Seq(Plain) /\ Len(Printer!Times("tab", d)) = d
  <2>1. "tab" \in Plain OBVIOUS
  <2> QED BY <2>1 DEF Printer!Times
<1> QED BY <1>1, <1>2, <1>3

\* A scalar's word is plain text.
LEMMA WordIs ==
  ASSUME NEW i, i.kind \in {"null", "number", "string", "empty"}
  PROVE  Printer!Word(i) \in Seq(Plain)
<1> USE DEF Plain, Letters, Printer!Word
<1>1. CASE i.kind = "null" BY <1>1
<1>2. CASE i.kind = "number" BY <1>2
<1>3. CASE i.kind = "string" BY <1>3
<1>4. CASE i.kind = "empty" BY <1>4
<1> QED BY <1>1, <1>2, <1>3, <1>4

\* Joining two plain texts, and leaving one out, gives plain text.
LEMMA PlainJoin ==
  /\ \A a, b \in Seq(Plain) : a \o b \in Seq(Plain)
  /\ \A b \in BOOLEAN, a \in Seq(Plain) : Printer!When(b, a) \in Seq(Plain)
<1>1. ASSUME NEW a \in Seq(Plain), NEW b \in Seq(Plain) PROVE a \o b \in Seq(Plain) OBVIOUS
<1>2. ASSUME NEW b \in BOOLEAN, NEW a \in Seq(Plain) PROVE Printer!When(b, a) \in Seq(Plain)
  <2>1. CASE b BY <2>1 DEF Printer!When
  <2>2. CASE ~ b BY <2>2, PlainTexts DEF Printer!When
  <2> QED BY <2>1, <2>2
<1> QED BY <1>1, <1>2

\* An item of a container, with what stands around it, is plain text.
LEMMA PartTextIs ==
  ASSUME NEW i, NEW f \in BOOLEAN, NEW d \in Nat, NEW k \in Nat, NEW t \in Seq(Plain), Len(i.kids) \in Nat
  PROVE  Printer!PartText(i, f, d, k, t) \in Seq(Plain)
<1> DEFINE more == k < Len(i.kids)
           c == Printer!When(more, <<",">> \o Printer!When(f, <<" ">>))
           h == Printer!When(f, Printer!Times("tab", d + 1))
           l == <<":">> \o Printer!When(f, <<"tab">>)
           e == Printer!When(more, <<",">>) \o Printer!When(f, <<"newline">>)
<1>1. more \in BOOLEAN /\ d + 1 \in Nat OBVIOUS
<1>2. c \in Seq(Plain) /\ h \in Seq(Plain) /\ l \in Seq(Plain) /\ e \in Seq(Plain)
  <2> HIDE DEF more
  <2> QED BY <1>1, PlainTexts, PlainJoin
<1>3. Printer!PartText(i, f, d, k, t) = IF i.kind = "array" THEN t \o c ELSE h \o Printer!Key \o l \o t \o e
  BY DEF Printer!PartText
<1> HIDE DEF c, h, l, e
<1>4. t \o c \in Seq(Plain) BY <1>2, PlainJoin
<1>5. Printer!Key \in Seq(Plain) BY PlainTexts
<1>6. h \o Printer!Key \in Seq(Plain) BY <1>2, <1>5, PlainJoin
<1>7. h \o Printer!Key \o l \in Seq(Plain) BY <1>2, <1>6, PlainJoin
<1>8. h \o Printer!Key \o l \o t \in Seq(Plain) BY <1>7, PlainJoin
<1>9. h \o Printer!Key \o l \o t \o e \in Seq(Plain) BY <1>2, <1>8, PlainJoin
<1> QED BY <1>3, <1>4, <1>9

\* The texts of the items of i, each with what stands around it.
PartsOf(i, f, d, x) ==
  [k \in 1..Len(Printer!Kids(i)) |-> Printer!PartText(i, f, d, k, x[k])]

\* They are plain texts.
LEMMA PartsOfIs ==
  ASSUME NEW i \in PrintItems, NEW f \in BOOLEAN, NEW d \in Nat, NEW x,
         \A k \in 1..Len(Printer!Kids(i)) : x[k] \in Seq(Plain)
  PROVE  /\ PartsOf(i, f, d, x) \in Seq(Seq(Plain)) /\ Len(PartsOf(i, f, d, x)) = Len(Printer!Kids(i))
         /\ \A k \in 1..Len(Printer!Kids(i)) : PartsOf(i, f, d, x)[k] = Printer!PartText(i, f, d, k, x[k])
<1>1. Len(Printer!Kids(i)) \in Nat BY KidsAre
<1>2. ASSUME NEW k \in 1..Len(Printer!Kids(i)) PROVE Printer!PartText(i, f, d, k, x[k]) \in Seq(Plain)
  <2>1. Len(i.kids) \in Nat
    <3>1. CASE i.kind \in {"array", "object"} BY <1>1, <3>1 DEF Printer!Kids
    <3>2. CASE i.kind \notin {"array", "object"}
      <4>1. Printer!Kids(i) = << >> BY <3>2 DEF Printer!Kids
      <4>2. Len(<< >>) = 0 OBVIOUS
      <4> QED BY <1>2, <4>1, <4>2
    <3> QED BY <3>1, <3>2
  <2>2. k \in Nat /\ x[k] \in Seq(Plain) BY <1>1
  <2> QED BY <2>1, <2>2, PartTextIs
<1> QED BY <1>1, <1>2 DEF PartsOf

\* The text of an item is plain text when those of the items in it are.
LEMMA ItemTextIs ==
  ASSUME NEW i \in PrintItems, NEW f \in BOOLEAN, NEW d \in Nat, NEW x,
         \A k \in 1..Len(Printer!Kids(i)) : x[k] \in Seq(Plain)
  PROVE  Printer!ItemText(i, f, d, x) \in Seq(Plain)
<1> DEFINE p == Printer!Joined(PartsOf(i, f, d, x))
           b == <<"{">> \o Printer!When(f, <<"newline">>)
           e == Printer!When(f, Printer!Times("tab", d)) \o <<"}">>
<1>1. p \in Seq(Plain) BY PartsOfIs, JoinedIs
<1>2. b \in Seq(Plain) /\ e \in Seq(Plain) BY PlainTexts, PlainJoin
<1>3. Printer!ItemText(i, f, d, x) =
        CASE i.kind = "array"   -> <<"[">> \o p \o <<"]">>
          [] i.kind = "object"  -> b \o p \o e
          [] i.kind = "invalid" -> << >>
          [] OTHER              -> Printer!Word(i)
  BY DEF Printer!ItemText, PartsOf
<1> HIDE DEF p, b, e
<1>4. <<"[">> \o p \o <<"]">> \in Seq(Plain)
  <2>1. <<"[">> \o p \in Seq(Plain) BY <1>1, PlainTexts, PlainJoin
  <2> QED BY <2>1, PlainTexts, PlainJoin
<1>5. b \o p \o e \in Seq(Plain)
  <2>1. b \o p \in Seq(Plain) BY <1>1, <1>2, PlainJoin
  <2> QED BY <1>2, <2>1, PlainJoin
<1>6. CASE i.kind = "array" BY <1>3, <1>4, <1>6
<1>7. CASE i.kind = "object" BY <1>3, <1>5, <1>7
<1>8. CASE i.kind = "invalid" BY <1>3, <1>8, PlainTexts
<1>9. CASE i.kind \notin {"array", "object", "invalid"}
  <2>1. i.kind \in {"null", "number", "string", "empty"} BY <1>9, PrintItemsAssumption
  <2>2. Printer!ItemText(i, f, d, x) = Printer!Word(i) BY <1>3, <1>9
  <2> QED BY <2>1, <2>2, WordIs
<1> QED BY <1>6, <1>7, <1>8, <1>9

\* The texts of the items in i, taken from g, one level deeper.
KidTexts(g, i, d) == [k \in 1..Len(Printer!Kids(i)) |-> g[Printer!Kids(i)[k]][d + 1]]

\* What satisfies the equation of Text(f).
TextEquation(g, f) ==
  g = [i \in PrintItems |-> [d \in Nat |-> Printer!ItemText(i, f, d, KidTexts(g, i, d))]]

\* The equation has a solution.
LEMMA TextExists ==
  ASSUME NEW f \in BOOLEAN
  PROVE  \E g : TextEquation(g, f)
<1> DEFINE V == [Nat -> Seq(Plain)]
           R(i, g) == [d \in Nat |-> Printer!ItemText(i, f, d, KidTexts(g, i, d))]
           F == [i \in PrintItems |-> [g \in [PrintItems -> V] |-> R(i, g)]]
<1>1. ASSUME NEW i \in PrintItems, NEW g \in [PrintItems -> V] PROVE R(i, g) \in V
  <2>1. ASSUME NEW d \in Nat PROVE Printer!ItemText(i, f, d, KidTexts(g, i, d)) \in Seq(Plain)
    <3>1. ASSUME NEW k \in 1..Len(Printer!Kids(i)) PROVE KidTexts(g, i, d)[k] \in Seq(Plain)
      <4>1. Printer!Kids(i)[k] \in PrintItems BY KidsAre
      <4>2. g[Printer!Kids(i)[k]] \in V BY <4>1
      <4> DEFINE x == g[Printer!Kids(i)[k]]
      <4>4. x \in V BY <4>2
      <4> HIDE DEF x
      <4>5. x[d + 1] \in Seq(Plain)
        <5>1. d + 1 \in Nat OBVIOUS
        <5> QED BY <4>4, <5>1 DEF V
      <4>3. g[Printer!Kids(i)[k]][d + 1] \in Seq(Plain) BY <4>5 DEF x
      <4> QED BY <4>3 DEF KidTexts
    <3> QED BY <3>1, ItemTextIs
  <2> QED BY <2>1
<1>2. ASSUME NEW i \in PrintItems, NEW g \in [PrintItems -> V], NEW h \in [PrintItems -> V],
             \A j \in PrintItems : KidOf(j, i) => g[j] = h[j]
      PROVE  R(i, g) = R(i, h)
  <2>1. ASSUME NEW d \in Nat PROVE KidTexts(g, i, d) = KidTexts(h, i, d)
    <3>1. ASSUME NEW k \in 1..Len(Printer!Kids(i)) PROVE g[Printer!Kids(i)[k]] = h[Printer!Kids(i)[k]]
      <4>1. Printer!Kids(i)[k] \in PrintItems /\ KidOf(Printer!Kids(i)[k], i) BY KidsAre DEF KidOf
      <4> QED BY <1>2, <4>1
    <3> QED BY <3>1, Zenon DEF KidTexts
  <2> QED BY <2>1, Zenon
<1> HIDE DEF R, V
<1>3. F \in [PrintItems -> [[PrintItems -> V] -> V]] BY <1>1
<1>4. ASSUME NEW i \in PrintItems, NEW g \in [PrintItems -> V] PROVE F[i][g] = R(i, g)
  <2>1. F[i] = [x \in [PrintItems -> V] |-> R(i, x)] OBVIOUS
  <2> HIDE DEF F
  <2> QED BY <2>1
<1> HIDE DEF F
<1>5. Local(F, V)
  <2>1. ASSUME NEW i \in PrintItems, NEW g \in [PrintItems -> V], NEW h \in [PrintItems -> V],
               \A j \in PrintItems : KidOf(j, i) => g[j] = h[j]
        PROVE  F[i][g] = F[i][h]
    <3>1. R(i, g) = R(i, h) BY <1>2, <2>1
    <3> QED BY <1>4, <3>1
  <2> QED BY <1>3, <2>1 DEF Local
<1>6. V # {}
  <2>1. [d \in Nat |-> << >>] \in V BY PlainTexts DEF V
  <2> QED BY <2>1
<1>7. PICK g \in [PrintItems -> V] : \A i \in PrintItems : g[i] = F[i][g] BY <1>5, <1>6, ItemRecursion
<1>8. \A i \in PrintItems : g[i] = R(i, g) BY <1>4, <1>7
<1>9. g = [i \in PrintItems |-> g[i]] BY <1>7
<1>10. [i \in PrintItems |-> g[i]] = [i \in PrintItems |-> R(i, g)] BY <1>8, Zenon
<1>11. g = [i \in PrintItems |-> R(i, g)] BY <1>9, <1>10
<1> QED BY <1>11 DEF TextEquation, R

\* The reference text is plain, and that of an item is made of those of the
\* items in it.
LEMMA TextIs ==
  ASSUME NEW f \in BOOLEAN, NEW i \in PrintItems, NEW d \in Nat
  PROVE  /\ Printer!Text(f)[i][d] \in Seq(Plain)
         /\ Printer!Text(f)[i][d] = Printer!ItemText(i, f, d, KidTexts(Printer!Text(f), i, d))
         /\ \A k \in 1..Len(Printer!Kids(i)) : /\ KidTexts(Printer!Text(f), i, d)[k] \in Seq(Plain)
                                               /\ KidTexts(Printer!Text(f), i, d)[k] =
                                                    Printer!Text(f)[Printer!Kids(i)[k]][d + 1]
<1> DEFINE t == Printer!Text(f)
<1>1. t = CHOOSE g : TextEquation(g, f) BY DEF Printer!Text, TextEquation, KidTexts
<1>2. TextEquation(t, f) BY <1>1, TextExists
<1> HIDE DEF t
<1>3. ASSUME NEW j \in PrintItems, NEW e \in Nat PROVE t[j][e] = Printer!ItemText(j, f, e, KidTexts(t, j, e))
  <2> DEFINE R(x) == [c \in Nat |-> Printer!ItemText(x, f, c, KidTexts(t, x, c))]
  <2>1. t = [x \in PrintItems |-> R(x)] BY <1>2 DEF TextEquation
  <2> HIDE DEF R
  <2>2. t[j] = R(j) BY <2>1
  <2>3. R(j)[e] = Printer!ItemText(j, f, e, KidTexts(t, j, e)) BY DEF R
  <2> QED BY <2>2, <2>3
<1> DEFINE P == {n \in Nat : \A j \in PrintItems : Height[j] < n => \A e \in Nat : t[j][e] \in Seq(Plain)}
<1>0. \A j \in PrintItems : Height[j] \in Nat BY HeightAssumption
<1>k. \A j \in PrintItems, e \in Nat : \A k \in 1..Len(Printer!Kids(j)) :
        KidTexts(t, j, e)[k] = t[Printer!Kids(j)[k]][e + 1]
  BY DEF KidTexts
<1>4. 0 \in P BY <1>0
<1>5. ASSUME NEW n \in Nat, n \in P PROVE n + 1 \in P
  <2> SUFFICES ASSUME NEW j \in PrintItems, Height[j] < n + 1, NEW e \in Nat PROVE t[j][e] \in Seq(Plain)
    OBVIOUS
  <2>1. ASSUME NEW k \in 1..Len(Printer!Kids(j)) PROVE KidTexts(t, j, e)[k] \in Seq(Plain)
    <3>1. Printer!Kids(j)[k] \in PrintItems /\ Height[Printer!Kids(j)[k]] < Height[j] BY KidsAre
    <3>2. Height[Printer!Kids(j)[k]] < n /\ e + 1 \in Nat BY <1>0, <3>1
    <3>3. t[Printer!Kids(j)[k]][e + 1] \in Seq(Plain) BY <1>5, <3>1, <3>2
    <3> QED BY <1>k, <3>3
  <2>2. Printer!ItemText(j, f, e, KidTexts(t, j, e)) \in Seq(Plain) BY <2>1, ItemTextIs
  <2> QED BY <1>3, <2>2
<1> HIDE DEF P
<1>6. Nat \subseteq P BY <1>4, <1>5, SetInduction
<1>7. ASSUME NEW j \in PrintItems, NEW e \in Nat PROVE t[j][e] \in Seq(Plain)
  <2>1. Height[j] + 1 \in P /\ Height[j] < Height[j] + 1 BY <1>0, <1>6
  <2> QED BY <2>1 DEF P
<1>8. \A k \in 1..Len(Printer!Kids(i)) : KidTexts(t, i, d)[k] \in Seq(Plain)
  <2>1. \A k \in 1..Len(Printer!Kids(i)) : Printer!Kids(i)[k] \in PrintItems BY KidsAre
  <2>2. d + 1 \in Nat OBVIOUS
  <2> QED BY <1>7, <1>k, <2>1, <2>2
<1> QED BY <1>3, <1>7, <1>8, <1>k DEF t

\* An item is valid exactly if its kind is and every item in it is valid.
LEMMA ValidIs ==
  ASSUME NEW i \in PrintItems
  PROVE  /\ Printer!Valid[i] \in BOOLEAN
         /\ Printer!Valid[i] <=> /\ i.kind # "invalid"
                                 /\ \A k \in 1..Len(Printer!Kids(i)) : Printer!Valid[Printer!Kids(i)[k]]
<1> DEFINE R(j, g) == j.kind # "invalid" /\ \A k \in 1..Len(Printer!Kids(j)) : g[Printer!Kids(j)[k]]
           F == [j \in PrintItems |-> [g \in [PrintItems -> BOOLEAN] |-> R(j, g)]]
<1>1. \A j \in PrintItems, g \in [PrintItems -> BOOLEAN] : R(j, g) \in BOOLEAN OBVIOUS
<1>2. ASSUME NEW j \in PrintItems, NEW g \in [PrintItems -> BOOLEAN], NEW h \in [PrintItems -> BOOLEAN],
             \A m \in PrintItems : KidOf(m, j) => g[m] = h[m]
      PROVE  R(j, g) = R(j, h)
  <2>1. ASSUME NEW k \in 1..Len(Printer!Kids(j)) PROVE g[Printer!Kids(j)[k]] = h[Printer!Kids(j)[k]]
    <3>1. Printer!Kids(j)[k] \in PrintItems /\ KidOf(Printer!Kids(j)[k], j) BY KidsAre DEF KidOf
    <3> QED BY <1>2, <3>1
  <2>2. R(j, g) <=> R(j, h) BY <2>1
  <2> QED BY <1>1, <2>2
<1>3. F \in [PrintItems -> [[PrintItems -> BOOLEAN] -> BOOLEAN]]
  <2> HIDE DEF R
  <2> QED BY <1>1
<1>4. ASSUME NEW j \in PrintItems, NEW g \in [PrintItems -> BOOLEAN] PROVE F[j][g] = R(j, g)
  <2>1. F[j] = [x \in [PrintItems -> BOOLEAN] |-> R(j, x)] OBVIOUS
  <2> HIDE DEF F, R
  <2> QED BY <2>1
<1>5. Local(F, BOOLEAN)
  <2> HIDE DEF F, R
  <2>1. ASSUME NEW j \in PrintItems, NEW g \in [PrintItems -> BOOLEAN], NEW h \in [PrintItems -> BOOLEAN],
               \A m \in PrintItems : KidOf(m, j) => g[m] = h[m]
        PROVE  F[j][g] = F[j][h]
    <3>1. R(j, g) = R(j, h) BY <1>2, <2>1
    <3> QED BY <1>4, <3>1
  <2> QED BY <1>3, <2>1 DEF Local
<1>6. PICK g \in [PrintItems -> BOOLEAN] : \A j \in PrintItems : g[j] = F[j][g]
  <2> HIDE DEF F
  <2> DEFINE B == BOOLEAN
  <2>1. Local(F, B) /\ B # {} BY <1>5
  <2> HIDE DEF B
  <2>2. \E g \in [PrintItems -> B] : \A j \in PrintItems : g[j] = F[j][g] BY <2>1, ItemRecursion
  <2> QED BY <2>2 DEF B
<1>7. \A j \in PrintItems : g[j] = R(j, g)
  <2> HIDE DEF F, R
  <2> QED BY <1>4, <1>6
<1>8. g = [j \in PrintItems |-> R(j, g)]
  <2> HIDE DEF R
  <2>1. g = [j \in PrintItems |-> g[j]] BY <1>6
  <2>2. [j \in PrintItems |-> g[j]] = [j \in PrintItems |-> R(j, g)] BY <1>7, Zenon
  <2> QED BY <2>1, <2>2
<1> DEFINE v == Printer!Valid
<1>9. v = CHOOSE h : h = [j \in PrintItems |-> R(j, h)] BY DEF Printer!Valid
<1>10. v = [j \in PrintItems |-> R(j, v)]
  <2> HIDE DEF R, v
  <2> QED BY <1>8, <1>9
<1>11. v[i] = R(i, v)
  <2> HIDE DEF R, v
  <2> QED BY <1>10
<1> QED BY <1>11

-----------------------------------------------------------------------------
(* The text that operations add, and that those of an item add its text.   *)

\* What a put leaves in the buffer, but for its zero.
Body(c) == IF Len(c) # 0 /\ c[Len(c)] = "nul" THEN SubSeq(c, 1, Len(c) - 1) ELSE c

\* The texts of the items of container i from item k on.
LoopText(i, f, d, k) ==
  Printer!Joined(SubSeq(PartsOf(i, f, d, KidTexts(Printer!Text(f), i, d)), k, Len(Printer!Kids(i))))

\* The text an operation adds.
OpText(o, f) == IF o.op = "put" THEN Body(o.cells)
                ELSE IF o.op = "loop" THEN LoopText(o.item, f, o.depth, o.k) ELSE << >>

\* A put writes plain text, or that and a zero, asks for one cell more at most,
\* and moves the offset no further than the text.
Tidy(o) ==
  o.op = "put" => /\ Body(o.cells) \in Seq(Plain)
                  /\ o.cells = Body(o.cells) \/ o.cells = Body(o.cells) \o <<"nul">>
                  /\ o.need <= Len(Body(o.cells)) + 1
                  /\ o.adv <= Len(Body(o.cells))

\* It moves the offset to the end of the text.
Straight(o) == o.op = "put" => o.adv = Len(Body(o.cells))

\* Whenever the offset is not at the end of the text it is measured next.
Smooth(s) ==
  /\ s \in Seq(OpSet)
  /\ \A k \in 1..Len(s) : Fine(s[k]) /\ Tidy(s[k])
  /\ \A k \in 1..(Len(s) - 1) : s[k + 1].op # "measure" => Straight(s[k])

\* After s the offset is at the end of the text.
Lands(s) == Len(s) # 0 => Straight(s[Len(s)])

\* The text that a list of operations adds.
Rest(s, f) == Printer!Joined([k \in 1..Len(s) |-> OpText(s[k], f)])

\* No operation comes upon an invalid item.
Sane(o) ==
  /\ o.op # "invalid"
  /\ o.op = "loop" => \A j \in o.k..Len(o.item.kids) : Printer!Valid[o.item.kids[j]]

\* None of operations s does.
AllSane(s) == \A k \in 1..Len(s) : Sane(s[k])

\* Operations s add text t, and come upon no invalid item exactly if all of
\* items J are valid.
Prints(s, f, t, J) == Smooth(s) /\ Rest(s, f) = t /\ (AllSane(s) <=> \A j \in J : Printer!Valid[j])

\* The body of a text is the text, with or without a zero.
LEMMA BodyIs ==
  ASSUME NEW t \in Seq(Plain)
  PROVE  Body(t) = t /\ Body(t \o <<"nul">>) = t /\ Len(t) \in Nat
<1>1. Len(t) \in Nat OBVIOUS
<1>2. Body(t) = t
  <2>1. ASSUME Len(t) # 0, t[Len(t)] = "nul" PROVE FALSE
    <3>1. Len(t) \in 1..Len(t) BY <1>1, <2>1
    <3>2. t[Len(t)] \in Plain BY <3>1
    <3> QED BY <2>1, <3>2 DEF Plain
  <2> QED BY <2>1 DEF Body
<1> DEFINE A == Plain \cup {"nul"}
           z == <<"nul">>
           c == t \o z
<1>3. t \in Seq(A) /\ z \in Seq(A) /\ Len(z) = 1 /\ z[1] = "nul" OBVIOUS
<1> HIDE DEF A, z
<1>4. /\ c \in Seq(A) /\ Len(c) = Len(t) + 1
      /\ \A k \in 1..(Len(t) + 1) : c[k] = IF k <= Len(t) THEN t[k] ELSE z[k - Len(t)]
  BY <1>3, ConcatProperties
<1> HIDE DEF c
<1>5. Len(c) # 0 /\ Len(c) - 1 = Len(t) BY <1>1, <1>4
<1>6. c[Len(c)] = "nul"
  <2>1. Len(c) \in 1..(Len(t) + 1) /\ ~ (Len(c) <= Len(t)) /\ Len(c) - Len(t) = 1 BY <1>1, <1>4
  <2> QED BY <1>3, <1>4, <2>1
<1>7. SubSeq(c, 1, Len(t)) = t
  <2>1. SubSeq(c, 1, Len(t)) \in Seq(A) /\ Len(SubSeq(c, 1, Len(t))) = Len(t)
        /\ \A k \in 1..Len(t) : SubSeq(c, 1, Len(t))[k] = c[k]
    BY <1>1, <1>4, SubSeqProperties
  <2>2. \A k \in 1..Len(t) : c[k] = t[k] BY <1>1, <1>4
  <2> QED BY <1>3, <2>1, <2>2, SeqEqual
<1>8. Body(c) = t BY <1>5, <1>6, <1>7 DEF Body
<1> QED BY <1>1, <1>2, <1>8 DEF c, z

\* What is left of a loop is plain text; with no item to go it is empty, else
\* its next item stands first.
LEMMA LoopTextIs ==
  ASSUME NEW i \in PrintItems, NEW f \in BOOLEAN, NEW d \in Nat
  PROVE  /\ \A k \in 1..(Len(Printer!Kids(i)) + 1) : LoopText(i, f, d, k) \in Seq(Plain)
         /\ LoopText(i, f, d, Len(Printer!Kids(i)) + 1) = << >>
         /\ LoopText(i, f, d, 1) = Printer!Joined(PartsOf(i, f, d, KidTexts(Printer!Text(f), i, d)))
         /\ \A k \in 1..Len(Printer!Kids(i)) :
              LoopText(i, f, d, k) =
                Printer!PartText(i, f, d, k, Printer!Text(f)[Printer!Kids(i)[k]][d + 1])
                \o LoopText(i, f, d, k + 1)
<1> DEFINE x == KidTexts(Printer!Text(f), i, d)
           q == PartsOf(i, f, d, x)
           l == Len(Printer!Kids(i))
           A == Seq(Plain)
<1>1. \A k \in 1..l : x[k] \in Seq(Plain) /\ x[k] = Printer!Text(f)[Printer!Kids(i)[k]][d + 1] BY TextIs
<1>2. q \in Seq(A) /\ Len(q) = l /\ \A k \in 1..l : q[k] = Printer!PartText(i, f, d, k, x[k])
  BY <1>1, PartsOfIs
<1>3. l \in Nat BY KidsAre
<1>4. \A k : LoopText(i, f, d, k) = Printer!Joined(SubSeq(q, k, l)) BY DEF LoopText
<1> HIDE DEF q, l, x, A
<1>5. ASSUME NEW k \in 1..(l + 1)
      PROVE  /\ SubSeq(q, k, l) \in Seq(A) /\ Len(SubSeq(q, k, l)) = (l - k) + 1
             /\ \A j \in 1..((l - k) + 1) : SubSeq(q, k, l)[j] = q[(k + j) - 1]
  <2>1. \A j \in 1..((l - k) + 1) : (k + j) - 1 \in 1..l BY <1>3
  <2>2. k \in Nat /\ (l - k) + 1 \in Nat BY <1>3
  <2>3. SubSeq(q, k, l) = [j \in 1..((l - k) + 1) |-> q[(k + j) - 1]]
    <3>1. k \in Int /\ l \in Int BY <1>3, <2>2
    <3> QED BY <3>1
  <2>4. \A j \in 1..((l - k) + 1) : q[(k + j) - 1] \in A BY <1>2, <2>1
  <2> QED BY <2>2, <2>3, <2>4
<1>6. ASSUME NEW k \in 1..(l + 1) PROVE LoopText(i, f, d, k) \in Seq(Plain)
  <2>1. SubSeq(q, k, l) \in Seq(Seq(Plain)) BY <1>5 DEF A
  <2>2. \A y \in Seq(Seq(Plain)) : Printer!Joined(y) \in Seq(Plain) BY JoinedIs
  <2> QED BY <1>4, <2>1, <2>2
<1>7. LoopText(i, f, d, l + 1) = << >>
  <2>1. l + 1 \in 1..(l + 1) /\ (l - (l + 1)) + 1 = 0 BY <1>3
  <2>2. SubSeq(q, l + 1, l) = << >> BY <1>5, <2>1
  <2> QED BY <1>4, <2>2, JoinedIs
<1>8. LoopText(i, f, d, 1) = Printer!Joined(q)
  <2>1. 1 \in 1..(l + 1) /\ (l - 1) + 1 = l /\ \A j \in 1..l : (1 + j) - 1 = j BY <1>3
  <2>2. \A j \in 1..l : SubSeq(q, 1, l)[j] = q[j] BY <1>5, <2>1
  <2>3. SubSeq(q, 1, l) = q BY <1>2, <1>5, <2>1, <2>2, SeqEqual
  <2> QED BY <1>4, <2>3
<1>9. ASSUME NEW k \in 1..l PROVE LoopText(i, f, d, k) = q[k] \o LoopText(i, f, d, k + 1)
  <2> DEFINE a == <<q[k]>>
             b == SubSeq(q, k + 1, l)
             c == SubSeq(q, k, l)
  <2>1. k \in 1..(l + 1) /\ k + 1 \in 1..(l + 1) /\ q[k] \in A BY <1>2, <1>3
  <2>2. a \in Seq(A) /\ Len(a) = 1 /\ a[1] = q[k] BY <2>1
  <2>3. /\ b \in Seq(A) /\ Len(b) = (l - (k + 1)) + 1
        /\ \A j \in 1..((l - (k + 1)) + 1) : b[j] = q[((k + 1) + j) - 1]
        /\ c \in Seq(A) /\ Len(c) = (l - k) + 1 /\ \A j \in 1..((l - k) + 1) : c[j] = q[(k + j) - 1]
    BY <1>5, <2>1
  <2> HIDE DEF a, b, c
  <2>4. /\ a \o b \in Seq(A) /\ Len(a \o b) = 1 + Len(b)
        /\ \A j \in 1..(1 + Len(b)) : (a \o b)[j] = IF j <= 1 THEN a[j] ELSE b[j - 1]
    <3>1. /\ a \o b \in Seq(A) /\ Len(a \o b) = Len(a) + Len(b)
          /\ \A j \in 1..(Len(a) + Len(b)) : (a \o b)[j] = IF j <= Len(a) THEN a[j] ELSE b[j - Len(a)]
      BY <2>2, <2>3, ConcatProperties
    <3> QED BY <2>2, <3>1
  <2>5. Len(a \o b) = Len(c) BY <1>3, <2>3, <2>4
  <2>6. ASSUME NEW j \in 1..Len(c) PROVE c[j] = (a \o b)[j]
    <3>0. j \in 1..((l - k) + 1) /\ j \in 1..(1 + Len(b)) BY <1>3, <2>3
    <3>1. CASE j <= 1
      <4>1. j = 1 /\ (k + j) - 1 = k BY <3>0, <3>1
      <4> QED BY <2>2, <2>3, <2>4, <3>0, <4>1
    <3>2. CASE ~ (j <= 1)
      <4>1. j - 1 \in 1..((l - (k + 1)) + 1) /\ ((k + 1) + (j - 1)) - 1 = (k + j) - 1 BY <1>3, <3>0, <3>2
      <4>2. b[j - 1] = q[(k + j) - 1] BY <2>3, <4>1
      <4> QED BY <2>3, <2>4, <3>0, <3>2, <4>2
    <3> QED BY <3>1, <3>2
  <2>7. c = a \o b BY <2>3, <2>4, <2>5, <2>6, SeqEqual
  <2>8. Printer!Joined(a \o b) = Printer!Joined(a) \o Printer!Joined(b) BY <2>2, <2>3, JoinedJoin DEF A
  <2>9. Printer!Joined(a) = q[k] BY <2>1, JoinedIs DEF A, a
  <2> QED BY <1>4, <2>7, <2>8, <2>9 DEF b, c
<1> QED BY <1>1, <1>2, <1>6, <1>7, <1>8, <1>9 DEF q, l, x

\* What an operation adds is plain text.
LEMMA OpTextIs ==
  ASSUME NEW o \in OpSet, Fine(o), Tidy(o), NEW f \in BOOLEAN
  PROVE  OpText(o, f) \in Seq(Plain)
<1>1. CASE o.op = "put" BY <1>1 DEF OpText, Tidy
<1>2. CASE o.op = "loop"
  <2>1. o.item \in PrintItems /\ o.depth \in Nat /\ o.item.kind \in {"array", "object"} /\ o.k \in 1..Len(o.item.kids)
    BY <1>2 DEF OpSet, Fine
  <2>2. Printer!Kids(o.item) = o.item.kids /\ Len(o.item.kids) \in Nat BY <2>1, PrintItemsAssumption DEF Printer!Kids
  <2>3. o.k \in 1..(Len(Printer!Kids(o.item)) + 1) BY <2>1, <2>2
  <2>4. LoopText(o.item, f, o.depth, o.k) \in Seq(Plain) BY <2>1, <2>3, LoopTextIs
  <2> QED BY <1>2, <2>4 DEF OpText
<1>3. CASE o.op # "put" /\ o.op # "loop" BY <1>3, PlainTexts DEF OpText
<1> QED BY <1>1, <1>2, <1>3

\* The texts of a list of operations are plain texts, and so is their join.
LEMMA RestIs ==
  ASSUME NEW s, Smooth(s), NEW f \in BOOLEAN
  PROVE  /\ [k \in 1..Len(s) |-> OpText(s[k], f)] \in Seq(Seq(Plain))
         /\ Len([k \in 1..Len(s) |-> OpText(s[k], f)]) = Len(s)
         /\ Rest(s, f) \in Seq(Plain) /\ Len(s) \in Nat
<1> DEFINE q == [k \in 1..Len(s) |-> OpText(s[k], f)]
           B == Seq(Plain)
<1>1. Len(s) \in Nat /\ \A k \in 1..Len(s) : s[k] \in OpSet /\ Fine(s[k]) /\ Tidy(s[k]) BY DEF Smooth
<1>2. \A k \in 1..Len(s) : OpText(s[k], f) \in B BY <1>1, OpTextIs
<1> HIDE DEF B
<1>3. q \in Seq(B) /\ Len(q) = Len(s) BY <1>1, <1>2
<1> HIDE DEF q
<1>4. q \in Seq(Seq(Plain)) BY <1>3 DEF B
<1>5. Printer!Joined(q) \in Seq(Plain)
  <2>1. \A y \in Seq(Seq(Plain)) : Printer!Joined(y) \in Seq(Plain) BY JoinedIs
  <2> QED BY <1>4, <2>1
<1> QED BY <1>1, <1>3, <1>4, <1>5 DEF Rest, q

\* The elements of a join, from both sides.
LEMMA JoinParts ==
  ASSUME NEW A, NEW a \in Seq(A), NEW b \in Seq(A)
  PROVE  /\ a \o b \in Seq(A) /\ Len(a) \in Nat /\ Len(b) \in Nat /\ Len(a \o b) = Len(a) + Len(b)
         /\ \A k \in 1..Len(a) : (a \o b)[k] = a[k]
         /\ \A k \in 1..Len(b) : (a \o b)[Len(a) + k] = b[k]
         /\ \A k \in 1..Len(a \o b) : k \in 1..Len(a) \/ (k - Len(a) \in 1..Len(b) /\ (a \o b)[k] = b[k - Len(a)])
<1> DEFINE c == a \o b
<1>1. /\ c \in Seq(A) /\ Len(c) = Len(a) + Len(b) /\ Len(a) \in Nat /\ Len(b) \in Nat
      /\ \A k \in 1..(Len(a) + Len(b)) : c[k] = IF k <= Len(a) THEN a[k] ELSE b[k - Len(a)]
  BY ConcatProperties
<1> HIDE DEF c
<1>2. \A k \in 1..Len(a) : c[k] = a[k] BY <1>1
<1>3. ASSUME NEW k \in 1..Len(b) PROVE c[Len(a) + k] = b[k]
  <2>1. Len(a) + k \in 1..(Len(a) + Len(b)) /\ ~ (Len(a) + k <= Len(a)) /\ (Len(a) + k) - Len(a) = k BY <1>1
  <2> QED BY <1>1, <2>1
<1>4. ASSUME NEW k \in 1..Len(c), k \notin 1..Len(a) PROVE k - Len(a) \in 1..Len(b) /\ c[k] = b[k - Len(a)]
  BY <1>1, <1>4
<1>5. \A k \in 1..Len(c) : k \in 1..Len(a) \/ (k - Len(a) \in 1..Len(b) /\ c[k] = b[k - Len(a)])
  BY <1>4
<1> QED BY <1>1, <1>2, <1>3, <1>5, Zenon DEF c

\* Lists of operations in which the offset is measured in time can be joined
\* where it is, or need not be.
LEMMA SmoothJoin ==
  ASSUME NEW a, NEW b, Smooth(a), Smooth(b), Lands(a) \/ ~ Opens(b)
  PROVE  /\ Smooth(a \o b)
         /\ Lands(b) /\ Len(b) # 0 => Lands(a \o b)
         /\ Lands(a) /\ Lands(b) => Lands(a \o b)
<1> DEFINE c == a \o b
<1>1. a \in Seq(OpSet) /\ b \in Seq(OpSet) BY DEF Smooth
<1>2. /\ c \in Seq(OpSet) /\ Len(a) \in Nat /\ Len(b) \in Nat /\ Len(c) = Len(a) + Len(b)
      /\ \A k \in 1..Len(a) : c[k] = a[k]
      /\ \A k \in 1..Len(b) : c[Len(a) + k] = b[k]
      /\ \A k \in 1..Len(c) : k \in 1..Len(a) \/ (k - Len(a) \in 1..Len(b) /\ c[k] = b[k - Len(a)])
  BY <1>1, JoinParts
<1> HIDE DEF c
<1>3. ASSUME NEW k \in 1..Len(c) PROVE Fine(c[k]) /\ Tidy(c[k]) BY <1>2 DEF Smooth
<1>4. ASSUME NEW k \in 1..(Len(c) - 1), c[k + 1].op # "measure" PROVE Straight(c[k])
  <2>0. k \in Nat OBVIOUS
  <2>1. CASE k + 1 <= Len(a)
    <3>1. k \in 1..(Len(a) - 1) /\ k \in 1..Len(a) /\ k + 1 \in 1..Len(a) BY <1>2, <2>0, <2>1
    <3> QED BY <1>2, <1>4, <3>1 DEF Smooth
  <2>2. CASE k = Len(a)
    <3>1. 1 \in 1..Len(b) /\ k \in 1..Len(a) /\ Len(a) # 0 BY <1>2, <2>2
    <3>2. c[k + 1] = b[1] /\ c[k] = a[Len(a)] BY <1>2, <2>2, <3>1
    <3>3. Opens(b) BY <1>4, <3>2 DEF Opens
    <3> QED BY <3>1, <3>2, <3>3 DEF Lands
  <2>3. CASE k > Len(a)
    <3> DEFINE m == k - Len(a)
    <3>1. m \in 1..(Len(b) - 1) /\ m \in 1..Len(b) /\ m + 1 \in 1..Len(b) /\ Len(a) + m = k /\ Len(a) + (m + 1) = k + 1
      BY <1>2, <2>0, <2>3
    <3> HIDE DEF m
    <3>2. c[k] = b[m] /\ c[k + 1] = b[m + 1] BY <1>2, <3>1
    <3> QED BY <1>4, <3>1, <3>2 DEF Smooth
  <2> QED BY <1>2, <2>0, <2>1, <2>2, <2>3
<1>5. Smooth(c) BY <1>2, <1>3, <1>4 DEF Smooth
<1>6. ASSUME Lands(b), Len(b) # 0 PROVE Lands(c)
  <2>1. Len(b) \in 1..Len(b) BY <1>2, <1>6
  <2>2. c[Len(c)] = b[Len(b)] BY <1>2, <2>1
  <2> QED BY <1>6, <2>2 DEF Lands
<1>7. ASSUME Lands(a), Lands(b), Len(b) = 0 PROVE Lands(c)
  <2>1. Len(c) = Len(a) BY <1>2, <1>7
  <2>2. Len(a) # 0 => Len(a) \in 1..Len(a) BY <1>2
  <2> QED BY <1>2, <1>7, <2>1, <2>2 DEF Lands
<1> QED BY <1>5, <1>6, <1>7 DEF c

\* The text of a join is the join of the texts.
LEMMA RestJoin ==
  ASSUME NEW a, NEW b, Smooth(a), Smooth(b), NEW f \in BOOLEAN
  PROVE  Rest(a \o b, f) = Rest(a, f) \o Rest(b, f)
<1> DEFINE T(s) == [k \in 1..Len(s) |-> OpText(s[k], f)]
           c == a \o b
           B == Seq(Plain)
           p == T(a)
           q == T(b)
           r == T(c)
<1>1. a \in Seq(OpSet) /\ b \in Seq(OpSet) BY DEF Smooth
<1>2. /\ Len(a) \in Nat /\ Len(b) \in Nat /\ Len(c) = Len(a) + Len(b)
      /\ \A k \in 1..Len(a) : c[k] = a[k]
      /\ \A k \in 1..Len(c) : k \in 1..Len(a) \/ (k - Len(a) \in 1..Len(b) /\ c[k] = b[k - Len(a)])
  BY <1>1, JoinParts
<1>3. p \in Seq(B) /\ Len(p) = Len(a) /\ q \in Seq(B) /\ Len(q) = Len(b) BY RestIs
<1>4. /\ \A k \in 1..Len(a) : p[k] = OpText(a[k], f)
      /\ \A k \in 1..Len(b) : q[k] = OpText(b[k], f)
      /\ \A k \in 1..Len(c) : r[k] = OpText(c[k], f)
  OBVIOUS
<1>5. /\ p \o q \in Seq(B) /\ Len(p \o q) = Len(p) + Len(q)
      /\ \A k \in 1..(Len(p) + Len(q)) : (p \o q)[k] = IF k <= Len(p) THEN p[k] ELSE q[k - Len(p)]
  <2> HIDE DEF p, q, B
  <2> QED BY <1>3, ConcatProperties
<1>8. DOMAIN r = 1..Len(c) OBVIOUS
<1> HIDE DEF p, q, r, c, B
<1>6. ASSUME NEW k \in 1..Len(c) PROVE r[k] = (p \o q)[k]
  <2>0. k \in 1..(Len(p) + Len(q)) BY <1>2, <1>3
  <2>1. CASE k \in 1..Len(a)
    <3>1. (p \o q)[k] = p[k] BY <1>2, <1>3, <1>5, <2>0, <2>1
    <3> QED BY <1>2, <1>4, <2>1, <3>1
  <2>2. CASE k \notin 1..Len(a)
    <3>1. k - Len(a) \in 1..Len(b) /\ c[k] = b[k - Len(a)] BY <1>2, <2>2
    <3>2. (p \o q)[k] = q[k - Len(a)] BY <1>2, <1>3, <1>5, <2>0, <2>2
    <3> QED BY <1>4, <3>1, <3>2
  <2> QED BY <2>1, <2>2
<1>7. r = p \o q
  <2>1. r = [k \in 1..Len(c) |-> r[k]] BY DEF r
  <2> DEFINE u == p \o q
  <2>2. u \in Seq(B) /\ Len(u) = Len(c) BY <1>2, <1>3, <1>5
  <2>3. \A k \in 1..Len(c) : r[k] = u[k] BY <1>6
  <2> HIDE DEF u
  <2>4. DOMAIN u = 1..Len(c) /\ u = [k \in DOMAIN u |-> u[k]] BY <2>2
  <2>5. [k \in 1..Len(c) |-> r[k]] = [k \in 1..Len(c) |-> u[k]] BY <2>3, Zenon
  <2> QED BY <2>1, <2>4, <2>5 DEF u
<1>9. Printer!Joined(p \o q) = Printer!Joined(p) \o Printer!Joined(q) BY <1>3, JoinedJoin DEF B
<1> QED BY <1>7, <1>9 DEF Rest, p, q, r, c

\* A join comes upon an invalid item exactly if one of its sides does.
LEMMA SaneJoin ==
  ASSUME NEW a \in Seq(OpSet), NEW b \in Seq(OpSet)
  PROVE  AllSane(a \o b) <=> AllSane(a) /\ AllSane(b)
<1> DEFINE c == a \o b
<1>2. /\ Len(a) \in Nat /\ Len(b) \in Nat /\ Len(c) = Len(a) + Len(b)
      /\ \A k \in 1..Len(a) : c[k] = a[k]
      /\ \A k \in 1..Len(b) : c[Len(a) + k] = b[k]
      /\ \A k \in 1..Len(c) : k \in 1..Len(a) \/ (k - Len(a) \in 1..Len(b) /\ c[k] = b[k - Len(a)])
  BY JoinParts
<1> HIDE DEF c
<1>3. ASSUME AllSane(a), AllSane(b) PROVE AllSane(c) BY <1>2, <1>3 DEF AllSane
<1>4. ASSUME AllSane(c) PROVE AllSane(a) /\ AllSane(b)
  <2>1. \A k \in 1..Len(a) : k \in 1..Len(c) BY <1>2
  <2>2. \A k \in 1..Len(b) : Len(a) + k \in 1..Len(c) BY <1>2
  <2> QED BY <1>2, <1>4, <2>1, <2>2 DEF AllSane
<1> QED BY <1>3, <1>4 DEF c

\* So what lists of operations print can be put together.
LEMMA PrintsJoin ==
  ASSUME NEW a, NEW b, NEW t, NEW u, NEW J, NEW K, NEW f \in BOOLEAN,
         Prints(a, f, t, J), Prints(b, f, u, K), Lands(a) \/ ~ Opens(b)
  PROVE  /\ Prints(a \o b, f, t \o u, J \cup K)
         /\ Lands(b) /\ Len(b) # 0 => Lands(a \o b)
         /\ Lands(a) /\ Lands(b) => Lands(a \o b)
         /\ t \in Seq(Plain) /\ u \in Seq(Plain) /\ t \o u \in Seq(Plain)
<1>1. /\ Smooth(a) /\ Rest(a, f) = t /\ (AllSane(a) <=> \A j \in J : Printer!Valid[j])
      /\ Smooth(b) /\ Rest(b, f) = u /\ (AllSane(b) <=> \A j \in K : Printer!Valid[j])
      /\ a \in Seq(OpSet) /\ b \in Seq(OpSet)
  BY DEF Prints, Smooth
<1>2. /\ Smooth(a \o b) /\ (Lands(b) /\ Len(b) # 0 => Lands(a \o b)) /\ (Lands(a) /\ Lands(b) => Lands(a \o b))
  BY <1>1, SmoothJoin
<1>3. Rest(a \o b, f) = t \o u BY <1>1, RestJoin
<1>4. t \in Seq(Plain) /\ u \in Seq(Plain) BY <1>1, RestIs
<1>5. AllSane(a \o b) <=> \A j \in J \cup K : Printer!Valid[j]
  <2>1. AllSane(a \o b) <=> AllSane(a) /\ AllSane(b) BY <1>1, SaneJoin
  <2> QED BY <1>1, <2>1
<1>6. t \o u \in Seq(Plain) BY <1>4, PlainJoin
<1> QED BY <1>2, <1>3, <1>4, <1>5, <1>6 DEF Prints

\* What single operations print.
LEMMA PrintsOne ==
  ASSUME NEW o \in OpSet, Fine(o), Tidy(o), NEW f \in BOOLEAN
  PROVE  /\ Smooth(<<o>>) /\ Rest(<<o>>, f) = OpText(o, f)
         /\ \A J : (Sane(o) <=> \A j \in J : Printer!Valid[j]) => Prints(<<o>>, f, OpText(o, f), J)
         /\ Straight(o) => Lands(<<o>>)
         /\ Opens(<<o>>) <=> o.op # "measure"
         /\ Len(<<o>>) = 1
<1> DEFINE s == <<o>>
<1>1. s \in Seq(OpSet) /\ Len(s) = 1 /\ s[1] = o OBVIOUS
<1>2. OpText(o, f) \in Seq(Plain) BY OpTextIs
<1>3. [k \in 1..Len(s) |-> OpText(s[k], f)] = <<OpText(o, f)>> OBVIOUS
<1> HIDE DEF s
<1>4. \A k \in 1..Len(s) : s[k] = o BY <1>1
<1>5. 1..(Len(s) - 1) = {} BY <1>1
<1>6. Smooth(s) BY <1>1, <1>4, <1>5 DEF Smooth
<1>7. Rest(s, f) = OpText(o, f)
  <2> DEFINE x == OpText(o, f)
  <2>1. x \in Seq(Plain) BY <1>2
  <2>2. \A y \in Seq(Plain) : Printer!Joined(<<y>>) = y BY JoinedIs
  <2> HIDE DEF x
  <2>3. Printer!Joined(<<x>>) = x BY <2>1, <2>2
  <2> QED BY <1>3, <2>3 DEF Rest, x
<1>8. AllSane(s) <=> Sane(o) BY <1>1, <1>4 DEF AllSane
<1>9. Straight(o) => Lands(s) BY <1>1 DEF Lands
<1>10. Opens(s) <=> o.op # "measure" BY <1>1 DEF Opens
<1>11. \A J : (Sane(o) <=> \A j \in J : Printer!Valid[j]) => Prints(s, f, OpText(o, f), J)
  BY <1>6, <1>7, <1>8 DEF Prints
<1> QED BY <1>1, <1>6, <1>7, <1>9, <1>10, <1>11 DEF s

\* Two cells are one and then the other.
LEMMA TwoCells == \A a, b : <<a, b>> = <<a>> \o <<b>>
<1> TAKE a, b
<1> DEFINE A == {a, b}
           x == <<a>>
           y == <<b>>
           z == <<a, b>>
<1>1. x \in Seq(A) /\ Len(x) = 1 /\ x[1] = a /\ y \in Seq(A) /\ Len(y) = 1 /\ y[1] = b OBVIOUS
<1>2. z \in Seq(A) /\ Len(z) = 2 /\ z[1] = a /\ z[2] = b OBVIOUS
<1> HIDE DEF A, x, y, z
<1>3. /\ x \o y \in Seq(A) /\ Len(x \o y) = Len(x) + Len(y)
      /\ \A k \in 1..(Len(x) + Len(y)) : (x \o y)[k] = IF k <= Len(x) THEN x[k] ELSE y[k - Len(x)]
  BY <1>1, ConcatProperties
<1>4. Len(x \o y) = 2 /\ (x \o y)[1] = a /\ (x \o y)[2] = b
  <2>1. Len(x \o y) = 2 /\ \A k \in 1..2 : (x \o y)[k] = IF k <= 1 THEN x[k] ELSE y[k - 1] BY <1>1, <1>3
  <2>2. 1 \in 1..2 /\ 2 \in 1..2 /\ 1 <= 1 /\ ~ (2 <= 1) /\ 2 - 1 = 1 OBVIOUS
  <2> QED BY <1>1, <2>1, <2>2
<1>5. \A k \in 1..2 : z[k] = (x \o y)[k]
  <2>1. \A k \in 1..2 : k = 1 \/ k = 2 OBVIOUS
  <2> QED BY <1>2, <1>4, <2>1
<1>6. z = x \o y BY <1>2, <1>3, <1>4, <1>5, SeqEqual
<1> QED BY <1>6 DEF x, y, z

\* No operations add no text.
LEMMA PrintsNone ==
  ASSUME NEW f \in BOOLEAN
  PROVE  Prints(<< >>, f, << >>, {}) /\ Lands(<< >>) /\ Opens(<< >>)
<1> DEFINE s == << >>
<1>1. s \in Seq(OpSet) /\ Len(s) = 0 OBVIOUS
<1>2. [k \in 1..Len(s) |-> OpText(s[k], f)] = << >> OBVIOUS
<1> HIDE DEF s
<1>3. 1..Len(s) = {} /\ 1..(Len(s) - 1) = {} BY <1>1
<1>4. Smooth(s) /\ AllSane(s) BY <1>1, <1>3 DEF Smooth, AllSane
<1>5. Printer!Joined(<< >>) = << >> BY JoinedIs
<1>6. Rest(s, f) = << >> BY <1>2, <1>5 DEF Rest
<1>7. Lands(s) /\ Opens(s) BY <1>1 DEF Lands, Opens
<1>8. Prints(s, f, << >>, {}) BY <1>4, <1>6 DEF Prints
<1> QED BY <1>7, <1>8 DEF s

\* A put adds the text it writes.
LEMMA PrintsPut ==
  ASSUME NEW f \in BOOLEAN, NEW t \in Seq(Plain), NEW c, c = t \/ c = t \o <<"nul">>, NEW n \in Nat, NEW d \in Nat,
         n <= Len(t) + 1, Len(c) <= n + 1, d <= Len(t)
  PROVE  /\ Prints(Printer!Put(n, c, d), f, t, {})
         /\ d = Len(t) => Lands(Printer!Put(n, c, d))
         /\ Opens(Printer!Put(n, c, d)) /\ Len(Printer!Put(n, c, d)) = 1
<1> DEFINE o == [op |-> "put", need |-> n, cells |-> c, adv |-> d]
<1>1. Body(c) = t BY BodyIs
<1>2. c \in Seq(Letters)
  <2>1. t \in Seq(Letters)
    <3>1. Plain \subseteq Letters BY DEF Plain
    <3> QED BY <3>1
  <2>2. <<"nul">> \in Seq(Letters) BY DEF Letters
  <2>3. t \o <<"nul">> \in Seq(Letters) BY <2>1, <2>2, ConcatProperties
  <2> QED BY <2>1, <2>3
<1>3. o \in OpSet /\ o.op = "put" /\ o.cells = c /\ o.adv = d /\ o.need = n BY <1>2 DEF OpSet
<1>4. Printer!Put(n, c, d) = <<o>> BY DEF Printer!Put
<1> HIDE DEF o
<1>5. Fine(o) BY <1>3 DEF Fine
<1>6. Tidy(o) BY <1>1, <1>3 DEF Tidy
<1>7. OpText(o, f) = t BY <1>1, <1>3 DEF OpText
<1>8. Sane(o) BY <1>3 DEF Sane
<1>9. d = Len(t) => Straight(o) BY <1>1, <1>3 DEF Straight
<1>10. Prints(<<o>>, f, t, {})
  <2>1. Sane(o) <=> \A j \in {} : Printer!Valid[j] BY <1>8
  <2> QED BY <1>3, <1>5, <1>6, <1>7, <2>1, PrintsOne
<1>11. (Straight(o) => Lands(<<o>>)) /\ Opens(<<o>>) /\ Len(<<o>>) = 1 BY <1>3, <1>5, <1>6, PrintsOne
<1> QED BY <1>4, <1>9, <1>10, <1>11

\* update_offset() adds no text.
LEMMA PrintsMeasure ==
  ASSUME NEW f \in BOOLEAN
  PROVE  /\ Prints(Printer!Measure, f, << >>, {}) /\ Lands(Printer!Measure)
         /\ ~ Opens(Printer!Measure) /\ Len(Printer!Measure) = 1
<1> DEFINE o == [op |-> "measure"]
<1>1. o \in OpSet /\ o.op = "measure" BY DEF OpSet
<1>2. Printer!Measure = <<o>> BY DEF Printer!Measure
<1> HIDE DEF o
<1>3. Fine(o) /\ Tidy(o) /\ Sane(o) /\ Straight(o) BY <1>1 DEF Fine, Tidy, Sane, Straight
<1>4. OpText(o, f) = << >> BY <1>1 DEF OpText
<1>5. Lands(<<o>>) /\ ~ Opens(<<o>>) /\ Len(<<o>>) = 1 BY <1>1, <1>3, PrintsOne
<1>6. Prints(<<o>>, f, << >>, {})
  <2>1. Sane(o) <=> \A j \in {} : Printer!Valid[j] BY <1>3
  <2> QED BY <1>1, <1>3, <1>4, <2>1, PrintsOne
<1> QED BY <1>2, <1>5, <1>6

\* An invalid item adds no text, and is found invalid.
LEMMA PrintsInvalid ==
  ASSUME NEW f \in BOOLEAN, NEW i, ~ Printer!Valid[i]
  PROVE  Prints(Printer!Invalid, f, << >>, {i})
<1> DEFINE o == [op |-> "invalid"]
<1>1. o \in OpSet /\ o.op = "invalid" BY DEF OpSet
<1>2. Printer!Invalid = <<o>> BY DEF Printer!Invalid
<1> HIDE DEF o
<1>3. Fine(o) /\ Tidy(o) /\ ~ Sane(o) BY <1>1 DEF Fine, Tidy, Sane
<1>4. OpText(o, f) = << >> BY <1>1 DEF OpText
<1>5. Sane(o) <=> \A j \in {i} : Printer!Valid[j] BY <1>3
<1>6. Prints(<<o>>, f, << >>, {i}) BY <1>1, <1>3, <1>4, <1>5, PrintsOne
<1> QED BY <1>2, <1>6

\* The items of container i from item k on.
KidsFrom(i, k) == {i.kids[n] : n \in k..Len(i.kids)}

\* The loop over a container's items adds their texts.
LEMMA PrintsLoop ==
  ASSUME NEW i \in PrintItems, i.kind \in {"array", "object"}, NEW d \in Nat, NEW k \in 1..Len(i.kids), NEW f \in BOOLEAN
  PROVE  /\ Prints(Printer!Loop(i, d, k), f, LoopText(i, f, d, k), KidsFrom(i, k))
         /\ Lands(Printer!Loop(i, d, k)) /\ Opens(Printer!Loop(i, d, k))
<1> DEFINE o == [op |-> "loop", item |-> i, depth |-> d, k |-> k]
<1>0. Len(i.kids) \in Nat /\ k \in Nat BY PrintItemsAssumption
<1>1. o \in OpSet /\ o.op = "loop" /\ o.item = i /\ o.depth = d /\ o.k = k BY <1>0 DEF OpSet
<1>2. Printer!Loop(i, d, k) = <<o>> BY DEF Printer!Loop
<1> HIDE DEF o
<1>3. Fine(o) /\ Tidy(o) /\ Straight(o) BY <1>1 DEF Fine, Tidy, Straight
<1>4. OpText(o, f) = LoopText(i, f, d, k) BY <1>1 DEF OpText
<1>5. Sane(o) <=> \A j \in KidsFrom(i, k) : Printer!Valid[j] BY <1>1 DEF Sane, KidsFrom
<1>6. Lands(<<o>>) /\ Opens(<<o>>) BY <1>1, <1>3, PrintsOne
<1>7. Prints(<<o>>, f, LoopText(i, f, d, k), KidsFrom(i, k)) BY <1>1, <1>3, <1>4, <1>5, PrintsOne
<1> QED BY <1>2, <1>6, <1>7

\* What the pieces of print_array(), print_object() and print_string() print.
LEMMA SeparatorsPrint ==
  ASSUME NEW f \in BOOLEAN, NEW more \in BOOLEAN, NEW d \in Nat
  PROVE  /\ Prints(Printer!When(more, Printer!ArraySeparator(f)), f,
                   Printer!When(more, <<",">> \o Printer!When(f, <<" ">>)), {})
         /\ Lands(Printer!When(more, Printer!ArraySeparator(f)))
         /\ Opens(Printer!When(more, Printer!ArraySeparator(f)))
         /\ Prints(Printer!ObjectOpens(f), f, <<"{">> \o Printer!When(f, <<"newline">>), {})
         /\ Lands(Printer!ObjectOpens(f))
         /\ Prints(Printer!Indent(f, d), f, Printer!When(f, Printer!Times("tab", d)), {})
         /\ Lands(Printer!Indent(f, d))
         /\ Prints(Printer!Colon(f), f, <<":">> \o Printer!When(f, <<"tab">>), {})
         /\ Lands(Printer!Colon(f)) /\ Opens(Printer!Colon(f))
         /\ Prints(Printer!ObjectSeparator(f, more), f,
                   Printer!When(more, <<",">>) \o Printer!When(f, <<"newline">>), {})
         /\ Lands(Printer!ObjectSeparator(f, more)) /\ Opens(Printer!ObjectSeparator(f, more))
         /\ Prints(Printer!ObjectCloses(f, d + 1), f, Printer!When(f, Printer!Times("tab", d)) \o <<"}">>, {})
         /\ Opens(Printer!ObjectCloses(f, d + 1))
<1>0. ASSUME NEW t \in Seq(Plain), NEW e \in Nat, e <= Len(t)
      PROVE  /\ Prints(Printer!Put(Len(t) + 1, t \o <<"nul">>, e), f, t, {})
             /\ Opens(Printer!Put(Len(t) + 1, t \o <<"nul">>, e))
             /\ e = Len(t) => Lands(Printer!Put(Len(t) + 1, t \o <<"nul">>, e))
  <2> DEFINE z == <<"nul">>
             A == Plain \cup {"nul"}
  <2>1. t \in Seq(A) /\ z \in Seq(A) /\ Len(z) = 1 OBVIOUS
  <2> HIDE DEF z, A
  <2>2. Len(t \o z) = Len(t) + Len(z) BY <2>1, ConcatProperties
  <2>3. Len(t) \in Nat /\ Len(t) + 1 \in Nat OBVIOUS
  <2> DEFINE c == t \o z
             n == Len(t) + 1
  <2>4. Len(c) <= n + 1 /\ n <= Len(t) + 1 /\ n \in Nat BY <2>1, <2>2, <2>3
  <2>5. c = t \/ c = t \o <<"nul">> BY DEF z
  <2> HIDE DEF c, n
  <2>6. /\ Prints(Printer!Put(n, c, e), f, t, {}) /\ Opens(Printer!Put(n, c, e))
        /\ e = Len(t) => Lands(Printer!Put(n, c, e))
    BY <1>0, <2>4, <2>5, PrintsPut
  <2> QED BY <2>6 DEF c, n, z
<1>8. ASSUME NEW t \in Seq(Plain), NEW n \in Nat, NEW e \in Nat, n <= Len(t) + 1, Len(t) <= n + 1, e = Len(t)
      PROVE  Prints(Printer!Put(n, t, e), f, t, {}) /\ Lands(Printer!Put(n, t, e)) /\ Opens(Printer!Put(n, t, e))
  <2>1. t = t \/ t = t \o <<"nul">> OBVIOUS
  <2>2. e <= Len(t) BY <1>8
  <2> QED BY <1>8, <2>1, <2>2, PrintsPut
<1>1. /\ Prints(Printer!ArraySeparator(f), f, <<",">> \o Printer!When(f, <<" ">>), {})
      /\ Lands(Printer!ArraySeparator(f)) /\ Opens(Printer!ArraySeparator(f))
  <2> DEFINE t == <<",">> \o Printer!When(f, <<" ">>)
  <2>1. t \in Seq(Plain) BY PlainTexts, PlainJoin
  <2>2. Printer!ArraySeparator(f) = Printer!Put(Len(t) + 1, t \o <<"nul">>, Len(t))
    BY DEF Printer!ArraySeparator, Printer!Nul
  <2> HIDE DEF t
  <2>3. Len(t) \in Nat /\ Len(t) <= Len(t) BY <2>1
  <2>4. /\ Prints(Printer!ArraySeparator(f), f, t, {})
        /\ Lands(Printer!ArraySeparator(f)) /\ Opens(Printer!ArraySeparator(f)) BY <1>0, <2>1, <2>2, <2>3
  <2> QED BY <2>4 DEF t
<1>2. /\ Prints(Printer!When(more, Printer!ArraySeparator(f)), f,
                Printer!When(more, <<",">> \o Printer!When(f, <<" ">>)), {})
      /\ Lands(Printer!When(more, Printer!ArraySeparator(f)))
      /\ Opens(Printer!When(more, Printer!ArraySeparator(f)))
  <2> DEFINE t == <<",">> \o Printer!When(f, <<" ">>)
             s == Printer!ArraySeparator(f)
  <2>0. Prints(s, f, t, {}) /\ Lands(s) /\ Opens(s) BY <1>1
  <2> HIDE DEF t, s
  <2>1. CASE more BY <2>0, <2>1 DEF Printer!When, s, t
  <2>2. CASE ~ more
    <3>1. Printer!When(more, s) = << >> /\ Printer!When(more, t) = << >> BY <2>2 DEF Printer!When
    <3> QED BY <3>1, PrintsNone DEF s, t
  <2> QED BY <2>1, <2>2
<1>3. Prints(Printer!ObjectOpens(f), f, <<"{">> \o Printer!When(f, <<"newline">>), {}) /\ Lands(Printer!ObjectOpens(f))
  <2> DEFINE t == <<"{">> \o Printer!When(f, <<"newline">>)
  <2>1. t \in Seq(Plain) BY PlainTexts, PlainJoin
  <2>2. Printer!ObjectOpens(f) = Printer!Put(Len(t) + 1, t, Len(t)) BY DEF Printer!ObjectOpens
  <2> HIDE DEF t
  <2>3. Len(t) \in Nat /\ Len(t) <= Len(t) /\ Len(t) + 1 \in Nat /\ Len(t) + 1 <= Len(t) + 1 /\ Len(t) <= (Len(t) + 1) + 1
    BY <2>1
  <2>4. Prints(Printer!ObjectOpens(f), f, t, {}) /\ Lands(Printer!ObjectOpens(f)) BY <1>8, <2>1, <2>2, <2>3
  <2> QED BY <2>4 DEF t
<1>4. Prints(Printer!Indent(f, d), f, Printer!When(f, Printer!Times("tab", d)), {}) /\ Lands(Printer!Indent(f, d))
  <2>1. CASE f
    <3> DEFINE t == Printer!Times("tab", d)
    <3>1. t \in Seq(Plain) /\ Len(t) = d BY PlainTexts
    <3>2. Printer!Indent(f, d) = Printer!Put(d, t, d) /\ Printer!When(f, t) = t
      BY <2>1 DEF Printer!Indent, Printer!When
    <3> HIDE DEF t
    <3>3. d <= Len(t) + 1 /\ Len(t) <= d + 1 /\ d <= Len(t) BY <3>1
    <3>4. Prints(Printer!Indent(f, d), f, t, {}) /\ Lands(Printer!Indent(f, d)) BY <1>8, <3>1, <3>2, <3>3
    <3> QED BY <3>2, <3>4 DEF t
  <2>2. CASE ~ f
    <3>1. Printer!Indent(f, d) = << >> /\ Printer!When(f, Printer!Times("tab", d)) = << >>
      BY <2>2 DEF Printer!Indent, Printer!When
    <3> QED BY <3>1, PrintsNone
  <2> QED BY <2>1, <2>2
<1>5. /\ Prints(Printer!Colon(f), f, <<":">> \o Printer!When(f, <<"tab">>), {})
      /\ Lands(Printer!Colon(f)) /\ Opens(Printer!Colon(f))
  <2> DEFINE t == <<":">> \o Printer!When(f, <<"tab">>)
  <2>1. t \in Seq(Plain) BY PlainTexts, PlainJoin
  <2>2. Printer!Colon(f) = Printer!Put(Len(t), t, Len(t)) BY DEF Printer!Colon
  <2> HIDE DEF t
  <2>3. Len(t) \in Nat /\ Len(t) <= Len(t) /\ Len(t) <= Len(t) + 1 BY <2>1
  <2>4. Prints(Printer!Colon(f), f, t, {}) /\ Lands(Printer!Colon(f)) /\ Opens(Printer!Colon(f))
    BY <1>8, <2>1, <2>2, <2>3
  <2> QED BY <2>4 DEF t
<1>6. /\ Prints(Printer!ObjectSeparator(f, more), f,
                Printer!When(more, <<",">>) \o Printer!When(f, <<"newline">>), {})
      /\ Lands(Printer!ObjectSeparator(f, more)) /\ Opens(Printer!ObjectSeparator(f, more))
  <2> DEFINE t == Printer!When(more, <<",">>) \o Printer!When(f, <<"newline">>)
  <2>1. t \in Seq(Plain) BY PlainTexts, PlainJoin
  <2>2. Printer!ObjectSeparator(f, more) = Printer!Put(Len(t) + 1, t \o <<"nul">>, Len(t))
    BY DEF Printer!ObjectSeparator, Printer!Nul
  <2> HIDE DEF t
  <2>3. Len(t) \in Nat /\ Len(t) <= Len(t) BY <2>1
  <2>4. /\ Prints(Printer!ObjectSeparator(f, more), f, t, {})
        /\ Lands(Printer!ObjectSeparator(f, more)) /\ Opens(Printer!ObjectSeparator(f, more))
    BY <1>0, <2>1, <2>2, <2>3
  <2> QED BY <2>4 DEF t
<1>7. /\ Prints(Printer!ObjectCloses(f, d + 1), f, Printer!When(f, Printer!Times("tab", d)) \o <<"}">>, {})
      /\ Opens(Printer!ObjectCloses(f, d + 1))
  <2> DEFINE h == Printer!When(f, Printer!Times("tab", d))
             t == h \o <<"}">>
  <2>1. h \in Seq(Plain) /\ t \in Seq(Plain) BY PlainTexts, PlainJoin
  <2>2. Len(h) = IF f THEN d ELSE 0 BY PlainTexts DEF Printer!When
  <2>3. (d + 1) - 1 = d OBVIOUS
  <2>4. Printer!ObjectCloses(f, d + 1) = Printer!Put(IF f THEN (d + 1) + 1 ELSE 2, h \o <<"}", "nul">>, 0)
    BY <2>3 DEF Printer!ObjectCloses, Printer!Nul
  <2> HIDE DEF h
  <2>5. h \o <<"}", "nul">> = (h \o <<"}">>) \o <<"nul">>
    <3> DEFINE A == Plain \cup {"nul", "}"}
               y == <<"}">>
               z == <<"nul">>
    <3>4. Plain \subseteq A OBVIOUS
    <3>5. y \in Seq(A) /\ z \in Seq(A) OBVIOUS
    <3>2. <<"}", "nul">> = y \o z BY TwoCells
    <3>6. h \in Seq(A)
      <4> HIDE DEF A, t
      <4>1. h \in Seq(Plain) BY <2>1
      <4> QED BY <3>4, <4>1
    <3> HIDE DEF A
    <3>1. h \in Seq(A) /\ y \in Seq(A) /\ z \in Seq(A) BY <3>5, <3>6
    <3> HIDE DEF y, z
    <3>3. (h \o y) \o z = h \o (y \o z) BY <3>1, ConcatAssociative
    <3> QED BY <3>2, <3>3 DEF y, z
  <2>6. Len(t) = Len(h) + 1 /\ Len(t) + 1 = IF f THEN (d + 1) + 1 ELSE 2
    <3> DEFINE y == <<"}">>
    <3>1. y \in Seq(Plain) /\ Len(y) = 1 BY PlainTexts
    <3>3. t = h \o y OBVIOUS
    <3> HIDE DEF y, t
    <3>2. Len(t) = Len(h) + Len(y) BY <2>1, <3>1, <3>3, ConcatProperties
    <3>4. Len(t) = Len(h) + 1 BY <3>1, <3>2
    <3> QED BY <2>2, <3>4
  <2> HIDE DEF t
  <2>7. Printer!ObjectCloses(f, d + 1) = Printer!Put(Len(t) + 1, t \o <<"nul">>, 0) BY <2>4, <2>5, <2>6 DEF t
  <2>8. 0 \in Nat /\ 0 <= Len(t) BY <2>1
  <2>9. Prints(Printer!ObjectCloses(f, d + 1), f, t, {}) /\ Opens(Printer!ObjectCloses(f, d + 1))
    BY <1>0, <2>1, <2>7, <2>8
  <2> QED BY <2>9 DEF t, h
<1> QED BY <1>2, <1>3, <1>4, <1>5, <1>6, <1>7

\* print_value() prints a word, and print_number() a number, as it stands.
LEMMA WordsPrint ==
  ASSUME NEW f \in BOOLEAN, NEW t \in Seq(Plain)
  PROVE  /\ Prints(Printer!PutWord(t), f, t, {}) /\ Opens(Printer!PutWord(t)) /\ Len(Printer!PutWord(t)) = 1
         /\ Prints(Printer!PutNumber(t), f, t, {})
<1> DEFINE z == <<"nul">>
           A == Plain \cup {"nul"}
           c == t \o z
           n == Len(t) + 1
           l == Len(t)
<1>1. t \in Seq(A) /\ z \in Seq(A) /\ Len(z) = 1 OBVIOUS
<1>2. Printer!PutWord(t) = Printer!Put(n, c, 0) /\ Printer!PutNumber(t) = Printer!Put(n, c, l)
  BY DEF Printer!PutWord, Printer!PutNumber, Printer!Nul
<1>3. c = t \/ c = t \o <<"nul">> OBVIOUS
<1> HIDE DEF z, A
<1>4. Len(c) = Len(t) + Len(z) BY <1>1, ConcatProperties
<1>5. l \in Nat /\ n \in Nat /\ n = Len(t) + 1 /\ l = Len(t) OBVIOUS
<1>6. Len(c) <= n + 1 /\ n <= Len(t) + 1 /\ 0 <= Len(t) /\ l <= Len(t) BY <1>1, <1>4, <1>5
<1> HIDE DEF c, n, l
<1>7. 0 \in Nat OBVIOUS
<1>8. Prints(Printer!Put(n, c, 0), f, t, {}) /\ Opens(Printer!Put(n, c, 0)) /\ Len(Printer!Put(n, c, 0)) = 1
  BY <1>3, <1>5, <1>6, <1>7, PrintsPut
<1>9. Prints(Printer!Put(n, c, l), f, t, {}) BY <1>3, <1>5, <1>6, PrintsPut
<1> QED BY <1>2, <1>8, <1>9

\* A loop that has items to go prints what is left of it; so does none that has not.
LEMMA PrintsMaybeLoop ==
  ASSUME NEW i \in PrintItems, i.kind \in {"array", "object"}, NEW d \in Nat, NEW k \in 1..(Len(i.kids) + 1),
         NEW f \in BOOLEAN, NEW b \in BOOLEAN, b <=> k <= Len(i.kids)
  PROVE  /\ Prints(Printer!When(b, Printer!Loop(i, d, k)), f, LoopText(i, f, d, k), KidsFrom(i, k))
         /\ Lands(Printer!When(b, Printer!Loop(i, d, k))) /\ Opens(Printer!When(b, Printer!Loop(i, d, k)))
<1>0. Len(i.kids) \in Nat BY PrintItemsAssumption
<1>1. CASE b
  <2>1. k \in 1..Len(i.kids) BY <1>0, <1>1
  <2>2. Printer!When(b, Printer!Loop(i, d, k)) = Printer!Loop(i, d, k) BY <1>1 DEF Printer!When
  <2> QED BY <2>1, <2>2, PrintsLoop
<1>2. CASE ~ b
  <2>1. Printer!When(b, Printer!Loop(i, d, k)) = << >> BY <1>2 DEF Printer!When
  <2>2. k = Len(i.kids) + 1 BY <1>0, <1>2
  <2>3. Printer!Kids(i) = i.kids BY DEF Printer!Kids
  <2>4. LoopText(i, f, d, k) = << >> BY <2>2, <2>3, LoopTextIs
  <2>5. KidsFrom(i, k) = {} BY <1>0, <2>2 DEF KidsFrom
  <2>6. Prints(<< >>, f, << >>, {}) /\ Lands(<< >>) /\ Opens(<< >>) BY PrintsNone
  <2> QED BY <2>1, <2>4, <2>5, <2>6
<1> QED BY <1>1, <1>2

\* A container is valid if its items are.
LEMMA ContainerValid ==
  ASSUME NEW i \in PrintItems, i.kind \in {"array", "object"}
  PROVE  Printer!Valid[i] <=> \A j \in KidsFrom(i, 1) : Printer!Valid[j]
<1>1. Printer!Kids(i) = i.kids BY DEF Printer!Kids
<1> QED BY <1>1, ValidIs DEF KidsFrom

\* print_value() prints the text of an item, if it is valid.
LEMMA ValuePrints ==
  ASSUME NEW i \in PrintItems, NEW f \in BOOLEAN, NEW d \in Nat
  PROVE  Prints(Printer!PrintValue(i, f, d), f, Printer!Text(f)[i][d], {i})
<1>0. i.kind \in {"null", "number", "string", "empty", "array", "object", "invalid"}
      /\ (i.kind \in {"array", "object"} => i.kids \in Seq(PrintItems) /\ Len(i.kids) \in Nat)
  BY PrintItemsAssumption
<1>1. Printer!Text(f)[i][d] = Printer!ItemText(i, f, d, KidTexts(Printer!Text(f), i, d)) BY TextIs
<1> DEFINE L == LoopText(i, f, d, 1)
           w == Printer!When(i.kids # << >>, Printer!Loop(i, d, 1))
           b == <<"{">> \o Printer!When(f, <<"newline">>)
           e == Printer!When(f, Printer!Times("tab", d)) \o <<"}">>
<1>2. L = Printer!Joined(PartsOf(i, f, d, KidTexts(Printer!Text(f), i, d))) BY LoopTextIs
<1>3. Printer!Text(f)[i][d] =
        CASE i.kind = "array"   -> <<"[">> \o L \o <<"]">>
          [] i.kind = "object"  -> b \o L \o e
          [] i.kind = "invalid" -> << >>
          [] OTHER              -> Printer!Word(i)
  <2> HIDE DEF L
  <2> QED BY <1>1, <1>2 DEF Printer!ItemText, PartsOf
<1>4. ASSUME i.kind \in {"array", "object"}
      PROVE  Prints(w, f, L, KidsFrom(i, 1)) /\ Lands(w) /\ Opens(w)
  <2> DEFINE c == i.kids # << >>
  <2>1. c \in BOOLEAN /\ (c <=> 1 <= Len(i.kids)) BY <1>0, <1>4
  <2>2. 1 \in 1..(Len(i.kids) + 1) BY <1>0, <1>4
  <2> HIDE DEF c
  <2>3. /\ Prints(Printer!When(c, Printer!Loop(i, d, 1)), f, LoopText(i, f, d, 1), KidsFrom(i, 1))
        /\ Lands(Printer!When(c, Printer!Loop(i, d, 1))) /\ Opens(Printer!When(c, Printer!Loop(i, d, 1)))
    BY <1>4, <2>1, <2>2, PrintsMaybeLoop
  <2> QED BY <2>3 DEF c
<1>6. ASSUME NEW s, NEW c, NEW t, NEW u, i.kind \in {"array", "object"},
             Prints(s, f, t, {}), Lands(s), Prints(c, f, u, {}), Opens(c)
      PROVE  Prints((s \o w) \o c, f, t \o L \o u, {i})
  <2>1. Prints(w, f, L, KidsFrom(i, 1)) /\ Lands(w) /\ Opens(w) BY <1>4, <1>6
  <2> DEFINE K == KidsFrom(i, 1)
  <2>5. Printer!Valid[i] <=> \A j \in K : Printer!Valid[j] BY <1>6, ContainerValid
  <2>6. Prints(w, f, L, K) BY <2>1
  <2> HIDE DEF w, L, K
  <2>2. Prints(s \o w, f, t \o L, {} \cup K) /\ Lands(s \o w) BY <1>6, <2>1, <2>6, PrintsJoin
  <2>3. Prints((s \o w) \o c, f, (t \o L) \o u, ({} \cup K) \cup {}) BY <1>6, <2>2, PrintsJoin
  <2> QED BY <2>3, <2>5 DEF Prints
<1>7. CASE i.kind = "array"
  <2> DEFINE s == Printer!Put(1, <<"[">>, 1)
             c == Printer!Put(2, <<"]", "nul">>, 0)
             t == <<"[">>
             u == <<"]">>
  <2>1. Printer!PrintValue(i, f, d) = (s \o w) \o c
    BY <1>7 DEF Printer!PrintValue, Printer!PrintArray, Printer!Nul
  <2>2. Printer!Text(f)[i][d] = t \o L \o u BY <1>3, <1>7
  <2>3. t \in Seq(Plain) /\ Len(t) = 1 /\ u \in Seq(Plain) /\ Len(u) = 1 BY PlainTexts
  <2>4. Prints(s, f, t, {}) /\ Lands(s)
    <3>1. s = Printer!Put(1, t, 1) OBVIOUS
    <3> HIDE DEF t, s
    <3>2. t = t \/ t = t \o <<"nul">> OBVIOUS
    <3>3. 1 \in Nat /\ 1 <= Len(t) + 1 /\ Len(t) <= 1 + 1 /\ 1 <= Len(t) /\ 1 = Len(t) BY <2>3
    <3> QED BY <2>3, <3>1, <3>2, <3>3, PrintsPut
  <2>5. Prints(c, f, u, {}) /\ Opens(c)
    <3> DEFINE z == <<"]", "nul">>
    <3>1. z = u \o <<"nul">> BY TwoCells
    <3>2. c = Printer!Put(2, z, 0) /\ Len(z) = 2 OBVIOUS
    <3> HIDE DEF u, z, c
    <3>3. z = u \/ z = u \o <<"nul">> BY <3>1
    <3>4. 2 \in Nat /\ 0 \in Nat /\ 2 <= Len(u) + 1 /\ Len(z) <= 2 + 1 /\ 0 <= Len(u) BY <2>3, <3>2
    <3> QED BY <2>3, <3>2, <3>3, <3>4, PrintsPut
  <2> HIDE DEF s, c, t, u, w, L
  <2>6. Prints((s \o w) \o c, f, t \o L \o u, {i}) BY <1>6, <1>7, <2>4, <2>5
  <2> QED BY <2>1, <2>2, <2>6
<1>8. CASE i.kind = "object"
  <2> DEFINE s == Printer!ObjectOpens(f)
             c == Printer!ObjectCloses(f, d + 1)
  <2>1. Printer!PrintValue(i, f, d) = (s \o w) \o c
    BY <1>8 DEF Printer!PrintValue, Printer!PrintObject
  <2>2. Printer!Text(f)[i][d] = b \o L \o e BY <1>3, <1>8
  <2>3. Prints(s, f, b, {}) /\ Lands(s) /\ Prints(c, f, e, {}) /\ Opens(c)
    <3>1. TRUE \in BOOLEAN OBVIOUS
    <3> HIDE DEF s, c, b, e
    <3> QED BY <3>1, SeparatorsPrint DEF s, c, b, e
  <2> HIDE DEF s, c, b, e, w, L
  <2>6. Prints((s \o w) \o c, f, b \o L \o e, {i}) BY <1>6, <1>8, <2>3
  <2> QED BY <2>1, <2>2, <2>6
<1>9. CASE i.kind = "invalid"
  <2>1. Printer!PrintValue(i, f, d) = Printer!Invalid BY <1>9 DEF Printer!PrintValue
  <2>2. Printer!Text(f)[i][d] = << >> BY <1>3, <1>9
  <2>3. ~ Printer!Valid[i] BY <1>9, ValidIs
  <2>4. Prints(Printer!Invalid, f, << >>, {i}) BY <2>3, PrintsInvalid
  <2> QED BY <2>1, <2>2, <2>4
<1>10. CASE i.kind \in {"null", "number", "string", "empty"}
  <2>1. Printer!Word(i) \in Seq(Plain) BY <1>10, WordIs
  <2>2. Printer!Text(f)[i][d] = Printer!Word(i) BY <1>3, <1>10
  <2>3. Printer!Valid[i]
    <3>1. Printer!Kids(i) = << >> BY <1>10 DEF Printer!Kids
    <3>2. Len(<< >>) = 0 OBVIOUS
    <3> QED BY <1>10, <3>1, <3>2, ValidIs
  <2>4. \/ Printer!PrintValue(i, f, d) = Printer!PutNumber(Printer!Word(i))
        \/ Printer!PrintValue(i, f, d) = Printer!PutWord(Printer!Word(i))
    BY <1>10 DEF Printer!PrintValue
  <2>5. Prints(Printer!PrintValue(i, f, d), f, Printer!Word(i), {}) BY <2>1, <2>4, WordsPrint
  <2> QED BY <2>2, <2>3, <2>5 DEF Prints
<1> QED BY <1>0, <1>7, <1>8, <1>9, <1>10

\* A turn of the loop over a container prints its item, and what is left then.
LEMMA TurnPrints ==
  ASSUME NEW i \in PrintItems, i.kind \in {"array", "object"}, NEW f \in BOOLEAN, NEW d \in Nat,
         NEW k \in 1..Len(i.kids)
  PROVE  /\ Prints(Printer!Turn(i, f, d, k), f, LoopText(i, f, d, k), KidsFrom(i, k))
         /\ Lands(Printer!Turn(i, f, d, k))
<1>0. i.kids \in Seq(PrintItems) /\ Len(i.kids) \in Nat /\ k \in Nat /\ i.kids[k] \in PrintItems
      /\ Printer!Kids(i) = i.kids /\ d + 1 \in Nat
  BY PrintItemsAssumption DEF Printer!Kids
<1> DEFINE j == i.kids[k]
           more == k < Len(i.kids)
           x == Printer!Text(f)[j][d + 1]
           v == Printer!PrintValue(j, f, d + 1)
           m == Printer!Measure
           l == Printer!When(more, Printer!Loop(i, d, k + 1))
           y == LoopText(i, f, d, k + 1)
           V == {j}
           W == KidsFrom(i, k + 1)
<1>1. Prints(v, f, x, V) BY <1>0, ValuePrints
<1>2. Opens(v)
  <2>1. Piece(v) BY <1>0, ValuePiece
  <2> QED BY <2>1 DEF Piece
<1>3. Prints(l, f, y, W) /\ Lands(l) /\ Opens(l)
  <2>1. k + 1 \in 1..(Len(i.kids) + 1) BY <1>0
  <2>2. more \in BOOLEAN /\ (more <=> k + 1 <= Len(i.kids)) BY <1>0
  <2> HIDE DEF more
  <2> QED BY <2>1, <2>2, PrintsMaybeLoop
<1>4. LoopText(i, f, d, k) = Printer!PartText(i, f, d, k, x) \o y
  <2>1. k \in 1..Len(Printer!Kids(i)) BY <1>0
  <2>2. LoopText(i, f, d, k) =
          Printer!PartText(i, f, d, k, Printer!Text(f)[Printer!Kids(i)[k]][d + 1]) \o LoopText(i, f, d, k + 1)
    BY <2>1, LoopTextIs
  <2>3. Printer!Text(f)[Printer!Kids(i)[k]][d + 1] = x BY <1>0
  <2> HIDE DEF x
  <2> QED BY <2>2, <2>3
<1>5. KidsFrom(i, k) = V \cup W
  <2>1. \A n \in k..Len(i.kids) : n = k \/ n \in (k + 1)..Len(i.kids) BY <1>0
  <2>2. k \in k..Len(i.kids) /\ \A n \in (k + 1)..Len(i.kids) : n \in k..Len(i.kids) BY <1>0
  <2> QED BY <2>1, <2>2 DEF KidsFrom
<1>6. TRUE \in BOOLEAN /\ more \in BOOLEAN OBVIOUS
<1>7. Prints(m, f, << >>, {}) /\ Lands(m) /\ ~ Opens(m) /\ Len(m) = 1 BY PrintsMeasure
<1>8. x \in Seq(Plain) BY <1>0, TextIs
<1>9. ASSUME NEW s, NEW t \in Seq(Plain), NEW q, Prints(s, f, t, q) PROVE Prints(s \o m, f, t, q) /\ Lands(s \o m)
  <2> HIDE DEF m
  <2>3. Len(m) # 0 BY <1>7
  <2>1. Prints(s \o m, f, t \o << >>, q \cup {}) /\ Lands(s \o m) BY <1>7, <1>9, <2>3, PrintsJoin
  <2>2. t \o << >> = t BY ConcatEmptySeq
  <2> QED BY <2>1, <2>2 DEF Prints
<1>10. CASE i.kind = "array"
  <2> DEFINE s == Printer!When(more, Printer!ArraySeparator(f))
             c == Printer!When(more, <<",">> \o Printer!When(f, <<" ">>))
  <2>1. Printer!Turn(i, f, d, k) = ((v \o m) \o s) \o l
    BY <1>10 DEF Printer!Turn, Printer!ArrayTurn
  <2>2. Printer!PartText(i, f, d, k, x) = x \o c BY <1>10 DEF Printer!PartText
  <2>3. Prints(s, f, c, {}) /\ Lands(s) /\ Opens(s) BY <1>6, SeparatorsPrint
  <2> HIDE DEF more, x, v, m, l, y, V, W, s, c, j
  <2>4. Prints(v \o m, f, x, V) /\ Lands(v \o m) BY <1>1, <1>6, <1>8, <1>9
  <2>5. Prints((v \o m) \o s, f, x \o c, V \cup {}) /\ Lands((v \o m) \o s) BY <1>6, <2>3, <2>4, PrintsJoin
  <2>6. Prints((v \o m) \o s, f, x \o c, V) BY <2>5 DEF Prints
  <2>7. Prints(((v \o m) \o s) \o l, f, (x \o c) \o y, V \cup W) /\ Lands(((v \o m) \o s) \o l)
    BY <1>3, <1>6, <2>5, <2>6, PrintsJoin
  <2>8. Prints(((v \o m) \o s) \o l, f, LoopText(i, f, d, k), KidsFrom(i, k)) BY <1>4, <1>5, <2>2, <2>7 DEF Prints
  <2> QED BY <2>1, <2>7, <2>8
<1>11. CASE i.kind = "object"
  <2> DEFINE g == Printer!Indent(f, d + 1)
             h == Printer!When(f, Printer!Times("tab", d + 1))
             w == Printer!PutWord(Printer!Key)
             K == Printer!Key
             c == Printer!Colon(f)
             e == <<":">> \o Printer!When(f, <<"tab">>)
             s == Printer!ObjectSeparator(f, more)
             r == Printer!When(more, <<",">>) \o Printer!When(f, <<"newline">>)
  <2>1. Printer!Turn(i, f, d, k) = ((((((g \o w) \o m) \o c) \o v) \o m) \o s) \o l
    BY <1>11 DEF Printer!Turn, Printer!ObjectTurn
  <2>2. Printer!PartText(i, f, d, k, x) = (((h \o K) \o e) \o x) \o r BY <1>11 DEF Printer!PartText
  <2>3. Prints(s, f, r, {}) /\ Lands(s) /\ Opens(s) BY <1>6, SeparatorsPrint
  <2>4. Prints(c, f, e, {}) /\ Lands(c) /\ Opens(c) BY <1>6, SeparatorsPrint
  <2>5. Prints(g, f, h, {}) /\ Lands(g) BY <1>0, <1>6, SeparatorsPrint
  <2>6. Prints(w, f, K, {}) /\ Opens(w) BY PlainTexts, WordsPrint
  <2> HIDE DEF more, x, v, m, l, y, V, W, s, c, j, g, h, w, K, e, r
  <2>7. Prints(g \o w, f, h \o K, {} \cup {}) /\ h \o K \in Seq(Plain) BY <1>6, <2>5, <2>6, PrintsJoin
  <2>8. Prints(g \o w, f, h \o K, {}) BY <2>7 DEF Prints
  <2>9. Prints((g \o w) \o m, f, h \o K, {}) /\ Lands((g \o w) \o m) BY <1>6, <1>9, <2>7, <2>8
  <2> DEFINE a1 == (g \o w) \o m
             t1 == h \o K
  <2>10. Prints(a1, f, t1, {}) /\ Lands(a1) BY <2>9
  <2> HIDE DEF a1, t1
  <2>11. Prints(a1 \o c, f, t1 \o e, {} \cup {}) /\ Lands(a1 \o c) BY <1>6, <2>4, <2>10, PrintsJoin
  <2>12. Prints(a1 \o c, f, t1 \o e, {}) BY <2>11 DEF Prints
  <2> DEFINE a3 == a1 \o c
             t3 == t1 \o e
  <2>22. Prints(a3, f, t3, {}) /\ Lands(a3) BY <2>11, <2>12
  <2> HIDE DEF a3, t3
  <2>13. Prints(a3 \o v, f, t3 \o x, {} \cup V) /\ t3 \o x \in Seq(Plain) BY <1>1, <1>2, <2>22, PrintsJoin
  <2> DEFINE a2 == a3 \o v
             t2 == t3 \o x
  <2>15. Prints(a2, f, t2, V) /\ t2 \in Seq(Plain) BY <2>13 DEF Prints
  <2> HIDE DEF a2, t2
  <2> DEFINE a4 == a2 \o m
  <2>16. Prints(a4, f, t2, V) /\ Lands(a4) BY <1>9, <2>15
  <2> HIDE DEF a4
  <2>17. Prints(a4 \o s, f, t2 \o r, V \cup {}) /\ Lands(a4 \o s) BY <2>3, <2>16, PrintsJoin
  <2> DEFINE a5 == a4 \o s
             t5 == t2 \o r
  <2>18. Prints(a5, f, t5, V) /\ Lands(a5) BY <2>17 DEF Prints
  <2> HIDE DEF a5, t5
  <2>23. Prints(l, f, y, W) /\ Lands(l) BY <1>3
  <2>24. Prints(a5 \o l, f, t5 \o y, V \cup W) BY <2>18, <2>23, PrintsJoin
  <2>25. Lands(a5 \o l)
    <3>1. Smooth(a5) /\ Smooth(l) BY <2>18, <2>23 DEF Prints
    <3> QED BY <2>18, <2>23, <3>1, SmoothJoin
  <2>19. Prints(a5 \o l, f, t5 \o y, V \cup W) /\ Lands(a5 \o l) BY <2>24, <2>25
  <2>20. t5 \o y = LoopText(i, f, d, k) BY <1>4, <2>2 DEF t5, t3, t2, t1
  <2>21. a5 \o l = Printer!Turn(i, f, d, k) BY <2>1 DEF a5, a4, a3, a2, a1
  <2> QED BY <1>5, <2>19, <2>20, <2>21 DEF Prints
<1> QED BY <1>10, <1>11

-----------------------------------------------------------------------------
(* What is printed so far, and one lemma for each step.                    *)

\* The first of a list of operations, and the others.
LEMMA SplitOps ==
  ASSUME NEW s, Smooth(s), s # << >>, NEW f \in BOOLEAN
  PROVE  /\ Head(s) \in OpSet /\ Fine(Head(s)) /\ Tidy(Head(s)) /\ Smooth(Tail(s))
         /\ OpText(Head(s), f) \in Seq(Plain) /\ Rest(Tail(s), f) \in Seq(Plain)
         /\ Rest(s, f) = OpText(Head(s), f) \o Rest(Tail(s), f)
         /\ AllSane(s) <=> Sane(Head(s)) /\ AllSane(Tail(s))
         /\ Tail(s) # << >> /\ Opens(Tail(s)) => Straight(Head(s))
         /\ IF Tail(s) = << >> THEN s[Len(s)] = Head(s) ELSE s[Len(s)] = Tail(s)[Len(Tail(s))]
<1> DEFINE o == Head(s)
           t == Tail(s)
           h == <<o>>
<1>1. s \in Seq(OpSet) /\ Len(s) \in Nat /\ Len(s) >= 1 BY DEF Smooth
<1>2. o = s[1] /\ o \in OpSet /\ 1 \in 1..Len(s) BY <1>1
<1>3. t \in Seq(OpSet) /\ Len(t) = Len(s) - 1 /\ \A k \in 1..(Len(s) - 1) : t[k] = s[k + 1] BY <1>1
<1>4. h \in Seq(OpSet) /\ Len(h) = 1 /\ h[1] = o BY <1>2
<1>5. Fine(o) /\ Tidy(o) BY <1>2 DEF Smooth
<1> HIDE DEF o, t, h
<1>6. s = h \o t
  <2>1. /\ h \o t \in Seq(OpSet) /\ Len(h \o t) = Len(h) + Len(t)
        /\ \A k \in 1..(Len(h) + Len(t)) : (h \o t)[k] = IF k <= Len(h) THEN h[k] ELSE t[k - Len(h)]
    <3>1. h \in Seq(OpSet) /\ t \in Seq(OpSet) BY <1>3, <1>4
    <3> QED BY <3>1, ConcatProperties
  <2>2. Len(h \o t) = Len(s) BY <1>1, <1>3, <1>4, <2>1
  <2>3. ASSUME NEW k \in 1..Len(s) PROVE s[k] = (h \o t)[k]
    <3>0. k \in 1..(Len(h) + Len(t)) BY <2>1, <2>2
    <3>1. CASE k = 1
      <4>1. k <= Len(h) BY <1>4, <3>1
      <4> QED BY <1>2, <1>4, <2>1, <3>0, <3>1, <4>1
    <3>2. CASE k # 1
      <4>1. k - 1 \in 1..(Len(s) - 1) /\ (k - 1) + 1 = k /\ ~ (k <= 1) BY <1>1, <3>2
      <4>2. t[k - 1] = s[k] BY <1>3, <4>1
      <4> QED BY <1>4, <2>1, <3>0, <4>1, <4>2
    <3> QED BY <3>1, <3>2
  <2> QED BY <1>1, <2>1, <2>2, <2>3, SeqEqual
<1>7. Smooth(t)
  <2>1. ASSUME NEW k \in 1..Len(t) PROVE Fine(t[k]) /\ Tidy(t[k])
    <3>1. k \in 1..(Len(s) - 1) /\ k + 1 \in 1..Len(s) BY <1>1, <1>3
    <3> QED BY <1>3, <3>1 DEF Smooth
  <2>2. ASSUME NEW k \in 1..(Len(t) - 1), t[k + 1].op # "measure" PROVE Straight(t[k])
    <3>1. k \in 1..(Len(s) - 1) /\ k + 1 \in 1..(Len(s) - 1) BY <1>1, <1>3
    <3>2. t[k] = s[k + 1] /\ t[k + 1] = s[(k + 1) + 1] BY <1>3, <3>1
    <3> QED BY <2>2, <3>1, <3>2 DEF Smooth
  <2> QED BY <1>3, <2>1, <2>2 DEF Smooth
<1>8. t # << >> /\ Opens(t) => Straight(o)
  <2> SUFFICES ASSUME t # << >>, Opens(t) PROVE Straight(o) OBVIOUS
  <2>1. Len(t) # 0 BY <1>3
  <2>2. 1 \in 1..(Len(s) - 1) /\ t[1].op # "measure" BY <1>1, <1>3, <2>1 DEF Opens
  <2>3. s[1 + 1].op # "measure" BY <1>3, <2>2
  <2> QED BY <1>2, <2>2, <2>3 DEF Smooth
<1>9. IF t = << >> THEN s[Len(s)] = o ELSE s[Len(s)] = t[Len(t)]
  <2>1. CASE t = << >>
    <3>1. Len(s) = 1 BY <1>1, <1>3, <2>1
    <3> QED BY <1>2, <2>1, <3>1
  <2>2. CASE t # << >>
    <3>1. Len(t) # 0 BY <1>3, <2>2
    <3>2. Len(t) \in 1..(Len(s) - 1) /\ Len(t) + 1 = Len(s) BY <1>1, <1>3, <3>1
    <3> QED BY <1>3, <2>2, <3>2
  <2> QED BY <2>1, <2>2
<1>10. Smooth(h) /\ Rest(h, f) = OpText(o, f) /\ (AllSane(h) <=> Sane(o))
  <2>2. Smooth(h) /\ Rest(h, f) = OpText(o, f) BY <1>2, <1>5, PrintsOne DEF h
  <2>3. AllSane(h) <=> Sane(o) BY <1>4 DEF AllSane
  <2> QED BY <2>2, <2>3
<1>11. Rest(s, f) = OpText(o, f) \o Rest(t, f)
  <2>1. Rest(h \o t, f) = Rest(h, f) \o Rest(t, f) BY <1>7, <1>10, RestJoin
  <2> QED BY <1>6, <1>10, <2>1
<1>12. AllSane(s) <=> Sane(o) /\ AllSane(t) BY <1>3, <1>4, <1>6, <1>10, SaneJoin
<1>13. OpText(o, f) \in Seq(Plain) /\ Rest(t, f) \in Seq(Plain) BY <1>2, <1>5, <1>7, OpTextIs, RestIs
<1> QED BY <1>2, <1>5, <1>7, <1>8, <1>9, <1>11, <1>12, <1>13 DEF o, t

\* The text the print should give.
Whole == Printer!Text(format)[item][0]

\* Text g is printed: it is in the buffer, and the operations left print the
\* rest.  If the offset is not at its end a zero is there, to be found by the
\* measuring that comes next; and so there is when nothing is left to do.
SoFar(g) ==
  /\ g \in Seq(Plain) /\ Whole = g \o Rest(ops, format)
  /\ Len(g) <= length /\ written <= Len(g)
  /\ \A k \in 1..Len(g) : buffer[k - 1] = g[k]
  /\ ops = << >> \/ ~ Opens(ops) => Len(g) < length /\ buffer[Len(g)] = "nul"
  /\ ops # << >> /\ Opens(ops) => written = Len(g)
  /\ ops = << >> /\ entry = "print" => written = Len(g)

\* print() measures at the end; without that the last text has its zero.
LastOp(o) == IF entry = "print" THEN o.op = "measure" ELSE Ender(o)

\* In the middle of a print: a text g is printed, the operations left print
\* the rest, the last of them leaves a zero at the end, and they come upon an
\* invalid item exactly if the item has one.
MidPrint ==
  /\ Smooth(ops)
  /\ ops # << >> => LastOp(ops[Len(ops)])
  /\ Printer!Valid[item] <=> AllSane(ops)
  /\ entry = "preallocated" => length = size
  /\ \E g : SoFar(g)

\* The invariant for what is printed.
TextInv ==
  /\ entry # "print" => size \in BufferSizes
  /\ printing = "run" => MidPrint
  /\ printing \in {"failed", "lost", "false"} /\ entry = "preallocated" /\ Printer!Valid[item] => size < Len(Whole) + 1 + 5
  /\ Printer!PrintsTheText

\* The text is plain.
LEMMA WholeIs == Printer!TypeOK => Whole \in Seq(Plain) /\ Len(Whole) \in Nat
<1> SUFFICES ASSUME Printer!TypeOK PROVE Whole \in Seq(Plain) OBVIOUS
<1>1. item \in PrintItems /\ format \in BOOLEAN /\ 0 \in Nat BY DEF Printer!TypeOK
<1> QED BY <1>1, TextIs DEF Whole

\* Joining texts is associative.
LEMMA TextsAssociate == \A a, b, c \in Seq(Plain) : (a \o b) \o c = a \o (b \o c)
BY ConcatAssociative

\* A put leaves alone what lies before the offset.
LEMMA WrittenBefore ==
  ASSUME written \in Nat, NEW n \in Nat, NEW b, DOMAIN b = 0..(n - 1),
         Len(Printer!Op.cells) \in Nat, written + Len(Printer!Op.cells) <= n, NEW k \in 0..(written - 1)
  PROVE  Printer!Written(b)[k] = b[k]
<1> DEFINE l == Len(Printer!Op.cells)
           R == written..((written + l) - 1)
<1>1. Printer!Written(b) = [j \in (0..(n - 1)) \cup R |-> IF j \in R THEN Printer!Op.cells[(j - written) + 1] ELSE b[j]]
  BY DEF Printer!Written
<1>2. k \in 0..(n - 1) /\ k \notin R OBVIOUS
<1> HIDE DEF R
<1> QED BY <1>1, <1>2

\* After a put into a block that kept what was printed.
LEMMA PutGoesOn ==
  ASSUME PrintInv, MidPrint, Printer!Putting, NEW n \in Nat, NEW b, DOMAIN b = 0..(n - 1), Printer!Needed <= n,
         \A k \in 0..(written - 1) : k \in 0..(length - 1) => b[k] = buffer[k],
         buffer' = Printer!Written(b), written' = written + Printer!Op.adv, ops' = Tail(ops), length' = n,
         entry = "preallocated" => n = length, UNCHANGED <<item, format, entry, size>>
  PROVE  MidPrint'
<1> DEFINE o == Head(ops)
           c == Printer!Op.cells
           B == Body(c)
           R == Rest(Tail(ops), format)
<1>0. /\ Printer!Op \in [op : {"put"}, need : Nat, cells : Seq(Letters), adv : Nat]
      /\ Len(c) <= Printer!Op.need + 1
      /\ Sound(Tail(ops)) /\ (Opens(Tail(ops)) \/ Ender(o))
      /\ written \in Nat /\ length \in Nat /\ Printer!Needed = (Printer!Op.need + written) + 1
  BY PutFacts DEF Printer!Op
<1>1. /\ c \in Seq(Letters) /\ Len(c) \in Nat /\ written + Len(c) <= n /\ Printer!Op.adv \in Nat /\ o.op = "put"
      /\ o.cells = c /\ o.adv = Printer!Op.adv
  BY <1>0 DEF Printer!Op
<1>2. ops # << >> /\ format \in BOOLEAN BY DEF Printer!Putting, PrintInv, Printer!TypeOK
<1>3. /\ Tidy(o) /\ Smooth(Tail(ops)) /\ OpText(o, format) \in Seq(Plain) /\ R \in Seq(Plain)
      /\ Rest(ops, format) = OpText(o, format) \o R
      /\ (AllSane(ops) <=> Sane(o) /\ AllSane(Tail(ops)))
      /\ (Tail(ops) # << >> /\ Opens(Tail(ops)) => Straight(o))
      /\ IF Tail(ops) = << >> THEN ops[Len(ops)] = o ELSE ops[Len(ops)] = Tail(ops)[Len(Tail(ops))]
  BY <1>2, SplitOps DEF MidPrint
<1>4. OpText(o, format) = B /\ B \in Seq(Plain) /\ (c = B \/ c = B \o <<"nul">>) /\ o.adv <= Len(B) /\ Sane(o)
      /\ Len(B) \in Nat
  <2>1. OpText(o, format) = B /\ Sane(o)
    <3>1. o.op = "put" /\ o.cells = c BY <1>1
    <3> QED BY <3>1 DEF OpText, Sane
  <2>2. /\ Body(o.cells) \in Seq(Plain) /\ (o.cells = Body(o.cells) \/ o.cells = Body(o.cells) \o <<"nul">>)
        /\ o.adv <= Len(Body(o.cells))
    <3>1. Tidy(o) /\ o.op = "put" BY <1>1, <1>3
    <3> QED BY <3>1 DEF Tidy
  <2>3. o.cells = c BY <1>1
  <2> HIDE DEF o, c
  <2> QED BY <2>1, <2>2, <2>3
<1>5. /\ DOMAIN buffer' = 0..(n - 1)
      /\ \A m \in 1..Len(c) : buffer'[(written + m) - 1] = c[m]
  BY <1>0, <1>1, WrittenCells
<1>6. \A k \in 0..(written - 1) : buffer'[k] = b[k] BY <1>0, <1>1, WrittenBefore
<1>7. PICK g : SoFar(g) BY DEF MidPrint
<1>8. Opens(ops)
  <2>1. ops \in Seq(OpSet) BY DEF MidPrint, Smooth
  <2>2. Len(ops) # 0 /\ Head(ops) = ops[1] BY <1>2, <2>1
  <2> QED BY <1>1, <2>2 DEF Opens
<1>9. /\ g \in Seq(Plain) /\ Whole = g \o (B \o R) /\ written = Len(g) /\ Len(g) <= length
      /\ \A k \in 1..Len(g) : buffer[k - 1] = g[k]
  BY <1>2, <1>3, <1>4, <1>7, <1>8 DEF SoFar
<1>10. UNCHANGED Whole BY DEF Whole
<1>20. /\ Len(c) >= Len(B) /\ \A k \in 1..Len(B) : c[k] = B[k]
       /\ c # B => Len(c) = Len(B) + 1 /\ c[Len(B) + 1] = "nul"
  <2>1. CASE c = B BY <1>4, <2>1
  <2>2. CASE c = B \o <<"nul">>
    <3> DEFINE z == <<"nul">>
               A == Plain \cup {"nul"}
               x == B
    <3>1. z \in Seq(A) /\ Len(z) = 1 /\ z[1] = "nul" /\ Plain \subseteq A OBVIOUS
    <3>2. c = x \o z /\ x \in Seq(Plain) BY <1>4, <2>2
    <3> HIDE DEF z, A, x, B, c
    <3>3. x \in Seq(A) BY <3>1, <3>2
    <3>4. /\ Len(c) = Len(x) + Len(z) /\ Len(x) \in Nat
          /\ \A k \in 1..Len(x) : c[k] = x[k]
          /\ \A k \in 1..Len(z) : c[Len(x) + k] = z[k]
      BY <3>1, <3>2, <3>3, JoinParts
    <3>5. 1 \in 1..Len(z) BY <3>1
    <3> QED BY <3>1, <3>4, <3>5 DEF x
  <2> QED BY <1>4, <2>1, <2>2
<1> HIDE DEF o, c, B, R
<1>25. PICK h : h = g \o B OBVIOUS
<1>11. /\ h \in Seq(Plain) /\ Len(g) \in Nat /\ Len(h) = Len(g) + Len(B)
       /\ \A k \in 1..Len(g) : h[k] = g[k]
       /\ \A k \in 1..Len(h) : k \in 1..Len(g) \/ (k - Len(g) \in 1..Len(B) /\ h[k] = B[k - Len(g)])
  BY <1>4, <1>9, <1>25, JoinParts
<1>12. Whole = h \o R
  <2>0. g \in Seq(Plain) /\ B \in Seq(Plain) /\ R \in Seq(Plain) BY <1>3, <1>4, <1>9
  <2>1. (g \o B) \o R = g \o (B \o R) BY <2>0, TextsAssociate, Zenon
  <2> QED BY <1>9, <1>25, <2>1
<1>26. /\ written = Len(g) /\ written \in Nat /\ Len(B) \in Nat /\ Len(c) \in Nat /\ Len(h) = Len(g) + Len(B)
       /\ written + Len(c) <= n
  BY <1>0, <1>1, <1>4, <1>9, <1>11
<1>13. Len(h) <= n /\ written' <= Len(h)
  <2>1. Len(c) >= Len(B) BY <1>20
  <2>2. written' = written + o.adv /\ o.adv \in Nat /\ o.adv <= Len(B) BY <1>1, <1>4
  <2> QED BY <1>26, <2>1, <2>2
<1>14. ASSUME NEW k \in 1..Len(h) PROVE buffer'[k - 1] = h[k]
  <2>1. CASE k \in 1..Len(g)
    <3>1. k - 1 \in 0..(written - 1) /\ k - 1 \in 0..(length - 1) BY <1>0, <1>9, <1>11, <2>1
    <3>2. buffer'[k - 1] = b[k - 1] /\ b[k - 1] = buffer[k - 1] BY <1>6, <3>1
    <3> QED BY <1>9, <1>11, <2>1, <3>2
  <2>2. CASE k \notin 1..Len(g)
    <3> DEFINE m == k - Len(g)
    <3>1. m \in 1..Len(B) /\ h[k] = B[m] BY <1>11, <2>2
    <3>2. m \in 1..Len(c) /\ (written + m) - 1 = k - 1 BY <1>1, <1>4, <1>9, <1>11, <1>20, <3>1
    <3> HIDE DEF m
    <3>3. buffer'[k - 1] = c[m] BY <1>5, <3>2
    <3> QED BY <1>20, <3>1, <3>3
  <2> QED BY <2>1, <2>2
<1>15. ASSUME Tail(ops) = << >> \/ ~ Opens(Tail(ops)) PROVE Ender(o)
  <2>1. CASE ~ Opens(Tail(ops)) BY <1>0, <2>1
  <2>2. CASE Tail(ops) = << >>
    <3>1. LastOp(o) BY <1>2, <1>3, <2>2 DEF MidPrint
    <3> QED BY <1>1, <3>1 DEF LastOp
  <2> QED BY <1>15, <2>1, <2>2
<1>16. ASSUME Tail(ops) = << >> \/ ~ Opens(Tail(ops)) PROVE Len(h) < n /\ buffer'[Len(h)] = "nul"
  <2>1. PICK m \in 1..Len(c) : c[m] = "nul" BY <1>1, <1>15, <1>16 DEF Ender
  <2>2. c # B
    <3> SUFFICES ASSUME c = B PROVE FALSE OBVIOUS
    <3>1. c[m] \in Plain BY <1>4
    <3> QED BY <2>1, <3>1 DEF Plain
  <2>3. Len(c) = Len(B) + 1 /\ c[Len(B) + 1] = "nul" BY <1>20, <2>2
  <2>4. Len(B) + 1 \in 1..Len(c) /\ (written + (Len(B) + 1)) - 1 = Len(h) /\ Len(h) < n
    <3>1. Len(c) = Len(B) + 1 BY <2>3
    <3> QED BY <1>26, <3>1
  <2>5. buffer'[Len(h)] = c[Len(B) + 1] BY <1>5, <2>4
  <2> QED BY <2>3, <2>4, <2>5
<1>17. ASSUME Tail(ops) # << >>, Opens(Tail(ops)) PROVE written' = Len(h)
  <2>1. Straight(o) BY <1>3, <1>17
  <2>2. o.adv = Len(B) BY <1>1, <2>1 DEF Straight, B
  <2> QED BY <1>1, <1>9, <1>11, <2>2
<1>18. ASSUME Tail(ops) = << >>, entry = "print" PROVE FALSE
  <2>1. LastOp(o) BY <1>2, <1>3, <1>18 DEF MidPrint
  <2> QED BY <1>1, <1>18, <2>1 DEF LastOp
<1>19. SoFar(h)'
  <2>1. Whole' = h \o Rest(ops', format') BY <1>10, <1>12 DEF R
  <2>2. Len(h) <= length' /\ written' <= Len(h) BY <1>13
  <2>3. \A k \in 1..Len(h) : buffer'[k - 1] = h[k] BY <1>14
  <2>4. ops' = << >> \/ ~ Opens(ops') => Len(h) < length' /\ buffer'[Len(h)] = "nul" BY <1>16
  <2>5. ops' # << >> /\ Opens(ops') => written' = Len(h) BY <1>17
  <2>6. ~ (ops' = << >> /\ entry' = "print") BY <1>18
  <2> QED BY <1>11, <2>1, <2>2, <2>3, <2>4, <2>5, <2>6 DEF SoFar
<1>21. Smooth(ops') /\ (ops' # << >> => (LastOp(ops[Len(ops)]))')
  BY <1>2, <1>3 DEF MidPrint, LastOp
<1>22. Printer!Valid[item'] <=> AllSane(ops') BY <1>3, <1>4 DEF MidPrint
<1>23. entry' = "preallocated" => length' = size' BY DEF MidPrint
<1>24. \E x : SoFar(x)' BY <1>19
<1> QED BY <1>21, <1>22, <1>23, <1>24 DEF MidPrint

\* It holds before a print.
LEMMA TextInitially == Printer!Init => TextInv
BY DEF Printer!Init, TextInv, Printer!PrintsTheText

\* The first operations are those of the item, and its text is what they add.
LEMMA TextBegins == ASSUME PrintInv, TextInv, Printer!Begin PROVE TextInv'
<1> DEFINE v == Printer!PrintValue(item, format, 0)
           m == Printer!When(entry = "print", Printer!Measure)
<1>1. /\ printing = "start" /\ printing' = "run" /\ ops' = v \o m
      /\ length' = size /\ UNCHANGED <<item, format, entry, size, written>>
  BY DEF Printer!Begin, Printer!call
<1>2. item \in PrintItems /\ format \in BOOLEAN /\ 0 \in Nat /\ written = 0 /\ size \in Nat
  BY <1>1, SizesAssumption DEF PrintInv, Printer!TypeOK
<1>3. Prints(v, format, Whole, {item}) BY <1>2, ValuePrints DEF Whole
<1>4. Piece(v) /\ Ends(v) BY <1>2, ValuePiece
<1>5. Whole \in Seq(Plain) BY WholeIs DEF PrintInv
<1>6. Prints(m, format, << >>, {}) /\ (entry = "print" => m = Printer!Measure) /\ (entry # "print" => m = << >>)
  <2>1. CASE entry = "print" BY <1>2, <2>1, PrintsMeasure DEF Printer!When
  <2>2. CASE entry # "print" BY <1>2, <2>2, PrintsNone DEF Printer!When
  <2> QED BY <2>1, <2>2
<1> HIDE DEF v, m
<1>7. v \in Seq(OpSet) /\ m \in Seq(OpSet) BY <1>3, <1>6 DEF Prints, Smooth
<1>10. Prints(ops', format, Whole, {item}) /\ LastOp(ops'[Len(ops')])
  <2>8. CASE entry = "print"
    <3>1. m = Printer!Measure /\ Len(m) = 1 /\ ~ Opens(m) BY <1>2, <1>6, <2>8, PrintsMeasure
    <3>2. Prints(v \o m, format, Whole \o << >>, {item} \cup {}) BY <1>2, <1>3, <1>6, <3>1, PrintsJoin
    <3>3. Whole \o << >> = Whole BY <1>5, ConcatEmptySeq
    <3>4. Prints(v \o m, format, Whole, {item}) BY <3>2, <3>3 DEF Prints
    <3>5. (v \o m)[Len(v \o m)].op = "measure"
      <4>1. 1 \in 1..Len(m) /\ m[1].op = "measure" BY <3>1 DEF Opens
      <4>2. Len(v \o m) = Len(v) + Len(m) /\ (v \o m)[Len(v) + 1] = m[1] BY <1>7, <4>1, JoinParts
      <4> QED BY <3>1, <4>1, <4>2
    <3>6. LastOp(ops'[Len(ops')]) BY <1>1, <2>8, <3>5 DEF LastOp
    <3> QED BY <1>1, <3>4, <3>6
  <2>9. CASE entry # "print"
    <3>1. v \o m = v BY <1>6, <1>7, <2>9, ConcatEmptySeq
    <3>2. LastOp(ops'[Len(ops')]) BY <1>1, <1>4, <2>9, <3>1 DEF LastOp, Ends
    <3> QED BY <1>1, <1>3, <3>1, <3>2
  <2> QED BY <2>8, <2>9
<1>11. Smooth(ops') /\ Rest(ops', format) = Whole /\ (AllSane(ops') <=> Printer!Valid[item]) BY <1>10 DEF Prints
<1>12. ops' # << >> /\ Opens(ops')
  <2>1. Sound(m)
    <3>1. CASE entry = "print" BY <1>6, <3>1, SoundMeasure
    <3>2. CASE entry # "print" BY <1>6, <3>2, SoundEmpty
    <3> QED BY <3>1, <3>2
  <2>2. Piece(v \o m) BY <1>4, <2>1, PieceJoin
  <2> QED BY <1>1, <2>2 DEF Piece
<1>13. PICK g : g = << >> OBVIOUS
<1>14. g \in Seq(Plain) /\ Len(g) = 0 /\ g \o Whole = Whole BY <1>5, <1>13, PlainTexts, ConcatEmptySeq
<1>15. UNCHANGED Whole BY <1>1 DEF Whole
<1>16. SoFar(g)'
  <2>1. Whole' = g \o Rest(ops', format') BY <1>1, <1>11, <1>14, <1>15
  <2>2. Len(g) <= length' /\ written' <= Len(g) /\ written' = Len(g) BY <1>1, <1>2, <1>14
  <2>3. \A k \in 1..Len(g) : buffer'[k - 1] = g[k] BY <1>14
  <2> QED BY <1>12, <1>14, <2>1, <2>2, <2>3 DEF SoFar
<1>17. MidPrint' BY <1>1, <1>10, <1>11, <1>16 DEF MidPrint, LastOp
<1> QED BY <1>1, <1>17 DEF TextInv, Printer!PrintsTheText

\* A turn of the loop over the items: the next item's operations in front of
\* the rest of the loop add the text the loop was to add.
LEMMA TextNextItem == ASSUME PrintInv, TextInv, Printer!NextItem PROVE TextInv'
<1> DEFINE o == Head(ops)
           t == Printer!Turn(o.item, format, o.depth, o.k)
           r == Tail(ops)
<1>1. /\ printing = "run" /\ printing' = "run" /\ ops # << >> /\ o.op = "loop" /\ ops' = t \o r
      /\ UNCHANGED <<item, format, entry, size, buffer, length, written>>
  BY DEF Printer!NextItem, Printer!call, Printer!Op
<1>2. MidPrint BY <1>1 DEF TextInv
<1>3. Sound(ops) /\ format \in BOOLEAN /\ Smooth(ops) BY <1>2 DEF PrintInv, Printer!TypeOK, MidPrint
<1>4. o \in OpSet /\ Fine(o) /\ Sound(r) /\ (Opens(r) \/ Ender(o)) BY <1>1, <1>3, HeadOfSound
<1>5. /\ Smooth(r) /\ Rest(ops, format) = OpText(o, format) \o Rest(r, format)
      /\ (AllSane(ops) <=> Sane(o) /\ AllSane(r))
      /\ IF r = << >> THEN ops[Len(ops)] = o ELSE ops[Len(ops)] = r[Len(r)]
  BY <1>1, <1>3, SplitOps
<1>22. ops \in Seq(OpSet) BY <1>3 DEF Smooth
<1>23. Len(ops) # 0 /\ Head(ops) = ops[1] BY <1>1, <1>22
<1>20. Opens(ops) BY <1>1, <1>23 DEF Opens
<1> HIDE DEF o, r
<1>6. Opens(r) BY <1>1, <1>4 DEF Ender
<1>7. o.item \in PrintItems /\ o.depth \in Nat /\ o.item.kind \in {"array", "object"} /\ o.k \in 1..Len(o.item.kids)
  BY <1>1, <1>4 DEF OpSet, Fine
<1>8. Piece(t) BY <1>3, <1>7, TurnPiece
<1>9. Prints(t, format, LoopText(o.item, format, o.depth, o.k), KidsFrom(o.item, o.k)) /\ Lands(t)
  BY <1>3, <1>7, TurnPrints
<1>10. OpText(o, format) = LoopText(o.item, format, o.depth, o.k) BY <1>1 DEF OpText
<1>11. Sane(o) <=> \A j \in KidsFrom(o.item, o.k) : Printer!Valid[j] BY <1>1 DEF Sane, KidsFrom
<1> HIDE DEF t
<1>12. Smooth(t) /\ Rest(t, format) = OpText(o, format) /\ (AllSane(t) <=> Sane(o)) BY <1>9, <1>10, <1>11 DEF Prints
<1>13. Smooth(ops') BY <1>1, <1>5, <1>9, <1>12, SmoothJoin
<1>14. Rest(ops', format) = Rest(ops, format)
  <2>1. Rest(t \o r, format) = Rest(t, format) \o Rest(r, format) BY <1>3, <1>5, <1>12, RestJoin
  <2> QED BY <1>1, <1>5, <1>12, <2>1
<1>15. t \in Seq(OpSet) /\ r \in Seq(OpSet) BY <1>5, <1>12 DEF Smooth
<1>16. AllSane(ops') <=> AllSane(ops)
  <2>1. AllSane(t \o r) <=> AllSane(t) /\ AllSane(r) BY <1>15, SaneJoin
  <2> QED BY <1>1, <1>5, <1>12, <2>1
<1>17. r # << >> /\ LastOp(r[Len(r)])
  <2>1. LastOp(ops[Len(ops)]) BY <1>1, <1>2 DEF MidPrint
  <2>2. ~ LastOp(o) BY <1>1 DEF LastOp, Ender
  <2> QED BY <1>5, <2>1, <2>2
<1>18. ops'[Len(ops')] = r[Len(r)]
  <2>1. Len(r) \in Nat /\ Len(r) # 0 BY <1>15, <1>17
  <2>2. Len(r) \in 1..Len(r) BY <2>1
  <2>3. Len(t \o r) = Len(t) + Len(r) /\ (t \o r)[Len(t) + Len(r)] = r[Len(r)] BY <1>15, <2>2, JoinParts
  <2> QED BY <1>1, <2>3
<1>19. ops' # << >> /\ Opens(ops')
  <2>1. Piece(t \o r) BY <1>4, <1>6, <1>8, PieceJoin
  <2> QED BY <1>1, <2>1 DEF Piece
<1>21. PICK g : SoFar(g) BY <1>2 DEF MidPrint
<1>24. UNCHANGED Whole BY <1>1 DEF Whole
<1>25. SoFar(g)'
  <2>1. /\ g \in Seq(Plain) /\ Whole = g \o Rest(ops, format) /\ Len(g) <= length /\ written <= Len(g)
        /\ (\A k \in 1..Len(g) : buffer[k - 1] = g[k]) /\ written = Len(g)
    BY <1>1, <1>20, <1>21 DEF SoFar
  <2>2. Whole' = g \o Rest(ops', format') BY <1>1, <1>14, <1>24, <2>1
  <2> QED BY <1>1, <1>19, <2>1, <2>2 DEF SoFar
<1>26. (LastOp(ops[Len(ops)]))' BY <1>1, <1>17, <1>18 DEF LastOp
<1>27. Printer!Valid[item'] <=> AllSane(ops') BY <1>1, <1>2, <1>16 DEF MidPrint
<1>28. MidPrint' BY <1>1, <1>2, <1>13, <1>25, <1>26, <1>27 DEF MidPrint
<1> QED BY <1>1, <1>28 DEF TextInv, Printer!PrintsTheText

\* A put into the block there is.
LEMMA TextPutFits == ASSUME PrintInv, TextInv, Printer!PutFits PROVE TextInv'
<1>1. /\ Printer!Putting /\ Printer!Needed <= length
      /\ buffer' = Printer!Written(buffer) /\ written' = written + Printer!Op.adv /\ ops' = Tail(ops)
      /\ UNCHANGED <<item, format, entry, size, length, printing>>
  BY DEF Printer!PutFits, Printer!Fits, Printer!call
<1>2. printing = "run" /\ length \in Nat /\ length' = length BY <1>1, PutFacts
<1>3. DOMAIN buffer = 0..(length - 1) BY <1>2 DEF PrintInv
<1>4. MidPrint BY <1>2 DEF TextInv
<1>5. \A k \in 0..(written - 1) : k \in 0..(length - 1) => buffer[k] = buffer[k] OBVIOUS
<1>6. entry = "preallocated" => length = length OBVIOUS
<1>7. MidPrint' BY <1>1, <1>2, <1>3, <1>4, <1>5, <1>6, PutGoesOn
<1> QED BY <1>1, <1>2, <1>7 DEF TextInv, Printer!PrintsTheText

\* A put into a larger block, be it reallocated or copied by hand.
LEMMA TextPutGrows == ASSUME PrintInv, TextInv, Printer!PutGrows PROVE TextInv'
<1> DEFINE n == Printer!NewSize
           b == Printer!Moved
<1>1. /\ Printer!Putting /\ ~ Printer!Refused /\ ~ Printer!Fits
      /\ buffer' = Printer!Written(b) /\ length' = n
      /\ written' = written + Printer!Op.adv /\ ops' = Tail(ops)
      /\ UNCHANGED <<item, format, entry, size, printing>>
  BY DEF Printer!PutGrows, Printer!call
<1>2. printing = "run" /\ length \in Nat /\ written \in Nat /\ Printer!Needed \in Nat /\ entry # "preallocated"
      /\ Printer!Needed <= IntMax /\ IntMax \in Nat /\ Printer!Needed > length
      /\ written < Printer!Needed
  <2>1. /\ Printer!Op \in [op : {"put"}, need : Nat, cells : Seq(Letters), adv : Nat]
        /\ Printer!Needed = (Printer!Op.need + written) + 1 /\ printing = "run" /\ length \in Nat
        /\ written \in Nat /\ Printer!Needed \in Nat
    BY <1>1, PutFacts
  <2>2. Printer!Op.need \in Nat BY <2>1
  <2>3. IntMax \in Nat BY SizesAssumption
  <2>4. entry # "preallocated" /\ ~ (Printer!Needed > IntMax) /\ ~ (Printer!Needed <= length)
    BY <1>1 DEF Printer!Refused, Printer!Fits
  <2>5. written < Printer!Needed BY <2>1, <2>2
  <2> QED BY <2>1, <2>3, <2>4, <2>5
<1>3. n \in Nat /\ Printer!Needed <= n BY <1>2 DEF Printer!NewSize
<1>4. DOMAIN b = 0..(n - 1) BY DEF Printer!Moved, Printer!Block
<1>5. DOMAIN buffer = 0..(length - 1) /\ realloc \in BOOLEAN BY <1>2 DEF PrintInv, Printer!TypeOK
<1>6. ASSUME NEW k \in 0..(written - 1), k \in 0..(length - 1) PROVE b[k] = buffer[k]
  <2> DEFINE a == IF realloc THEN buffer ELSE Printer!First(written + 1, buffer)
  <2>1. k \in 0..(n - 1) /\ k \in 0..((written + 1) - 1) BY <1>2, <1>3
  <2>2. k \in DOMAIN a /\ a[k] = buffer[k]
    <3>1. CASE realloc BY <1>5, <1>6, <3>1
    <3>2. CASE ~ realloc
      <4>1. a = [j \in 0..((written + 1) - 1) |-> IF j \in DOMAIN buffer THEN buffer[j] ELSE "?"]
        BY <3>2 DEF Printer!First, Printer!Garbage
      <4> HIDE DEF a
      <4> QED BY <1>5, <1>6, <2>1, <4>1
    <3> QED BY <3>1, <3>2
  <2>3. b = [j \in 0..(n - 1) |-> IF j \in DOMAIN a THEN a[j] ELSE "?"]
    BY DEF Printer!Moved, Printer!Block, Printer!CopyLength, Printer!Garbage
  <2> HIDE DEF a, b, n
  <2> QED BY <2>1, <2>2, <2>3
<1>7. MidPrint BY <1>2 DEF TextInv
<1> HIDE DEF b, n
<1>8. MidPrint' BY <1>1, <1>2, <1>3, <1>4, <1>6, <1>7, PutGoesOn
<1> QED BY <1>1, <1>2, <1>8 DEF TextInv, Printer!PrintsTheText

\* update_offset() finds the end of what is printed.
LEMMA EndIsFound ==
  ASSUME written \in Nat, length \in Nat, NEW g \in Seq(Plain), written <= Len(g), Len(g) < length,
         buffer[Len(g)] = "nul", \A k \in 1..Len(g) : buffer[k - 1] = g[k]
  PROVE  Printer!EndAt(buffer, written) = Len(g)
<1> DEFINE E(k) == buffer[k] = "nul" /\ \A j \in written..(k - 1) : buffer[j] # "nul"
<1>1. Len(g) \in Nat /\ Len(g) \in written..(length - 1) OBVIOUS
<1>2. ASSUME NEW j \in written..(Len(g) - 1) PROVE buffer[j] # "nul"
  <2>1. j + 1 \in 1..Len(g) /\ (j + 1) - 1 = j BY <1>1
  <2>2. buffer[j] = g[j + 1] BY <2>1
  <2>3. g[j + 1] \in Plain BY <2>1
  <2> QED BY <2>2, <2>3 DEF Plain
<1>3. E(Len(g)) BY <1>2
<1>4. ASSUME NEW k \in written..(length - 1), E(k) PROVE k = Len(g)
  <2>1. CASE k < Len(g)
    <3>1. k \in written..(Len(g) - 1) BY <1>1, <2>1
    <3> QED BY <1>2, <1>4, <3>1
  <2>2. CASE k > Len(g)
    <3>1. Len(g) \in written..(k - 1) BY <1>1, <2>2
    <3> QED BY <1>4, <3>1
  <2> QED BY <1>1, <2>1, <2>2
<1>5. Printer!EndAt(buffer, written) = CHOOSE k \in written..(length - 1) : E(k) BY DEF Printer!EndAt, Printer!Nul
<1> HIDE DEF E
<1> QED BY <1>1, <1>3, <1>4, <1>5

\* update_offset() moves the offset to the end of what is printed.
LEMMA TextMeasures == ASSUME PrintInv, TextInv, Printer!UpdateOffset PROVE TextInv'
<1> DEFINE o == Head(ops)
           r == Tail(ops)
<1>1. /\ printing = "run" /\ printing' = "run" /\ ops # << >> /\ o.op = "measure"
      /\ written' = Printer!EndAt(buffer, written) /\ ops' = r
      /\ UNCHANGED <<item, format, entry, size, buffer, length>>
  BY DEF Printer!UpdateOffset, Printer!call, Printer!Op
<1>2. MidPrint BY <1>1 DEF TextInv
<1>3. Sound(ops) /\ format \in BOOLEAN /\ Smooth(ops) /\ written \in Nat /\ length \in Nat
  BY <1>2 DEF PrintInv, Printer!TypeOK, MidPrint
<1>4. Opens(r) \/ Ender(o) BY <1>1, <1>3, HeadOfSound
<1>5. /\ Smooth(r) /\ Rest(ops, format) = OpText(o, format) \o Rest(r, format) /\ Rest(r, format) \in Seq(Plain)
      /\ (AllSane(ops) <=> Sane(o) /\ AllSane(r))
      /\ IF r = << >> THEN ops[Len(ops)] = o ELSE ops[Len(ops)] = r[Len(r)]
  BY <1>1, <1>3, SplitOps
<1>6. ops \in Seq(OpSet) BY <1>3 DEF Smooth
<1>7. Len(ops) # 0 /\ Head(ops) = ops[1] BY <1>1, <1>6
<1>8. ~ Opens(ops) BY <1>1, <1>7 DEF Opens
<1> HIDE DEF o, r
<1>9. Opens(r) BY <1>1, <1>4 DEF Ender
<1>10. OpText(o, format) = << >> /\ Sane(o) BY <1>1 DEF OpText, Sane
<1>11. Rest(ops, format) = Rest(r, format)
  <2>1. << >> \o Rest(r, format) = Rest(r, format) BY <1>5, ConcatEmptySeq
  <2> QED BY <1>5, <1>10, <2>1
<1>12. PICK g : SoFar(g) BY <1>2 DEF MidPrint
<1>13. /\ g \in Seq(Plain) /\ Whole = g \o Rest(ops, format) /\ Len(g) <= length /\ written <= Len(g)
       /\ (\A k \in 1..Len(g) : buffer[k - 1] = g[k]) /\ Len(g) < length /\ buffer[Len(g)] = "nul"
  BY <1>8, <1>12 DEF SoFar
<1>14. written' = Len(g) BY <1>1, <1>3, <1>13, EndIsFound
<1>15. UNCHANGED Whole BY <1>1 DEF Whole
<1>16. SoFar(g)'
  <2>1. Whole' = g \o Rest(ops', format') BY <1>1, <1>11, <1>13, <1>15
  <2>2. Len(g) \in Nat /\ written' <= Len(g) BY <1>13, <1>14
  <2> QED BY <1>1, <1>9, <1>13, <1>14, <2>1, <2>2 DEF SoFar
<1>17. ops' # << >> => (LastOp(ops[Len(ops)]))' BY <1>1, <1>2, <1>5 DEF MidPrint, LastOp
<1>18. Printer!Valid[item'] <=> AllSane(ops') BY <1>1, <1>2, <1>5, <1>10 DEF MidPrint
<1>19. MidPrint' BY <1>1, <1>2, <1>5, <1>16, <1>17, <1>18 DEF MidPrint
<1> QED BY <1>1, <1>19 DEF TextInv, Printer!PrintsTheText

\* What a put asks for is no more than the text and two bytes.
LEMMA NeededIsBounded ==
  ASSUME PrintInv, MidPrint, Printer!Putting
  PROVE  Printer!Op.need \in Nat /\ Printer!Needed = (Printer!Op.need + written) + 1 /\ Printer!Needed <= Len(Whole) + 2
<1> DEFINE o == Head(ops)
           B == Body(Printer!Op.cells)
           R == Rest(Tail(ops), format)
<1>0. /\ Printer!Op \in [op : {"put"}, need : Nat, cells : Seq(Letters), adv : Nat]
      /\ written \in Nat /\ Printer!Needed = (Printer!Op.need + written) + 1
  BY PutFacts
<1>1. Printer!Op = o /\ o.op = "put" /\ Printer!Op.need \in Nat BY <1>0 DEF Printer!Op
<1>2. ops # << >> /\ format \in BOOLEAN BY DEF Printer!Putting, PrintInv, Printer!TypeOK
<1>3. Tidy(o) /\ R \in Seq(Plain) /\ Rest(ops, format) = OpText(o, format) \o R
  BY <1>2, SplitOps DEF MidPrint
<1>4. OpText(o, format) = B /\ B \in Seq(Plain) /\ o.need <= Len(B) + 1 BY <1>1, <1>3 DEF OpText, Tidy
<1>5. Opens(ops)
  <2>1. ops \in Seq(OpSet) BY DEF MidPrint, Smooth
  <2>2. Len(ops) # 0 /\ Head(ops) = ops[1] BY <1>2, <2>1
  <2> QED BY <1>1, <2>2 DEF Opens
<1>6. PICK g : SoFar(g) BY DEF MidPrint
<1>7. g \in Seq(Plain) /\ Whole = g \o (B \o R) /\ written = Len(g) BY <1>2, <1>3, <1>4, <1>5, <1>6 DEF SoFar
<1> HIDE DEF o, B, R
<1>8. Len(Whole) = Len(g) + (Len(B) + Len(R)) /\ Len(g) \in Nat /\ Len(B) \in Nat /\ Len(R) \in Nat
  <2>1. B \o R \in Seq(Plain) /\ Len(B \o R) = Len(B) + Len(R) /\ Len(B) \in Nat /\ Len(R) \in Nat
    BY <1>3, <1>4, JoinParts
  <2>2. Len(g \o (B \o R)) = Len(g) + Len(B \o R) /\ Len(g) \in Nat BY <1>7, <2>1, JoinParts
  <2> QED BY <1>7, <2>1, <2>2
<1> QED BY <1>0, <1>1, <1>4, <1>7, <1>8

\* ensure() refuses: a preallocated buffer then lacks the five bytes more.
LEMMA TextRefused == ASSUME PrintInv, TextInv, Printer!PutRefused PROVE TextInv'
<1>1. /\ Printer!Putting /\ Printer!Refused /\ printing' = "failed"
      /\ UNCHANGED <<item, format, entry, size>>
  BY DEF Printer!PutRefused, Printer!call
<1>2. printing = "run" /\ written \in Nat /\ length \in Nat /\ size \in Nat BY <1>1, PutFacts
<1>3. MidPrint BY <1>2 DEF TextInv
<1>4. Printer!Op.need \in Nat /\ Printer!Needed = (Printer!Op.need + written) + 1 /\ Printer!Needed <= Len(Whole) + 2
  BY <1>1, <1>3, NeededIsBounded
<1>5. Len(Whole) \in Nat BY WholeIs DEF PrintInv
<1>6. ASSUME entry = "preallocated" PROVE size < Len(Whole) + 1 + 5
  <2>1. length = size BY <1>3, <1>6 DEF MidPrint
  <2>2. size <= IntMax /\ IntMax \in Nat
    <3>1. size \in BufferSizes BY <1>6 DEF TextInv
    <3> QED BY <3>1, SizesAssumption
  <2>3. (length > 0 /\ written >= length) \/ Printer!Op.need > IntMax \/ ~ (Printer!Needed <= length) \/ Printer!Needed > IntMax
    BY <1>1 DEF Printer!Refused, Printer!Fits
  <2> HIDE <1>1
  <2> QED BY <1>2, <1>4, <1>5, <2>1, <2>2, <2>3
<1>7. UNCHANGED Whole BY <1>1 DEF Whole
<1> QED BY <1>1, <1>6, <1>7 DEF TextInv, Printer!PrintsTheText

\* An invalid item was there to be found.
LEMMA TextInvalid == ASSUME PrintInv, TextInv, Printer!PrintInvalid PROVE TextInv'
<1>1. /\ printing = "run" /\ ops # << >> /\ Head(ops).op = "invalid" /\ printing' = "failed"
      /\ UNCHANGED <<item, format, entry, size>>
  BY DEF Printer!PrintInvalid, Printer!call, Printer!Op
<1>2. MidPrint /\ format \in BOOLEAN BY <1>1 DEF TextInv, PrintInv, Printer!TypeOK
<1>3. AllSane(ops) <=> Sane(Head(ops)) /\ AllSane(Tail(ops)) BY <1>1, <1>2, SplitOps DEF MidPrint
<1>4. ~ Sane(Head(ops)) BY <1>1 DEF Sane
<1>5. ~ Printer!Valid[item] BY <1>2, <1>3, <1>4 DEF MidPrint
<1> QED BY <1>1, <1>5 DEF TextInv, Printer!PrintsTheText

\* A print fails for lack of memory only when it allocates.
LEMMA TextFails ==
  ASSUME PrintInv, TextInv, Printer!BeginFails \/ Printer!ShrinkFails \/ Printer!OutOfMemory
  PROVE  TextInv'
<1>1. /\ printing' \in {"failed", "lost", "false"} /\ entry # "preallocated" /\ UNCHANGED <<entry, size>>
  BY DEF Printer!BeginFails, Printer!ShrinkFails, Printer!OutOfMemory, Printer!Refused, Printer!call
<1> QED BY <1>1 DEF TextInv, Printer!PrintsTheText

\* The entry point returns NULL or false.
LEMMA TextReturns == ASSUME PrintInv, TextInv, Printer!ReturnFailed PROVE TextInv'
<1>1. /\ printing \in {"failed", "lost"} /\ printing' = "false" /\ UNCHANGED <<item, format, entry, size>>
  BY DEF Printer!ReturnFailed, Printer!call
<1>2. UNCHANGED Whole BY <1>1 DEF Whole
<1> QED BY <1>1, <1>2 DEF TextInv, Printer!PrintsTheText

\* When nothing is left to do the whole text is in the buffer.
LEMMA AllIsPrinted ==
  ASSUME PrintInv, MidPrint, ops = << >>
  PROVE  /\ Printer!Valid[item] /\ Len(Whole) < length /\ buffer[Len(Whole)] = "nul"
         /\ \A k \in 1..Len(Whole) : buffer[k - 1] = Whole[k]
         /\ entry = "print" => written = Len(Whole)
<1>1. PICK g : SoFar(g) BY DEF MidPrint
<1>2. format \in BOOLEAN BY DEF PrintInv, Printer!TypeOK
<1>3. Rest(ops, format) = << >> /\ AllSane(ops) BY <1>2, PrintsNone DEF Prints
<1>4. g \in Seq(Plain) /\ g \o << >> = g BY <1>1, ConcatEmptySeq DEF SoFar
<1>5. Whole = g BY <1>1, <1>3, <1>4 DEF SoFar
<1> QED BY <1>1, <1>3, <1>5 DEF SoFar, MidPrint

\* cJSON_PrintBuffered() and cJSON_PrintPreallocated() return the whole text.
LEMMA TextReturnsBuffer == ASSUME PrintInv, TextInv, Printer!ReturnBuffer PROVE TextInv'
<1>1. /\ printing = "run" /\ ops = << >> /\ printing' = "true"
      /\ UNCHANGED <<item, format, entry, size, buffer>>
  BY DEF Printer!ReturnBuffer, Printer!call
<1>2. MidPrint /\ length \in Nat /\ DOMAIN buffer = 0..(length - 1) BY <1>1 DEF TextInv, PrintInv, Printer!TypeOK
<1>3. /\ Printer!Valid[item] /\ Len(Whole) < length /\ buffer[Len(Whole)] = "nul"
      /\ \A k \in 1..Len(Whole) : buffer[k - 1] = Whole[k]
  BY <1>1, <1>2, AllIsPrinted
<1>4. Len(Whole) \in Nat BY WholeIs DEF PrintInv
<1>5. UNCHANGED Whole BY <1>1 DEF Whole
<1>6. Len(Whole) \in DOMAIN buffer /\ \A k \in 1..Len(Whole) : k - 1 \in DOMAIN buffer BY <1>2, <1>3, <1>4
<1>7. (Printer!PrintsTheText)' BY <1>1, <1>3, <1>6 DEF Printer!PrintsTheText, Whole, Printer!Nul
<1> QED BY <1>1, <1>7 DEF TextInv

\* print() returns the whole text in a block of just its size.
LEMMA TextShrinks == ASSUME PrintInv, TextInv, Printer!Shrinks PROVE TextInv'
<1> DEFINE a == Printer!First(written + 1, buffer)
<1>1. /\ printing = "run" /\ ops = << >> /\ entry = "print" /\ printing' = "true"
      /\ buffer' = [a EXCEPT ![written] = IF realloc THEN @ ELSE "nul"]
      /\ UNCHANGED <<item, format, entry, size>>
  BY DEF Printer!Shrinks, Printer!call, Printer!Nul
<1>2. MidPrint /\ length \in Nat /\ DOMAIN buffer = 0..(length - 1) BY <1>1 DEF TextInv, PrintInv, Printer!TypeOK
<1>3. /\ Printer!Valid[item] /\ Len(Whole) < length /\ buffer[Len(Whole)] = "nul"
      /\ (\A k \in 1..Len(Whole) : buffer[k - 1] = Whole[k]) /\ written = Len(Whole)
  BY <1>1, <1>2, AllIsPrinted
<1>4. Len(Whole) \in Nat BY WholeIs DEF PrintInv
<1>5. UNCHANGED Whole BY <1>1 DEF Whole
<1>6. \A k \in 0..Len(Whole) : k \in DOMAIN buffer /\ k \in 0..((written + 1) - 1) BY <1>2, <1>3, <1>4
<1>7. a = [k \in 0..((written + 1) - 1) |-> IF k \in DOMAIN buffer THEN buffer[k] ELSE "?"]
  BY DEF Printer!First, Printer!Garbage
<1> HIDE DEF a
<1>8. \A k \in 0..Len(Whole) : k \in DOMAIN a /\ a[k] = buffer[k] BY <1>6, <1>7
<1>9. DOMAIN buffer' = DOMAIN a /\ \A k \in DOMAIN a : k # written => buffer'[k] = a[k] BY <1>1
<1>10. Len(Whole) \in 0..Len(Whole) BY <1>4
<1>11. buffer'[Len(Whole)] = "nul"
  <2>1. a[written] = "nul" /\ written \in DOMAIN a BY <1>3, <1>8, <1>10
  <2>2. buffer'[written] = "nul"
    <3>1. CASE realloc BY <1>1, <2>1, <3>1
    <3>2. CASE ~ realloc BY <1>1, <2>1, <3>2
    <3> QED BY <3>1, <3>2
  <2> QED BY <1>3, <2>2
<1>12. ASSUME NEW k \in 1..Len(Whole) PROVE k - 1 \in DOMAIN buffer' /\ buffer'[k - 1] = Whole[k]
  <2>1. k - 1 \in 0..Len(Whole) /\ k - 1 # written BY <1>3, <1>4
  <2> QED BY <1>3, <1>8, <1>9, <2>1
<1>13. Len(Whole) \in DOMAIN buffer' BY <1>8, <1>9, <1>10
<1>14. (Printer!PrintsTheText)' BY <1>1, <1>3, <1>11, <1>12, <1>13 DEF Printer!PrintsTheText, Whole, Printer!Nul
<1> QED BY <1>1, <1>14 DEF TextInv

\* Every step of printing keeps it.
LEMMA TextSteps == PrintInv /\ TextInv /\ Printer!Next => TextInv'
BY TextBegins, TextFails, TextNextItem, TextPutFits, TextPutGrows, TextRefused, TextMeasures, TextInvalid,
   TextReturns, TextShrinks, TextReturnsBuffer DEF Printer!Next

\* A step of another part keeps it.
LEMMA TextStutters == TextInv /\ UNCHANGED printVars => TextInv'
<1> SUFFICES ASSUME TextInv, UNCHANGED printVars PROVE TextInv' OBVIOUS
<1>0. UNCHANGED <<item, format, entry, size, ops, buffer, length, written, printing>> BY DEF printVars
<1>1. UNCHANGED Whole BY <1>0 DEF Whole
<1>2. \A g : SoFar(g) => SoFar(g)' BY <1>0, <1>1 DEF SoFar
<1>3. (ops # << >> => LastOp(ops[Len(ops)])) => (ops # << >> => LastOp(ops[Len(ops)]))' BY <1>0 DEF LastOp
<1>4. MidPrint => MidPrint' BY <1>0, <1>2, <1>3 DEF MidPrint
<1>5. Printer!PrintsTheText => (Printer!PrintsTheText)' BY <1>0 DEF Printer!PrintsTheText
<1> QED BY <1>0, <1>1, <1>4, <1>5 DEF TextInv

\* It says what the caller gets.
LEMMA TextInvShows == TextInv => Printer!PrintsTheText /\ Printer!FiveBytesMore
BY DEF TextInv, Printer!FiveBytesMore, Whole
=============================================================================
