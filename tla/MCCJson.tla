------------------------------ MODULE MCCJson ------------------------------
(* Small instances of the parts of cJSON.                                   *)
EXTENDS CJson

Seqs == INSTANCE SequencesExt

-----------------------------------------------------------------------------
(* What is printed: every scalar, every pair of scalars in both containers, *)
(* and containers in containers, in buffers of all sizes around their text. *)

Scalars == {[kind |-> k] : k \in {"null", "number", "string", "empty", "invalid"}}
Containers(S) ==
    {[kind |-> c, kids |-> kids] : c \in {"array", "object"},
                                   kids \in {<< >>} \cup {<<i>> : i \in S}}
Pairs(S, T) == {[kind |-> c, kids |-> <<i, j>>] : c \in {"array", "object"}, i \in S, j \in T}

Null == [kind |-> "null"]
SmallItems ==
    Scalars \cup Containers(Scalars) \cup Pairs(Scalars, Scalars)
      \cup Containers(Containers({[kind |-> "number"], Null}))
      \cup Containers(Containers(Containers({[kind |-> "number"]})))
      \cup Pairs(Containers({Null}), {[kind |-> "string"]})
      \cup Pairs(Containers(Containers({Null})), {[kind |-> "object", kids |-> <<Null>>]})
      \cup Pairs({[kind |-> "empty"]}, Containers({[kind |-> "string"]}))
SmallHeight ==
    LET height[i \in SmallItems] ==
          IF "kids" \in DOMAIN i /\ i.kids # << >>
            THEN 1 + Seqs!Max({height[i.kids[k]] : k \in DOMAIN i.kids}) ELSE 0
    IN  height
SmallSizes == {0, 1, 2, 3, 4, 5, 6, 8, 10, 12, 15, 18, 22, 26, 30, 40}

-----------------------------------------------------------------------------
(* What is parsed: every text of up to four cells, and every text one edit  *)
(* away from a longer one.                                                  *)

Cells == {"[", "]", "{", "}", ",", ":", "s", "n", "blank", "x"}
Samples ==
    { <<"{", "s", ":", "[", "n", ",", "s", "]", ",", "s", ":", "n", "}">>,
      <<"[", "{", "}", "blank", ",", "[", "n", "]", "]", "blank">>,
      <<"blank", "{", "s", "blank", ":", "blank", "{", "s", ":", "s", "}", "}">>,
      <<"[", "[", "[", "n", "]", "]", "]">> }
Edited(t) ==
    {t} \cup {Seqs!ReplaceAt(t, k, c) : k \in DOMAIN t, c \in Cells}
        \cup {Seqs!RemoveAt(t, k) : k \in DOMAIN t}
        \cup {Seqs!InsertAt(t, k, c) : k \in DOMAIN t, c \in Cells}
SmallTexts == UNION {[1..n -> Cells] : n \in 0..4} \cup UNION {Edited(t) : t \in Samples}

-----------------------------------------------------------------------------
(* Strings of up to three pieces: bytes, the simple escapes, and \uXXXX at  *)
(* every boundary of the encodings.                                         *)

Upper(d) == IF d < 10 THEN 48 + d ELSE 55 + d
Hex(n) == <<Upper(n \div 4096), Upper((n \div 256) % 16), Upper((n \div 16) % 16), Upper(n % 16)>>
Codes == {0, 10, 31, 34, 65, 92, 127, 128, 2047, 2048, 55295, 55296, 56319, 56320, 57343, 57344,
          65535}
Units == {[src |-> <<92, 117>> \o Hex(n), unit |-> n] : n \in Codes}
Bad == 70000
Simple == {[src |-> <<97>>, unit |-> 97], [src |-> <<92, 110>>, unit |-> 10],
           [src |-> <<92, 34>>, unit |-> 34], [src |-> <<92, 92>>, unit |-> 92],
           [src |-> <<92, 47>>, unit |-> 47], [src |-> <<92, 120>>, unit |-> Bad],
           [src |-> <<92, 117, 48, 48, 71, 48>>, unit |-> 0]}
Cut == {[src |-> <<92, 117, 48, 48>>, unit |-> Bad]}
Pieces == Units \cup Simple
PieceSeqs ==
    {<< >>} \cup {<<p>> : p \in Pieces \cup Cut}
            \cup {<<p, q>> : p \in Pieces, q \in Pieces \cup Cut}
            \cup {<<p, q, r>> : p \in Simple, q \in Pieces, r \in Pieces}
Literal(s) == [src |-> Seqs!FlattenSeq([k \in DOMAIN s |-> s[k].src]),
               units |-> [k \in DOMAIN s |-> s[k].unit]]
SmallLiterals == {Literal(s) : s \in PieceSeqs}
=============================================================================
