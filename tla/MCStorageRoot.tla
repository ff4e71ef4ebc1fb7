---------------------------- MODULE MCStorageRoot ----------------------------
(***************************************************************************)
(* An instance of StorageRoot for TLC: every layout in one configuration   *)
(* or more, alone and among other extensions, and identifiers with         *)
(* slashes, escapes, prefixes and dots, short and long.                    *)
(***************************************************************************)
EXTENDS StorageRoot, TLC

CONSTANTS p1, p2

IdList == <<<<"a">>, <<"b">>, <<"/">>, <<"%", "2", "f">>, <<"a", "/", "b">>, DotDot,
            <<"x", ":", "a">>, <<":", "b">>, <<"X", ":", "b">>, <<"x", ":", "/", "a">>, Extensions,
            <<"a", "a", "a", "a", "a">>, <<"a", "a", "a", "a", "b">>>>
MCIds == {IdList[n] : n \in DOMAIN IdList}

\* Digests of three digits; most share the first two with others.
Digits == <<"0", "1", "2", "3", "4", "5", "6", "7", "8", "9", "a", "b", "c">>
MCDigest ==
    [i \in MCIds |-> LET n == CHOOSE n \in DOMAIN IdList : IdList[n] = i
                     IN  <<"0", Digits[(n % 2) + 1], Digits[n]>>]

MCLower == "X" :> "x"
MCHex == "/" :> <<"2", "f">> @@ "%" :> <<"2", "5">> @@ ":" :> <<"3", "a">> @@ "." :> <<"2", "e">>

Ext(name, config) == [name |-> name, config |-> config, layout |-> TRUE]
Other == [name |-> "other", config |-> <<>>, layout |-> FALSE]
Hash(size, num, short) == Ext("hash-tuple", [size |-> size, num |-> num, short |-> short])
HashID(size, num) == Ext("hash-id-tuple", [size |-> size, num |-> num])
Flat == Ext("flat-direct", <<>>)
FlatOmit(d) == Ext("flat-omit-prefix", [delim |-> d])
TupleOmit(left, rev) ==
    Ext("tuple-omit-prefix", [delim |-> <<":">>, size |-> 1, num |-> 2, left |-> left, reverse |-> rev])

MCDefaults == "hash-tuple" :> Hash(1, 2, FALSE) @@ "hash-id-tuple" :> HashID(1, 2)
              @@ "flat-direct" :> Flat @@ "flat-omit-prefix" :> FlatOmit(<<>>)
              @@ "tuple-omit-prefix" :> TupleOmit(TRUE, FALSE) @@ "other" :> Other

MCInitArgs ==
    {<<>>, <<Other, Hash(2, 1, TRUE), Flat>>, <<Hash(2, 2, FALSE)>>}
    \cup {<<e>> : e \in {Hash(1, 2, TRUE), Hash(0, 0, FALSE), HashID(0, 0), HashID(1, 1),
                         Flat, FlatOmit(<<":">>), FlatOmit(<<"x", ":">>),
                         TupleOmit(TRUE, TRUE), TupleOmit(FALSE, FALSE)}}

Symmetry == Permutations({p1, p2})
=============================================================================
