------------------------------- MODULE Layouts -------------------------------
(***************************************************************************)
(* The storage layouts of the extension package: where an object with a    *)
(* given id is stored.  An id is a sequence of characters, a path the      *)
(* sequence of its elements, which are sequences of characters too.        *)
(*                                                                         *)
(* A layout is [name, config, layout]; config has the fields of the        *)
(* extension's config.json.                                                *)
(***************************************************************************)
EXTENDS Integers, Sequences

SE == INSTANCE SequencesExt

CONSTANTS
    Ids,          \* object ids
    Digest,       \* hex digest of each id (for every algorithm)
    DigestLen,    \* digits of a digest
    Hex,          \* character -> its two hex digits, for those that are escaped
    Lower,        \* character -> its lower case, for those in upper case
    MaxEncoded    \* longest encoded id that is not cut off (100)

ASSUME LayoutAssumption ==
    /\ \A i \in Ids : Len(Digest[i]) = DigestLen
    /\ \A i, j \in Ids : Digest[i] = Digest[j] => i = j

Failed == [ok |-> FALSE, path |-> <<>>]
Resolved(path) == [ok |-> TRUE, path |-> path]

\* The elements of a string with slashes.
Elements(s) ==
    SE!FoldLeft(LAMBDA els, c : IF c = "/" THEN Append(els, <<>>)
                                ELSE [els EXCEPT ![Len(els)] = Append(@, c)],
                <<<<>>>>, s)

Dot == <<".">>
DotDot == <<".", ".">>
Extensions == <<"e", "x", "t">>

\* path.Join: the elements without empty ones and dots, and without the element before a
\* pair of dots.  A slash in front stays, as an empty first element, and pairs of dots
\* behind it go; a path of which nothing is left is a dot.
Clean(els) ==
    LET rooted == els[1] = <<>> /\ Len(els) > 1
        left == SE!FoldLeft(LAMBDA path, e :
                    IF e \in {<<>>, Dot} \/ (e = DotDot /\ path = <<>> /\ rooted) THEN path
                    ELSE IF e = DotDot /\ path # <<>> /\ SE!Last(path) # DotDot
                    THEN SE!Front(path)
                    ELSE Append(path, e),
                    <<>>, els)
    IN  IF rooted THEN <<<<>>>> \o left ELSE IF left = <<>> THEN <<Dot>> ELSE left

\* fs.ValidPath
ValidPath(els) == els = <<Dot>> \/ \A i \in DOMAIN els : els[i] \notin {<<>>, Dot, DotDot}

\* The first num tuples of a string.
Tuples(s, size, num) == [i \in 1..num |-> SubSeq(s, (i - 1) * size + 1, i * size)]

-----------------------------------------------------------------------------
\* Mutant: a percent sign is not escaped.
PercentEncodeLoose(id) ==
    SE!FlattenSeq([i \in DOMAIN id |-> IF id[i] \in DOMAIN Hex \ {"%"}
                                       THEN <<"%">> \o Hex[id[i]] ELSE <<id[i]>>])

PercentEncode(id) ==
    SE!FlattenSeq([i \in DOMAIN id |-> IF id[i] \in DOMAIN Hex
                                       THEN <<"%">> \o Hex[id[i]] ELSE <<id[i]>>])

\* Valid of the hash layouts: no tuples of size zero, and no more than the digest has.
ValidTuples(c) ==
    /\ c.size = 0 <=> c.num = 0
    /\ c.num * c.size <= DigestLen

\* 0003: tuples of the digest, and the encoded id, cut off and made unique when long.
ResolveHashIDTuple(c, id) ==
    LET enc == PercentEncode(id)
        last == IF Len(enc) > MaxEncoded
                THEN SubSeq(enc, 1, MaxEncoded) \o <<"-">> \o Digest[id] ELSE enc
    IN  Resolved(Append(Tuples(Digest[id], c.size, c.num), last))

\* 0004: tuples of the digest, and the digest or what remains of it.
ResolveHashTuple(c, id) ==
    LET h == Digest[id]
    IN  Resolved(Append(Tuples(h, c.size, c.num),
                        IF c.short THEN SubSeq(h, c.num * c.size + 1, Len(h)) ELSE h))

\* strings.ToLower
ToLower(s) == [i \in DOMAIN s |-> IF s[i] \in DOMAIN Lower THEN Lower[s[i]] ELSE s[i]]

\* strings.LastIndex, counted from zero; -1 when s does not contain d.
LastIndex(s, d) ==
    LET found == {i \in 0..Len(s) - Len(d) : SubSeq(s, i + 1, i + Len(d)) = d}
    IN  IF found = {} THEN -1 ELSE CHOOSE i \in found : \A j \in found : j <= i

\* What follows a prefix of n characters and a delimiter.
Suffix(id, n, delim) == SubSeq(id, n + Len(delim) + 1, Len(id))

\* The id without what ends with the last delimiter: 0006 looks for the delimiter in
\* either case, 0007 for the delimiter as it is, and not in front of the id.
OmitPrefix6(c, id) ==
    LET at == LastIndex(ToLower(id), ToLower(c.delim))
    IN  IF at > -1 THEN Suffix(id, at, c.delim) ELSE id

OmitPrefix7(c, id) ==
    LET at == LastIndex(id, c.delim) IN IF at > 0 THEN Suffix(id, at, c.delim) ELSE id

\* 0006: the id without its prefix.
ResolveFlatOmitPrefix(c, id) ==
    LET dir == Elements(OmitPrefix6(c, id))
    IN  IF dir # <<Extensions>> /\ ValidPath(dir) THEN Resolved(dir) ELSE Failed

\* 0007: tuples of the padded, and possibly reversed, id without its prefix, and the id
\* without its prefix.  A slash is refused unless it is the first character.
ResolveTupleOmitPrefix(c, id) ==
    LET trim == OmitPrefix7(c, id)
        pad == [i \in 1..c.size * c.num - Len(trim) |-> "0"]
        padded == IF Len(trim) >= c.size * c.num THEN trim
                  ELSE IF c.left THEN pad \o trim ELSE trim \o pad
        dirs == Tuples(IF c.reverse THEN SE!Reverse(padded) ELSE padded, c.size, c.num)
    IN  IF \/ trim = <<>> /\ id # <<>>
           \/ \E i \in DOMAIN trim : trim[i] = "/" /\ trim[1] # "/"
        THEN Failed
        ELSE Resolved(Clean(SE!FlattenSeq([i \in 1..c.num |-> Elements(dirs[i])]) \o Elements(trim)))

Valid(l) ==
    CASE l.name = "flat-direct" -> TRUE
      [] l.name \in {"hash-id-tuple", "hash-tuple"} -> ValidTuples(l.config)
      [] l.name = "flat-omit-prefix" -> l.config.delim # <<>>
      [] l.name = "tuple-omit-prefix" -> l.config.size > 0 /\ l.config.num > 0

Resolve(l, id) ==
    CASE ~Valid(l) -> Failed
      [] l.name = "flat-direct" -> Resolved(Elements(id))
      [] l.name = "hash-id-tuple" -> ResolveHashIDTuple(l.config, id)
      [] l.name = "hash-tuple" -> ResolveHashTuple(l.config, id)
      [] l.name = "flat-omit-prefix" -> ResolveFlatOmitPrefix(l.config, id)
      [] l.name = "tuple-omit-prefix" -> ResolveTupleOmitPrefix(l.config, id)

-----------------------------------------------------------------------------
\* Neither path is the other one or inside of it.
Apart(p, q) == ~SE!IsPrefix(p, q) /\ ~SE!IsPrefix(q, p)

\* The ids for which a layout promises paths apart from each other.  A layout that uses
\* the id itself makes directories of the slashes in it, and one that omits a prefix does
\* not tell ids apart that end alike.
Kept(l, id) ==
    CASE l.name = "flat-omit-prefix" -> OmitPrefix6(l.config, id)
      [] l.name = "tuple-omit-prefix" -> OmitPrefix7(l.config, id)
      [] OTHER -> id
Promised(l, i, j) ==
    \/ l.name \in {"hash-id-tuple", "hash-tuple"}
    \/ /\ Kept(l, i) # Kept(l, j)
       /\ \A c \in {"/", "."}, id \in {i, j} : \A n \in DOMAIN id : id[n] # c
=============================================================================
