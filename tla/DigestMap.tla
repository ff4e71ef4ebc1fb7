------------------------------ MODULE DigestMap ------------------------------
(***************************************************************************)
(* DigestMap and PathMap (digestmap.go): the map from digests to lists of  *)
(* paths that an inventory uses for its manifest, its version states and   *)
(* its fixity blocks.                                                      *)
(*                                                                         *)
(* A path is a sequence of character codes, because what the code decides  *)
(* about paths depends on how they sort.  A digest is <<sum, case>>: two   *)
(* spellings of one sum differ in case only.  A list of paths is a         *)
(* sequence; map iteration may build it in any order, which only shows in  *)
(* which of several equal files is read, so lists are built sorted here.   *)
(***************************************************************************)
EXTENDS Naturals, Sequences, FiniteSets

SE == INSTANCE SequencesExt

Dash  == 45
Dot   == 46
Slash == 47

Path == Seq(Nat)

Digest(sum, case) == <<sum, case>>

\* The type DigestMap.
IsDigestMap(m) ==
    /\ m \in [DOMAIN m -> Seq(Path)]
    /\ IsFiniteSet(DOMAIN m)
    /\ \A d \in DOMAIN m : d \in {Digest(d[1], "lower"), Digest(d[1], "upper")}

\* normalizeDigest: lower case.
NormalizeDigest(d) == Digest(d[1], "lower")

\* Byte-wise order of paths.
Less(p, q) ==
    \/ SE!IsStrictPrefix(p, q)
    \/ \E i \in DOMAIN p \cap DOMAIN q :
          /\ p[i] < q[i]
          /\ SubSeq(p, 1, i - 1) = SubSeq(q, 1, i - 1)

\* Where f has paths that come before p, and paths that do not come after it.
OccurBefore(f, p) == {o \in DOMAIN f : Less(f[o], p)}
OccurUpTo(f, p) == {o \in DOMAIN f : f[o] = p \/ Less(f[o], p)}

\* The paths of f in order, each as often as f has it.
Ordered(f) ==
    [k \in 1 .. Cardinality(DOMAIN f) |->
        CHOOSE p \in SE!Range(f) : /\ Cardinality(OccurBefore(f, p)) < k
                                  /\ k <= Cardinality(OccurUpTo(f, p))]

Sorted(paths) == Ordered(paths)
SortedSet(S) == Ordered([p \in S |-> p])

\* DigestMap.AllPaths: every path of every list, duplicates kept, sorted.
AllPaths(m) ==
    Ordered([o \in UNION {{d} \X DOMAIN m[d] : d \in DOMAIN m} |-> m[o[1]][o[2]]])

PathSet(m) == UNION {SE!ToSet(m[d]) : d \in DOMAIN m}

\* DigestMap.DigestFor, for a path that m has.
DigestFor(m, p) == CHOOSE d \in DOMAIN m : p \in SE!ToSet(m[d])

\* DigestMap.PathMap
PathMap(m) == [p \in PathSet(m) |-> DigestFor(m, p)]

\* PathMap.DigestMap
DigestMapOf(pm) ==
    [d \in SE!Range(pm) |-> SortedSet({p \in DOMAIN pm : pm[p] = d})]

-----------------------------------------------------------------------------
\* Where the elements of a path start: behind its slashes, and at its beginning.
Starts(p) == {0} \cup {i \in DOMAIN p : p[i] = Slash}
End(p, i) == SE!Min({j \in Starts(p) : j > i} \cup {Len(p) + 1})

Element(p, i) == SubSeq(p, i + 1, End(p, i) - 1)
Elements(p) == {Element(p, i) : i \in Starts(p)}

ValidPath(p) == Elements(p) \cap {<<>>, <<Dot>>, <<Dot, Dot>>} = {}

\* What is wrong with a sorted list of paths: a name may be used only once and
\* never as both a file and a directory.  Only neighbours are compared.
PathsErr(paths) ==
    IF \E i \in DOMAIN paths : ~ValidPath(paths[i]) THEN "pathInvalid"
    ELSE IF \E i \in 1 .. Len(paths) - 1 :
               \/ paths[i] = paths[i + 1]
               \/ SE!IsPrefix(Append(paths[i], Slash), paths[i + 1])
         THEN "pathConflict"
         ELSE "ok"

DigestsConflict(m) ==
    \E d, e \in DOMAIN m : d # e /\ NormalizeDigest(d) = NormalizeDigest(e)

\* DigestMap.Valid, with the kind of error it returns.
MapErr(m) ==
    IF DigestsConflict(m) THEN "digestConflict"
    ELSE IF \E d \in DOMAIN m : m[d] = <<>> THEN "noPaths"
    ELSE PathsErr(AllPaths(m))

Valid(m) == MapErr(m) = "ok"

\* DigestMap.Normalize of a valid map.
Normalize(m) ==
    [n \in {NormalizeDigest(d) : d \in DOMAIN m} |->
        Sorted(m[CHOOSE d \in DOMAIN m : NormalizeDigest(d) = n])]

\* Mutant: Eq compares the digests as they are spelled.
EqSpelled(m, other) ==
    /\ Cardinality(DOMAIN m) = Cardinality(DOMAIN other)
    /\ Valid(other)
    /\ \A d \in DOMAIN m :
          d \in DOMAIN other /\ Sorted(m[d]) = Sorted(other[d])

\* DigestMap.Eq
Eq(m, other) ==
    /\ Cardinality(DOMAIN m) = Cardinality(DOMAIN other)
    /\ \/ DOMAIN m = {}
       \/ /\ Valid(other)
          /\ \A d \in DOMAIN m :
                /\ m[d] # <<>>
                /\ NormalizeDigest(d) \in DOMAIN Normalize(other)
                /\ Sorted(m[d]) = Normalize(other)[NormalizeDigest(d)]

\* The path map that Merge builds: m2's digest wins.
Merged(m1, m2) ==
    LET pm1 == PathMap(Normalize(m1))
        pm2 == PathMap(Normalize(m2))
    IN  DigestMapOf([p \in DOMAIN pm1 \cup DOMAIN pm2 |->
                        IF p \in DOMAIN pm2 THEN pm2[p] ELSE pm1[p]])

\* DigestMap.Merge returns no error.
MergeOk(m1, m2, replace) ==
    /\ Valid(m1)
    /\ Valid(m2)
    /\ ~replace => LET pm1 == PathMap(Normalize(m1))
                       pm2 == PathMap(Normalize(m2))
                   IN  \A p \in DOMAIN pm1 \cap DOMAIN pm2 : pm1[p] = pm2[p]
    /\ PathsErr(AllPaths(Merged(m1, m2))) = "ok"

-----------------------------------------------------------------------------
\* The characters of p at the positions in Q.
Picked(p, Q) ==
    LET order == SortedSet({<<q>> : q \in Q})
    IN  [k \in DOMAIN order |-> p[order[k][1]]]

\* Where the elements ".." of a path start, and where those that are names do.
Rooted(p) == p # <<>> /\ p[1] = Slash
Ups(p) == {i \in Starts(p) : Element(p, i) = <<Dot, Dot>>}
Names(p) == {i \in Starts(p) : Element(p, i) \notin {<<>>, <<Dot>>, <<Dot, Dot>>}}

\* Each ".." takes back the name before it that no other one does.  What is left: ...
CountIn(S, i, j) == Cardinality({k \in S : i < k /\ k <= j})

NamesLeft(names, ups) ==
    {i \in names : ~ \E j \in ups : j > i /\ CountIn(ups, i, j) > CountIn(names, i, j)}
UpsLeft(names, ups) ==
    {j \in ups : ~ \E i \in names : i < j /\ CountIn(ups, i, j) <= CountIn(names, i, j) + 1}

\* ... The path of the elements that start at kept, each with the slash in front of it,
\* the first one only if the path starts with one.
PathOf(p, kept, rooted) ==
    IF kept = {} THEN IF rooted THEN <<Slash>> ELSE <<Dot>>
    ELSE Picked(p, (UNION {i .. End(p, i) - 1 : i \in kept})
                   \ ({0} \cup (IF rooted THEN {} ELSE {SE!Min(kept)})))

\* path.Clean: empty and "." elements go, and so does each ".." with the name that it
\* takes back, or at the root.  A valid path is clean.
Clean(p) ==
    IF ValidPath(p) THEN p
    ELSE PathOf(p, NamesLeft(Names(p), Ups(p))
                   \cup (IF Rooted(p) THEN {} ELSE UpsLeft(Names(p), Ups(p))), Rooted(p))

\* path.Join of two elements.
Join(dir, p) ==
    IF dir = <<>> /\ p = <<>> THEN <<>>
    ELSE Clean(IF dir = <<>> THEN p ELSE IF p = <<>> THEN dir ELSE dir \o <<Slash>> \o p)

\* RenamePaths(src, dst) on one list: src is ".", a file of the list (its first
\* occurrence is renamed), or else a directory.
RenamePaths(src, dst, paths) ==
    IF src = <<Dot>> THEN [i \in DOMAIN paths |-> Join(dst, paths[i])]
    ELSE IF SE!Contains(paths, src)
         THEN [paths EXCEPT ![SE!SelectInSeq(paths, LAMBDA p : p = src)] = dst]
         ELSE [i \in DOMAIN paths |->
                 IF SE!IsPrefix(Append(src, Slash), paths[i])
                 THEN Join(dst, SubSeq(paths[i], Len(src) + 2, Len(paths[i])))
                 ELSE paths[i]]

\* RemovePath(name) on one list.
RemovePath(name, paths) ==
    IF SE!Contains(paths, name)
    THEN SE!RemoveAt(paths, SE!SelectInSeq(paths, LAMBDA p : p = name))
    ELSE paths
=============================================================================
