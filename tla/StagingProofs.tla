---------------------------- MODULE StagingProofs ----------------------------
(***************************************************************************)
(* What holds of stages and updates for every directory, object and path   *)
(* mutation: an update keeps the versions stored before it, and copies     *)
(* exactly the content its manifest names, which its stage provides.       *)
(***************************************************************************)
EXTENDS Staging, InventoryProofs

-----------------------------------------------------------------------------
(* The maps that stages hold *)

IsDigest(d) == d \in {Digest(d[1], "lower"), Digest(d[1], "upper")}

\* The digest map of a path map has its paths, each with its digest.
LEMMA DigestMapOfIs ==
    ASSUME NEW pm, DOMAIN pm \subseteq Path, IsFiniteSet(DOMAIN pm),
           \A p \in DOMAIN pm : IsDigest(pm[p]), pm \in [DOMAIN pm -> Members(pm)]
    PROVE  LET m == DigestMapOf(pm)
           IN  /\ IsDigestMap(m) /\ DOMAIN m = Members(pm)
               /\ PathSet(m) = DOMAIN pm
               /\ \A p \in DOMAIN pm : DigestFor(m, p) = pm[p]
               /\ \A d \in DOMAIN m : \A p \in Members(m[d]) : p \in DOMAIN pm /\ pm[p] = d
<1> DEFINE S(d) == {p \in DOMAIN pm : pm[p] = d}
           m == DigestMapOf(pm)
<1>1. m = [d \in Members(pm) |-> SortedSet(S(d))]
  BY ToSetIsMembers DEF DigestMapOf
<1>2. \A d : SortedSet(S(d)) \in Seq(Path) /\ Members(SortedSet(S(d))) = S(d)
  <2>1. \A d : S(d) \subseteq Path /\ S(d) \in SUBSET DOMAIN pm
    OBVIOUS
  <2>2. \A d : IsFiniteSet(S(d))
    <3> HIDE DEF S
    <3> QED BY <2>1, FS_Subset
  <2> HIDE DEF S
  <2> QED BY <2>1, <2>2, SortedSetOnce
<1>3. DOMAIN m = Members(pm) /\ \A d \in Members(pm) : Members(m[d]) = S(d)
  BY <1>1, <1>2
<1>4. IsDigestMap(m)
  <2>1. m \in [Members(pm) -> Seq(Path)]
    <3> HIDE DEF S, m
    <3> QED BY <1>1, <1>2
  <2>2. IsFiniteSet(Members(pm))
    BY FiniteImage
  <2>3. \A d \in Members(pm) : IsDigest(d)
    BY DEF Members
  <2> HIDE DEF m
  <2> QED BY <1>3, <2>1, <2>2, <2>3 DEF IsDigestMap, IsDigest
<1> HIDE DEF m
<1>5. \A p \in DOMAIN pm : pm[p] \in Members(pm)
  BY DEF Members
<1>6. PathSet(m) = DOMAIN pm
  <2>1. \A p : (\E d \in DOMAIN m : p \in Members(m[d])) <=> p \in DOMAIN pm
    BY <1>3, <1>5
  <2> QED BY <2>1, PathSetIs
<1>7. ASSUME NEW p \in DOMAIN pm PROVE DigestFor(m, p) = pm[p]
  <2>1. DigestFor(m, p) \in DOMAIN m /\ p \in Members(m[DigestFor(m, p)])
    BY <1>6, PathSetIs
  <2> QED BY <1>3, <2>1
<1>8. \A d \in DOMAIN m : \A p \in Members(m[d]) : p \in DOMAIN pm /\ pm[p] = d
  BY <1>3
<1> QED BY <1>3, <1>4, <1>6, <1>7, <1>8 DEF m

\* Merge makes a digest map whose digests are those of its arguments, in lower case.
LEMMA MergedIs ==
    ASSUME NEW m1, NEW m2, IsDigestMap(m1), IsDigestMap(m2), Valid(m1), Valid(m2)
    PROVE  /\ IsDigestMap(Merged(m1, m2))
           /\ \A d \in DOMAIN Merged(m1, m2) : \E e \in DOMAIN m1 \cup DOMAIN m2 : d = NormalizeDigest(e)
           /\ PathSet(Merged(m1, m2)) = PathSet(m1) \cup PathSet(m2)
           /\ \A p \in PathSet(m1) \cup PathSet(m2) :
                 Sums(Merged(m1, m2))[p] = IF p \in PathSet(m2) THEN Sums(m2)[p] ELSE Sums(m1)[p]
<1> DEFINE n1 == Normalize(m1)
           n2 == Normalize(m2)
           P1 == PathSet(m1)
           P2 == PathSet(m2)
           pm == [p \in P1 \cup P2 |-> IF p \in P2 THEN DigestFor(n2, p) ELSE DigestFor(n1, p)]
           M == Merged(m1, m2)
<1>1. /\ IsDigestMap(n1) /\ DOMAIN n1 = {NormalizeDigest(d) : d \in DOMAIN m1}
      /\ IsDigestMap(n2) /\ DOMAIN n2 = {NormalizeDigest(d) : d \in DOMAIN m2}
  BY NormalizeIs
<1>2. PathSet(n1) = P1 /\ PathSet(n2) = P2 /\ Sums(n1) = Sums(m1) /\ Sums(n2) = Sums(m2)
  BY NormalizeKeeps
<1>3. M = DigestMapOf(pm)
  <2>1. PathMap(n1) = [p \in P1 |-> DigestFor(n1, p)] /\ PathMap(n2) = [p \in P2 |-> DigestFor(n2, p)]
    BY <1>2 DEF PathMap
  <2>2. pm = [p \in DOMAIN PathMap(n1) \cup DOMAIN PathMap(n2) |->
                 IF p \in DOMAIN PathMap(n2) THEN PathMap(n2)[p] ELSE PathMap(n1)[p]]
    <3> HIDE DEF n1, n2, P1, P2
    <3> QED BY <2>1
  <2> QED BY <2>2 DEF Merged
<1> HIDE DEF n1, n2, P1, P2, M
<1>4. P1 \subseteq Path /\ P2 \subseteq Path /\ IsFiniteSet(P1) /\ IsFiniteSet(P2)
  BY PathSetFinite DEF P1, P2
<1>5. /\ \A p \in P1 : DigestFor(n1, p) \in DOMAIN n1
      /\ \A p \in P2 : DigestFor(n2, p) \in DOMAIN n2
  BY <1>2, PathSetIs
<1>6. \A p \in P1 \cup P2 : pm[p] \in DOMAIN n1 \cup DOMAIN n2
  BY <1>5
<1>7. DOMAIN pm = P1 \cup P2 /\ pm \in [DOMAIN pm -> Members(pm)]
  BY DEF Members
<1>8. \A p \in P1 \cup P2 : pm[p][1] = IF p \in P2 THEN Sums(m2)[p] ELSE Sums(m1)[p]
  <2>1. \A p \in P1 : DigestFor(n1, p)[1] = Sums(m1)[p]
    BY <1>2 DEF Sums
  <2>2. \A p \in P2 : DigestFor(n2, p)[1] = Sums(m2)[p]
    BY <1>2 DEF Sums
  <2> QED BY <2>1, <2>2
<1> HIDE DEF pm
<1>9. /\ IsDigestMap(M) /\ DOMAIN M = Members(pm) /\ PathSet(M) = P1 \cup P2
      /\ \A p \in P1 \cup P2 : DigestFor(M, p) = pm[p]
  <2>1. \A p \in DOMAIN pm : IsDigest(pm[p])
    BY <1>1, <1>6, <1>7 DEF IsDigest, IsDigestMap
  <2>2. IsFiniteSet(DOMAIN pm) /\ DOMAIN pm \subseteq Path
    BY <1>4, <1>7, FS_Union
  <2> QED BY <1>3, <1>7, <2>1, <2>2, DigestMapOfIs
<1>10. \A d \in DOMAIN M : d \in DOMAIN n1 \cup DOMAIN n2
  BY <1>6, <1>7, <1>9 DEF Members
<1>11. \A d \in DOMAIN M : \E e \in DOMAIN m1 \cup DOMAIN m2 : d = NormalizeDigest(e)
  BY <1>1, <1>10
<1>12. \A p \in P1 \cup P2 : Sums(M)[p] = IF p \in P2 THEN Sums(m2)[p] ELSE Sums(m1)[p]
  BY <1>8, <1>9 DEF Sums
<1> QED BY <1>9, <1>11, <1>12 DEF M, P1, P2

\* A mutation makes a digest map of a digest map, and brings no digests.
LEMMA MutateIs ==
    ASSUME NEW m, IsDigestMap(m), NEW mutation, IsMutation(mutation)
    PROVE  IsDigestMap(Mutate(m, mutation)) /\ DOMAIN Mutate(m, mutation) \subseteq DOMAIN m
<1> DEFINE D == {e \in DOMAIN m : Apply(mutation, m[e]) # <<>>}
           n == Mutate(m, mutation)
<1>1. n = [d \in D |-> Apply(mutation, m[d])]
  BY DEF Mutate
<1>2. \A d \in DOMAIN m : Apply(mutation, m[d]) \in Seq(Path)
  BY ApplyIsList DEF IsDigestMap
<1>3. D \in SUBSET DOMAIN m
  OBVIOUS
<1> HIDE DEF n, D
<1>4. n \in [D -> Seq(Path)]
  BY <1>1, <1>2, <1>3
<1>5. IsFiniteSet(D)
  BY <1>3, FS_Subset DEF IsDigestMap
<1>6. DOMAIN n = D
  BY <1>1
<1> QED BY <1>3, <1>4, <1>5, <1>6 DEF IsDigestMap, n

-----------------------------------------------------------------------------
(* Valid inventories *)

\* The manifest of a valid inventory has files for every digest of its versions.
LEMMA StatesInManifest ==
    ASSUME NEW i, ValidInventory(i), NEW v \in DOMAIN i.versions, NEW d \in DOMAIN i.versions[v]
    PROVE  d \in DOMAIN i.manifest /\ i.manifest[d] # <<>>
<1> DEFINE lost(w) == \E e \in DOMAIN i.versions[w] : e \notin DOMAIN i.manifest \/ i.manifest[e] = <<>>
           M(w) == MapErrors(i.versions[w], "E050", "E052", "E095")
<1>1. StateErrors(i) = {}
  BY DEF ValidInventory, ValidateInventory
<1>2. StateErrors(i) = UNION {M(w) \cup Err("E050", lost(w)) : w \in DOMAIN i.versions}
  BY DEF StateErrors
<1> HIDE DEF M, lost
<1>3. Err("E050", lost(v)) = {}
  BY <1>1, <1>2
<1>4. ~ lost(v)
  BY <1>3 DEF Err
<1> QED BY <1>4 DEF lost

\* What is known of the inventory of a handle.
Sound(i) == IsInventory(i) /\ (i = Nil \/ ValidInventory(i))

\* The digest maps of a sound inventory are valid, and its manifest has every digest of its versions.
LEMMA SoundMaps ==
    ASSUME NEW i, Sound(i)
    PROVE  /\ IsDigestMap(i.manifest) /\ Valid(i.manifest)
           /\ \A v \in DOMAIN i.versions : IsDigestMap(i.versions[v]) /\ Valid(i.versions[v])
           /\ \A v \in DOMAIN i.versions : \A d \in DOMAIN i.versions[v] :
                 d \in DOMAIN i.manifest /\ i.manifest[d] # <<>>
<1>1. CASE i = Nil
  <2>1. i.manifest = <<>> /\ i.versions = <<>> /\ DOMAIN i.versions = {}
    <3>1. i.manifest = <<>> /\ i.versions = <<>>
      BY <1>1 DEF Nil
    <3> QED BY <3>1
  <2>2. Valid(<<>>)
    <3> DEFINE f == [o \in UNION {{d} \X DOMAIN (<<>>)[d] : d \in DOMAIN <<>>} |-> (<<>>)[o[1]][o[2]]]
    <3>1. AllPaths(<<>>) = Ordered(f)
      BY DEF AllPaths
    <3>2. DOMAIN f = {}
      OBVIOUS
    <3> HIDE DEF f
    <3>3. Cardinality(DOMAIN f) = 0
      BY <3>2, FS_EmptySet
    <3>4. DOMAIN Ordered(f) = {}
      BY <3>3 DEF Ordered
    <3>5. Ordered(f) = <<>>
      BY <3>3, <3>4 DEF Ordered
    <3>6. PathsErr(AllPaths(<<>>)) = "ok"
      BY <3>1, <3>5 DEF PathsErr
    <3> QED BY <3>6 DEF Valid, MapErr, DigestsConflict
  <2> QED BY <2>1, <2>2 DEF Sound, IsInventory
<1>2. CASE ValidInventory(i)
  BY <1>2, ValidInventoryMaps, StatesInManifest DEF Sound, IsInventory
<1> QED BY <1>1, <1>2 DEF Sound

-----------------------------------------------------------------------------
(* Stages *)

\* The stage has one source, a directory, whose lists are not empty.
IsTied(s) ==
    LET x == s.sources[1]
    IN  /\ s.sources = <<x>>
        /\ x = [kind |-> "dir", paths |-> x.paths, files |-> x.files, fix |-> x.fix]
        /\ \A d \in DOMAIN x.paths : DOMAIN x.paths[d] # {}

IsStage(s) ==
    /\ s = [state |-> s.state, alg |-> s.alg, sources |-> s.sources, alias |-> s.alias, tied |-> s.tied]
    /\ IsDigestMap(s.state)
    /\ s.sources \in Seq(Members(s.sources))
    /\ s.tied => IsTied(s)

Spellings(d) == {Digest(d[1], "lower"), Digest(d[1], "upper")}

\* Some source provides each digest of the state, perhaps in another spelling.
Supplied(state, sources) ==
    \A d \in DOMAIN state : \E i \in DOMAIN sources : \E e \in Spellings(d) : Provides(sources[i], e)

\* Whatever file a source names first for a digest has its content.
Truthful(source) ==
    \A d \in DOMAIN source.paths : source.paths[d] # <<>> =>
        /\ Clean(Head(source.paths[d])) \in DOMAIN source.files
        /\ source.files[Clean(Head(source.paths[d]))] = d[1]

AllTruthful(sources) == \A i \in DOMAIN sources : Truthful(sources[i])

\* The inductive invariant.  Sources look into the inventory of the handle, so what they
\* provide is known only as long as the stage was made for that inventory.
StagingInv ==
    /\ "shared" \notin misused => Sound(inv)
    /\ Bound => /\ InVersionDirs(inv) /\ files = Sums(inv.manifest)
                /\ IsStage(stage) /\ Supplied(stage.state, stage.sources)
                /\ "written" \notin misused => AllTruthful(stage.sources)

\* A list with one source.
LEMMA OneSource ==
    ASSUME NEW source
    PROVE  <<source>> \in Seq(Members(<<source>>)) /\ DOMAIN <<source>> = {1} /\ <<source>>[1] = source
<1>1. DOMAIN <<source>> = {1} /\ <<source>>[1] = source
  OBVIOUS
<1>2. source \in Members(<<source>>)
  BY <1>1 DEF Members
<1> QED BY <1>1, <1>2

\* The stages that StageDir, StageBytes and VersionStage return have what they need.
LEMMA AvailableIs ==
    ASSUME Sound(inv), NEW s \in Available
    PROVE  IsStage(s[1]) /\ Supplied(s[1].state, s[1].sources) /\ AllTruthful(s[1].sources)
<1>1. ASSUME NEW dir \in Dirs, s[1] = DirStage(dir, DOMAIN VisibleTree(dir.tree))
      PROVE  IsStage(s[1]) /\ Supplied(s[1].state, s[1].sources) /\ AllTruthful(s[1].sources)
  <2> DEFINE read == DOMAIN VisibleTree(dir.tree)
             pm == [p \in read |-> Digest(dir.tree[p], "lower")]
             m == DigestMapOf(pm)
             source == DirSource(dir, m)
  <2>1. s[1] = [state |-> m, alg |-> dir.alg, sources |-> <<source>>, alias |-> V(0, 0), tied |-> TRUE]
    BY <1>1 DEF DirStage
  <2>2. read \subseteq DOMAIN dir.tree /\ DOMAIN dir.tree \subseteq Path /\ IsFiniteSet(DOMAIN dir.tree)
    BY StagingAssumption DEF VisibleTree
  <2>3. /\ source = [kind |-> "dir", paths |-> source.paths, files |-> source.files, fix |-> source.fix]
        /\ source.kind = "dir" /\ source.paths = m /\ source.files = dir.tree
    BY DEF DirSource
  <2> HIDE DEF read, source
  <2>4. DOMAIN pm \subseteq Path /\ IsFiniteSet(DOMAIN pm)
    BY <2>2, FS_Subset
  <2>5. \A p \in DOMAIN pm : IsDigest(pm[p]) /\ pm[p][1] = dir.tree[p]
    BY DEF IsDigest, Digest
  <2>15. \A p \in DOMAIN pm : p \in DOMAIN dir.tree /\ ValidPath(p)
    BY <2>2, StagingAssumption
  <2>6. pm \in [DOMAIN pm -> Members(pm)]
    BY DEF Members
  <2> HIDE DEF pm
  <2>7. IsDigestMap(m) /\ DOMAIN m = Members(pm) /\ PathSet(m) = DOMAIN pm
        /\ \A p \in DOMAIN pm : DigestFor(m, p) = pm[p]
    BY <2>4, <2>5, <2>6, DigestMapOfIs
  <2>16. \A d \in DOMAIN m : \A p \in Members(m[d]) : p \in DOMAIN pm /\ pm[p] = d
    BY <2>4, <2>5, <2>6, DigestMapOfIs
  <2> HIDE DEF m
  <2>8. ASSUME NEW d \in DOMAIN m PROVE d \in Spellings(d) /\ DOMAIN m[d] # {}
    <3>1. PICK p \in DOMAIN pm : pm[p] = d
      BY <2>7 DEF Members
    <3>2. d \in Spellings(d)
      BY <2>5, <3>1 DEF IsDigest, Spellings
    <3>3. p \in Members(m[d])
      <4>1. DigestFor(m, p) \in DOMAIN m /\ p \in Members(m[DigestFor(m, p)])
        BY <2>7, PathSetIs
      <4> QED BY <2>7, <3>1, <4>1
    <3> QED BY <3>2, <3>3 DEF Members
  <2>9. \A d \in DOMAIN m : m[d] # <<>>
    <3>1. DOMAIN <<>> = {}
      OBVIOUS
    <3> QED BY <2>8, <3>1
  <2>10. s[1].state = m /\ s[1].sources = <<source>>
    BY <2>1
  <2>11. IsStage(s[1])
    <3>1. s[1] = [state |-> s[1].state, alg |-> s[1].alg, sources |-> s[1].sources, alias |-> s[1].alias,
                  tied |-> s[1].tied]
      BY <2>1
    <3>2. IsTied(s[1])
      BY <2>3, <2>8, <2>10, OneSource DEF IsTied
    <3> QED BY <2>7, <2>10, <3>1, <3>2, OneSource DEF IsStage
  <2>12. \A d \in DOMAIN m : d \in Spellings(d) /\ Provides(source, d)
    BY <2>3, <2>8, <2>9 DEF Provides, PathsOf
  <2>13. Supplied(m, <<source>>)
    BY <2>12, OneSource DEF Supplied
  <2>14. Truthful(source)
    <3> SUFFICES ASSUME NEW d \in DOMAIN m
                 PROVE  /\ Clean(Head(m[d])) \in DOMAIN dir.tree
                        /\ dir.tree[Clean(Head(m[d]))] = d[1]
      BY <2>3 DEF Truthful
    <3> DEFINE p == Head(m[d])
    <3>1. m[d] \in Seq(Path)
      BY <2>7 DEF IsDigestMap
    <3>2. p \in Members(m[d])
      BY <2>9, <3>1, HeadTailMembers
    <3> HIDE DEF p
    <3>3. p \in DOMAIN pm /\ pm[p] = d
      BY <2>7, <2>16, <3>2
    <3>4. Clean(p) = p
      BY <2>15, <3>3 DEF Clean
    <3> QED BY <2>5, <2>15, <3>3, <3>4 DEF p
  <2>17. AllTruthful(<<source>>)
    BY <2>14, OneSource DEF AllTruthful
  <2> QED BY <2>10, <2>11, <2>13, <2>17
<1>2. ASSUME NEW v \in DOMAIN inv.versions, s[1] = VersionStage(v)
      PROVE  IsStage(s[1]) /\ Supplied(s[1].state, s[1].sources) /\ AllTruthful(s[1].sources)
  <2> DEFINE m == inv.versions[v]
  <2>1. s[1] = [state |-> m, alg |-> inv.alg, sources |-> <<ObjectSource>>, alias |-> v, tied |-> FALSE]
    BY <1>2 DEF VersionStage
  <2>2. IsDigestMap(m) /\ \A d \in DOMAIN m : d \in DOMAIN inv.manifest /\ inv.manifest[d] # <<>>
    BY SoundMaps
  <2>3. ObjectSource.kind = "object" /\ DOMAIN ObjectSource.paths = {}
    BY DEF ObjectSource
  <2> HIDE DEF m
  <2>4. s[1].state = m /\ s[1].sources = <<ObjectSource>> /\ ~ s[1].tied
    BY <2>1
  <2>5. IsStage(s[1])
    <3>1. s[1] = [state |-> s[1].state, alg |-> s[1].alg, sources |-> s[1].sources, alias |-> s[1].alias,
                  tied |-> s[1].tied]
      BY <2>1
    <3> QED BY <2>2, <2>4, <3>1, OneSource DEF IsStage
  <2>6. \A d \in DOMAIN m : d \in Spellings(d) /\ Provides(ObjectSource, d)
    BY <2>2, <2>3 DEF Spellings, Provides, PathsOf, IsDigestMap
  <2>7. Supplied(m, <<ObjectSource>>)
    BY <2>6, OneSource DEF Supplied
  <2>8. AllTruthful(<<ObjectSource>>)
    BY <2>3, OneSource DEF AllTruthful, Truthful
  <2> QED BY <2>4, <2>5, <2>7, <2>8
<1>3. ASSUME NEW other \in Others, NEW v \in DOMAIN other.versions, s[1] = OtherStage(other, v)
      PROVE  IsStage(s[1]) /\ Supplied(s[1].state, s[1].sources) /\ AllTruthful(s[1].sources)
  <2> DEFINE m == other.versions[v]
             source == OtherSource(other)
  <2>1. s[1] = [state |-> m, alg |-> other.alg, sources |-> <<source>>, alias |-> V(0, 0), tied |-> FALSE]
    BY <1>3 DEF OtherStage
  <2>2. IsDigestMap(m) /\ \A d \in DOMAIN m : d \in DOMAIN other.manifest /\ other.manifest[d] # <<>>
    <3>1. Sound(other)
      BY StagingAssumption DEF Sound
    <3> QED BY <3>1, SoundMaps
  <2>9. IsDigestMap(other.manifest) /\ Valid(other.manifest)
    <3>1. Sound(other)
      BY StagingAssumption DEF Sound
    <3> QED BY <3>1, SoundMaps
  <2>3. source.kind = "other" /\ source.paths = other.manifest /\ source.files = Sums(other.manifest)
    BY DEF OtherSource, Files, Sums
  <2> HIDE DEF m, source
  <2>4. s[1].state = m /\ s[1].sources = <<source>> /\ ~ s[1].tied
    BY <2>1
  <2>5. IsStage(s[1])
    <3>1. s[1] = [state |-> s[1].state, alg |-> s[1].alg, sources |-> s[1].sources, alias |-> s[1].alias,
                  tied |-> s[1].tied]
      BY <2>1
    <3> QED BY <2>2, <2>4, <3>1, OneSource DEF IsStage
  <2>6. \A d \in DOMAIN m : d \in Spellings(d) /\ Provides(source, d)
    BY <2>2, <2>3 DEF Spellings, Provides, PathsOf, IsDigestMap
  <2>7. Supplied(m, <<source>>)
    BY <2>6, OneSource DEF Supplied
  <2>8. Truthful(source)
    <3> DEFINE n == other.manifest
    <3> SUFFICES ASSUME NEW d \in DOMAIN n, n[d] # <<>>
                 PROVE  /\ Clean(Head(n[d])) \in DOMAIN Sums(n)
                        /\ Sums(n)[Clean(Head(n[d]))] = d[1]
      BY <2>3 DEF Truthful
    <3> DEFINE p == Head(n[d])
    <3>1. n[d] \in Seq(Path)
      BY <2>9 DEF IsDigestMap
    <3> HIDE DEF n
    <3>2. p \in Members(n[d])
      BY <3>1, HeadTailMembers
    <3> HIDE DEF p
    <3>3. ValidPath(p) /\ DigestFor(n, p) = d /\ p \in PathSet(n)
      BY <2>9, <3>2, ValidMap, ValidDigestFor DEF n
    <3>4. Clean(p) = p
      BY <3>3 DEF Clean
    <3> QED BY <3>3, <3>4 DEF Sums, p
  <2>10. AllTruthful(<<source>>)
    BY <2>8, OneSource DEF AllTruthful
  <2> QED BY <2>4, <2>5, <2>7, <2>10
<1>4. \/ \E dir \in Dirs : s[1] = DirStage(dir, DOMAIN VisibleTree(dir.tree))
      \/ \E v \in DOMAIN inv.versions : s[1] = VersionStage(v)
      \/ \E other \in Others : \E v \in DOMAIN other.versions : s[1] = OtherStage(other, v)
  BY DEF Available
<1> QED BY <1>1, <1>2, <1>3, <1>4

\* What an update builds extends the inventory of the handle.
LEMMA NewInventoryExtends ==
    ASSUME StagingInv, Bound, NEW opts \in Options, NEW next, next = NewInventory(opts), Exists(next)
    PROVE  /\ Extends(inv, next, stage.state) /\ Valid(stage.state)
           /\ PathsInside(opts.contentPath, stage.state) => AddsInside(inv, next)
<1>1. next = Finalize(UpdateBuilder(inv, "obj", opts.spec, 0, opts.contentPath,
                                    GetFixity(stage.sources), stage.state, stage.alg))
  BY DEF NewInventory, UpdateBuilder
<1>2. IsInventory(inv) /\ IsDigestMap(stage.state)
  BY DEF StagingInv, Bound, Sound, IsStage
<1>3. IsMutation(opts.contentPath)
  BY StagingAssumption
<1>4. 0 \in Nat
  OBVIOUS
<1>5. Valid(stage.state)
  BY <1>1, FinalizeOne
<1> QED BY <1>1, <1>2, <1>3, <1>4, <1>5, UpdateExtends

\* contentSources.GetContent finds a source that provides a digest if there is one.
LEMMA ProviderIs ==
    ASSUME NEW sources, sources \in Seq(Members(sources)), NEW d
    PROVE  /\ Provider(sources, d) = 0 => \A i \in DOMAIN sources : ~ Provides(sources[i], d)
           /\ Provider(sources, d) # 0 => /\ Provider(sources, d) \in DOMAIN sources
                                          /\ Provides(sources[Provider(sources, d)], d)
<1> DEFINE T == {i \in DOMAIN sources : Provides(sources[i], d)}
<1>1. DOMAIN sources \subseteq Nat \ {0}
  OBVIOUS
<1>2. Provider(sources, d) = IF T = {} THEN 0 ELSE SE!Min(T)
  BY DEF Provider
<1>3. CASE T = {}
  BY <1>2, <1>3
<1>4. CASE T # {}
  <2>1. T \subseteq Nat
    BY <1>1
  <2> HIDE DEF T
  <2>2. \E x \in T : \A k \in T : x <= k
    BY <1>4, <2>1, LeastNat
  <2>3. SE!Min(T) \in T
    BY <2>2 DEF SE!Min
  <2> QED BY <1>1, <1>2, <1>4, <2>3 DEF T
<1> QED BY <1>3, <1>4

\* The content that an update has to copy: it is of a digest of the stage, and the object
\* has no file of that digest in either spelling.
LEMMA CopiedIsNew ==
    ASSUME StagingInv, Bound, NEW opts \in Options, NEW next, next = NewInventory(opts), Exists(next),
           NEW p \in DOMAIN VersionContent(next, next.head)
    PROVE  LET d == VersionContent(next, next.head)[p]
           IN  /\ \E d0 \in DOMAIN stage.state : d = NormalizeDigest(d0)
               /\ \A e \in DOMAIN inv.manifest : NormalizeDigest(e) # d
<1> DEFINE m == Normalize(inv.manifest)
           s == Normalize(stage.state)
           n == next.manifest
           d == DigestFor(n, p)
           fresh == FreshDigests(m, s)
<1>1. /\ Sound(inv) /\ InVersionDirs(inv) /\ IsStage(stage) /\ Supplied(stage.state, stage.sources)
      /\ Extends(inv, next, stage.state) /\ Valid(stage.state)
  BY NewInventoryExtends DEF StagingInv, Bound
<1>2. IsDigestMap(inv.manifest) /\ Valid(inv.manifest) /\ IsDigestMap(stage.state)
  BY <1>1, SoundMaps DEF IsStage
<1>3. p \in PathSet(n) /\ InVersionDir(p, next.head.num) /\ VersionContent(next, next.head)[p] = d
  BY DEF VersionContent, PathMap
<1>4. p \notin PathSet(inv.manifest)
  <2> SUFFICES ASSUME p \in PathSet(inv.manifest) PROVE FALSE
    OBVIOUS
  <2>1. PICK k \in 1..inv.head.num : InVersionDir(p, k)
    BY <1>1 DEF InVersionDirs
  <2>2. inv.head.num \in Nat /\ next.head.num = inv.head.num + 1
    BY <1>1 DEF Sound, IsInventory, VNum, Extends
  <2>3. p \in Path
    BY <1>2, PathSetFinite
  <2>4. k = next.head.num
    BY <1>3, <2>1, <2>2, <2>3, OneVersionDir
  <2> QED BY <2>1, <2>2, <2>4
<1>5. PathSet(m) = PathSet(inv.manifest)
  BY <1>2, NormalizeKeeps
<1>6. n = BuiltManifest(m, s, opts.contentPath, next.head)
  <2>1. next = Finalize(UpdateBuilder(inv, "obj", opts.spec, 0, opts.contentPath,
                                      GetFixity(stage.sources), stage.state, stage.alg))
    BY DEF NewInventory, UpdateBuilder
  <2> QED BY <2>1, FinalizeOne
<1> HIDE DEF m, s, n
<1>7. d \in DOMAIN n /\ p \in Members(n[d])
  BY <1>3, PathSetIs
<1> HIDE DEF d
<1>8. d \in fresh
  <2> SUFFICES ASSUME d \notin fresh PROVE FALSE
    OBVIOUS
  <2>1. d \in DOMAIN m /\ n[d] = m[d]
    BY <1>6, <1>7 DEF BuiltManifest
  <2> QED BY <1>4, <1>5, <1>7, <2>1, PathSetIs
<1>9. \E d0 \in DOMAIN stage.state : d = NormalizeDigest(d0)
  <2>1. d \in DOMAIN s
    BY <1>8 DEF FreshDigests
  <2>2. DOMAIN s = {NormalizeDigest(x) : x \in DOMAIN stage.state}
    BY <1>1, <1>2, NormalizeIs DEF s
  <2> QED BY <2>1, <2>2
<1>10. ASSUME NEW e \in DOMAIN inv.manifest, NormalizeDigest(e) = d PROVE FALSE
  <2>1. /\ d \in DOMAIN m
        /\ Members(m[d]) = Members(inv.manifest[e])
    BY <1>2, <1>10, NormalizeIs DEF m
  <2>2. Members(inv.manifest[e]) # {}
    <3>1. inv.manifest[e] \in Seq(Path) /\ inv.manifest[e] # <<>>
      BY <1>2, ValidMap DEF IsDigestMap
    <3> QED BY <3>1, HeadTailMembers
  <2>3. m[d] # <<>>
    <3>1. Members(<<>>) = {}
      BY DEF Members
    <3> QED BY <2>1, <2>2, <3>1
  <2> QED BY <1>8, <2>1, <2>3 DEF FreshDigests
<1> QED BY <1>3, <1>9, <1>10

\* As long as the sources agree with the files they name, what an update copies is the
\* content of the digest it looked up.
LEMMA CopiesWhatIsMeant ==
    ASSUME StagingInv, Bound, NEW opts \in Options, NEW next, next = NewInventory(opts), Exists(next),
           NEW p \in DOMAIN VersionContent(next, next.head), SourcesAgree,
           Provider(stage.sources, VersionContent(next, next.head)[p]) # 0
    PROVE  LET d == VersionContent(next, next.head)[p]
           IN  HasContent(stage.sources, d) /\ GetContent(stage.sources, d) = d[1]
<1> DEFINE d == VersionContent(next, next.head)[p]
           i == Provider(stage.sources, d)
           source == stage.sources[i]
<1>1. /\ \E d0 \in DOMAIN stage.state : d = NormalizeDigest(d0)
      /\ \A e \in DOMAIN inv.manifest : NormalizeDigest(e) # d
  BY CopiedIsNew
<1>2. stage.sources \in Seq(Members(stage.sources))
  BY DEF StagingInv, IsStage
<1>3. i # 0
  OBVIOUS
<1>4. HasContent(stage.sources, d) <=> i # 0 /\ SourcePath(source, d) \in DOMAIN FilesOf(source)
  BY DEF HasContent
<1>5. GetContent(stage.sources, d) = FilesOf(source)[SourcePath(source, d)]
  BY DEF GetContent
<1> HIDE DEF d
<1>6. i \in DOMAIN stage.sources /\ Provides(source, d)
  BY <1>2, <1>3, ProviderIs
<1> HIDE DEF i
<1>7. NormalizeDigest(d) = d
  BY <1>1 DEF NormalizeDigest, Digest
<1>8. source.kind # "object"
  BY <1>1, <1>6, <1>7 DEF Provides, PathsOf
<1>9. d \in DOMAIN source.paths /\ source.paths[d] # <<>>
  BY <1>6, <1>8 DEF Provides, PathsOf
<1>10. SourcePath(source, d) = Clean(Head(source.paths[d])) /\ FilesOf(source) = source.files
  BY <1>8 DEF SourcePath, PathsOf, FilesOf
<1>11. /\ Clean(Head(source.paths[d])) \in DOMAIN source.files
       /\ source.files[Clean(Head(source.paths[d]))] = d[1]
  BY <1>1, <1>6, <1>9 DEF SourcesAgree
<1> QED BY <1>3, <1>4, <1>5, <1>10, <1>11 DEF d

\* If a digest whose content is to be copied is not provided, and the sources agree with
\* the files they name, a source that is not the object itself spells it in upper case.
LEMMA MissingIsUpper ==
    ASSUME StagingInv, Bound, NEW opts \in Options, NEW next, next = NewInventory(opts), Exists(next),
           NEW p \in DOMAIN VersionContent(next, next.head), SourcesAgree,
           ~ HasContent(stage.sources, VersionContent(next, next.head)[p])
    PROVE  \E i \in DOMAIN stage.sources : \E d \in DOMAIN stage.sources[i].paths : d[2] = "upper"
<1> DEFINE d == VersionContent(next, next.head)[p]
<1>1. /\ \E d0 \in DOMAIN stage.state : d = NormalizeDigest(d0)
      /\ \A e \in DOMAIN inv.manifest : NormalizeDigest(e) # d
  BY CopiedIsNew
<1>2. Supplied(stage.state, stage.sources) /\ stage.sources \in Seq(Members(stage.sources))
  BY DEF StagingInv, IsStage
<1>3. Provider(stage.sources, d) = 0
  BY CopiesWhatIsMeant
<1> HIDE DEF d
<1>4. \A i \in DOMAIN stage.sources : ~ Provides(stage.sources[i], d)
  BY <1>2, <1>3, ProviderIs
<1>5. PICK d0 \in DOMAIN stage.state : d = NormalizeDigest(d0)
  BY <1>1
<1>6. PICK i \in DOMAIN stage.sources : \E e \in Spellings(d0) : Provides(stage.sources[i], e)
  BY <1>2 DEF Supplied
<1>7. PICK e \in Spellings(d0) : Provides(stage.sources[i], e)
  BY <1>6
<1>8. e # d
  BY <1>4, <1>7
<1>9. e = Digest(d0[1], "upper") /\ e[2] = "upper" /\ NormalizeDigest(e) = d
  BY <1>5, <1>8 DEF Spellings, Digest, NormalizeDigest
<1>10. stage.sources[i].kind # "object"
  BY <1>1, <1>7, <1>9 DEF Provides, PathsOf
<1>11. e \in DOMAIN stage.sources[i].paths
  BY <1>7, <1>10 DEF Provides, PathsOf
<1> QED BY <1>9, <1>11

-----------------------------------------------------------------------------
(* The steps *)

\* All that is shown to hold.
Kept == StagingInv /\ HistoryKept /\ ContentInPlace /\ ContentProvided

\* The files of a version are what its state maps paths to.
LEMMA FilesAreSums == \A m : Files(m) = Sums(m)
BY DEF Files, Sums

\* The empty inventory and the empty stage satisfy the invariant.
LEMMA StagingInit == Init => Kept
<1> SUFFICES ASSUME Init PROVE Kept
  OBVIOUS
<1>1. Sound(inv) /\ InVersionDirs(inv)
  BY StagingAssumption DEF Init, Sound
<1>2. stage.state = <<>> /\ stage.sources = <<>> /\ IsStage(stage)
  <2>1. /\ stage = [state |-> <<>>, alg |-> "", sources |-> <<>>, alias |-> V(0, 0), tied |-> FALSE]
        /\ stage.state = <<>> /\ stage.sources = <<>> /\ ~ stage.tied
    BY DEF Init, NoStage
  <2>2. IsDigestMap(<<>>)
    BY FS_EmptySet DEF IsDigestMap
  <2>3. <<>> \in Seq(Members(<<>>))
    OBVIOUS
  <2>4. stage = [state |-> stage.state, alg |-> stage.alg, sources |-> stage.sources, alias |-> stage.alias,
                 tied |-> stage.tied]
    BY <2>1
  <2> QED BY <2>1, <2>2, <2>3, <2>4 DEF IsStage
<1>3. Supplied(stage.state, stage.sources)
  BY <1>2 DEF Supplied
<1>4. HistoryKept
  BY DEF Init, HistoryKept
<1>5. ContentInPlace /\ ContentProvided /\ files = Sums(inv.manifest)
  BY DEF Init, ContentInPlace, ContentProvided, Sums
<1>6. AllTruthful(stage.sources)
  BY <1>2 DEF AllTruthful
<1> QED BY <1>1, <1>2, <1>3, <1>4, <1>5, <1>6 DEF Kept, StagingInv

\* A step that changes at most the stage.
LEMMA StageStep ==
    ASSUME Kept, Bound, UNCHANGED <<inv, files, stored>>, result' # "noContent",
           IsStage(stage'), Supplied(stage'.state, stage'.sources),
           "written" \notin misused' => AllTruthful(stage'.sources)
    PROVE  Kept'
<1>1. Sound(inv)' /\ InVersionDirs(inv)' /\ (files = Sums(inv.manifest))'
  BY DEF Kept, StagingInv, Bound
<1>2. Supplied(stage.state, stage.sources)'
  BY DEF Supplied, Provides, PathsOf
<1>3. StagingInv'
  BY <1>1, <1>2 DEF StagingInv, AllTruthful, Truthful
<1>4. HistoryKept'
  BY DEF Kept, HistoryKept, Bound
<1>5. ContentInPlace' /\ ContentProvided'
  BY <1>1 DEF ContentInPlace, ContentProvided, Sums
<1> QED BY <1>3, <1>4, <1>5 DEF Kept

\* stage.go, Overlay: laying one stage over another keeps the invariant.
LEMMA OverlayStep ==
    ASSUME Kept, NEW s \in Available, Overlay(s[1], s[2]) \/ OverlayFails(s[1])
    PROVE  Kept'
<1> DEFINE over == s[1]
<1>1. /\ Bound /\ UNCHANGED <<inv, files, stored>> /\ result' # "noContent"
      /\ "written" \notin misused' => "written" \notin misused
  BY DEF Overlay, OverlayFails
<1>2. /\ Sound(inv) /\ IsStage(stage) /\ Supplied(stage.state, stage.sources)
      /\ "written" \notin misused' => AllTruthful(stage.sources)
  BY <1>1 DEF Kept, StagingInv, Bound
<1>3. IsStage(over) /\ Supplied(over.state, over.sources) /\ AllTruthful(over.sources)
  BY <1>2, AvailableIs
<1> HIDE DEF over
<1>4. CASE Overlay(s[1], s[2])
  <2> DEFINE M == Merged(stage.state, over.state)
             S == stage.sources \o over.sources
             A == Members(stage.sources) \cup Members(over.sources)
  <2>1. /\ MergeOk(stage.state, over.state, TRUE)
        /\ stage' = [stage EXCEPT !.state = M, !.sources = S, !.alias = V(0, 0), !.tied = FALSE]
    BY <1>4 DEF Overlay, OverlaySources, over
  <2>2. /\ IsDigestMap(M)
        /\ \A d \in DOMAIN M : \E e \in DOMAIN stage.state \cup DOMAIN over.state : d = NormalizeDigest(e)
    <3>1. Valid(stage.state) /\ Valid(over.state)
      BY <2>1 DEF MergeOk
    <3> QED BY <1>2, <1>3, <3>1, MergedIs DEF IsStage
  <2>3. stage.sources \in Seq(A) /\ over.sources \in Seq(A)
    <3>1. stage.sources \in Seq(Members(stage.sources)) /\ over.sources \in Seq(Members(over.sources))
      BY <1>2, <1>3 DEF IsStage
    <3> QED BY <3>1
  <2>4. S \in Seq(A) /\ Members(S) = A
    <3> HIDE DEF A
    <3>1. Members(S) = Members(stage.sources) \cup Members(over.sources)
      BY <2>3, ConcatMembers
    <3> QED BY <2>3, <3>1, ConcatProperties DEF A
  <2> HIDE DEF M, S
  <2>5. stage' = [state |-> M, alg |-> stage.alg, sources |-> S, alias |-> V(0, 0), tied |-> FALSE]
    BY <1>2, <2>1 DEF IsStage
  <2>6. stage'.state = M /\ stage'.sources = S /\ ~ stage'.tied
    BY <2>5
  <2>7. IsStage(stage')
    <3>1. stage' = [state |-> stage'.state, alg |-> stage'.alg, sources |-> stage'.sources, alias |-> stage'.alias,
                    tied |-> stage'.tied]
      BY <2>5
    <3> QED BY <2>2, <2>4, <2>6, <3>1 DEF IsStage
  <2>8. Supplied(M, S)
    <3> SUFFICES ASSUME NEW d \in DOMAIN M
                 PROVE  \E i \in DOMAIN S : \E e \in Spellings(d) : Provides(S[i], e)
      BY DEF Supplied
    <3>1. PICK e \in DOMAIN stage.state \cup DOMAIN over.state : d = NormalizeDigest(e)
      BY <2>2
    <3>2. Spellings(e) = Spellings(d)
      BY <3>1 DEF Spellings, NormalizeDigest, Digest
    <3>3. PICK x \in Members(stage.sources) \cup Members(over.sources) : \E f \in Spellings(e) : Provides(x, f)
      BY <1>2, <1>3, <3>1 DEF Supplied, Members
    <3>4. PICK i \in DOMAIN S : x = S[i]
      BY <2>4, <3>3 DEF Members
    <3> QED BY <3>2, <3>3, <3>4
  <2>9. ASSUME "written" \notin misused', NEW i \in DOMAIN S PROVE Truthful(S[i])
    <3>1. S[i] \in Members(stage.sources) \cup Members(over.sources)
      BY <2>4 DEF Members
    <3> QED BY <1>2, <1>3, <2>9, <3>1 DEF AllTruthful, Members
  <2> QED BY <1>1, <2>6, <2>7, <2>8, <2>9, StageStep DEF AllTruthful
<1>5. CASE OverlayFails(s[1])
  <2>1. CASE UNCHANGED stage
    BY <1>1, <1>2, <2>1, StageStep
  <2>2. CASE stage' = [stage EXCEPT !.state = <<>>, !.alias = V(0, 0), !.tied = FALSE]
    <3>1. stage' = [state |-> <<>>, alg |-> stage.alg, sources |-> stage.sources, alias |-> V(0, 0), tied |-> FALSE]
      BY <1>2, <2>2 DEF IsStage
    <3>2. stage'.state = <<>> /\ stage'.sources = stage.sources /\ ~ stage'.tied
      BY <3>1
    <3>3. IsDigestMap(<<>>)
      BY FS_EmptySet DEF IsDigestMap
    <3>4. IsStage(stage')
      <4>1. stage' = [state |-> stage'.state, alg |-> stage'.alg, sources |-> stage'.sources, alias |-> stage'.alias,
                      tied |-> stage'.tied]
        BY <3>1
      <4> QED BY <1>2, <3>2, <3>3, <4>1 DEF IsStage
    <3>5. Supplied(stage'.state, stage'.sources)
      BY <3>2 DEF Supplied
    <3> QED BY <1>1, <1>2, <3>2, <3>4, <3>5, StageStep
  <2> QED BY <1>5, <2>1, <2>2 DEF OverlayFails
<1> QED BY <1>4, <1>5

\* A mutation that writes into the lists of the source leaves as many paths in each.
LEMMA MutatedSourcesAre ==
    ASSUME IsStage(stage), NEW m, NEW sources, sources = MutatedSources(m)
    PROVE  /\ sources \in Seq(Members(sources))
           /\ stage.tied => \A s : s.sources = sources => IsTied(s)
           /\ DOMAIN sources = DOMAIN stage.sources
           /\ \A i \in DOMAIN sources : \A d : Provides(stage.sources[i], d) => Provides(sources[i], d)
<1>1. CASE ~ stage.tied
  BY <1>1 DEF MutatedSources, IsStage
<1>2. CASE stage.tied
  <2> DEFINE x == stage.sources[1]
             W == WrittenLists(x.paths, m)
             y == [kind |-> "dir", paths |-> W, files |-> x.files, fix |-> x.fix]
  <2>1. /\ stage.sources = <<x>>
        /\ x = [kind |-> "dir", paths |-> x.paths, files |-> x.files, fix |-> x.fix]
        /\ \A d \in DOMAIN x.paths : DOMAIN x.paths[d] # {}
    BY <1>2 DEF IsStage, IsTied
  <2>2. DOMAIN W = DOMAIN x.paths /\ \A d \in DOMAIN W : DOMAIN W[d] = DOMAIN x.paths[d]
    BY DEF WrittenLists
  <2>3. sources = [stage.sources EXCEPT ![1].paths = W]
    BY <1>2 DEF MutatedSources
  <2> HIDE DEF W, x
  <2>4. [x EXCEPT !.paths = W] = y
    BY <2>1
  <2>5. [stage.sources EXCEPT ![1].paths = W] = <<[x EXCEPT !.paths = W]>>
    BY <2>1
  <2>6. sources = <<y>>
    BY <2>3, <2>4, <2>5
  <2>7. y.kind = "dir" /\ y.paths = W /\ y = [kind |-> "dir", paths |-> y.paths, files |-> y.files, fix |-> y.fix]
    OBVIOUS
  <2>8. x.kind = "dir"
    BY <2>1
  <2> HIDE DEF y
  <2>9. sources \in Seq(Members(sources)) /\ DOMAIN sources = {1} /\ sources[1] = y
    BY <2>6, OneSource
  <2>10. DOMAIN stage.sources = {1} /\ stage.sources[1] = x
    BY <2>1, OneSource
  <2>11. ASSUME NEW d, Provides(x, d) PROVE Provides(y, d)
    <3>1. d \in DOMAIN W /\ DOMAIN W[d] # {}
      BY <2>1, <2>2, <2>8, <2>11 DEF Provides, PathsOf
    <3>2. W[d] # <<>>
      BY <3>1
    <3> QED BY <2>7, <3>1, <3>2 DEF Provides, PathsOf
  <2>12. ASSUME NEW s, s.sources = sources PROVE IsTied(s)
    BY <2>1, <2>2, <2>6, <2>7, <2>9, <2>12 DEF IsTied
  <2> QED BY <2>9, <2>10, <2>11, <2>12
<1> QED BY <1>1, <1>2

\* inventory.go: renaming or removing paths in the stage keeps the invariant.
LEMMA MutateStep ==
    ASSUME Kept, NEW m \in Mutations, MutateStage(m)
    PROVE  Kept'
<1> DEFINE mutated == Mutate(stage.state, m)
           sources == MutatedSources(m)
           shared == stage.alias.num > 0
<1>1. /\ Bound /\ stage' = [stage EXCEPT !.state = mutated, !.sources = sources]
      /\ inv' = IF shared THEN [inv EXCEPT !.versions[stage.alias] = mutated] ELSE inv
      /\ shared => "shared" \in misused'
      /\ "written" \notin misused' => ~ stage.tied /\ "written" \notin misused
      /\ result' = "ok" /\ UNCHANGED <<files, stored>>
  BY DEF MutateStage, Err
<1>7. "written" \notin misused' => AllTruthful(sources)
  BY <1>1 DEF Kept, StagingInv, MutatedSources
<1>2. /\ Sound(inv) /\ IsStage(stage) /\ Supplied(stage.state, stage.sources)
      /\ files = Sums(inv.manifest)
  BY <1>1 DEF Kept, StagingInv, Bound
<1>3. IsDigestMap(mutated) /\ DOMAIN mutated \subseteq DOMAIN stage.state
  BY <1>2, MutateIs, StagingAssumption DEF IsStage
<1>6. /\ sources \in Seq(Members(sources))
      /\ stage.tied => \A s : s.sources = sources => IsTied(s)
      /\ DOMAIN sources = DOMAIN stage.sources
      /\ \A i \in DOMAIN sources : \A d : Provides(stage.sources[i], d) => Provides(sources[i], d)
  BY <1>2, MutatedSourcesAre
<1> HIDE DEF mutated, shared, sources
<1>4. CASE shared
  <2>1. inv'.manifest = inv.manifest
    <3>1. "manifest" \in DOMAIN inv
      BY <1>2 DEF Sound, IsInventory, Nil
    <3> QED BY <1>1, <1>4, <3>1
  <2>2. "shared" \in misused' /\ ~ Bound'
    BY <1>1, <1>4 DEF Bound
  <2>3. ContentInPlace'
    BY <1>1, <1>2, <2>1 DEF ContentInPlace, Sums
  <2>4. ContentProvided'
    BY <1>1 DEF ContentProvided
  <2> QED BY <2>2, <2>3, <2>4 DEF Kept, StagingInv, HistoryKept
<1>5. CASE ~ shared
  <2>1. stage' = [state |-> mutated, alg |-> stage.alg, sources |-> sources, alias |-> stage.alias,
                  tied |-> stage.tied]
    BY <1>1, <1>2 DEF IsStage
  <2>2. stage'.state = mutated /\ stage'.sources = sources /\ stage'.tied = stage.tied
    BY <2>1
  <2>3. IsStage(stage')
    <3>1. stage' = [state |-> stage'.state, alg |-> stage'.alg, sources |-> stage'.sources, alias |-> stage'.alias,
                    tied |-> stage'.tied]
      BY <2>1
    <3>2. stage'.tied => IsTied(stage')
      BY <1>6, <2>2
    <3> QED BY <1>3, <1>6, <2>2, <3>1, <3>2 DEF IsStage
  <2>4. Supplied(stage'.state, stage'.sources)
    BY <1>2, <1>3, <1>6, <2>2 DEF Supplied
  <2> QED BY <1>1, <1>5, <1>7, <2>2, <2>3, <2>4, StageStep
<1> QED BY <1>4, <1>5

\* The plan of an update has run.
LEMMA UpdatedStep ==
    ASSUME Kept, NEW opts \in Options, NEW next, next = NewInventory(opts), Exists(next),
           Bound, Updated(next, VersionContent(next, next.head)),
           \A p \in DOMAIN VersionContent(next, next.head) :
               HasContent(stage.sources, VersionContent(next, next.head)[p]),
           result' \in {"updated", "updatedAnyway"},
           "source" \notin misused' => SourcesAgree,
           "outside" \notin misused' => PathsInside(opts.contentPath, stage.state)
    PROVE  Kept'
<1> DEFINE content == VersionContent(next, next.head)
           n == next.manifest
           p0 == PathSet(inv.manifest)
           copied == [p \in DOMAIN content |-> GetContent(stage.sources, content[p])]
<1>1. StagingInv /\ HistoryKept /\ "shared" \notin misused /\ files = Sums(inv.manifest)
  BY DEF Kept, StagingInv, Bound
<1>2. /\ Sound(inv) /\ Extends(inv, next, stage.state) /\ Valid(stage.state) /\ IsDigestMap(stage.state)
      /\ PathsInside(opts.contentPath, stage.state) => AddsInside(inv, next)
  BY <1>1, NewInventoryExtends DEF StagingInv, IsStage, Bound
<1>3. /\ inv' = next
      /\ files' = [p \in DOMAIN files \cup DOMAIN content |->
                      IF p \in DOMAIN content THEN copied[p] ELSE files[p]]
      /\ stored' = [v \in DOMAIN next.versions |->
                       IF v = next.head THEN Files(stage.state) ELSE stored[v]]
  BY DEF Updated
<1>4. StagingInv'
  <2>1. Sound(next)
    BY <1>2 DEF Sound, Extends
  <2> QED BY <1>3, <2>1 DEF StagingInv, Bound
<1>5. HistoryKept'
  <2>1. DOMAIN stored' = DOMAIN next.versions
    BY <1>3
  <2>2. ASSUME NEW v \in DOMAIN next.versions PROVE Files(next.versions[v]) = stored'[v]
    <3>1. CASE v = next.head
      <4>1. Files(Normalize(stage.state)) = Files(stage.state)
        BY <1>2, NormalizeKeeps, FilesAreSums
      <4> QED BY <1>2, <1>3, <3>1, <4>1 DEF Extends
    <3>2. CASE v # next.head
      <4>1. v \in DOMAIN inv.versions /\ next.versions[v] = Normalize(inv.versions[v])
        BY <1>2, <3>2 DEF Extends
      <4>2. IsDigestMap(inv.versions[v]) /\ Valid(inv.versions[v])
        BY <1>2, <4>1, SoundMaps
      <4>3. Files(Normalize(inv.versions[v])) = Files(inv.versions[v])
        BY <4>2, NormalizeKeeps, FilesAreSums
      <4>4. Files(inv.versions[v]) = stored[v]
        BY <1>1, <4>1 DEF HistoryKept
      <4> QED BY <1>3, <3>2, <4>1, <4>3, <4>4
    <3> QED BY <3>1, <3>2
  <2> QED BY <1>3, <2>1, <2>2 DEF HistoryKept
<1>6. ASSUME misused' \cap {"source", "outside"} = {} PROVE ContentInPlace'
  <2>0. SourcesAgree /\ AddsInside(inv, next)
    BY <1>2, <1>6
  <2>1. DOMAIN files = p0 /\ \A p \in p0 : files[p] = Sums(inv.manifest)[p]
    BY <1>1 DEF Sums
  <2>2. content = [p \in {q \in PathSet(n) : InVersionDir(q, next.head.num)} |-> DigestFor(n, p)]
    <3>1. PathMap(n) = [p \in PathSet(n) |-> DigestFor(n, p)]
      BY DEF PathMap
    <3> QED BY <3>1 DEF VersionContent
  <2>3. /\ DOMAIN content = {q \in PathSet(n) : InVersionDir(q, next.head.num)}
        /\ \A p \in DOMAIN content : content[p][1] = Sums(n)[p]
    BY <2>2 DEF Sums
  <2>4. p0 \subseteq PathSet(n) /\ (\A p \in p0 : Sums(n)[p] = Sums(inv.manifest)[p])
        /\ \A p \in PathSet(n) \ p0 : InVersionDir(p, next.head.num)
    BY <1>2, <2>0 DEF Extends, AddsInside
  <2>8. \A p \in DOMAIN content : copied[p] = content[p][1]
    <3>1. \A p \in DOMAIN content : Provider(stage.sources, content[p]) # 0
      BY DEF HasContent
    <3> QED BY <1>1, <2>0, <3>1, CopiesWhatIsMeant
  <2> HIDE DEF content, n, p0, copied
  <2>5. p0 \cup DOMAIN content = PathSet(n)
    BY <2>3, <2>4
  <2>6. files' = [p \in PathSet(n) |-> Sums(n)[p]]
    BY <1>3, <2>1, <2>3, <2>4, <2>5, <2>8
  <2>7. files' = Sums(n)
    BY <2>6 DEF Sums
  <2> QED BY <1>3, <2>7 DEF ContentInPlace, Sums, n
<1>8. ContentInPlace'
  BY <1>6 DEF ContentInPlace
<1>7. ContentProvided'
  BY DEF ContentProvided
<1> QED BY <1>4, <1>5, <1>8, <1>7 DEF Kept

\* What an update records of the stage and the option it was made with.
LEMMA UpdateRecords ==
    ASSUME StagingInv, NEW opts, Update(opts)
    PROVE  /\ "shared" \in misused' <=> "shared" \in misused
           /\ "written" \in misused' <=> "written" \in misused
           /\ "source" \notin misused' => SourcesAgree
           /\ "outside" \notin misused' => PathsInside(opts.contentPath, stage.state)
<1>1. misused' = (misused \ {"source", "outside"})
                 \cup Err("source", "written" \in misused /\ ~SourcesAgree)
                 \cup Err("outside", ~PathsInside(opts.contentPath, stage.state))
  BY DEF Update, UpdateTo
<1>2. AllTruthful(stage.sources) => SourcesAgree
  BY DEF AllTruthful, Truthful, SourcesAgree
<1>3. "written" \notin misused => SourcesAgree
  BY <1>2 DEF StagingInv, Update, UpdateTo
<1> QED BY <1>1, <1>3 DEF Err

\* Object.Update: adding the staged version keeps the invariant.
LEMMA UpdateStep ==
    ASSUME Kept, NEW opts \in Options, Update(opts)
    PROVE  Kept'
<1> DEFINE next == NewInventory(opts)
           content == VersionContent(next, next.head)
           provided == \A p \in DOMAIN content : HasContent(stage.sources, content[p])
           refused == UNCHANGED <<inv, files, stored, stage>>
<1>1. /\ Bound
      /\ \/ refused /\ result' \in {"err", "unchanged"}
         \/ Exists(next) /\ refused /\ ~ provided /\ result' = "noContent"
         \/ Exists(next) /\ provided /\ Updated(next, content) /\ result' \in {"updated", "updatedAnyway"}
  BY DEF Update, UpdateTo
<1>2. /\ StagingInv /\ IsStage(stage) /\ Supplied(stage.state, stage.sources)
      /\ files = Sums(inv.manifest)
      /\ "written" \notin misused => AllTruthful(stage.sources)
  BY <1>1 DEF Kept, StagingInv
<1>6. /\ "source" \notin misused' => SourcesAgree
      /\ "outside" \notin misused' => PathsInside(opts.contentPath, stage.state)
      /\ "shared" \in misused' <=> "shared" \in misused
      /\ "written" \in misused' <=> "written" \in misused
  BY <1>2, UpdateRecords
<1>3. CASE refused /\ result' \in {"err", "unchanged"}
  BY <1>1, <1>2, <1>3, <1>6, StageStep
<1>4. CASE Exists(next) /\ refused /\ ~ provided /\ result' = "noContent"
  <2> HIDE DEF next
  <2>1. PICK p \in DOMAIN content : ~ HasContent(stage.sources, content[p])
    BY <1>4
  <2>2. SourcesAgree => \E i \in DOMAIN stage.sources : \E d \in DOMAIN stage.sources[i].paths : d[2] = "upper"
    BY <1>1, <1>2, <1>4, <2>1, MissingIsUpper DEF next
  <2>3. ContentProvided'
    BY <1>4, <1>6, <2>2 DEF ContentProvided
  <2>4. StagingInv'
    <3>1. Supplied(stage.state, stage.sources)'
      BY <1>2, <1>4 DEF Supplied, Provides, PathsOf
    <3>2. IsStage(stage') /\ inv' = inv /\ files' = files
      BY <1>2, <1>4
    <3>3. stage' = stage
      BY <1>4
    <3> QED BY <1>1, <1>2, <1>6, <3>1, <3>2, <3>3 DEF StagingInv, Bound, AllTruthful, Truthful
  <2>5. HistoryKept' /\ ContentInPlace'
    BY <1>1, <1>2, <1>4, <1>6 DEF Kept, HistoryKept, ContentInPlace, Sums
  <2> QED BY <2>3, <2>4, <2>5 DEF Kept
<1>5. CASE Exists(next) /\ provided /\ Updated(next, content) /\ result' \in {"updated", "updatedAnyway"}
  <2> HIDE DEF next
  <2> QED BY <1>1, <1>5, <1>6, UpdatedStep DEF next
<1> HIDE DEF provided, refused, content, next
<1> QED BY <1>1, <1>3, <1>4, <1>5

\* The invariant is inductive.
LEMMA StagingNext == Kept /\ [Next]_vars => Kept'
<1> SUFFICES ASSUME Kept, [Next]_vars PROVE Kept'
  OBVIOUS
<1>1. CASE NewStage
  <2>1. PICK s \in Available : stage' = s[1]
    BY <1>1 DEF NewStage
  <2>2. Bound /\ UNCHANGED <<inv, files, stored>> /\ result' # "noContent"
    BY <1>1 DEF NewStage
  <2>3. IsStage(s[1]) /\ Supplied(s[1].state, s[1].sources) /\ AllTruthful(s[1].sources)
    BY <2>2, AvailableIs DEF Kept, StagingInv, Bound
  <2> QED BY <2>1, <2>2, <2>3, StageStep
<1>2. ASSUME NEW dir \in Dirs, NEW read, StageDirFails(dir, read) PROVE Kept'
  <2>1. Bound /\ UNCHANGED <<inv, files, stored, stage, misused>> /\ result' # "noContent"
    BY <1>2 DEF StageDirFails
  <2>2. /\ IsStage(stage') /\ Supplied(stage'.state, stage'.sources)
        /\ "written" \notin misused' => AllTruthful(stage'.sources)
    BY <2>1 DEF Kept, StagingInv
  <2> QED BY <2>1, <2>2, StageStep
<1>3. CASE UNCHANGED vars
  <2>1. UNCHANGED <<inv, files, stored, stage, result, misused>>
    BY <1>3 DEF vars
  <2>2. StagingInv'
    BY <2>1 DEF Kept, StagingInv, Bound, Supplied, Provides, PathsOf, AllTruthful, Truthful
  <2> QED BY <2>1, <2>2 DEF Kept, HistoryKept, ContentInPlace, ContentProvided
<1> QED BY <1>1, <1>2, <1>3, OverlayStep, MutateStep, UpdateStep DEF Next

\* However stages are made, overlaid and mutated, and whatever an object is updated with:
\* no update loses or changes a version that was stored before (buildVersions, Normalize).
THEOREM VersionsAreKept == Spec => []HistoryKept
<1>1. Kept => HistoryKept
  BY DEF Kept
<1> QED BY <1>1, StagingInit, StagingNext, PTL DEF Spec

\* The object directory holds exactly the files its manifest names, each with the content
\* of its digest (versionContent): for every update whose sources still name the files that
\* were digested and whose content path leads out of no directory, however the stage was made.
THEOREM ContentIsInPlace == Spec => []ContentInPlace
<1>1. Kept => ContentInPlace
  BY DEF Kept
<1> QED BY <1>1, StagingInit, StagingNext, PTL DEF Spec

\* An update that finds its content missing has a source that spells digests in upper case,
\* or one whose lists a Mutate made name other files than were digested: a stage provides
\* everything else (contentSources, Overlay, Mutate).
THEOREM ContentIsProvided == Spec => []ContentProvided
<1>1. Kept => ContentProvided
  BY DEF Kept
<1> QED BY <1>1, StagingInit, StagingNext, PTL DEF Spec

-----------------------------------------------------------------------------
(* Reading versions back *)

\* Each file of each stored version opens with the content it was stored with, and no
\* other name is a file: the part of VersionReadsBack that is about files.
FilesReadBack ==
    misused \cap {"shared", "source", "outside"} = {} =>
        \A v \in DOMAIN stored :
            /\ DOMAIN VersionFS(v) = DOMAIN stored[v]
            /\ \A p \in DOMAIN stored[v] :
                  Open(VersionFS(v), p) = [kind |-> "file", data |-> stored[v][p]]

\* A version that was added is kept with the files it was added with.
LEMMA KeptReadsBack == Kept => FilesReadBack
<1> SUFFICES ASSUME Kept, misused \cap {"shared", "source", "outside"} = {}, NEW v \in DOMAIN stored
             PROVE  /\ DOMAIN VersionFS(v) = DOMAIN stored[v]
                    /\ \A p \in DOMAIN stored[v] :
                          Open(VersionFS(v), p) = [kind |-> "file", data |-> stored[v][p]]
  BY DEF FilesReadBack
<1> DEFINE m == inv.versions[v]
           names == VersionFS(v)
<1>1. Sound(inv) /\ v \in DOMAIN inv.versions /\ stored[v] = Sums(m)
  BY FilesAreSums DEF Kept, StagingInv, HistoryKept
<1>2. /\ IsDigestMap(inv.manifest) /\ Valid(inv.manifest)
      /\ \A d \in DOMAIN m : d \in DOMAIN inv.manifest /\ inv.manifest[d] # <<>>
  BY <1>1, SoundMaps
<1>3. names = [p \in PathSet(m) |-> Head(inv.manifest[DigestFor(m, p)])]
  BY DEF VersionFS
<1>4. files = Sums(inv.manifest)
  BY DEF Kept, ContentInPlace, Sums
<1> HIDE DEF m, names
<1>5. DOMAIN stored[v] = PathSet(m) /\ \A p \in PathSet(m) : stored[v][p] = DigestFor(m, p)[1]
  BY <1>1 DEF Sums
<1>6. ASSUME NEW p \in PathSet(m)
      PROVE  names[p] \in DOMAIN files /\ files[names[p]] = DigestFor(m, p)[1]
  <2> DEFINE d == DigestFor(m, p)
             c == Head(inv.manifest[d])
  <2>1. d \in DOMAIN m
    BY PathSetIs
  <2> HIDE DEF d
  <2>2. d \in DOMAIN inv.manifest /\ inv.manifest[d] \in Seq(Path) /\ inv.manifest[d] # <<>>
    BY <1>2, <2>1 DEF IsDigestMap
  <2>3. c \in Members(inv.manifest[d])
    BY <2>2, HeadTailMembers
  <2> HIDE DEF c
  <2>4. DigestFor(inv.manifest, c) = d /\ c \in PathSet(inv.manifest)
    BY <1>2, <2>2, <2>3, ValidDigestFor
  <2>5. names[p] = c
    BY <1>3 DEF c, d
  <2> QED BY <1>4, <2>4, <2>5 DEF Sums, d
<1>7. DOMAIN names = PathSet(m)
  BY <1>3
<1>8. ASSUME NEW p \in PathSet(m) PROVE Open(names, p) = [kind |-> "file", data |-> stored[v][p]]
  BY <1>5, <1>6, <1>7 DEF Open
<1> QED BY <1>5, <1>7, <1>8 DEF names

\* Every version, whichever versions' directories its content is in, reads back with the
\* files it was stored with (VersionFS, LogicalFS.Open), unless the update that stored the
\* head copied from a source that no longer names the files that were digested, or had a
\* content path that leads out of the version directory.
THEOREM VersionFilesReadBack == Spec => []FilesReadBack
BY KeptReadsBack, StagingInit, StagingNext, PTL DEF Spec

-----------------------------------------------------------------------------
(* DigestMap.Eq *)

\* Sorting a list without duplicates depends only on what is in it.
LEMMA OrderedOnce ==
    ASSUME NEW f, IsListing(f), \A o, q \in DOMAIN f : f[o] = f[q] => o = q
    PROVE  Ordered(f) = SortedSet(Members(f))
<1> DEFINE S == Members(f)
           g == [p \in S |-> p]
<1>1. /\ f \in [DOMAIN f -> S] /\ IsFiniteSet(DOMAIN f)
      /\ \A p \in S : \E o \in DOMAIN f : p = f[o]
  BY DEF IsListing, Members
<1>2. DOMAIN g = S /\ SE!Range(g) = S /\ SE!Range(f) = S
  BY ToSetIsMembers DEF Members
<1>3. ASSUME NEW A, A \in SUBSET DOMAIN f, NEW B, B = {p \in S : \E o \in A : p = f[o]}
      PROVE  Cardinality(A) = Cardinality(B)
  <2>1. IsFiniteSet(A)
    BY <1>1, <1>3, FS_Subset
  <2> DEFINE h == [o \in A |-> f[o]]
  <2>2. h \in Bijection(A, B)
    <3>1. h \in [A -> B]
      BY <1>1, <1>3
    <3>2. \A o, q \in A : h[o] = h[q] => o = q
      BY <1>3
    <3>3. \A p \in B : \E o \in A : h[o] = p
      BY <1>3
    <3> HIDE DEF h
    <3> QED BY <3>1, <3>2, <3>3 DEF Bijection, Injection, Surjection, IsInjective
  <2> HIDE DEF h
  <2> QED BY <2>1, <2>2, FS_Bijection DEF ExistsBijection
<1> HIDE DEF S
<1>4. Cardinality(DOMAIN f) = Cardinality(S)
  <2>1. S = {p \in S : \E o \in DOMAIN f : p = f[o]}
    BY <1>1
  <2> QED BY <1>3, <2>1
<1>5. ASSUME NEW p
      PROVE  /\ Cardinality(OccurBefore(f, p)) = Cardinality(OccurBefore(g, p))
             /\ Cardinality(OccurUpTo(f, p)) = Cardinality(OccurUpTo(g, p))
  <2>1. OccurBefore(f, p) \in SUBSET DOMAIN f /\ OccurUpTo(f, p) \in SUBSET DOMAIN f
    BY DEF OccurBefore, OccurUpTo
  <2>2. OccurBefore(g, p) = {q \in S : \E o \in OccurBefore(f, p) : q = f[o]}
    BY <1>1 DEF OccurBefore
  <2>3. OccurUpTo(g, p) = {q \in S : \E o \in OccurUpTo(f, p) : q = f[o]}
    BY <1>1 DEF OccurUpTo
  <2> QED BY <1>3, <2>1, <2>2, <2>3
<1> HIDE DEF g
<1>6. Ordered(f) = Ordered(g)
  BY <1>2, <1>4, <1>5 DEF Ordered
<1> QED BY <1>6 DEF SortedSet, g, S

\* The lists of a normalized map are determined by which paths have which digest.
LEMMA NormalizedList ==
    ASSUME NEW m, IsDigestMap(m), Valid(m)
    PROVE  /\ \A d \in DOMAIN Normalize(m) :
                 /\ d = Digest(d[1], "lower")
                 /\ \E p \in PathSet(m) : Sums(m)[p] = d[1]
                 /\ Normalize(m)[d] = SortedSet({p \in PathSet(m) : Sums(m)[p] = d[1]})
           /\ \A p \in PathSet(m) : Digest(Sums(m)[p], "lower") \in DOMAIN Normalize(m)
<1> DEFINE n == Normalize(m)
<1>1. /\ DOMAIN n = {NormalizeDigest(d) : d \in DOMAIN m}
      /\ \A d \in DOMAIN m : n[NormalizeDigest(d)] = Sorted(m[d])
  BY NormalizeIs
<1> HIDE DEF n
<1>2. ASSUME NEW d \in DOMAIN m
      PROVE  /\ \E p \in PathSet(m) : Sums(m)[p] = d[1]
             /\ Members(m[d]) = {p \in PathSet(m) : Sums(m)[p] = d[1]}
  <2>1. \A p \in Members(m[d]) : p \in PathSet(m) /\ Sums(m)[p] = d[1]
    BY ValidDigestFor DEF Sums
  <2>2. Members(m[d]) # {}
    <3>1. m[d] \in Seq(Path) /\ m[d] # <<>>
      BY ValidMap DEF IsDigestMap
    <3> QED BY <3>1, HeadTailMembers
  <2>3. ASSUME NEW p \in PathSet(m), Sums(m)[p] = d[1] PROVE p \in Members(m[d])
    <3> DEFINE e == DigestFor(m, p)
    <3>1. e \in DOMAIN m /\ p \in Members(m[e])
      BY PathSetIs
    <3>2. e[1] = d[1]
      BY <2>3 DEF Sums
    <3> HIDE DEF e
    <3>3. e = d
      BY <3>1, <3>2, ValidMap DEF NormalizeDigest
    <3> QED BY <3>1, <3>3
  <2> QED BY <2>1, <2>2, <2>3
<1>3. ASSUME NEW d \in DOMAIN m PROVE Sorted(m[d]) = SortedSet(Members(m[d]))
  <2>1. m[d] \in Seq(Path)
    BY DEF IsDigestMap
  <2>2. \A o, q \in DOMAIN m[d] : m[d][o] = m[d][q] => o = q
    BY ValidMap
  <2> QED BY <2>1, <2>2, ListIsListing, OrderedOnce DEF Sorted
<1>4. ASSUME NEW d \in DOMAIN n
      PROVE  /\ d = Digest(d[1], "lower")
             /\ \E p \in PathSet(m) : Sums(m)[p] = d[1]
             /\ n[d] = SortedSet({p \in PathSet(m) : Sums(m)[p] = d[1]})
  <2>1. PICK e \in DOMAIN m : d = NormalizeDigest(e)
    BY <1>1
  <2>2. d = Digest(d[1], "lower") /\ d[1] = e[1]
    BY <2>1 DEF NormalizeDigest, Digest
  <2> QED BY <1>1, <1>2, <1>3, <2>1, <2>2
<1>5. ASSUME NEW p \in PathSet(m) PROVE Digest(Sums(m)[p], "lower") \in DOMAIN n
  <2>1. DigestFor(m, p) \in DOMAIN m /\ Sums(m)[p] = DigestFor(m, p)[1]
    BY PathSetIs DEF Sums
  <2> QED BY <1>1, <2>1 DEF NormalizeDigest
<1> QED BY <1>4, <1>5 DEF n

\* Normalize spells as many digests as it is given.
LEMMA NormalizeCounts ==
    ASSUME NEW m, IsDigestMap(m), Valid(m)
    PROVE  Cardinality(DOMAIN Normalize(m)) = Cardinality(DOMAIN m) /\ IsFiniteSet(DOMAIN Normalize(m))
<1> DEFINE D == DOMAIN m
           N == DOMAIN Normalize(m)
           h == [d \in D |-> NormalizeDigest(d)]
<1>1. N = {NormalizeDigest(d) : d \in D} /\ IsFiniteSet(D)
  BY NormalizeIs DEF IsDigestMap
<1>2. \A d, e \in D : NormalizeDigest(d) = NormalizeDigest(e) => d = e
  BY ValidMap
<1> HIDE DEF D, N
<1>3. h \in Bijection(D, N)
  <2>1. h \in [D -> N]
    BY <1>1
  <2>2. \A d, e \in D : h[d] = h[e] => d = e
    BY <1>2
  <2>3. \A x \in N : \E d \in D : h[d] = x
    BY <1>1
  <2> HIDE DEF h
  <2> QED BY <2>1, <2>2, <2>3 DEF Bijection, Injection, Surjection, IsInjective
<1> HIDE DEF h
<1> QED BY <1>1, <1>3, FS_Bijection DEF D, N, ExistsBijection

\* DigestMap.Eq, which counts the digests and then looks up those of one side, is right:
\* two valid maps are equal exactly if they hold the same files, however they are spelled.
THEOREM EqIsSameFiles ==
    ASSUME NEW m, IsDigestMap(m), Valid(m), NEW other, IsDigestMap(other), Valid(other)
    PROVE  Eq(m, other) <=> Files(m) = Files(other)
<1> DEFINE n1 == Normalize(m)
           n2 == Normalize(other)
<1>1. /\ Cardinality(DOMAIN n1) = Cardinality(DOMAIN m) /\ IsFiniteSet(DOMAIN n1)
      /\ Cardinality(DOMAIN n2) = Cardinality(DOMAIN other) /\ IsFiniteSet(DOMAIN n2)
  BY NormalizeCounts
<1>2. /\ IsDigestMap(n1) /\ DOMAIN n1 = {NormalizeDigest(d) : d \in DOMAIN m}
      /\ \A d \in DOMAIN m : n1[NormalizeDigest(d)] = Sorted(m[d])
      /\ IsDigestMap(n2)
  BY NormalizeIs
<1>3. Sums(n1) = Sums(m) /\ Sums(n2) = Sums(other)
  BY NormalizeKeeps
<1>4. \A d \in DOMAIN m : m[d] # <<>>
  BY ValidMap
<1>5. Eq(m, other) <=> /\ Cardinality(DOMAIN m) = Cardinality(DOMAIN other)
                       /\ \/ DOMAIN m = {}
                          \/ \A d \in DOMAIN m : /\ NormalizeDigest(d) \in DOMAIN n2
                                                 /\ Sorted(m[d]) = n2[NormalizeDigest(d)]
  BY <1>4 DEF Eq
<1> HIDE DEF n1, n2
<1>9. n1 = [x \in DOMAIN n1 |-> n1[x]] /\ n2 = [x \in DOMAIN n2 |-> n2[x]]
  BY <1>2 DEF IsDigestMap
<1>6. Eq(m, other) <=> /\ Cardinality(DOMAIN n1) = Cardinality(DOMAIN n2)
                       /\ \A x \in DOMAIN n1 : x \in DOMAIN n2 /\ n1[x] = n2[x]
  BY <1>1, <1>2, <1>5
<1>7. Eq(m, other) <=> n1 = n2
  <2>1. ASSUME Eq(m, other) PROVE n1 = n2
    <3>1. DOMAIN n1 \in SUBSET DOMAIN n2 /\ Cardinality(DOMAIN n1) = Cardinality(DOMAIN n2)
          /\ \A x \in DOMAIN n1 : n1[x] = n2[x]
      BY <1>6, <2>1
    <3>2. DOMAIN n1 = DOMAIN n2
      BY <1>1, <3>1, FS_Subset
    <3> QED BY <1>9, <3>1, <3>2
  <2> QED BY <1>6, <2>1
<1>8. n1 = n2 <=> Sums(m) = Sums(other)
  <2>1. ASSUME Sums(m) = Sums(other) PROVE n1 = n2
    <3>1. PathSet(m) = PathSet(other)
      BY <2>1 DEF Sums
    <3> DEFINE T(x) == {p \in PathSet(m) : Sums(m)[p] = x}
    <3>2. /\ \A d \in DOMAIN n1 : /\ d = Digest(d[1], "lower")
                                  /\ \E p \in PathSet(m) : Sums(m)[p] = d[1]
                                  /\ n1[d] = SortedSet(T(d[1]))
          /\ \A p \in PathSet(m) : Digest(Sums(m)[p], "lower") \in DOMAIN n1
      BY NormalizedList DEF n1
    <3> DEFINE U(x) == {p \in PathSet(other) : Sums(other)[p] = x}
    <3>3. /\ \A d \in DOMAIN n2 : /\ d = Digest(d[1], "lower")
                                  /\ \E p \in PathSet(other) : Sums(other)[p] = d[1]
                                  /\ n2[d] = SortedSet(U(d[1]))
          /\ \A p \in PathSet(other) : Digest(Sums(other)[p], "lower") \in DOMAIN n2
      BY NormalizedList DEF n2
    <3>6. \A x : U(x) = T(x)
      BY <2>1, <3>1
    <3> HIDE DEF T, U
    <3>4. DOMAIN n1 = DOMAIN n2
      BY <2>1, <3>1, <3>2, <3>3
    <3>5. \A d \in DOMAIN n1 : n1[d] = n2[d]
      BY <3>2, <3>3, <3>4, <3>6
    <3> QED BY <1>9, <3>4, <3>5
  <2> QED BY <1>3, <2>1
<1> QED BY <1>7, <1>8, FilesAreSums


-----------------------------------------------------------------------------
(* Updates that change nothing *)

\* NewUpdatePlan refuses a stage exactly if its files are those of the head.
RefusedExact ==
    "shared" \notin misused =>
        /\ result = "unchanged" => stage # NoStage /\ Files(stage.state) = stored[inv.head]
        /\ (result = "updated" /\ inv.head.num > 1) =>
              stored[inv.head] # stored[[inv.head EXCEPT !.num = @ - 1]]

\* Object.Update: it is refused as unchanged exactly if the files are those of the head.
LEMMA RefusedUpdate ==
    ASSUME Kept, NEW opts \in Options, Update(opts)
    PROVE  RefusedExact'
<1> DEFINE next == NewInventory(opts)
           refused == UNCHANGED <<inv, files, stored, stage>>
<1>1. /\ Bound /\ stage # NoStage
      /\ \/ result' \notin {"unchanged", "updated"}
         \/ Exists(next) /\ Unchanged(opts) /\ result' = "unchanged" /\ refused
         \/ /\ Exists(next) /\ ~ Unchanged(opts) /\ Updated(next, VersionContent(next, next.head))
            /\ ~ opts.allowUnchanged /\ result' = "updated"
  BY DEF Update, UpdateTo
<1>2. StagingInv /\ HistoryKept /\ "shared" \notin misused /\ Sound(inv) /\ IsDigestMap(stage.state)
  BY <1>1 DEF Kept, StagingInv, Bound, IsStage
<1> DEFINE m == inv.versions[inv.head]
<1>3. ASSUME Exists(inv)
      PROVE  inv.head \in DOMAIN inv.versions /\ IsDigestMap(m) /\ Valid(m) /\ stored[inv.head] = Files(m)
  <2>1. inv.head \in DOMAIN inv.versions
    BY <1>2, <1>3, HeadIsLast DEF Sound, Exists
  <2>2. IsDigestMap(m) /\ Valid(m)
    BY <1>2, <2>1, SoundMaps
  <2>3. stored[inv.head] = Files(m)
    BY <1>2, <2>1 DEF HistoryKept
  <2> QED BY <2>1, <2>2, <2>3
<1> HIDE DEF next, m
<1>4. CASE result' \notin {"unchanged", "updated"}
  BY <1>4 DEF RefusedExact
<1>5. CASE Exists(next) /\ Unchanged(opts) /\ result' = "unchanged" /\ refused
  <2>1. Exists(inv) /\ Eq(m, stage.state)
    BY <1>5 DEF Unchanged, m
  <2>2. Valid(stage.state)
    BY <1>1, <1>2, <1>5, NewInventoryExtends DEF next
  <2>3. Files(m) = Files(stage.state)
    BY <1>2, <1>3, <2>1, <2>2, EqIsSameFiles
  <2>4. stage' # NoStage /\ Files(stage') = Files(stage) /\ stored'[inv'.head] = stored[inv.head]
    BY <1>1, <1>5
  <2>5. Files(stage.state) = stored[inv.head]
    BY <1>3, <2>1, <2>3
  <2>6. stage' = stage /\ stored' = stored /\ inv' = inv
    BY <1>5
  <2>7. Files(stage'.state) = stored'[inv'.head]
    BY <2>5, <2>6
  <2> QED BY <1>5, <2>4, <2>7 DEF RefusedExact
<1>6. CASE /\ Exists(next) /\ ~ Unchanged(opts) /\ Updated(next, VersionContent(next, next.head))
           /\ ~ opts.allowUnchanged /\ result' = "updated"
  <2> DEFINE h == inv.head
             k == next.head
  <2>1. /\ inv' = next
        /\ stored' = [v \in DOMAIN next.versions |-> IF v = k THEN Files(stage.state) ELSE stored[v]]
    BY <1>6 DEF Updated
  <2>2. Extends(inv, next, stage.state) /\ Valid(stage.state)
    BY <1>1, <1>2, <1>6, NewInventoryExtends DEF next
  <2> SUFFICES ASSUME k.num > 1 PROVE stored'[k] # stored'[[k EXCEPT !.num = @ - 1]]
    BY <1>6, <2>1 DEF RefusedExact
  <2>3. h \in VNum /\ k.num = h.num + 1 /\ h.num \in Nat
    BY <1>2, <2>2 DEF Sound, IsInventory, Extends, VNum
  <2>4. Exists(inv)
    <3>1. Nil.head.num = 0
      BY DEF Nil, V
    <3> QED BY <2>3, <3>1 DEF Exists
  <2>5. k = NextVNum(h)
    <3>1. next = Finalize(UpdateBuilder(inv, "obj", opts.spec, 0, opts.contentPath,
                                        GetFixity(stage.sources), stage.state, stage.alg))
      BY DEF NewInventory, UpdateBuilder, next
    <3> QED BY <1>6, <2>4, <3>1, FinalizeOne
  <2> HIDE DEF h, k
  <2>6. [k EXCEPT !.num = @ - 1] = h
    <3>1. h = [num |-> h.num, padding |-> h.padding]
      BY <2>3 DEF VNum
    <3>2. k = [num |-> h.num + 1, padding |-> h.padding]
      BY <2>5, <3>1 DEF NextVNum
    <3>3. \A x : [k EXCEPT !.num = x] = [num |-> x, padding |-> h.padding]
      BY <3>2
    <3>4. k.num - 1 = h.num
      BY <2>3
    <3> QED BY <3>1, <3>3, <3>4
  <2>7. h # k
    BY <2>3
  <2>8. h \in DOMAIN next.versions /\ k \in DOMAIN next.versions
    BY <1>3, <2>2, <2>4 DEF Extends, h, k
  <2>9. stored'[k] = Files(stage.state) /\ stored'[h] = stored[h]
    BY <2>1, <2>7, <2>8
  <2>10. ~ Eq(m, stage.state)
    BY <1>6, <2>4 DEF Unchanged, m
  <2>11. Files(m) # Files(stage.state)
    BY <1>2, <1>3, <2>2, <2>4, <2>10, EqIsSameFiles
  <2>12. stored[h] = Files(m)
    BY <1>3, <2>4 DEF h
  <2> QED BY <2>6, <2>9, <2>11, <2>12
<1> QED BY <1>1, <1>4, <1>5, <1>6

\* Every step keeps the exactness of refusals.
LEMMA RefusedNext == Kept /\ RefusedExact /\ [Next]_vars => RefusedExact'
<1> SUFFICES ASSUME Kept, RefusedExact, [Next]_vars PROVE RefusedExact'
  OBVIOUS
<1>1. ASSUME result' \notin {"unchanged", "updated"} PROVE RefusedExact'
  BY <1>1 DEF RefusedExact
<1>2. CASE NewStage
  BY <1>1, <1>2 DEF NewStage
<1>3. ASSUME NEW dir \in Dirs, NEW read, StageDirFails(dir, read) PROVE RefusedExact'
  BY <1>1, <1>3 DEF StageDirFails
<1>4. ASSUME NEW s \in Available, Overlay(s[1], s[2]) \/ OverlayFails(s[1]) PROVE RefusedExact'
  BY <1>1, <1>4 DEF Overlay, OverlayFails
<1>5. ASSUME NEW m \in Mutations, MutateStage(m) PROVE RefusedExact'
  BY <1>1, <1>5 DEF MutateStage
<1>6. CASE UNCHANGED vars
  BY <1>6 DEF vars, RefusedExact
<1> QED BY <1>2, <1>3, <1>4, <1>5, <1>6, RefusedUpdate DEF Next

\* An update is refused as unchanged exactly if it would store the files of the head again.
THEOREM RefusedExactly == Spec => []RefusedExact
<1>1. Init => RefusedExact
  BY DEF Init, RefusedExact
<1> QED BY <1>1, StagingInit, StagingNext, RefusedNext, PTL DEF Spec

\* Whenever stages hold what their callers mean them to hold, which takes path mutations
\* that do not split a directory, an update is refused as unchanged exactly if it repeats
\* the head.
THEOREM UnchangedIsExact == Spec /\ []StageHoldsWhatWasMeant => []UnchangedExact
<1>1. RefusedExact /\ StageHoldsWhatWasMeant => UnchangedExact
  BY DEF RefusedExact, StageHoldsWhatWasMeant, UnchangedExact
<1> QED BY <1>1, RefusedExactly, PTL
=============================================================================
