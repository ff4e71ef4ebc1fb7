--------------------------- MODULE InventoryProofs ---------------------------
(***************************************************************************)
(* Lemmas about digest maps and inventories, for every map: what sorting   *)
(* keeps, what DigestMap.Valid rules out, what Normalize keeps, and how    *)
(* the inventory of an update extends the one it is made from.             *)
(***************************************************************************)
EXTENDS Inventory, SequenceLemmas, FiniteSetTheorems

\* The library's set of a sequence's members is the one the lemmas about sequences speak of.
LEMMA ToSetIsMembers == \A s : SE!ToSet(s) = Members(s) /\ SE!Range(s) = Members(s)
BY DEF SE!ToSet, SE!Range, Members

-----------------------------------------------------------------------------
(* The order of paths *)

\* The byte-wise order of paths is the order of sequences of numbers.
LEMMA LessIsLex ==
    ASSUME NEW p \in Path, NEW q \in Path
    PROVE  Less(p, q) <=> LexBefore(p, q)
BY LexByPrefixes DEF Less, ByPrefixes, SE!IsStrictPrefix, SE!IsPrefix, Path

\* It is irreflexive, transitive and total.
LEMMA LessIrreflexive ==
    ASSUME NEW p \in Path
    PROVE  ~ Less(p, p)
BY LessIsLex, LexIrreflexive DEF Path

\* The order that paths and digests are sorted by is transitive.
LEMMA LessTransitive ==
    ASSUME NEW p \in Path, NEW q \in Path, NEW r \in Path, Less(p, q), Less(q, r)
    PROVE  Less(p, r)
BY LessIsLex, LexTransitive DEF Path

\* The order that paths and digests are sorted by leaves no two different ones unordered.
LEMMA LessTotal ==
    ASSUME NEW p \in Path, NEW q \in Path, p # q
    PROVE  Less(p, q) \/ Less(q, p)
BY LessIsLex, LexTotal DEF Path

\* Of finitely many paths one comes first.
LEMMA FirstPath ==
    ASSUME NEW S, S \subseteq Path, S # {}, IsFiniteSet(S)
    PROVE  \E p \in S : \A q \in S : ~ Less(q, p)
<1> DEFINE Pre(p) == {q \in S : Less(q, p)}
           Ranks == {Cardinality(Pre(p)) : p \in S}
<1>1. ASSUME NEW p \in S PROVE IsFiniteSet(Pre(p)) /\ Cardinality(Pre(p)) \in Nat
  <2>1. Pre(p) \in SUBSET S
    OBVIOUS
  <2> HIDE DEF Pre
  <2>2. IsFiniteSet(Pre(p))
    BY <2>1, FS_Subset
  <2> QED BY <2>2, FS_CardinalityType
<1>2. ASSUME NEW p \in S, NEW q \in S, Less(q, p)
      PROVE  Cardinality(Pre(q)) < Cardinality(Pre(p))
  <2>1. Pre(q) \in SUBSET Pre(p) /\ Pre(q) # Pre(p)
    <3>1. \A r \in S : Less(r, q) => Less(r, p)
      BY <1>2, LessTransitive
    <3>2. q \in Pre(p) /\ q \notin Pre(q)
      BY <1>2, LessIrreflexive
    <3> QED BY <3>1, <3>2
  <2> HIDE DEF Pre
  <2>2. Cardinality(Pre(q)) <= Cardinality(Pre(p)) /\ Cardinality(Pre(q)) # Cardinality(Pre(p))
    BY <1>1, <2>1, FS_Subset
  <2> QED BY <1>1, <2>2
<1> HIDE DEF Pre
<1>3. PICK m \in Ranks : \A k \in Ranks : m <= k
  <2>1. Ranks \subseteq Nat /\ Ranks # {}
    BY <1>1
  <2> HIDE DEF Ranks
  <2> QED BY <2>1, LeastNat
<1>4. PICK p \in S : m = Cardinality(Pre(p))
  OBVIOUS
<1>5. ASSUME NEW q \in S, Less(q, p) PROVE FALSE
  <2>1. Cardinality(Pre(q)) < Cardinality(Pre(p)) /\ Cardinality(Pre(p)) <= Cardinality(Pre(q))
    BY <1>2, <1>3, <1>4, <1>5
  <2> QED BY <1>1, <2>1
<1> QED BY <1>5

-----------------------------------------------------------------------------
(* Sorting *)

\* f has finitely many paths.
IsListing(f) == f \in [DOMAIN f -> Path] /\ IsFiniteSet(DOMAIN f)

\* Place k of the paths of f, in order, is taken by p.
TakesPlace(f, p, k) ==
    /\ Cardinality(OccurBefore(f, p)) < k
    /\ k <= Cardinality(OccurUpTo(f, p))

\* How many paths there are before a path and up to it.
LEMMA Occurrences ==
    ASSUME NEW f, IsListing(f), NEW p \in Path
    PROVE  /\ IsFiniteSet(OccurBefore(f, p)) /\ Cardinality(OccurBefore(f, p)) \in Nat
           /\ IsFiniteSet(OccurUpTo(f, p)) /\ Cardinality(OccurUpTo(f, p)) \in Nat
           /\ Cardinality(OccurBefore(f, p)) <= Cardinality(OccurUpTo(f, p))
           /\ Cardinality(OccurUpTo(f, p)) <= Cardinality(DOMAIN f)
           /\ Cardinality(OccurUpTo(f, p)) = Cardinality(DOMAIN f) => OccurUpTo(f, p) = DOMAIN f
           /\ p \in Members(f) => Cardinality(OccurBefore(f, p)) < Cardinality(OccurUpTo(f, p))
<1>0. f \in [DOMAIN f -> Path] /\ IsFiniteSet(DOMAIN f)
  BY DEF IsListing
<1>1. /\ OccurUpTo(f, p) \in SUBSET DOMAIN f /\ OccurBefore(f, p) \in SUBSET DOMAIN f
      /\ OccurBefore(f, p) \in SUBSET OccurUpTo(f, p)
  BY DEF OccurBefore, OccurUpTo
<1>2. /\ IsFiniteSet(OccurUpTo(f, p)) /\ Cardinality(OccurUpTo(f, p)) <= Cardinality(DOMAIN f)
      /\ Cardinality(DOMAIN f) = Cardinality(OccurUpTo(f, p)) => DOMAIN f = OccurUpTo(f, p)
  BY <1>0, <1>1, FS_Subset
<1>3. /\ IsFiniteSet(OccurBefore(f, p))
      /\ Cardinality(OccurBefore(f, p)) <= Cardinality(OccurUpTo(f, p))
      /\ Cardinality(OccurUpTo(f, p)) = Cardinality(OccurBefore(f, p))
            => OccurUpTo(f, p) = OccurBefore(f, p)
  BY <1>1, <1>2, FS_Subset
<1>4. Cardinality(OccurBefore(f, p)) \in Nat /\ Cardinality(OccurUpTo(f, p)) \in Nat
  BY <1>2, <1>3, FS_CardinalityType
<1>5. p \in Members(f) => OccurUpTo(f, p) # OccurBefore(f, p)
  <2> SUFFICES ASSUME NEW o \in DOMAIN f, f[o] = p PROVE OccurUpTo(f, p) # OccurBefore(f, p)
    BY DEF Members
  <2>1. o \in OccurUpTo(f, p) /\ o \notin OccurBefore(f, p)
    BY LessIrreflexive DEF OccurUpTo, OccurBefore
  <2> QED BY <2>1
<1> QED BY <1>2, <1>3, <1>4, <1>5

\* What comes up to p comes before every later path.
LEMMA OccurrencesGrow ==
    ASSUME NEW f, IsListing(f), NEW p \in Path, NEW q \in Path, Less(p, q)
    PROVE  /\ OccurUpTo(f, p) \subseteq OccurBefore(f, q)
           /\ Cardinality(OccurUpTo(f, p)) <= Cardinality(OccurBefore(f, q))
<1>1. ASSUME NEW o \in OccurUpTo(f, p) PROVE o \in OccurBefore(f, q)
  <2>1. o \in DOMAIN f /\ f[o] \in Path /\ (f[o] = p \/ Less(f[o], p))
    BY DEF OccurUpTo, IsListing
  <2>2. Less(f[o], q)
    BY <2>1, LessTransitive
  <2> QED BY <2>1, <2>2 DEF OccurBefore
<1>2. OccurUpTo(f, p) \in SUBSET OccurBefore(f, q)
  BY <1>1
<1> QED BY <1>2, Occurrences, FS_Subset

\* At most one path takes a place.
LEMMA PlaceUnique ==
    ASSUME NEW f, IsListing(f), NEW p \in Path, NEW q \in Path, NEW k \in Nat,
           TakesPlace(f, p, k), TakesPlace(f, q, k)
    PROVE  p = q
<1>1. ASSUME NEW a \in Path, NEW b \in Path, Less(a, b), TakesPlace(f, a, k), TakesPlace(f, b, k)
      PROVE  FALSE
  <2>1. /\ Cardinality(OccurUpTo(f, a)) <= Cardinality(OccurBefore(f, b))
        /\ k <= Cardinality(OccurUpTo(f, a)) /\ Cardinality(OccurBefore(f, b)) < k
    BY <1>1, OccurrencesGrow DEF TakesPlace
  <2>2. Cardinality(OccurUpTo(f, a)) \in Nat /\ Cardinality(OccurBefore(f, b)) \in Nat
    BY Occurrences
  <2> QED BY <2>1, <2>2
<1> QED BY <1>1, LessTotal

\* The number of the paths of f.
LEMMA ListingSize ==
    ASSUME NEW f, IsListing(f)
    PROVE  /\ Cardinality(DOMAIN f) \in Nat
           /\ Members(f) \subseteq Path /\ IsFiniteSet(Members(f))
           /\ Members(f) = {} => Cardinality(DOMAIN f) = 0
<1>0. f \in [DOMAIN f -> Path] /\ IsFiniteSet(DOMAIN f)
  BY DEF IsListing
<1>1. f \in Surjection(DOMAIN f, Members(f))
  BY <1>0 DEF Members, Surjection
<1>2. IsFiniteSet(Members(f))
  BY <1>0, <1>1, FS_Surjection
<1>3. Members(f) = {} => DOMAIN f = {}
  BY DEF Members
<1>4. Members(f) \subseteq Path
  BY <1>0 DEF Members
<1> QED BY <1>0, <1>2, <1>3, <1>4, FS_CardinalityType, FS_EmptySet

\* Every place is taken.
LEMMA PlaceTaken ==
    ASSUME NEW f, IsListing(f)
    PROVE  \A k \in 1..Cardinality(DOMAIN f) : \E p \in Members(f) : TakesPlace(f, p, k)
<1> DEFINE n == Cardinality(DOMAIN f)
           T == {0} \cup {k \in 1..n : \E p \in Members(f) : TakesPlace(f, p, k)}
<1>0. n \in Nat /\ Members(f) \subseteq Path /\ IsFiniteSet(Members(f))
  BY ListingSize
<1>1. ASSUME NEW S, S \subseteq Members(f), S # {}
      PROVE  \E q \in S : \A r \in S : r = q \/ Less(q, r)
  <2>1. S \subseteq Path /\ IsFiniteSet(S)
    BY <1>0, <1>1, FS_Subset
  <2>2. PICK q \in S : \A r \in S : ~ Less(r, q)
    BY <1>1, <2>1, FirstPath
  <2> QED BY <2>1, <2>2, LessTotal
<1>2. ASSUME NEW k \in 1..n, k - 1 \in T PROVE k \in T
  <2> SUFFICES \E p \in Members(f) : TakesPlace(f, p, k)
    OBVIOUS
  <2>1. CASE k = 1
    <3>1. Members(f) # {}
      BY <1>0, ListingSize
    <3>2. PICK p \in Members(f) : \A r \in Members(f) : r = p \/ Less(p, r)
      BY <1>1, <3>1
    <3>3. OccurBefore(f, p) = {}
      <4> SUFFICES ASSUME NEW o \in DOMAIN f, Less(f[o], p) PROVE FALSE
        BY DEF OccurBefore
      <4>1. f[o] \in Members(f)
        BY DEF Members
      <4>2. f[o] \in Path /\ p \in Path /\ (f[o] = p \/ Less(p, f[o]))
        BY <1>0, <3>2, <4>1
      <4> QED BY <4>2, LessIrreflexive, LessTransitive
    <3>4. Cardinality(OccurBefore(f, p)) = 0
      BY <3>3, FS_EmptySet
    <3>5. Cardinality(OccurUpTo(f, p)) \in Nat /\ Cardinality(OccurUpTo(f, p)) > 0
      BY <1>0, <3>4, Occurrences
    <3>6. TakesPlace(f, p, k)
      BY <2>1, <3>4, <3>5 DEF TakesPlace
    <3> QED BY <3>6
  <2>2. CASE k # 1
    <3>1. PICK p \in Members(f) : TakesPlace(f, p, k - 1)
      BY <1>2, <2>2
    <3>2. /\ p \in Path
          /\ Cardinality(OccurBefore(f, p)) \in Nat /\ Cardinality(OccurUpTo(f, p)) \in Nat
          /\ Cardinality(OccurBefore(f, p)) < k - 1 /\ k - 1 <= Cardinality(OccurUpTo(f, p))
      BY <1>0, <3>1, Occurrences DEF TakesPlace
    <3>3. CASE k <= Cardinality(OccurUpTo(f, p))
      <4>1. Cardinality(OccurBefore(f, p)) < k
        BY <1>0, <3>2
      <4> QED BY <3>3, <4>1 DEF TakesPlace
    <3>4. CASE ~ (k <= Cardinality(OccurUpTo(f, p)))
      <4>1. Cardinality(OccurUpTo(f, p)) = k - 1 /\ Cardinality(OccurUpTo(f, p)) # n
        BY <1>0, <3>2, <3>4
      <4>2. PICK o \in DOMAIN f : o \notin OccurUpTo(f, p)
        <5>1. OccurUpTo(f, p) # DOMAIN f
          BY <4>1
        <5>2. OccurUpTo(f, p) \subseteq DOMAIN f
          BY DEF OccurUpTo
        <5> QED BY <5>1, <5>2
      <4> DEFINE S == {q \in Members(f) : Less(p, q)}
      <4>3. \A x \in DOMAIN f : x \notin OccurUpTo(f, p) => f[x] \in S
        <5> SUFFICES ASSUME NEW x \in DOMAIN f, x \notin OccurUpTo(f, p) PROVE f[x] \in S
          OBVIOUS
        <5>1. f[x] \in Members(f) /\ f[x] # p /\ ~ Less(f[x], p)
          BY DEF Members, OccurUpTo
        <5>2. Less(p, f[x])
          BY <1>0, <3>2, <5>1, LessTotal
        <5> QED BY <5>1, <5>2
      <4>4. PICK q \in S : \A r \in S : r = q \/ Less(q, r)
        <5>1. S \subseteq Members(f) /\ S # {}
          BY <4>2, <4>3
        <5> HIDE DEF S
        <5> QED BY <1>1, <5>1
      <4>5. q \in Path /\ q \in Members(f) /\ Less(p, q)
        BY <1>0
      <4>6. OccurBefore(f, q) = OccurUpTo(f, p)
        <5>1. OccurUpTo(f, p) \subseteq OccurBefore(f, q)
          BY <3>2, <4>5, OccurrencesGrow
        <5>2. ASSUME NEW x \in OccurBefore(f, q), x \notin OccurUpTo(f, p) PROVE FALSE
          <6>1. x \in DOMAIN f /\ Less(f[x], q)
            BY DEF OccurBefore
          <6>2. f[x] \in S
            BY <4>3, <5>2, <6>1
          <6>3. f[x] \in Path
            BY <1>0, <6>2
          <6> HIDE DEF S
          <6>4. f[x] = q \/ Less(q, f[x])
            BY <4>4, <6>2
          <6> QED BY <4>5, <6>1, <6>3, <6>4, LessIrreflexive, LessTransitive
        <5> QED BY <5>1, <5>2
      <4>7. Cardinality(OccurBefore(f, q)) = k - 1
        BY <4>1, <4>6
      <4>8. Cardinality(OccurUpTo(f, q)) \in Nat /\ k - 1 < Cardinality(OccurUpTo(f, q))
        BY <4>5, <4>7, Occurrences
      <4>9. TakesPlace(f, q, k)
        BY <1>0, <4>7, <4>8 DEF TakesPlace
      <4> QED BY <4>5, <4>9
    <3> QED BY <3>3, <3>4
  <2> QED BY <2>1, <2>2
<1>3. \A k \in 0..n : k \in T
  <2>1. 0 \in T
    OBVIOUS
  <2> HIDE DEF T, n
  <2> QED BY <1>0, <1>2, <2>1, IntervalInduction
<1> QED BY <1>0, <1>3

\* Ordered(f) has at each place the path that takes it.
LEMMA OrderedPlaces ==
    ASSUME NEW f, IsListing(f)
    PROVE  /\ Cardinality(DOMAIN f) \in Nat
           /\ Ordered(f) \in [1..Cardinality(DOMAIN f) -> Members(f)]
           /\ \A k \in 1..Cardinality(DOMAIN f) : TakesPlace(f, Ordered(f)[k], k)
<1> DEFINE n == Cardinality(DOMAIN f)
           c(k) == CHOOSE p \in Members(f) : TakesPlace(f, p, k)
<1>1. Ordered(f) = [k \in 1..n |-> c(k)]
  BY ToSetIsMembers DEF Ordered, TakesPlace
<1>2. \A k \in 1..n : c(k) \in Members(f) /\ TakesPlace(f, c(k), k)
  BY PlaceTaken
<1> HIDE DEF c
<1> QED BY <1>1, <1>2, ListingSize

\* Sorting keeps the paths.
LEMMA OrderedMembers ==
    ASSUME NEW f, IsListing(f)
    PROVE  /\ Ordered(f) \in Seq(Path) /\ Len(Ordered(f)) = Cardinality(DOMAIN f)
           /\ Members(Ordered(f)) = Members(f)
<1> DEFINE n == Cardinality(DOMAIN f)
<1>0. /\ n \in Nat /\ Ordered(f) \in [1..n -> Members(f)]
      /\ \A k \in 1..n : TakesPlace(f, Ordered(f)[k], k)
  BY OrderedPlaces
<1>1. Members(f) \subseteq Path
  BY ListingSize
<1> HIDE DEF n
<1>2. Ordered(f) \in [1..n -> Path]
  BY <1>0, <1>1
<1>3. Ordered(f) \in Seq(Path) /\ Len(Ordered(f)) = n
  BY <1>0, <1>2, FunctionIsSeq
<1>4. ASSUME NEW p \in Members(f) PROVE p \in Members(Ordered(f))
  <2> DEFINE k == Cardinality(OccurBefore(f, p)) + 1
  <2>1. k \in 1..n /\ TakesPlace(f, p, k)
    <3>1. /\ Cardinality(OccurBefore(f, p)) \in Nat /\ Cardinality(OccurUpTo(f, p)) \in Nat
          /\ Cardinality(OccurBefore(f, p)) < Cardinality(OccurUpTo(f, p))
          /\ Cardinality(OccurUpTo(f, p)) <= n
      BY <1>1, Occurrences DEF n
    <3> QED BY <1>0, <3>1 DEF TakesPlace
  <2> HIDE DEF k
  <2>2. Ordered(f)[k] = p
    BY <1>0, <1>1, <2>1, PlaceUnique
  <2> QED BY <1>0, <2>1, <2>2 DEF Members
<1>5. Members(Ordered(f)) \subseteq Members(f)
  BY <1>0 DEF Members
<1> QED BY <1>3, <1>4, <1>5 DEF n

\* A path that f has twice is its own neighbour.
LEMMA OrderedNeighbours ==
    ASSUME NEW f, IsListing(f), NEW o \in DOMAIN f, NEW x \in DOMAIN f, o # x, f[o] = f[x]
    PROVE  \E k \in 1..Len(Ordered(f)) - 1 : Ordered(f)[k] = Ordered(f)[k + 1]
<1> DEFINE n == Cardinality(DOMAIN f)
           p == f[o]
           B == OccurBefore(f, p)
           U == OccurUpTo(f, p)
           k == Cardinality(B) + 1
<1>0. /\ n \in Nat /\ Ordered(f) \in [1..n -> Members(f)] /\ Len(Ordered(f)) = n
      /\ \A i \in 1..n : TakesPlace(f, Ordered(f)[i], i)
  BY OrderedPlaces, OrderedMembers
<1>1. p \in Members(f) /\ p \in Path /\ Members(f) \subseteq Path
  BY ListingSize DEF Members
<1> HIDE DEF n, p
<1>2. /\ IsFiniteSet(B) /\ Cardinality(B) \in Nat /\ IsFiniteSet(U) /\ Cardinality(U) \in Nat
      /\ Cardinality(U) <= n
  BY <1>1, Occurrences DEF n
<1>3. /\ B \cup {o} \cup {x} \in SUBSET U /\ o \notin B /\ x \notin B \cup {o}
  <2>1. /\ o \in U /\ x \in U /\ o \notin B /\ x \notin B
    BY <1>1, LessIrreflexive DEF OccurBefore, OccurUpTo, p
  <2>2. B \subseteq U
    BY DEF OccurBefore, OccurUpTo
  <2> HIDE DEF B, U
  <2> QED BY <2>1, <2>2
<1>4. Cardinality(B) + 2 <= Cardinality(U)
  <2> HIDE DEF B, U
  <2>1. IsFiniteSet(B \cup {o}) /\ Cardinality(B \cup {o}) = Cardinality(B) + 1
    BY <1>2, <1>3, FS_AddElement
  <2>2. Cardinality(B \cup {o} \cup {x}) = Cardinality(B) + 1 + 1
    BY <1>3, <2>1, FS_AddElement
  <2>3. Cardinality(B \cup {o} \cup {x}) <= Cardinality(U)
    BY <1>2, <1>3, FS_Subset
  <2> QED BY <1>2, <2>2, <2>3
<1>5. k \in 1..n - 1 /\ TakesPlace(f, p, k) /\ TakesPlace(f, p, k + 1) /\ k \in 1..n /\ k + 1 \in 1..n
  BY <1>0, <1>2, <1>4 DEF TakesPlace
<1> HIDE DEF k, B, U
<1>6. Ordered(f)[k] = p /\ Ordered(f)[k + 1] = p
  <2>1. \A i \in 1..n : Ordered(f)[i] \in Path /\ i \in Nat
    BY <1>0, <1>1
  <2> QED BY <1>0, <1>1, <1>5, <2>1, PlaceUnique
<1> QED BY <1>0, <1>5, <1>6

\* Sorting what is sorted changes nothing.
LEMMA OrderedTwice ==
    ASSUME NEW f, IsListing(f)
    PROVE  Ordered(Ordered(f)) = Ordered(f)
<1> DEFINE n == Cardinality(DOMAIN f)
           s == Ordered(f)
<1>0. /\ n \in Nat /\ s \in [1..n -> Members(f)]
      /\ \A k \in 1..n : TakesPlace(f, s[k], k)
  BY OrderedPlaces
<1>1. Members(f) \subseteq Path /\ s \in Seq(Path) /\ Members(s) = Members(f)
  BY ListingSize, OrderedMembers
<1> HIDE DEF n, s
<1>2. IsListing(s) /\ DOMAIN s = 1..n /\ Cardinality(DOMAIN s) = n
  <2>1. IsFiniteSet(1..n) /\ Cardinality(1..n) = n
    BY <1>0, FS_Interval
  <2>2. s \in [1..n -> Path]
    BY <1>0, <1>1
  <2> QED BY <2>1, <2>2 DEF IsListing
<1>3. ASSUME NEW k \in 1..n PROVE TakesPlace(s, s[k], k)
  <2> DEFINE p == s[k]
             b == Cardinality(OccurBefore(f, p))
             u == Cardinality(OccurUpTo(f, p))
  <2>0. p \in Path /\ b \in Nat /\ u \in Nat /\ b < k /\ k <= u /\ u <= n
    <3>1. p \in Path
      BY <1>0, <1>1
    <3>2. b < k /\ k <= u
      BY <1>0 DEF TakesPlace
    <3> HIDE DEF p
    <3> QED BY <3>1, <3>2, Occurrences DEF n
  <2>1. ASSUME NEW i \in 1..n
        PROVE  /\ Less(s[i], p) => i <= b
               /\ Less(p, s[i]) => i > u
    <3>1. /\ s[i] \in Path /\ Cardinality(OccurBefore(f, s[i])) \in Nat
          /\ Cardinality(OccurUpTo(f, s[i])) \in Nat
          /\ Cardinality(OccurBefore(f, s[i])) < i /\ i <= Cardinality(OccurUpTo(f, s[i]))
      BY <1>0, <1>1, Occurrences DEF TakesPlace
    <3> HIDE DEF p
    <3>2. Less(s[i], p) => Cardinality(OccurUpTo(f, s[i])) <= b
      BY <2>0, <3>1, OccurrencesGrow
    <3>3. Less(p, s[i]) => u <= Cardinality(OccurBefore(f, s[i]))
      BY <2>0, <3>1, OccurrencesGrow
    <3> HIDE DEF b, u
    <3> QED BY <2>0, <3>1, <3>2, <3>3
  <2>2. ASSUME NEW i \in 1..n, i <= b PROVE Less(s[i], p)
    <3>1. ~ Less(p, s[i])
      <4> HIDE DEF b, u, p
      <4> QED BY <1>0, <2>0, <2>1, <2>2
    <3>2. s[i] # p
      <4> SUFFICES ASSUME s[i] = p PROVE FALSE
        OBVIOUS
      <4>1. b < i
        BY <1>0 DEF TakesPlace
      <4> HIDE DEF b
      <4> QED BY <2>0, <2>2, <4>1
    <3>3. s[i] \in Path
      BY <1>0, <1>1
    <3> QED BY <2>0, <3>1, <3>2, <3>3, LessTotal
  <2>3. OccurBefore(s, p) = 1..b
    <3>1. 1..b \subseteq 1..n
      <4> HIDE DEF b
      <4> QED BY <1>0, <2>0
    <3>2. \A i \in 1..n : Less(s[i], p) <=> i \in 1..b
      <4> HIDE DEF b, p
      <4> QED BY <2>0, <2>1, <2>2
    <3> HIDE DEF b, p
    <3> QED BY <1>2, <3>1, <3>2 DEF OccurBefore
  <2>4. 1..k \in SUBSET OccurUpTo(s, p)
    <3> SUFFICES ASSUME NEW i \in 1..k PROVE i \in OccurUpTo(s, p)
      OBVIOUS
    <3>1. i \in 1..n /\ i <= u
      <4> HIDE DEF u
      <4> QED BY <1>0, <2>0
    <3>2. ~ Less(p, s[i])
      <4> HIDE DEF u, p
      <4> QED BY <2>0, <2>1, <3>1
    <3>3. s[i] = p \/ Less(s[i], p)
      <4>1. s[i] \in Path
        BY <1>0, <1>1, <3>1
      <4> QED BY <2>0, <3>2, <4>1, LessTotal
    <3> HIDE DEF p
    <3> QED BY <1>2, <3>1, <3>3 DEF OccurUpTo
  <2> HIDE DEF p, b, u
  <2>5. Cardinality(OccurBefore(s, p)) = b
    BY <2>0, <2>3, FS_Interval
  <2>6. k <= Cardinality(OccurUpTo(s, p))
    <3>1. IsFiniteSet(OccurUpTo(s, p))
      BY <1>2, <2>0, Occurrences
    <3>2. Cardinality(1..k) = k
      BY <1>0, FS_Interval
    <3> QED BY <2>4, <3>1, <3>2, FS_Subset
  <2>7. TakesPlace(s, p, k)
    BY <2>0, <2>5, <2>6 DEF TakesPlace
  <2> QED BY <2>7 DEF p
<1>4. ASSUME NEW k \in 1..n PROVE Ordered(s)[k] = s[k]
  <2>1. Ordered(s)[k] \in Members(s) /\ TakesPlace(s, Ordered(s)[k], k)
    BY <1>2, OrderedPlaces
  <2> QED BY <1>0, <1>1, <1>2, <1>3, <2>1, PlaceUnique
<1>5. Ordered(s) \in [1..n -> Members(s)]
  BY <1>2, OrderedPlaces
<1>6. Ordered(s) = s
  BY <1>0, <1>4, <1>5
<1> QED BY <1>6 DEF s

\* A finite set of paths is listed once each.
LEMMA SortedSetOnce ==
    ASSUME NEW S, S \subseteq Path, IsFiniteSet(S)
    PROVE  /\ SortedSet(S) \in Seq(Path) /\ Members(SortedSet(S)) = S
           /\ \A i, j \in DOMAIN SortedSet(S) : SortedSet(S)[i] = SortedSet(S)[j] => i = j
<1> DEFINE f == [p \in S |-> p]
           n == Cardinality(S)
           s == Ordered(f)
<1>1. IsListing(f) /\ DOMAIN f = S /\ Members(f) = S
  BY DEF IsListing, Members
<1>2. \A p \in S : OccurUpTo(f, p) = OccurBefore(f, p) \cup {p} /\ p \notin OccurBefore(f, p)
  BY LessIrreflexive DEF OccurUpTo, OccurBefore
<1> HIDE DEF f
<1>3. s \in Seq(Path) /\ Members(s) = S
  BY <1>1, OrderedMembers
<1>4. n \in Nat /\ s \in [1..n -> S] /\ \A k \in 1..n : TakesPlace(f, s[k], k)
  BY <1>1, OrderedPlaces
<1> HIDE DEF n, s
<1>5. ASSUME NEW i \in 1..n, NEW j \in 1..n, s[i] = s[j] PROVE i = j
  <2> DEFINE p == s[i]
             b == Cardinality(OccurBefore(f, p))
             u == Cardinality(OccurUpTo(f, p))
  <2>1. p \in S
    BY <1>4
  <2>2. b < i /\ b < j /\ i <= u /\ j <= u
    BY <1>4, <1>5 DEF TakesPlace
  <2> HIDE DEF p
  <2>3. b \in Nat /\ u = b + 1
    <3>1. IsFiniteSet(OccurBefore(f, p)) /\ b \in Nat
      BY <1>1, <2>1, Occurrences
    <3>2. Cardinality(OccurBefore(f, p) \cup {p}) = b + 1
      BY <1>2, <2>1, <3>1, FS_AddElement
    <3> QED BY <1>2, <2>1, <3>1, <3>2
  <2> HIDE DEF b, u
  <2> QED BY <1>4, <2>2, <2>3
<1>6. SortedSet(S) = s
  BY DEF SortedSet, s, f
<1>7. DOMAIN s = 1..n
  BY <1>4
<1> QED BY <1>3, <1>5, <1>6, <1>7

-----------------------------------------------------------------------------
(* Digest maps *)

\* A list of paths can be sorted.
LEMMA ListIsListing ==
    ASSUME NEW s \in Seq(Path)
    PROVE  IsListing(s)
<1>1. Len(s) \in Nat /\ s \in [1..Len(s) -> Path] /\ DOMAIN s = 1..Len(s)
  BY LenProperties
<1>2. IsFiniteSet(1..Len(s))
  BY <1>1, FS_Interval
<1> QED BY <1>1, <1>2 DEF IsListing

\* Which paths a map has.
LEMMA PathSetIs ==
    ASSUME NEW m
    PROVE  /\ \A p : p \in PathSet(m) <=> \E d \in DOMAIN m : p \in Members(m[d])
           /\ \A p \in PathSet(m) : DigestFor(m, p) \in DOMAIN m /\ p \in Members(m[DigestFor(m, p)])
<1>1. \A p : p \in PathSet(m) <=> \E d \in DOMAIN m : p \in Members(m[d])
  BY ToSetIsMembers DEF PathSet
<1>2. \A p : DigestFor(m, p) = CHOOSE d \in DOMAIN m : p \in Members(m[d])
  BY ToSetIsMembers DEF DigestFor
<1> QED BY <1>1, <1>2

\* The image of a finite set.
LEMMA FiniteImage ==
    ASSUME NEW f, IsFiniteSet(DOMAIN f), f \in [DOMAIN f -> Members(f)]
    PROVE  IsFiniteSet(Members(f))
<1>1. f \in Surjection(DOMAIN f, Members(f))
  BY DEF Members, Surjection
<1> QED BY <1>1, FS_Surjection

\* A map has finitely many paths.
LEMMA PathSetFinite ==
    ASSUME NEW m, IsDigestMap(m)
    PROVE  PathSet(m) \subseteq Path /\ IsFiniteSet(PathSet(m))
<1>1. \A d \in DOMAIN m : m[d] \in Seq(Path)
  BY DEF IsDigestMap
<1>2. \A d \in DOMAIN m : IsFiniteSet(Members(m[d])) /\ Members(m[d]) \subseteq Path
  BY <1>1, ListIsListing, ListingSize
<1> DEFINE f == [d \in DOMAIN m |-> Members(m[d])]
<1>3. IsFiniteSet(Members(f)) /\ \A T \in Members(f) : IsFiniteSet(T)
  <2>1. DOMAIN f = DOMAIN m /\ f \in [DOMAIN f -> Members(f)]
    BY DEF Members
  <2>2. \A T \in Members(f) : \E d \in DOMAIN m : T = Members(m[d])
    <3>1. \A T \in Members(f) : \E d \in DOMAIN f : T = f[d]
      <4> HIDE DEF f
      <4> QED BY DEF Members
    <3> QED BY <3>1
  <2> HIDE DEF f
  <2> QED BY <1>2, <2>1, <2>2, FiniteImage DEF IsDigestMap
<1>4. PathSet(m) = UNION Members(f)
  <2>1. PathSet(m) = UNION {Members(m[d]) : d \in DOMAIN m}
    BY ToSetIsMembers DEF PathSet
  <2>2. Members(f) = {Members(m[d]) : d \in DOMAIN m}
    <3>1. Members(f) = {f[d] : d \in DOMAIN f}
      BY DEF Members
    <3> QED BY <3>1
  <2> QED BY <2>1, <2>2
<1>5. IsFiniteSet(PathSet(m))
  <2> HIDE DEF f
  <2> QED BY <1>3, <1>4, FS_UNION
<1>6. PathSet(m) \subseteq Path
  BY <1>2, PathSetIs
<1> QED BY <1>5, <1>6

\* The occurrences of paths that AllPaths sorts.
Occurring(m) == UNION {{d} \X DOMAIN m[d] : d \in DOMAIN m}

\* The places of a digest map's paths: a digest and an index into its list.
LEMMA OccurringIs ==
    ASSUME NEW m, IsDigestMap(m)
    PROVE  /\ IsFiniteSet(Occurring(m))
           /\ \A d \in DOMAIN m : \A i \in DOMAIN m[d] : <<d, i>> \in Occurring(m)
           /\ \A o \in Occurring(m) : o[1] \in DOMAIN m /\ o[2] \in DOMAIN m[o[1]]
<1> DEFINE f == [d \in DOMAIN m |-> {d} \X DOMAIN m[d]]
<1>1. \A d \in DOMAIN m : m[d] \in Seq(Path)
  BY DEF IsDigestMap
<1>2. ASSUME NEW d \in DOMAIN m PROVE IsFiniteSet({d} \X DOMAIN m[d])
  <2>1. IsFiniteSet({d}) /\ IsFiniteSet(DOMAIN m[d])
    BY <1>1, ListIsListing, FS_Singleton DEF IsListing
  <2> QED BY <2>1, FS_Product
<1>3. DOMAIN f = DOMAIN m /\ f \in [DOMAIN f -> Members(f)]
  BY DEF Members
<1>4. Members(f) = {{d} \X DOMAIN m[d] : d \in DOMAIN m}
  <2>1. Members(f) = {f[d] : d \in DOMAIN f}
    BY DEF Members
  <2> QED BY <2>1
<1>5. \A T \in Members(f) : IsFiniteSet(T)
  <2> HIDE DEF f
  <2> QED BY <1>2, <1>4
<1>6. IsFiniteSet(Members(f))
  <2> HIDE DEF f
  <2> QED BY <1>3, FiniteImage DEF IsDigestMap
<1>7. Occurring(m) = UNION Members(f)
  <2> HIDE DEF f
  <2> QED BY <1>4 DEF Occurring
<1>8. IsFiniteSet(Occurring(m))
  <2> HIDE DEF f
  <2> QED BY <1>5, <1>6, <1>7, FS_UNION
<1>9. \A d \in DOMAIN m : \A i \in DOMAIN m[d] : <<d, i>> \in Occurring(m)
  BY DEF Occurring
<1>10. \A o \in Occurring(m) : o[1] \in DOMAIN m /\ o[2] \in DOMAIN m[o[1]]
  BY DEF Occurring
<1> QED BY <1>8, <1>9, <1>10

\* DigestMap.Valid rules out that a path is listed twice, although it compares only
\* neighbours, that a list is empty, that two digests are spellings of one, and paths
\* that are not valid.
LEMMA ValidMap ==
    ASSUME NEW m, IsDigestMap(m), Valid(m)
    PROVE  /\ \A d, e \in DOMAIN m : NormalizeDigest(d) = NormalizeDigest(e) => d = e
           /\ \A d \in DOMAIN m : m[d] # <<>>
           /\ \A d, e \in DOMAIN m : \A i \in DOMAIN m[d], j \in DOMAIN m[e] :
                 m[d][i] = m[e][j] => d = e /\ i = j
           /\ \A d \in DOMAIN m : \A p \in Members(m[d]) : ValidPath(p)
<1>1. ~ DigestsConflict(m) /\ (\A d \in DOMAIN m : m[d] # <<>>) /\ PathsErr(AllPaths(m)) = "ok"
  BY DEF Valid, MapErr
<1>2. /\ \A i \in 1..Len(AllPaths(m)) - 1 : AllPaths(m)[i] # AllPaths(m)[i + 1]
      /\ \A i \in DOMAIN AllPaths(m) : ValidPath(AllPaths(m)[i])
  <2> DEFINE a == AllPaths(m)
             invalid == \E i \in DOMAIN a : ~ValidPath(a[i])
             nested(i) == SE!IsPrefix(Append(a[i], Slash), a[i + 1])
             conflict == \E i \in 1..Len(a) - 1 : a[i] = a[i + 1] \/ nested(i)
  <2>1. PathsErr(a) = IF invalid THEN "pathInvalid" ELSE IF conflict THEN "pathConflict" ELSE "ok"
    BY DEF PathsErr
  <2>2. ~ conflict /\ ~ invalid
    <3> HIDE DEF invalid, conflict
    <3> QED BY <1>1, <2>1
  <2> HIDE DEF nested
  <2> QED BY <2>2
<1> DEFINE f == [o \in Occurring(m) |-> m[o[1]][o[2]]]
<1>3. AllPaths(m) = Ordered(f)
  BY DEF AllPaths, Occurring
<1>4. IsListing(f) /\ DOMAIN f = Occurring(m)
  <2>1. ASSUME NEW o \in Occurring(m) PROVE m[o[1]][o[2]] \in Path
    <3>1. o[1] \in DOMAIN m /\ o[2] \in DOMAIN m[o[1]]
      BY OccurringIs
    <3>2. m[o[1]] \in Seq(Path)
      BY <3>1 DEF IsDigestMap
    <3> QED BY <3>1, <3>2, ElementOfSeq, LenProperties
  <2> QED BY <2>1, OccurringIs DEF IsListing
<1>5. ASSUME NEW d \in DOMAIN m, NEW e \in DOMAIN m, NEW i \in DOMAIN m[d], NEW j \in DOMAIN m[e],
             m[d][i] = m[e][j]
      PROVE  d = e /\ i = j
  <2>1. /\ <<d, i>> \in DOMAIN f /\ <<e, j>> \in DOMAIN f
        /\ f[<<d, i>>] = m[d][i] /\ f[<<e, j>>] = m[e][j]
    BY OccurringIs
  <2> HIDE DEF f
  <2>2. ASSUME <<d, i>> # <<e, j>> PROVE FALSE
    <3>1. \E k \in 1..Len(Ordered(f)) - 1 : Ordered(f)[k] = Ordered(f)[k + 1]
      BY <1>4, <1>5, <2>1, <2>2, OrderedNeighbours
    <3> QED BY <1>2, <1>3, <3>1
  <2> QED BY <2>2
<1>6. \A d, e \in DOMAIN m : NormalizeDigest(d) = NormalizeDigest(e) => d = e
  BY <1>1 DEF DigestsConflict
<1>7. ASSUME NEW d \in DOMAIN m, NEW p \in Members(m[d]) PROVE ValidPath(p)
  <2>1. PICK i \in DOMAIN m[d] : p = m[d][i]
    BY DEF Members
  <2>2. <<d, i>> \in DOMAIN f /\ f[<<d, i>>] = p
    BY <2>1, OccurringIs
  <2> HIDE DEF f
  <2>3. p \in Members(Ordered(f))
    BY <1>4, <2>2, OrderedMembers DEF Members
  <2> QED BY <1>2, <1>3, <2>3 DEF Members
<1> QED BY <1>1, <1>5, <1>6, <1>7

\* In a valid map a path has one digest.
LEMMA ValidDigestFor ==
    ASSUME NEW m, IsDigestMap(m), Valid(m), NEW d \in DOMAIN m, NEW p \in Members(m[d])
    PROVE  DigestFor(m, p) = d /\ p \in PathSet(m)
<1>1. p \in PathSet(m) /\ DigestFor(m, p) \in DOMAIN m /\ p \in Members(m[DigestFor(m, p)])
  BY PathSetIs
<1>2. PICK i \in DOMAIN m[d] : p = m[d][i]
  BY DEF Members
<1>3. PICK j \in DOMAIN m[DigestFor(m, p)] : p = m[DigestFor(m, p)][j]
  BY <1>1 DEF Members
<1>4. m[d][i] = m[DigestFor(m, p)][j]
  BY <1>2, <1>3
<1>5. d = DigestFor(m, p)
  BY <1>1, <1>4, ValidMap
<1> QED BY <1>1, <1>5

-----------------------------------------------------------------------------
(* Normalize *)

\* The content that a map gives each of its paths.
Sums(m) == [p \in PathSet(m) |-> DigestFor(m, p)[1]]

\* Normalize of a valid map spells its digests in lower case and sorts its lists.
LEMMA NormalizeIs ==
    ASSUME NEW m, IsDigestMap(m), Valid(m)
    PROVE  /\ IsDigestMap(Normalize(m))
           /\ DOMAIN Normalize(m) = {NormalizeDigest(d) : d \in DOMAIN m}
           /\ \A d \in DOMAIN m : /\ Normalize(m)[NormalizeDigest(d)] = Sorted(m[d])
                                  /\ Members(Sorted(m[d])) = Members(m[d])
<1> DEFINE c(x) == CHOOSE d \in DOMAIN m : NormalizeDigest(d) = x
           N == {NormalizeDigest(d) : d \in DOMAIN m}
<1>1. Normalize(m) = [x \in N |-> Sorted(m[c(x)])]
  BY DEF Normalize
<1>2. \A d \in DOMAIN m : c(NormalizeDigest(d)) = d
  BY ValidMap
<1>3. ASSUME NEW d \in DOMAIN m PROVE Sorted(m[d]) \in Seq(Path) /\ Members(Sorted(m[d])) = Members(m[d])
  <2>1. m[d] \in Seq(Path)
    BY DEF IsDigestMap
  <2> QED BY <2>1, ListIsListing, OrderedMembers DEF Sorted
<1>4. IsFiniteSet(N)
  <2> DEFINE f == [d \in DOMAIN m |-> NormalizeDigest(d)]
  <2>1. DOMAIN f = DOMAIN m /\ f \in [DOMAIN f -> Members(f)] /\ Members(f) = N
    <3>1. Members(f) = {f[d] : d \in DOMAIN f}
      BY DEF Members
    <3> QED BY <3>1
  <2> HIDE DEF f
  <2> QED BY <2>1, FiniteImage DEF IsDigestMap
<1> HIDE DEF c
<1>5. DOMAIN Normalize(m) = N
  BY <1>1
<1>6. ASSUME NEW d \in DOMAIN m PROVE Normalize(m)[NormalizeDigest(d)] = Sorted(m[d])
  <2>1. NormalizeDigest(d) \in N
    OBVIOUS
  <2> HIDE DEF N
  <2> QED BY <1>1, <1>2, <2>1
<1>7. Normalize(m) \in [N -> Seq(Path)]
  <2>1. ASSUME NEW x \in N PROVE Sorted(m[c(x)]) \in Seq(Path)
    <3>1. PICK d \in DOMAIN m : x = NormalizeDigest(d)
      OBVIOUS
    <3> QED BY <1>2, <1>3, <3>1
  <2> HIDE DEF N
  <2> QED BY <1>1, <2>1
<1> HIDE DEF N
<1>8. IsDigestMap(Normalize(m))
  <2>1. \A x \in N : x \in {Digest(x[1], "lower"), Digest(x[1], "upper")}
    BY DEF N, NormalizeDigest, Digest
  <2> QED BY <1>4, <1>5, <1>7, <2>1 DEF IsDigestMap
<1> QED BY <1>3, <1>5, <1>6, <1>8 DEF N

\* It keeps the paths and the content of each.
LEMMA NormalizeKeeps ==
    ASSUME NEW m, IsDigestMap(m), Valid(m)
    PROVE  /\ PathSet(Normalize(m)) = PathSet(m)
           /\ \A p \in PathSet(m) : DigestFor(Normalize(m), p) = NormalizeDigest(DigestFor(m, p))
           /\ Sums(Normalize(m)) = Sums(m)
<1> DEFINE n == Normalize(m)
<1>0. /\ IsDigestMap(n) /\ DOMAIN n = {NormalizeDigest(d) : d \in DOMAIN m}
      /\ \A d \in DOMAIN m : Members(n[NormalizeDigest(d)]) = Members(m[d])
  BY NormalizeIs
<1> HIDE DEF n
<1>1. PathSet(n) = PathSet(m)
  <2>1. \A p : (\E x \in DOMAIN n : p \in Members(n[x])) <=> \E d \in DOMAIN m : p \in Members(m[d])
    BY <1>0
  <2> QED BY <2>1, PathSetIs
<1>2. ASSUME NEW p \in PathSet(m) PROVE DigestFor(n, p) = NormalizeDigest(DigestFor(m, p))
  <2>1. DigestFor(n, p) \in DOMAIN n /\ p \in Members(n[DigestFor(n, p)])
    BY <1>1, PathSetIs
  <2>2. PICK d \in DOMAIN m : DigestFor(n, p) = NormalizeDigest(d)
    BY <1>0, <2>1
  <2>3. p \in Members(m[d])
    BY <1>0, <2>1, <2>2
  <2>4. DigestFor(m, p) = d
    BY <2>3, ValidDigestFor
  <2> QED BY <2>2, <2>4
<1>3. Sums(n) = Sums(m)
  <2>1. \A d : NormalizeDigest(d)[1] = d[1]
    BY DEF NormalizeDigest, Digest
  <2> QED BY <1>1, <1>2, <2>1 DEF Sums
<1> QED BY <1>1, <1>2, <1>3 DEF n

\* Normalizing twice changes nothing.
LEMMA NormalizeTwice ==
    ASSUME NEW m, IsDigestMap(m), Valid(m)
    PROVE  Normalize(Normalize(m)) = Normalize(m)
<1> DEFINE n == Normalize(m)
           c(x) == CHOOSE d \in DOMAIN n : NormalizeDigest(d) = x
           N == {NormalizeDigest(d) : d \in DOMAIN n}
<1>0. /\ IsDigestMap(n) /\ DOMAIN n = {NormalizeDigest(d) : d \in DOMAIN m}
      /\ \A d \in DOMAIN m : n[NormalizeDigest(d)] = Sorted(m[d])
  BY NormalizeIs
<1>1. Normalize(n) = [x \in N |-> Sorted(n[c(x)])]
  BY DEF Normalize
<1> HIDE DEF n
<1>2. \A d : NormalizeDigest(NormalizeDigest(d)) = NormalizeDigest(d)
  BY DEF NormalizeDigest, Digest
<1>3. \A x \in DOMAIN n : NormalizeDigest(x) = x
  BY <1>0, <1>2
<1>4. N = DOMAIN n
  BY <1>3
<1>5. \A x \in DOMAIN n : c(x) = x
  BY <1>3
<1>6. ASSUME NEW x \in DOMAIN n PROVE Sorted(n[x]) = n[x]
  <2>1. PICK d \in DOMAIN m : x = NormalizeDigest(d)
    BY <1>0
  <2>2. n[x] = Sorted(m[d]) /\ m[d] \in Seq(Path)
    BY <1>0, <2>1 DEF IsDigestMap
  <2> QED BY <2>2, ListIsListing, OrderedTwice DEF Sorted
<1> HIDE DEF c, N
<1>7. Normalize(n) = [x \in DOMAIN n |-> n[x]]
  BY <1>1, <1>4, <1>5, <1>6
<1>8. n = [x \in DOMAIN n |-> n[x]]
  BY <1>0 DEF IsDigestMap
<1> QED BY <1>7, <1>8 DEF n

-----------------------------------------------------------------------------
(* Inventories *)

\* ValidateInventory finds no error in a map only if it is valid.
LEMMA NoMapErrors ==
    ASSUME NEW m, NEW a, NEW b, NEW c, MapErrors(m, a, b, c) = {}
    PROVE  Valid(m)
<1>1. PathsErr(AllPaths(m)) \in {"pathInvalid", "pathConflict", "ok"}
  BY DEF PathsErr
<1>2. MapErr(m) \in {"digestConflict", "noPaths", "pathInvalid", "pathConflict", "ok"}
  BY <1>1 DEF MapErr
<1>3. /\ MapErr(m) # "digestConflict" /\ MapErr(m) # "noPaths"
      /\ MapErr(m) # "pathInvalid" /\ MapErr(m) # "pathConflict"
  BY DEF MapErrors, Err
<1> QED BY <1>2, <1>3 DEF Valid

\* The maps of a valid inventory are valid.
LEMMA ValidInventoryMaps ==
    ASSUME NEW i, ValidInventory(i)
    PROVE  Valid(i.manifest) /\ \A v \in DOMAIN i.versions : Valid(i.versions[v])
<1>1. ManifestErrors(i) = {} /\ StateErrors(i) = {}
  BY DEF ValidInventory, ValidateInventory
<1>2. Valid(i.manifest)
  <2>1. MapErrors(i.manifest, "E096", "E099", "E101") = {}
    BY <1>1 DEF ManifestErrors
  <2> QED BY <2>1, NoMapErrors
<1>3. ASSUME NEW v \in DOMAIN i.versions PROVE Valid(i.versions[v])
  <2> DEFINE E(w) == Err("E050", \E d \in DOMAIN i.versions[w] :
                                    d \notin DOMAIN i.manifest \/ i.manifest[d] = <<>>)
             M(w) == MapErrors(i.versions[w], "E050", "E052", "E095")
  <2>1. StateErrors(i) = UNION {M(w) \cup E(w) : w \in DOMAIN i.versions}
    BY DEF StateErrors
  <2> HIDE DEF M, E
  <2>2. M(v) = {}
    BY <1>1, <2>1
  <2> QED BY <2>2, NoMapErrors DEF M
<1> QED BY <1>2, <1>3

\* The head of a valid inventory is its last version.
LEMMA HeadIsLast ==
    ASSUME NEW i, IsInventory(i), ValidInventory(i)
    PROVE  /\ i.head \in DOMAIN i.versions /\ i.head.num > 0
           /\ \A v \in DOMAIN i.versions : v.num \in 1..i.head.num
<1> DEFINE D == DOMAIN i.versions
           c == Cardinality(D)
<1>1. D \subseteq VNum /\ IsFiniteSet(D) /\ c \in Nat
  BY FS_CardinalityType DEF IsInventory
<1>2. VersionNameErrors(i) = {}
  BY DEF ValidInventory, ValidateInventory
<1>3. VNumsErr(D) # "empty" /\ VNumsErr(D) # "missing" /\ HeadOf(D) = i.head
  BY <1>2 DEF VersionNameErrors, Err
<1>4. D # {}
  BY <1>3 DEF VNumsErr
<1>5. {v.num : v \in D} = 1..c
  BY <1>3, <1>4 DEF VNumsErr
<1>6. HeadOf(D) = CHOOSE v \in D : \A w \in D : w.num <= v.num
  BY <1>4 DEF HeadOf
<1> HIDE DEF D, c
<1>7. c > 0
  BY <1>1, <1>4, <1>5
<1>8. PICK v \in D : v.num = c
  BY <1>1, <1>5, <1>7
<1>9. \A w \in D : w.num \in 1..c
  BY <1>5
<1>10. \A w \in D : w.num <= v.num
  BY <1>1, <1>8, <1>9
<1>11. i.head \in D /\ \A w \in D : w.num <= i.head.num
  BY <1>3, <1>6, <1>10
<1>12. i.head.num = c
  BY <1>1, <1>8, <1>9, <1>11
<1> QED BY <1>7, <1>9, <1>11, <1>12 DEF D

\* A builder with one added version.
LEMMA BuildOne ==
    ASSUME NEW b, NEW a, b.added = <<a>>
    PROVE  LET first == InitialInventory(b)
           IN  /\ WithVersionOk(first, a)
                     => BuildVersions(b) = [ok |-> TRUE, inv |-> WithVersion(b, first, a)]
               /\ ~ WithVersionOk(first, a) => ~ BuildVersions(b).ok
<1> DEFINE first == InitialInventory(b)
           start == [ok |-> TRUE, inv |-> first]
           add(acc, x) == IF acc.ok /\ WithVersionOk(acc.inv, x)
                          THEN [ok |-> TRUE, inv |-> WithVersion(b, acc.inv, x)]
                          ELSE [acc EXCEPT !.ok = FALSE]
           F == CHOOSE g : g = [n \in 0..Len(b.added) |->
                                   IF n = 0 THEN start ELSE add(g[n - 1], b.added[n])]
<1>1. BuildVersions(b) = F[Len(b.added)]
  BY DEF BuildVersions
<1>2. Len(b.added) = 1 /\ b.added[1] = a
  OBVIOUS
<1> DEFINE h == [n \in 0..1 |-> IF n = 0 THEN start ELSE add(start, a)]
           G(g) == [n \in 0..1 |-> IF n = 0 THEN start ELSE add(g[n - 1], b.added[n])]
<1>a. F = CHOOSE g : g = G(g)
  BY <1>2
<1> HIDE DEF start, F
<1>3. \A n \in 0..1 : n = 0 \/ (n = 1 /\ n - 1 = 0)
  OBVIOUS
<1> HIDE DEF add
<1>4. h = G(h)
  <2>1. h[0] = start
    OBVIOUS
  <2>2. \A n \in 0..1 : (IF n = 0 THEN start ELSE add(h[n - 1], b.added[n]))
                         = IF n = 0 THEN start ELSE add(start, a)
    <3> HIDE DEF h
    <3> QED BY <1>2, <1>3, <2>1
  <2> QED BY <2>2
<1>5. F = G(F)
  <2> HIDE DEF G, h
  <2> QED BY <1>4, <1>a
<1>6. F[0] = start /\ F[1] = add(F[0], a)
  BY <1>2, <1>5
<1>7. BuildVersions(b) = add(start, a)
  BY <1>1, <1>2, <1>6
<1>8. start.ok /\ start.inv = first
  BY DEF start
<1>9. WithVersionOk(first, a) => add(start, a) = [ok |-> TRUE, inv |-> WithVersion(b, first, a)]
  BY <1>8 DEF add
<1>10. ~ WithVersionOk(first, a) => ~ add(start, a).ok
  <2>1. ~ WithVersionOk(first, a) => add(start, a) = [start EXCEPT !.ok = FALSE]
    BY <1>8 DEF add
  <2>2. ~ [start EXCEPT !.ok = FALSE].ok
    BY DEF start
  <2> QED BY <2>1, <2>2
<1> QED BY <1>7, <1>9, <1>10

-----------------------------------------------------------------------------
(* The inventory of an update *)

\* The builder of NewUpdatePlan: one version on top of prev.
UpdateBuilder(prev, id, spec, padding, contentPath, fixity, state, alg) ==
    AddVersion(NewInventoryBuilder(prev, id, spec, padding, contentPath, fixity), state, alg)

\* Digests of the new state that the manifest has no file for, and the files they get.
FreshDigests(manifest, state) ==
    {d \in DOMAIN state : d \notin DOMAIN manifest \/ manifest[d] = <<>>}
FreshPaths(contentPath, head, paths) ==
    [i \in DOMAIN Apply(contentPath, paths) |-> ContentPath(head, Apply(contentPath, paths)[i])]
BuiltManifest(manifest, state, contentPath, head) ==
    [d \in DOMAIN manifest \cup FreshDigests(manifest, state) |->
        IF d \in FreshDigests(manifest, state) THEN FreshPaths(contentPath, head, state[d])
                                               ELSE manifest[d]]
BuiltVersions(versions, state, head) ==
    [v \in DOMAIN versions \cup {head} |-> IF v = head THEN state ELSE Normalize(versions[v])]

\* What Finalize returns, field by field.
LEMMA FinalizeOne ==
    ASSUME NEW prev, NEW id, NEW spec, NEW padding, NEW contentPath, NEW fixity, NEW state, NEW alg,
           NEW next,
           next = Finalize(UpdateBuilder(prev, id, spec, padding, contentPath, fixity, state, alg)),
           Exists(next)
    PROVE  /\ Valid(prev.manifest) /\ \A v \in DOMAIN prev.versions : Valid(prev.versions[v])
           /\ Valid(state)
           /\ ValidInventory(next) /\ DOMAIN next = DOMAIN Nil /\ next.id = id
           /\ next.head = NextVNum(IF Exists(prev) THEN prev.head ELSE V(0, padding))
           /\ next.versions = BuiltVersions(prev.versions, Normalize(state), next.head)
           /\ next.manifest = BuiltManifest(Normalize(prev.manifest), Normalize(state),
                                            contentPath, next.head)
<1> DEFINE b == UpdateBuilder(prev, id, spec, padding, contentPath, fixity, state, alg)
           a == [state |-> state, alg |-> alg]
           first == InitialInventory(b)
           built == WithVersion(b, first, a)
           head == NextVNum(b.head)
<1>1. /\ b.prev = prev /\ b.id = id /\ b.contentPath = contentPath /\ b.added = <<a>>
      /\ b.head = IF Exists(prev) THEN prev.head ELSE V(0, padding)
  BY DEF UpdateBuilder, AddVersion, NewInventoryBuilder
<1>2. a.state = state
  OBVIOUS
<1>3. /\ first.id = b.id /\ first.head = b.head /\ first.manifest = Normalize(prev.manifest)
      /\ first.versions = [v \in DOMAIN prev.versions |-> Normalize(prev.versions[v])]
  BY <1>1 DEF InitialInventory
<1>4. first = [id |-> first.id, spec |-> first.spec, alg |-> first.alg, head |-> first.head,
               manifest |-> first.manifest, versions |-> first.versions, fixity |-> first.fixity]
  BY DEF InitialInventory
<1> HIDE DEF b, first, a
<1>5. /\ Exists(Finalize(b)) => InitialOk(b) /\ BuildVersions(b).ok
      /\ Exists(Finalize(b)) => /\ Finalize(b) = FillFixity(b, BuildVersions(b).inv)
                                /\ ValidInventory(Finalize(b))
  BY DEF Finalize, Exists
<1>6. InitialOk(b) /\ BuildVersions(b).ok /\ next = FillFixity(b, BuildVersions(b).inv)
      /\ ValidInventory(next)
  BY <1>5 DEF b
<1>7. WithVersionOk(first, a) /\ BuildVersions(b).inv = built
  <2>1. WithVersionOk(first, a)
    BY <1>1, <1>6, BuildOne DEF first
  <2>2. BuildVersions(b) = [ok |-> TRUE, inv |-> built]
    BY <1>1, <2>1, BuildOne DEF first
  <2> QED BY <2>1, <2>2
<1>8. Valid(state)
  BY <1>2, <1>7 DEF WithVersionOk
<1>9. Valid(prev.manifest) /\ \A v \in DOMAIN prev.versions : Valid(prev.versions[v])
  BY <1>1, <1>6 DEF InitialOk
<1>10. built = [id |-> first.id, spec |-> first.spec, alg |-> a.alg, head |-> head,
                manifest |-> BuiltManifest(first.manifest, Normalize(state), contentPath, head),
                versions |-> [v \in DOMAIN first.versions \cup {head} |->
                                 IF v = head THEN Normalize(state) ELSE first.versions[v]],
                fixity |-> first.fixity]
  <2> DEFINE st == Normalize(a.state)
             hd == NextVNum(first.head)
             new == FreshDigests(first.manifest, st)
             M == [d \in DOMAIN first.manifest \cup new |->
                      IF d \in new THEN FreshPaths(b.contentPath, hd, st[d]) ELSE first.manifest[d]]
             W == [v \in DOMAIN first.versions \cup {hd} |->
                                 IF v = hd THEN st ELSE first.versions[v]]
  <2>1. built = [first EXCEPT !.alg = a.alg, !.head = hd, !.versions = W, !.manifest = M]
    BY DEF WithVersion, FreshDigests, FreshPaths
  <2>2. st = Normalize(state) /\ hd = head
    BY <1>2, <1>3
  <2>3. M = BuiltManifest(first.manifest, st, b.contentPath, hd)
    BY DEF BuiltManifest
  <2> HIDE DEF M, W, st, hd, built
  <2>4. built = [id |-> first.id, spec |-> first.spec, alg |-> a.alg, head |-> hd,
                 manifest |-> M, versions |-> W, fixity |-> first.fixity]
    BY <1>4, <2>1
  <2> QED BY <1>1, <2>2, <2>3, <2>4 DEF W
<1> HIDE DEF built
<1>11. /\ next.head = built.head /\ next.versions = built.versions /\ next.manifest = built.manifest
       /\ DOMAIN next = DOMAIN Nil /\ next.id = built.id
  <2>1. \E x : next = [built EXCEPT !.fixity = x]
    BY <1>6, <1>7 DEF FillFixity
  <2>2. DOMAIN Nil = {"id", "spec", "alg", "head", "manifest", "versions", "fixity"}
    BY DEF Nil
  <2> QED BY <1>10, <2>1, <2>2
<1>12. /\ next.head = head /\ next.manifest = BuiltManifest(first.manifest, Normalize(state), contentPath, head)
       /\ next.id = id
  BY <1>1, <1>3, <1>10, <1>11
<1>13. next.versions = BuiltVersions(prev.versions, Normalize(state), next.head)
  <2>1. next.versions = [v \in DOMAIN first.versions \cup {head} |->
                            IF v = head THEN Normalize(state) ELSE first.versions[v]]
    BY <1>10, <1>11
  <2>2. DOMAIN first.versions = DOMAIN prev.versions
        /\ \A v \in DOMAIN prev.versions : first.versions[v] = Normalize(prev.versions[v])
    BY <1>3
  <2> HIDE DEF head
  <2> QED BY <1>12, <2>1, <2>2 DEF BuiltVersions
<1> QED BY <1>1, <1>3, <1>6, <1>8, <1>9, <1>11, <1>12, <1>13

-----------------------------------------------------------------------------
(* Path mutations *)

\* Characters picked from a path are a path.
LEMMA PickedIsPath ==
    ASSUME NEW p \in Path, NEW Q, Q \subseteq DOMAIN p
    PROVE  Picked(p, Q) \in Path
<1> DEFINE S == {<<q>> : q \in Q}
           order == SortedSet(S)
           r == [k \in DOMAIN order |-> p[order[k][1]]]
<1>1. Len(p) \in Nat /\ DOMAIN p = 1..Len(p) /\ \A i \in DOMAIN p : p[i] \in Nat
  BY LenProperties, ElementOfSeq DEF Path
<1>2. S \subseteq Path
  <2>1. \A q \in Q : q \in Nat
    BY <1>1
  <2>2. \A q \in Nat : <<q>> \in Seq(Nat)
    OBVIOUS
  <2> QED BY <2>1, <2>2 DEF Path
<1>3. IsFiniteSet(S)
  <2>1. IsFiniteSet(Q)
    <3>1. IsFiniteSet(1..Len(p))
      BY <1>1, FS_Interval
    <3> QED BY <1>1, <3>1, FS_Subset
  <2> DEFINE g == [q \in Q |-> <<q>>]
  <2>2. Members(g) = S /\ DOMAIN g = Q /\ g \in [Q -> Members(g)]
    BY DEF Members
  <2> HIDE DEF g, S
  <2> QED BY <2>1, <2>2, FiniteImage
<1>4. \A s \in S : s[1] \in Q
  OBVIOUS
<1> HIDE DEF S
<1>5. order \in Seq(Path) /\ Members(order) = S
  BY <1>2, <1>3, SortedSetOnce
<1> HIDE DEF order
<1>6. Len(order) \in Nat /\ DOMAIN order = 1..Len(order) /\ \A k \in DOMAIN order : order[k] \in S
  BY <1>5, LenProperties DEF Members
<1>7. r \in [1..Len(order) -> Nat]
  BY <1>1, <1>4, <1>6
<1> HIDE DEF r
<1>8. r \in Seq(Nat)
  BY <1>6, <1>7, FunctionIsSeq
<1> QED BY <1>8 DEF Picked, Path, r, order, S

\* Where an element ends: behind its start, at the next slash or behind the path.
LEMMA EndIs ==
    ASSUME NEW p \in Path, NEW i \in Starts(p)
    PROVE  /\ i \in 0..Len(p) /\ End(p, i) \in i + 1..Len(p) + 1
           /\ End(p, i) \in Starts(p) \cup {Len(p) + 1}
           /\ \A j \in Starts(p) : j > i => End(p, i) <= j
<1> DEFINE T == {j \in Starts(p) : j > i} \cup {Len(p) + 1}
<1>1. Len(p) \in Nat /\ DOMAIN p = 1..Len(p)
  BY LenProperties DEF Path
<1>2. Starts(p) \subseteq 0..Len(p)
  BY <1>1 DEF Starts
<1>3. T \subseteq i + 1..Len(p) + 1 /\ T \subseteq Nat /\ Len(p) + 1 \in T
  BY <1>1, <1>2
<1>4. End(p, i) = CHOOSE x \in T : \A y \in T : x <= y
  BY DEF End, SE!Min
<1>5. End(p, i) \in T /\ \A y \in T : End(p, i) <= y
  <2> HIDE DEF T
  <2> QED BY <1>3, <1>4, LeastNat
<1> QED BY <1>2, <1>3, <1>5

\* path.Clean makes a path of a path.
LEMMA CleanIsPath ==
    ASSUME NEW p \in Path
    PROVE  Clean(p) \in Path
<1>1. Len(p) \in Nat /\ DOMAIN p = 1..Len(p)
  BY LenProperties DEF Path
<1>2. <<Slash>> \in Path /\ <<Dot>> \in Path
  BY DEF Slash, Dot, Path
<1>3. ASSUME NEW kept, kept \subseteq Starts(p), NEW drop, 0 \in drop
      PROVE  (UNION {i..End(p, i) - 1 : i \in kept}) \ drop \subseteq DOMAIN p
  <2> SUFFICES ASSUME NEW i \in kept, NEW k \in i..End(p, i) - 1, k # 0 PROVE k \in DOMAIN p
    BY <1>3
  <2>1. i \in 0..Len(p) /\ End(p, i) \in i + 1..Len(p) + 1
    BY <1>3, EndIs
  <2> QED BY <1>1, <2>1
<1> DEFINE kept == NamesLeft(Names(p), Ups(p))
                   \cup (IF Rooted(p) THEN {} ELSE UpsLeft(Names(p), Ups(p)))
           drop == {0} \cup (IF Rooted(p) THEN {} ELSE {SE!Min(kept)})
           Q == (UNION {i..End(p, i) - 1 : i \in kept}) \ drop
<1>4. Clean(p) = IF ValidPath(p) THEN p ELSE PathOf(p, kept, Rooted(p))
  BY DEF Clean
<1>5. kept \subseteq Starts(p)
  <2>1. Ups(p) \subseteq Starts(p) /\ Names(p) \subseteq Starts(p)
    BY DEF Ups, Names
  <2> QED BY <2>1 DEF NamesLeft, UpsLeft
<1> HIDE DEF kept
<1>6. PathOf(p, kept, Rooted(p)) =
        IF kept = {} THEN IF Rooted(p) THEN <<Slash>> ELSE <<Dot>> ELSE Picked(p, Q)
  BY DEF PathOf
<1>7. 0 \in drop
  OBVIOUS
<1> HIDE DEF drop
<1>8. Q \subseteq DOMAIN p
  BY <1>3, <1>5, <1>7
<1> HIDE DEF Q
<1> QED BY <1>2, <1>4, <1>6, <1>8, PickedIsPath

\* A path put below a directory is a path.
LEMMA JoinIsPath ==
    ASSUME NEW dir \in Path, NEW p \in Path
    PROVE  Join(dir, p) \in Path
<1>1. <<Slash>> \in Seq(Nat)
  BY DEF Slash
<1>2. dir \o <<Slash>> \in Seq(Nat)
  BY <1>1, ConcatProperties DEF Path
<1>3. dir \o <<Slash>> \o p \in Path
  BY <1>2, ConcatProperties DEF Path
<1>4. <<>> \in Path
  BY DEF Path
<1> QED BY <1>3, <1>4, CleanIsPath DEF Join

\* A mutation makes lists of paths out of lists of paths.
LEMMA ApplyIsList ==
    ASSUME NEW mutation, IsMutation(mutation), NEW paths \in Seq(Path)
    PROVE  Apply(mutation, paths) \in Seq(Path)
<1> DEFINE n == Len(paths)
<1>0. n \in Nat /\ DOMAIN paths = 1..n /\ paths \in [1..n -> Path]
  BY LenProperties
<1>1. CASE mutation.op = "rename"
  <2> DEFINE src == mutation.src
             dst == mutation.dst
             at == SE!SelectInSeq(paths, LAMBDA p : p = src)
  <2>0. src \in Path /\ dst \in Path
    BY <1>1 DEF IsMutation
  <2>1. Apply(mutation, paths) = RenamePaths(src, dst, paths)
    BY <1>1 DEF Apply
  <2>2. RenamePaths(src, dst, paths) \in [1..n -> Path]
    <3>1. CASE src = <<Dot>>
      <4>1. RenamePaths(src, dst, paths) = [i \in 1..n |-> Join(dst, paths[i])]
        BY <1>0, <3>1 DEF RenamePaths
      <4> QED BY <1>0, <2>0, <4>1, JoinIsPath
    <3>2. CASE src # <<Dot>> /\ SE!Contains(paths, src)
      <4>1. RenamePaths(src, dst, paths) = [paths EXCEPT ![at] = dst]
        BY <3>2 DEF RenamePaths
      <4> HIDE DEF at
      <4> QED BY <1>0, <2>0, <4>1
    <3>3. CASE src # <<Dot>> /\ ~ SE!Contains(paths, src)
      <4> DEFINE moved(p) == IF SE!IsPrefix(Append(src, Slash), p)
                             THEN Join(dst, SubSeq(p, Len(src) + 2, Len(p)))
                             ELSE p
      <4>1. RenamePaths(src, dst, paths) = [i \in 1..n |-> moved(paths[i])]
        BY <1>0, <3>3 DEF RenamePaths
      <4>2. ASSUME NEW p \in Path, SE!IsPrefix(Append(src, Slash), p)
            PROVE  SubSeq(p, Len(src) + 2, Len(p)) \in Path
        <5>1. Len(Append(src, Slash)) <= Len(p)
          BY <4>2 DEF SE!IsPrefix
        <5>2. Len(src) \in Nat /\ Len(p) \in Nat /\ Len(Append(src, Slash)) = Len(src) + 1
          BY <2>0 DEF Path, Slash
        <5>3. \A i \in Len(src) + 2..Len(p) : p[i] \in Nat
          BY <5>2 DEF Path
        <5> QED BY <5>1, <5>2, <5>3, SubSeqProperties, Z3 DEF Path
      <4>3. \A p \in Path : moved(p) \in Path
        BY <2>0, <4>2, JoinIsPath
      <4> HIDE DEF moved
      <4> QED BY <1>0, <4>1, <4>3
    <3> QED BY <3>1, <3>2, <3>3
  <2> QED BY <1>0, <2>1, <2>2, FunctionIsSeq
<1>2. CASE mutation.op = "remove"
  <2> DEFINE name == mutation.src
             at == SE!SelectInSeq(paths, LAMBDA p : p = name)
             I == {i \in 1..n : paths[i] = name}
  <2>1. Apply(mutation, paths) = RemovePath(name, paths)
    BY <1>2 DEF Apply
  <2>2. CASE ~ SE!Contains(paths, name)
    BY <2>1, <2>2 DEF RemovePath
  <2>3. CASE SE!Contains(paths, name)
    <3>1. RemovePath(name, paths) = SubSeq(paths, 1, at - 1) \o SubSeq(paths, at + 1, n)
      BY <2>3 DEF RemovePath, SE!RemoveAt
    <3>2. at \in 1..n
      <4>1. I # {}
        BY <2>3 DEF SE!Contains
      <4>2. at = CHOOSE x \in I : \A y \in I : x <= y
        BY <4>1 DEF SE!SelectInSeq, SE!Min
      <4>3. I \subseteq Nat
        BY <1>0
      <4>4. at \in I
        <5> HIDE DEF I, at
        <5> QED BY <4>1, <4>2, <4>3, LeastNat
      <4> QED BY <4>4
    <3> HIDE DEF at
    <3>3. SubSeq(paths, 1, at - 1) \in Seq(Path)
      <4>1. \A i \in 1..at - 1 : paths[i] \in Path
        BY <1>0, <3>2
      <4> QED BY <1>0, <3>2, <4>1, SubSeqProperties, Z3
    <3>4. SubSeq(paths, at + 1, n) \in Seq(Path)
      <4>1. \A i \in at + 1..n : paths[i] \in Path
        BY <1>0, <3>2
      <4> QED BY <1>0, <3>2, <4>1, SubSeqProperties, Z3
    <3> QED BY <2>1, <3>1, <3>3, <3>4, ConcatProperties
  <2> QED BY <2>2, <2>3
<1>3. CASE mutation.op = "identity"
  BY <1>3 DEF Apply
<1> QED BY <1>1, <1>2, <1>3 DEF IsMutation

-----------------------------------------------------------------------------
(* How the inventory of an update extends the previous one *)

\* The first two characters of a content path: the version's directory and a slash.
LEMMA PrefixOfVersion ==
    ASSUME NEW n \in Nat
    PROVE  /\ <<VersionDirChar(n), Slash>> \in Seq(Nat) /\ Len(<<VersionDirChar(n), Slash>>) = 2
           /\ <<VersionDirChar(n), Slash>>[1] = 200 + n
           /\ <<VersionDirChar(n), Slash>>[2] = Slash
BY DEF VersionDirChar, Slash

\* A part of a path is the same part of a path that has it further back.
LEMMA SubSeqMoved ==
    ASSUME NEW p, NEW q, NEW k \in Nat, NEW i \in Nat, NEW j \in Int,
           \A h \in i..j : p[h] \in Nat /\ q[k + h] = p[h]
    PROVE  SubSeq(q, k + i, k + j) = SubSeq(p, i, j)
<1> DEFINE a == SubSeq(q, k + i, k + j)
           b == SubSeq(p, i, j)
           n == IF i <= j THEN j - i + 1 ELSE 0
<1>1. b \in Seq(Nat) /\ Len(b) = n /\ \A h \in 1..j - i + 1 : b[h] = p[i + h - 1]
  BY SubSeqProperties, Z3
<1>2. a \in Seq(Nat) /\ Len(a) = n /\ \A h \in 1..j - i + 1 : a[h] = q[(k + i) + h - 1]
  <2>1. \A h \in k + i..k + j : h - k \in i..j /\ h = k + (h - k)
    OBVIOUS
  <2>2. \A h \in k + i..k + j : q[h] \in Nat
    BY <2>1
  <2>3. k + i \in Int /\ k + j \in Int /\ (k + i <= k + j <=> i <= j) /\ (k + j) - (k + i) = j - i
    OBVIOUS
  <2>4. a \in Seq(Nat) /\ Len(a) = (IF k + i <= k + j THEN (k + j) - (k + i) + 1 ELSE 0)
        /\ \A h \in 1..(k + j) - (k + i) + 1 : a[h] = q[(k + i) + h - 1]
    BY <2>2, <2>3, SubSeqProperties, Z3
  <2> HIDE DEF a
  <2> QED BY <2>3, <2>4
<1> HIDE DEF a, b
<1>3. ASSUME NEW h \in 1..n PROVE a[h] = b[h]
  <2>1. h \in 1..j - i + 1 /\ (i + h) - 1 \in i..j /\ (k + i) + h - 1 = k + ((i + h) - 1)
    BY <1>3
  <2> QED BY <1>1, <1>2, <2>1
<1>4. DOMAIN a = 1..n /\ DOMAIN b = 1..n
  BY <1>1, <1>2, LenProperties
<1>5. a = b
  BY <1>1, <1>2, <1>3, <1>4, SeqEqual
<1> QED BY <1>5 DEF a, b

\* Two valid paths with a slash between them are a valid path.
LEMMA JoinedIsValid ==
    ASSUME NEW a \in Path, NEW p \in Path, ValidPath(a), ValidPath(p)
    PROVE  a \o <<Slash>> \o p \in Path /\ ValidPath(a \o <<Slash>> \o p)
<1> DEFINE q == a \o <<Slash>> \o p
           m == Len(a)
           n == Len(p)
<1>1. m \in Nat /\ DOMAIN a = 1..m /\ n \in Nat /\ DOMAIN p = 1..n
      /\ (\A i \in 1..m : a[i] \in Nat) /\ (\A i \in 1..n : p[i] \in Nat)
  BY LenProperties, ElementOfSeq DEF Path
<1>2. /\ q \in Seq(Nat) /\ Len(q) = m + n + 1 /\ DOMAIN q = 1..m + n + 1 /\ q[m + 1] = Slash
      /\ \A i \in 1..m : q[i] = a[i]
      /\ \A i \in 1..n : q[(m + 1) + i] = p[i]
  <2> DEFINE s == a \o <<Slash>>
  <2>1. <<Slash>> \in Seq(Nat) /\ Len(<<Slash>>) = 1 /\ <<Slash>>[1] = Slash
    BY DEF Slash
  <2>2. s \in Seq(Nat) /\ Len(s) = m + 1 /\ \A i \in 1..m + 1 : s[i] = IF i <= m THEN a[i] ELSE <<Slash>>[i - m]
    BY <2>1, ConcatProperties DEF Path
  <2>3. s[m + 1] = Slash /\ \A i \in 1..m : s[i] = a[i]
    <3>1. m + 1 \in 1..m + 1 /\ ~ (m + 1 <= m) /\ (m + 1) - m = 1
      BY <1>1
    <3>2. \A i \in 1..m : i \in 1..m + 1 /\ i <= m
      BY <1>1
    <3> HIDE DEF s
    <3> QED BY <2>1, <2>2, <3>1, <3>2
  <2> HIDE DEF s
  <2>4. /\ s \o p \in Seq(Nat) /\ Len(s \o p) = m + 1 + n
        /\ \A i \in 1..m + 1 + n : (s \o p)[i] = IF i <= m + 1 THEN s[i] ELSE p[i - (m + 1)]
    <3>1. s \o p \in Seq(Nat) /\ Len(s \o p) = Len(s) + Len(p)
          /\ \A i \in 1..Len(s) + Len(p) : (s \o p)[i] = IF i <= Len(s) THEN s[i] ELSE p[i - Len(s)]
      BY <2>2, ConcatProperties DEF Path
    <3>2. Len(s) = m + 1
      BY <2>2
    <3> QED BY <3>1, <3>2
  <2>5. q = s \o p
    BY DEF s
  <2> HIDE DEF q
  <2>6. m + 1 + n = m + n + 1 /\ m + 1 \in 1..m + 1 + n /\ m + 1 <= m + 1
    BY <1>1
  <2>7. \A i \in 1..m : i \in 1..m + 1 + n /\ i <= m + 1
    BY <1>1
  <2>8. \A i \in 1..n : (m + 1) + i \in 1..m + 1 + n /\ ~ ((m + 1) + i <= m + 1) /\ ((m + 1) + i) - (m + 1) = i
    BY <1>1
  <2>9. q \in Seq(Nat) /\ Len(q) = m + n + 1 /\ DOMAIN q = 1..m + n + 1
    BY <2>4, <2>5, <2>6, LenProperties
  <2>10. \A i \in 1..n : q[(m + 1) + i] = p[i]
    BY <2>4, <2>5, <2>8
  <2> QED BY <2>3, <2>4, <2>5, <2>6, <2>7, <2>9, <2>10
<1> HIDE DEF q
<1>3. q \in Path
  BY <1>2 DEF Path
<1>4. /\ \A i \in Starts(a) : i \in Starts(q) /\ i \in 0..m
      /\ \A j \in Starts(p) : (m + 1) + j \in Starts(q) /\ j \in 0..n
      /\ \A i \in Starts(q) : i \in Starts(a) \/ \E j \in Starts(p) : i = (m + 1) + j
  <2>1. \A i \in Starts(a) : i \in Starts(q) /\ i \in 0..m
    BY <1>1, <1>2 DEF Starts
  <2>2. \A j \in Starts(p) : (m + 1) + j \in Starts(q) /\ j \in 0..n
    BY <1>1, <1>2 DEF Starts
  <2>3. ASSUME NEW i \in Starts(q), i \notin Starts(a) PROVE \E j \in Starts(p) : i = (m + 1) + j
    <3>1. i \in 1..m + n + 1 /\ q[i] = Slash /\ i \notin 1..m
      BY <1>1, <1>2, <2>3 DEF Starts
    <3>2. CASE i = m + 1
      BY <1>1, <3>2 DEF Starts
    <3>3. CASE i # m + 1
      <4>1. i - (m + 1) \in 1..n /\ i = (m + 1) + (i - (m + 1))
        BY <1>1, <3>1, <3>3
      <4> DEFINE j == i - (m + 1)
      <4>2. j \in 1..n /\ i = (m + 1) + j
        BY <4>1
      <4> HIDE DEF j
      <4>3. p[j] = Slash
        BY <1>2, <3>1, <4>2
      <4> QED BY <1>1, <4>2, <4>3 DEF Starts
    <3> QED BY <3>2, <3>3
  <2> QED BY <2>1, <2>2, <2>3
<1>5. ASSUME NEW i \in Starts(a) PROVE Element(q, i) = Element(a, i)
  <2> DEFINE e == End(a, i)
             x == End(q, i)
  <2>1. /\ i \in 0..m /\ e \in i + 1..m + 1 /\ e \in Starts(a) \cup {m + 1}
        /\ \A j \in Starts(a) : j > i => e <= j
    BY EndIs
  <2>2. /\ x \in i + 1..m + n + 2 /\ x \in Starts(q) \cup {m + n + 2}
        /\ \A j \in Starts(q) : j > i => x <= j
    <3>1. i \in Starts(q) /\ Len(q) + 1 = m + n + 2
      BY <1>1, <1>2, <1>4
    <3> QED BY <1>3, <3>1, EndIs
  <2> HIDE DEF e, x
  <2>3. m + 1 \in Starts(q)
    <3>1. 0 \in Starts(p) /\ (m + 1) + 0 = m + 1
      BY <1>1 DEF Starts
    <3> QED BY <1>4, <3>1
  <2>4. e \in Starts(q) /\ e > i
    BY <1>1, <1>4, <2>1, <2>3
  <2>5. x <= e
    BY <2>2, <2>4
  <2>6. x \in Starts(a) \cup {m + 1}
    <3>1. x <= m + 1
      BY <1>1, <2>1, <2>2, <2>5
    <3>2. x # m + n + 2
      BY <1>1, <3>1
    <3>3. ASSUME NEW j \in Starts(p), x = (m + 1) + j PROVE x = m + 1
      BY <1>1, <1>4, <3>1, <3>3
    <3> QED BY <1>4, <2>2, <3>2, <3>3
  <2>7. e <= x
    BY <1>1, <2>1, <2>2, <2>6
  <2>8. x = e
    BY <1>1, <2>1, <2>2, <2>5, <2>7
  <2>9. \A h \in i + 1..e - 1 : a[h] \in Nat /\ q[0 + h] = a[h]
    BY <1>1, <1>2, <2>1
  <2>10. i + 1 \in Nat /\ e - 1 \in Int /\ 0 + (i + 1) = i + 1 /\ 0 + (e - 1) = e - 1
    BY <1>1, <2>1
  <2>11. SubSeq(q, 0 + (i + 1), 0 + (e - 1)) = SubSeq(a, i + 1, e - 1)
    BY <2>9, <2>10, SubSeqMoved
  <2> QED BY <2>8, <2>10, <2>11 DEF Element, e, x
<1>6. ASSUME NEW j \in Starts(p) PROVE Element(q, (m + 1) + j) = Element(p, j)
  <2> DEFINE i == (m + 1) + j
             e == End(p, j)
             x == End(q, i)
  <2>1. /\ j \in 0..n /\ e \in j + 1..n + 1 /\ e \in Starts(p) \cup {n + 1}
        /\ \A k \in Starts(p) : k > j => e <= k
    BY EndIs
  <2>2. /\ x \in i + 1..m + n + 2 /\ x \in Starts(q) \cup {m + n + 2}
        /\ \A k \in Starts(q) : k > i => x <= k
    <3>1. i \in Starts(q) /\ Len(q) + 1 = m + n + 2
      BY <1>1, <1>2, <1>4
    <3> QED BY <1>3, <3>1, EndIs
  <2> HIDE DEF e, x
  <2>3. x <= (m + 1) + e
    <3>1. CASE e \in Starts(p)
      <4>1. (m + 1) + e \in Starts(q) /\ (m + 1) + e > i
        BY <1>1, <1>4, <2>1, <3>1
      <4> QED BY <2>2, <4>1
    <3>2. CASE e = n + 1
      BY <1>1, <2>2, <3>2
    <3> QED BY <2>1, <3>1, <3>2
  <2>4. (m + 1) + e <= x
    <3>1. CASE x = m + n + 2
      BY <1>1, <2>1, <3>1
    <3>2. ASSUME NEW k \in Starts(p), x = (m + 1) + k PROVE (m + 1) + e <= x
      <4>1. k \in 0..n /\ k > j
        BY <1>1, <1>4, <2>1, <2>2, <3>2
      <4> QED BY <1>1, <2>1, <3>2, <4>1
    <3>3. x \notin Starts(a)
      BY <1>1, <1>4, <2>1, <2>2
    <3> QED BY <1>4, <2>2, <3>1, <3>2, <3>3
  <2>9. x \in Nat /\ e \in Nat
    BY <1>1, <2>1, <2>2
  <2>5. x = (m + 1) + e
    BY <1>1, <2>3, <2>4, <2>9
  <2>6. \A h \in j + 1..e - 1 : p[h] \in Nat /\ q[(m + 1) + h] = p[h]
    <3>1. \A h \in j + 1..e - 1 : h \in 1..n
      BY <1>1, <2>1
    <3> QED BY <1>1, <1>2, <3>1
  <2>7. /\ m + 1 \in Nat /\ j + 1 \in Nat /\ e - 1 \in Int
        /\ (m + 1) + (j + 1) = i + 1 /\ (m + 1) + (e - 1) = ((m + 1) + e) - 1
    BY <1>1, <2>1
  <2>8. SubSeq(q, (m + 1) + (j + 1), (m + 1) + (e - 1)) = SubSeq(p, j + 1, e - 1)
    <3> HIDE DEF i, m
    <3> QED BY <2>6, <2>7, SubSeqMoved
  <2> QED BY <2>5, <2>7, <2>8 DEF Element, e, x
<1>7. \A i \in Starts(q) : Element(q, i) \in Elements(a) \cup Elements(p)
  BY <1>4, <1>5, <1>6 DEF Elements
<1>8. Elements(q) \subseteq Elements(a) \cup Elements(p)
  BY <1>7 DEF Elements
<1>9. ValidPath(q)
  BY <1>8 DEF ValidPath
<1> QED BY <1>3, <1>9 DEF q

\* A single character that is no dot and no slash is a valid path.
LEMMA OneCharIsValid ==
    ASSUME NEW c \in Nat, c \notin {Dot, Slash}
    PROVE  <<c>> \in Path /\ ValidPath(<<c>>)
<1> DEFINE p == <<c>>
<1>1. p \in Seq(Nat) /\ Len(p) = 1 /\ DOMAIN p = 1..1 /\ p[1] = c
  OBVIOUS
<1> HIDE DEF p
<1>2. p \in Path
  BY <1>1 DEF Path
<1>3. Starts(p) = {0}
  BY <1>1 DEF Starts
<1>4. End(p, 0) = 2
  <2>1. End(p, 0) \in 1..2 /\ End(p, 0) \in {0} \cup {2}
    <3>1. End(p, 0) \in 0 + 1..Len(p) + 1 /\ End(p, 0) \in {0} \cup {Len(p) + 1}
      BY <1>2, <1>3, EndIs
    <3> QED BY <1>1, <3>1
  <2> QED BY <2>1
<1>5. Element(p, 0) = p
  <2>1. Element(p, 0) = SubSeq(p, 1, 1)
    BY <1>4 DEF Element
  <2> QED BY <1>1, <2>1, SubSeqFull
<1>6. Elements(p) = {p}
  BY <1>3, <1>5 DEF Elements
<1>7. p \notin {<<>>, <<Dot>>, <<Dot, Dot>>}
  <2>1. p # <<>> /\ p # <<Dot>>
    BY <1>1
  <2>2. p # <<Dot, Dot>>
    BY <1>1
  <2> QED BY <2>1, <2>2
<1> QED BY <1>2, <1>6, <1>7 DEF ValidPath, p

\* The content path of a valid path is in the directory of its version; that of any
\* path is a path.
LEMMA ContentPathInDir ==
    ASSUME NEW v \in VNum, NEW p \in Path
    PROVE  /\ ContentPath(v, p) \in Path
           /\ ValidPath(p) => InVersionDir(ContentPath(v, p), v.num)
<1> DEFINE c == VersionDirChar(v.num)
           dir == <<c, Slash, ContentDirChar>>
           q == dir \o <<Slash>> \o p
<1>0. v.num \in Nat /\ c \in Nat /\ c \notin {Dot, Slash}
  BY DEF VNum, VersionDirChar, Dot, Slash
<1>1. ContentDirChar \in Nat /\ ContentDirChar \notin {Dot, Slash} /\ Slash \in Nat
  BY DEF ContentDirChar, Dot, Slash
<1>2. dir \in Path /\ dir # <<>> /\ Len(dir) = 3 /\ dir[1] = c /\ dir[2] = Slash
  BY <1>0, <1>1 DEF Path
<1>3. ContentPath(v, p) = Join(dir, p)
  BY DEF ContentPath
<1>4. ValidPath(dir)
  <2>1. dir = <<c>> \o <<Slash>> \o <<ContentDirChar>>
    OBVIOUS
  <2> QED BY <1>0, <1>1, <2>1, OneCharIsValid, JoinedIsValid
<1> HIDE DEF c, dir
<1>5. ContentPath(v, p) \in Path
  BY <1>2, <1>3, JoinIsPath
<1>6. ASSUME ValidPath(p) PROVE InVersionDir(ContentPath(v, p), v.num)
  <2>1. p # <<>>
    <3>1. Starts(<<>>) = {0}
      BY DEF Starts
    <3>2. <<>> \in Path /\ Len(<<>>) = 0
      BY DEF Path
    <3>3. End(<<>>, 0) = 1
      BY <3>1, <3>2, EndIs
    <3>4. Element(<<>>, 0) = <<>>
      BY <3>3, SubSeqEmpty DEF Element
    <3>5. <<>> \in Elements(<<>>)
      BY <3>1, <3>4 DEF Elements
    <3> QED BY <1>6, <3>5 DEF ValidPath
  <2>2. q \in Path /\ ValidPath(q)
    BY <1>2, <1>4, <1>6, JoinedIsValid
  <2>3. ContentPath(v, p) = q
    <3>1. Join(dir, p) = Clean(q)
      BY <1>2, <2>1 DEF Join
    <3>2. Clean(q) = q
      <4> HIDE DEF q
      <4> QED BY <2>2 DEF Clean
    <3> QED BY <1>3, <3>1, <3>2
  <2>4. Len(q) >= 2 /\ Len(q) \in Nat /\ q[1] = c /\ q[2] = Slash
    <3> DEFINE t == <<Slash>> \o p
    <3>1. <<Slash>> \in Seq(Nat) /\ p \in Seq(Nat) /\ dir \in Seq(Nat)
      BY <1>1, <1>2 DEF Path
    <3>2. t \in Seq(Nat) /\ Len(t) \in Nat
      BY <3>1, ConcatProperties, LenProperties
    <3>3. q = dir \o t
      <4>1. (dir \o <<Slash>>) \o p = dir \o (<<Slash>> \o p)
        BY <3>1, ConcatAssociative
      <4> QED BY <4>1
    <3> HIDE DEF t, q
    <3>4. Len(q) = 3 + Len(t) /\ \A i \in 1..3 + Len(t) : q[i] = IF i <= 3 THEN dir[i] ELSE t[i - 3]
      <4>1. Len(q) = Len(dir) + Len(t)
            /\ \A i \in 1..Len(dir) + Len(t) : q[i] = IF i <= Len(dir) THEN dir[i] ELSE t[i - Len(dir)]
        BY <3>1, <3>2, <3>3, ConcatProperties
      <4>2. Len(dir) = 3
        BY <1>2
      <4> QED BY <4>1, <4>2
    <3>5. 1 \in 1..3 + Len(t) /\ 2 \in 1..3 + Len(t)
      BY <3>2
    <3> QED BY <1>2, <3>2, <3>4, <3>5
  <2> HIDE DEF q
  <2> DEFINE d == <<c, Slash>>
  <2>5. d \in Seq(Nat) /\ Len(d) = 2 /\ d[1] = c /\ d[2] = Slash
    BY <1>0, <1>1
  <2>6. SE!IsPrefix(d, q)
    <3> HIDE DEF d
    <3>1. \A h \in 1..2 : d[h] = q[h]
      BY <2>4, <2>5
    <3>2. SubSeq(d, 1, 2) = SubSeq(q, 1, 2)
      BY <2>2, <2>4, <2>5, <3>1, PrefixEq DEF Path
    <3> QED BY <2>4, <2>5, <3>2 DEF SE!IsPrefix
  <2> QED BY <2>3, <2>6 DEF InVersionDir, c
<1> QED BY <1>5, <1>6

\* A path is in the directory of one version only.
LEMMA OneVersionDir ==
    ASSUME NEW q \in Path, NEW m \in Nat, NEW n \in Nat, InVersionDir(q, m), InVersionDir(q, n)
    PROVE  m = n
<1>1. ASSUME NEW k \in Nat, InVersionDir(q, k) PROVE q[1] = 200 + k
  <2> DEFINE c == <<VersionDirChar(k), Slash>>
  <2>1. c \in Seq(Nat) /\ Len(c) = 2 /\ c[1] = 200 + k
    BY PrefixOfVersion
  <2>2. Len(c) <= Len(q) /\ SubSeq(c, 1, Len(c)) = SubSeq(q, 1, Len(c))
    BY <1>1 DEF InVersionDir, SE!IsPrefix
  <2> HIDE DEF c
  <2>3. \A h \in 1..2 : c[h] = q[h]
    BY <2>1, <2>2, PrefixEq DEF Path
  <2> QED BY <2>1, <2>3
<1>2. 200 + m = 200 + n
  BY <1>1
<1> QED BY <1>2

\* next is the inventory of an update of prev to state: it keeps the versions and the
\* content of prev.
Extends(prev, next, state) ==
    /\ IsInventory(next) /\ ValidInventory(next)
    /\ next.head.num = prev.head.num + 1
    /\ DOMAIN next.versions = DOMAIN prev.versions \cup {next.head}
    /\ next.versions[next.head] = Normalize(state)
    /\ \A v \in DOMAIN prev.versions \ {next.head} : next.versions[v] = Normalize(prev.versions[v])
    /\ PathSet(prev.manifest) \subseteq PathSet(next.manifest)
    /\ \A p \in PathSet(prev.manifest) : Sums(next.manifest)[p] = Sums(prev.manifest)[p]

\* Whatever content is new is in the directory of the new version.
AddsInside(prev, next) ==
    \A p \in PathSet(next.manifest) \ PathSet(prev.manifest) : InVersionDir(p, next.head.num)

\* A mutation makes valid paths of all paths of a map.
MakesValid(mutation, m) == \A d \in DOMAIN m : \A p \in Members(Apply(mutation, m[d])) : ValidPath(p)

\* The paths of a valid state, as they are, lead out of no directory.
LEMMA IdentityInside ==
    ASSUME NEW state, IsDigestMap(state), Valid(state)
    PROVE  PathsInside(Identity, state)
<1> DEFINE n == Normalize(state)
<1>1. \A d \in DOMAIN n : Apply(Identity, n[d]) = n[d]
  BY DEF Apply, Identity
<1>4. /\ DOMAIN n = {NormalizeDigest(d) : d \in DOMAIN state}
      /\ \A d \in DOMAIN state : Members(n[NormalizeDigest(d)]) = Members(state[d])
  BY NormalizeIs
<1> HIDE DEF n
<1>2. ASSUME NEW d \in DOMAIN n, NEW p \in Members(n[d]) PROVE ValidPath(p)
  <2>1. PICK e \in DOMAIN state : d = NormalizeDigest(e)
    BY <1>4
  <2>2. Members(n[d]) = Members(state[e])
    BY <1>4, <2>1
  <2> QED BY <1>2, <2>2, ValidMap
<1>3. \A d \in DOMAIN n : \A p \in SE!ToSet(Apply(Identity, n[d])) : ValidPath(p)
  BY <1>1, <1>2, ToSetIsMembers
<1> QED BY <1>3 DEF PathsInside, n

\* The manifest that is built is a digest map, and its new paths are where they belong.
LEMMA BuiltManifestIs ==
    ASSUME NEW m, IsDigestMap(m), NEW state, IsDigestMap(state), NEW mutation, IsMutation(mutation),
           NEW head \in VNum
    PROVE  LET built == BuiltManifest(m, state, mutation, head)
               fresh == FreshDigests(m, state)
           IN  /\ IsDigestMap(built) /\ DOMAIN built = DOMAIN m \cup fresh
               /\ \A d \in DOMAIN m \ fresh : built[d] = m[d]
               /\ MakesValid(mutation, state) =>
                     \A d \in fresh : \A p \in Members(built[d]) : InVersionDir(p, head.num)
<1> DEFINE built == BuiltManifest(m, state, mutation, head)
           fresh == FreshDigests(m, state)
           F(d) == FreshPaths(mutation, head, state[d])
<1>1. fresh \in SUBSET DOMAIN state
  BY DEF FreshDigests
<1>2. built = [d \in DOMAIN m \cup fresh |-> IF d \in fresh THEN F(d) ELSE m[d]]
  BY DEF BuiltManifest
<1>3. ASSUME NEW d \in fresh
      PROVE  /\ F(d) \in Seq(Path)
             /\ MakesValid(mutation, state) => \A p \in Members(F(d)) : InVersionDir(p, head.num)
  <2> DEFINE l == Apply(mutation, state[d])
  <2>1. l \in Seq(Path)
    <3>1. state[d] \in Seq(Path)
      BY <1>1 DEF IsDigestMap
    <3> QED BY <3>1, ApplyIsList
  <2>2. F(d) = [i \in DOMAIN l |-> ContentPath(head, l[i])]
    BY DEF FreshPaths
  <2> HIDE DEF l, F
  <2>3. Len(l) \in Nat /\ DOMAIN l = 1..Len(l) /\ \A i \in DOMAIN l : l[i] \in Path
    BY <2>1, LenProperties, ElementOfSeq
  <2>4. \A i \in DOMAIN l : /\ ContentPath(head, l[i]) \in Path
                            /\ ValidPath(l[i]) => InVersionDir(ContentPath(head, l[i]), head.num)
    BY <2>3, ContentPathInDir
  <2>8. ASSUME MakesValid(mutation, state), NEW i \in DOMAIN l PROVE ValidPath(l[i])
    <3>1. l[i] \in Members(Apply(mutation, state[d])) /\ d \in DOMAIN state
      BY <1>1 DEF Members, l
    <3> QED BY <2>8, <3>1 DEF MakesValid
  <2>5. F(d) \in [1..Len(l) -> Path]
    BY <2>2, <2>3, <2>4
  <2>6. F(d) \in Seq(Path)
    BY <2>3, <2>5, FunctionIsSeq
  <2>7. \A p \in Members(F(d)) : \E i \in DOMAIN l : p = ContentPath(head, l[i])
    <3>1. \A p \in Members(F(d)) : \E i \in DOMAIN F(d) : p = F(d)[i]
      BY DEF Members
    <3> QED BY <2>2, <3>1
  <2> QED BY <2>4, <2>6, <2>7, <2>8
<1>4. IsFiniteSet(DOMAIN m \cup fresh)
  <2>1. IsFiniteSet(DOMAIN m) /\ IsFiniteSet(DOMAIN state)
    BY DEF IsDigestMap
  <2>2. IsFiniteSet(fresh)
    BY <1>1, <2>1, FS_Subset
  <2> QED BY <2>1, <2>2, FS_Union
<1> HIDE DEF fresh, F, built
<1>5. DOMAIN built = DOMAIN m \cup fresh
  BY <1>2
<1>6. built \in [DOMAIN m \cup fresh -> Seq(Path)]
  <2>1. \A d \in DOMAIN m : m[d] \in Seq(Path)
    BY DEF IsDigestMap
  <2> QED BY <1>2, <1>3, <2>1
<1>7. IsDigestMap(built)
  <2>1. \A d \in DOMAIN m \cup fresh : d \in {Digest(d[1], "lower"), Digest(d[1], "upper")}
    BY <1>1 DEF IsDigestMap
  <2> QED BY <1>4, <1>5, <1>6, <2>1 DEF IsDigestMap
<1>8. \A d \in DOMAIN m \ fresh : built[d] = m[d]
  BY <1>2
<1>9. \A d \in fresh : built[d] = F(d)
  BY <1>2
<1> QED BY <1>3, <1>5, <1>7, <1>8, <1>9 DEF built, fresh

\* The inventory that NewUpdatePlan builds extends the one it starts from: no version and
\* no file of it is lost or changed, however its digests are spelled and whatever the
\* content path function does.  New content is in the directory of the new version if
\* the content paths, before they are joined to it, are valid: path.Join takes others
\* out of it (InventoryBuilder).
THEOREM UpdateExtends ==
    ASSUME NEW prev, IsInventory(prev), NEW id, NEW spec, NEW padding \in Nat,
           NEW contentPath, IsMutation(contentPath), NEW fixity,
           NEW state, IsDigestMap(state), NEW alg, NEW next,
           next = Finalize(UpdateBuilder(prev, id, spec, padding, contentPath, fixity, state, alg)),
           Exists(next)
    PROVE  /\ Extends(prev, next, state)
           /\ PathsInside(contentPath, state) => AddsInside(prev, next)
<1> DEFINE m == Normalize(prev.manifest)
           s == Normalize(state)
           head == next.head
           fresh == FreshDigests(m, s)
<1>1. /\ Valid(prev.manifest) /\ \A v \in DOMAIN prev.versions : Valid(prev.versions[v])
      /\ Valid(state) /\ ValidInventory(next) /\ DOMAIN next = DOMAIN Nil
      /\ head = NextVNum(IF Exists(prev) THEN prev.head ELSE V(0, padding))
      /\ next.versions = BuiltVersions(prev.versions, s, head)
      /\ next.manifest = BuiltManifest(m, s, contentPath, head)
  BY FinalizeOne
<1>2. head \in VNum /\ head.num = prev.head.num + 1
  <2>1. prev.head \in VNum
    BY DEF IsInventory
  <2>2. ~ Exists(prev) => prev.head.num = 0
    <3>1. Nil.head.num = 0
      BY DEF Nil, V
    <3> QED BY <3>1 DEF Exists
  <2>3. V(0, padding) \in VNum /\ V(0, padding).num = 0
    BY DEF V, VNum
  <2>4. \A v \in VNum : NextVNum(v) \in VNum /\ NextVNum(v).num = v.num + 1
    BY DEF NextVNum, VNum
  <2> QED BY <1>1, <2>1, <2>2, <2>3, <2>4
<1>3. IsDigestMap(m) /\ IsDigestMap(s)
  BY <1>1, NormalizeIs DEF IsInventory
<1>13. PathsInside(contentPath, state) => MakesValid(contentPath, s)
  BY ToSetIsMembers DEF PathsInside, MakesValid
<1> HIDE DEF m, s, head
<1> DEFINE valid == MakesValid(contentPath, s)
<1> HIDE DEF valid
<1>4. /\ IsDigestMap(next.manifest) /\ DOMAIN next.manifest = DOMAIN m \cup fresh
      /\ \A d \in DOMAIN m \ fresh : next.manifest[d] = m[d]
      /\ valid => \A d \in fresh : \A p \in Members(next.manifest[d]) : InVersionDir(p, head.num)
  <2> DEFINE built == BuiltManifest(m, s, contentPath, head)
  <2>1. /\ IsDigestMap(built) /\ DOMAIN built = DOMAIN m \cup fresh
        /\ \A d \in DOMAIN m \ fresh : built[d] = m[d]
        /\ valid => \A d \in fresh : \A p \in Members(built[d]) : InVersionDir(p, head.num)
    BY <1>2, <1>3, BuiltManifestIs DEF valid
  <2> HIDE DEF built, fresh
  <2>2. next.manifest = built
    BY <1>1 DEF built
  <2> QED BY <2>1, <2>2
<1>5. Valid(next.manifest)
  BY <1>1, ValidInventoryMaps
<1>6. /\ DOMAIN next.versions = DOMAIN prev.versions \cup {head} /\ next.versions[head] = s
      /\ \A v \in DOMAIN prev.versions \ {head} : next.versions[v] = Normalize(prev.versions[v])
  BY <1>1 DEF BuiltVersions
<1>7. IsInventory(next)
  <2>1. DOMAIN next.versions \subseteq VNum
    BY <1>2, <1>6 DEF IsInventory
  <2>2. IsFiniteSet(DOMAIN next.versions)
    BY <1>6, FS_AddElement DEF IsInventory
  <2>3. ASSUME NEW v \in DOMAIN next.versions PROVE IsDigestMap(next.versions[v])
    <3>1. CASE v = head
      BY <1>3, <1>6, <3>1
    <3>2. CASE v # head
      <4>1. v \in DOMAIN prev.versions
        BY <1>6, <3>2
      <4>2. IsDigestMap(prev.versions[v]) /\ Valid(prev.versions[v])
        BY <1>1, <4>1 DEF IsInventory
      <4>3. IsDigestMap(Normalize(prev.versions[v]))
        BY <4>2, NormalizeIs
      <4> QED BY <1>6, <3>2, <4>1, <4>3
    <3> QED BY <3>1, <3>2
  <2> QED BY <1>1, <1>2, <1>4, <2>1, <2>2, <2>3 DEF IsInventory, head
<1>8. /\ PathSet(m) = PathSet(prev.manifest) /\ Sums(m) = Sums(prev.manifest)
  BY <1>1, NormalizeKeeps DEF IsInventory, m
<1>9. ASSUME NEW p \in PathSet(m)
      PROVE  p \in PathSet(next.manifest) /\ DigestFor(next.manifest, p) = DigestFor(m, p)
  <2> DEFINE d == DigestFor(m, p)
  <2>1. d \in DOMAIN m /\ p \in Members(m[d])
    BY PathSetIs
  <2> HIDE DEF d
  <2>2. d \notin fresh
    <3>1. m[d] # <<>>
      BY <2>1 DEF Members
    <3> QED BY <2>1, <3>1 DEF FreshDigests
  <2>3. d \in DOMAIN next.manifest /\ p \in Members(next.manifest[d])
    BY <1>4, <2>1, <2>2
  <2> QED BY <1>4, <1>5, <2>3, ValidDigestFor DEF d
<1>10. ASSUME valid, NEW p \in PathSet(next.manifest), p \notin PathSet(m)
       PROVE  InVersionDir(p, head.num)
  <2> DEFINE d == DigestFor(next.manifest, p)
  <2>1. d \in DOMAIN next.manifest /\ p \in Members(next.manifest[d])
    BY PathSetIs
  <2> HIDE DEF d
  <2>2. d \in fresh
    <3> SUFFICES ASSUME d \notin fresh PROVE FALSE
      OBVIOUS
    <3>1. d \in DOMAIN m /\ p \in Members(m[d])
      BY <1>4, <2>1
    <3> QED BY <1>10, <3>1, PathSetIs
  <2> QED BY <1>4, <1>10, <2>1, <2>2
<1>11. \A p \in PathSet(m) : Sums(next.manifest)[p] = Sums(m)[p]
  BY <1>9 DEF Sums
<1> HIDE DEF fresh
<1>12. /\ PathSet(prev.manifest) \subseteq PathSet(next.manifest)
       /\ \A p \in PathSet(prev.manifest) : Sums(next.manifest)[p] = Sums(prev.manifest)[p]
  BY <1>8, <1>9, <1>11
<1>14. valid => AddsInside(prev, next)
  BY <1>8, <1>10 DEF AddsInside, head
<1> QED BY <1>1, <1>2, <1>6, <1>7, <1>12, <1>13, <1>14 DEF Extends, head, s, valid
=============================================================================
