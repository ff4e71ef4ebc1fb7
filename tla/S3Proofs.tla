------------------------------ MODULE S3Proofs ------------------------------
(***************************************************************************)
(* Proofs about BucketFS: its safety properties for every bucket, every    *)
(* size, page size, part size and limit, and any number of steps of other  *)
(* clients.                                                                *)
(*                                                                         *)
(* First the order of keys, the choice of part sizes and the pages of a    *)
(* listing; then what each step does to the fields of the call (the        *)
(* "effect" lemmas), which the proofs that follow use in place of the      *)
(* actions.  BaseInv is the invariant that all of them share; PartsInv,    *)
(* SourceInv and StoredInv follow a copy, RemoveInv and YieldInv the       *)
(* pages of a listing.                                                     *)
(***************************************************************************)
EXTENDS S3, SequenceLemmas, FiniteSetTheorems

-----------------------------------------------------------------------------
(* The order of keys *)

\* The order of keys is the order of sequences of numbers.
LEMMA BeforeIsLex ==
    ASSUME NEW j \in Seq(Nat), NEW k \in Seq(Nat)
    PROVE  Before(j, k) <=> LexBefore(j, k)
BY LexByPrefixes DEF Before, ByPrefixes, SE!IsStrictPrefix, SE!IsPrefix

\* It is irreflexive, transitive and total.
LEMMA BeforeIrreflexive ==
    ASSUME NEW j \in Seq(Nat)
    PROVE  ~ Before(j, j)
BY BeforeIsLex, LexIrreflexive

\* The order of keys is transitive.
LEMMA BeforeTransitive ==
    ASSUME NEW j \in Seq(Nat), NEW k \in Seq(Nat), NEW m \in Seq(Nat),
           Before(j, k), Before(k, m)
    PROVE  Before(j, m)
BY BeforeIsLex, LexTransitive

\* Of two different keys, one comes first.
LEMMA BeforeTotal ==
    ASSUME NEW j \in Seq(Nat), NEW k \in Seq(Nat), j # k
    PROVE  Before(j, k) \/ Before(k, j)
BY BeforeIsLex, LexTotal

\* A page is in order: Ordered(S) lists every member of S once, each before the next.
LEMMA OrderedProperties ==
    ASSUME NEW S, S \subseteq Seq(Nat), IsFiniteSet(S)
    PROVE  /\ Cardinality(S) \in Nat
           /\ Ordered(S) \in [1..Cardinality(S) -> S]
           /\ \A e \in S : \E i \in 1..Cardinality(S) : Ordered(S)[i] = e
           /\ \A i, j \in 1..Cardinality(S) : i < j => Before(Ordered(S)[i], Ordered(S)[j])
<1> DEFINE n == Cardinality(S)
           Pre(e) == {f \in S : Before(f, e)}
           rank == [e \in S |-> Cardinality(Pre(e)) + 1]
<1>0. n \in Nat
  BY FS_CardinalityType
<1>1. ASSUME NEW e \in S
      PROVE  IsFiniteSet(Pre(e)) /\ Cardinality(Pre(e)) \in Nat /\ Cardinality(Pre(e)) < n
  <2>1. Pre(e) \in SUBSET S /\ Pre(e) # S
    BY BeforeIrreflexive
  <2> HIDE DEF Pre
  <2>2. IsFiniteSet(Pre(e)) /\ Cardinality(Pre(e)) <= n /\ n # Cardinality(Pre(e))
    BY <2>1, FS_Subset
  <2> HIDE DEF n
  <2>3. Cardinality(Pre(e)) \in Nat
    BY <2>2, FS_CardinalityType
  <2> QED BY <1>0, <2>2, <2>3
<1>2. ASSUME NEW e \in S, NEW f \in S, Before(e, f)
      PROVE  Cardinality(Pre(e)) < Cardinality(Pre(f))
  <2>1. Pre(e) \in SUBSET Pre(f) /\ Pre(e) # Pre(f)
    <3>1. \A g \in S : Before(g, e) => Before(g, f)
      BY <1>2, BeforeTransitive
    <3>2. e \in Pre(f) /\ e \notin Pre(e)
      BY <1>2, BeforeIrreflexive
    <3> QED BY <3>1, <3>2
  <2> HIDE DEF Pre
  <2>2. Cardinality(Pre(e)) <= Cardinality(Pre(f)) /\ Cardinality(Pre(e)) # Cardinality(Pre(f))
    BY <1>1, <2>1, FS_Subset
  <2> QED BY <1>1, <2>2
<1>3. rank \in Injection(S, 1..n)
  <2> HIDE DEF Pre
  <2>1. rank \in [S -> 1..n]
    <3>1. \A e \in S : Cardinality(Pre(e)) + 1 \in 1..n
      BY <1>0, <1>1
    <3> HIDE DEF n
    <3> QED BY <3>1
  <2>2. ASSUME NEW e \in S, NEW f \in S, e # f PROVE rank[e] # rank[f]
    <3>1. Before(e, f) \/ Before(f, e)
      BY <2>2, BeforeTotal
    <3>2. /\ Cardinality(Pre(e)) \in Nat /\ Cardinality(Pre(f)) \in Nat
          /\ Cardinality(Pre(e)) < Cardinality(Pre(f)) \/ Cardinality(Pre(f)) < Cardinality(Pre(e))
      BY <1>1, <1>2, <3>1
    <3>3. rank[e] = Cardinality(Pre(e)) + 1 /\ rank[f] = Cardinality(Pre(f)) + 1
      OBVIOUS
    <3> HIDE DEF rank
    <3> QED BY <3>2, <3>3
  <2> HIDE DEF rank, n
  <2> QED BY <2>1, <2>2 DEF Injection, IsInjective
<1>4. rank \in Surjection(S, 1..n)
  <2>1. IsFiniteSet(1..n) /\ Cardinality(1..n) = n
    <3> HIDE DEF n
    <3> QED BY <1>0, FS_Interval
  <2> HIDE DEF rank
  <2> QED BY <1>3, <2>1, FS_Injection
<1>5. ASSUME NEW i \in 1..n
      PROVE  Ordered(S)[i] \in S /\ Cardinality(Pre(Ordered(S)[i])) = i - 1
  <2>1. PICK e \in S : rank[e] = i
    <3> HIDE DEF rank, n
    <3> QED BY <1>4 DEF Surjection
  <2>2. Cardinality(Pre(e)) = i - 1
    <3>1. Cardinality(Pre(e)) + 1 = i
      BY <2>1
    <3> HIDE DEF Pre, n
    <3> QED BY <1>0, <1>1, <3>1
  <2>3. Ordered(S)[i] = CHOOSE x \in S : Cardinality(Pre(x)) = i - 1
    BY DEF Ordered
  <2> HIDE DEF Pre, n
  <2> QED BY <2>2, <2>3
<1> HIDE DEF Pre
<1>6. Ordered(S) \in [1..n -> S]
  <2> DEFINE c(i) == CHOOSE e \in S : Cardinality({f \in S : Before(f, e)}) = i - 1
  <2>1. Ordered(S) = [i \in 1..n |-> c(i)]
    BY DEF Ordered
  <2> HIDE DEF c
  <2> QED BY <1>5, <2>1
<1>7. ASSUME NEW e \in S PROVE \E i \in 1..n : Ordered(S)[i] = e
  <2> DEFINE i == Cardinality(Pre(e)) + 1
  <2>1. i \in 1..n
    <3> HIDE DEF n
    <3> QED BY <1>0, <1>1
  <2>2. Ordered(S)[i] \in S /\ Cardinality(Pre(Ordered(S)[i])) = Cardinality(Pre(e))
    <3>1. i - 1 = Cardinality(Pre(e))
      BY <1>1
    <3> HIDE DEF i, n
    <3> QED BY <2>1, <3>1, <1>5
  <2>3. Ordered(S)[i] = e
    <3>1. rank[Ordered(S)[i]] = rank[e]
      <4> HIDE DEF i
      <4> QED BY <2>2
    <3> HIDE DEF rank, i, n
    <3> QED BY <1>3, <2>2, <3>1 DEF Injection, IsInjective
  <2> HIDE DEF i
  <2> QED BY <2>1, <2>3
<1>8. ASSUME NEW i \in 1..n, NEW j \in 1..n, i < j PROVE Before(Ordered(S)[i], Ordered(S)[j])
  <2> DEFINE a == Ordered(S)[i]
             b == Ordered(S)[j]
  <2>1. a \in S /\ Cardinality(Pre(a)) = i - 1 /\ b \in S /\ Cardinality(Pre(b)) = j - 1
    BY <1>5
  <2> HIDE DEF a, b, n
  <2>2. a # b
    BY <1>0, <1>8, <2>1
  <2>3. ~ Before(b, a)
    <3> SUFFICES ASSUME Before(b, a) PROVE FALSE
      OBVIOUS
    <3>1. Cardinality(Pre(b)) < Cardinality(Pre(a))
      BY <2>1, <1>2
    <3> QED BY <1>0, <1>8, <2>1, <3>1
  <2>4. Before(a, b)
    BY <2>1, <2>2, <2>3, BeforeTotal
  <2> QED BY <2>4 DEF a, b
<1> QED BY <1>0, <1>6, <1>7, <1>8

-----------------------------------------------------------------------------
(* Types *)

Byte == [v : Nat, i : Nat, n : Nat]
Entry == [etag : Nat, data : Seq(Byte)]
IsBucket(b) == b \in [DOMAIN b -> Entry] /\ DOMAIN b \subseteq Keys /\ IsFiniteSet(DOMAIN b)

CopyCalls ==
    [op : {"copy", "multi"}, at : {"head", "copyobject", "create", "parts", "done"},
     res : {"", "ok", "error"}, dst : Keys, src : Keys, size : Nat,
     parts : [size : Nat, count : Nat], next : Nat, running : SUBSET Nat,
     completed : SUBSET Nat, failed : BOOLEAN]

ListCalls ==
    [op : {"removeall", "direntries", "walkfiles"}, at : {"list", "delete", "done"},
     res : {"", "ok", "error", "missing"}, dir : Dirs, token : Seq(Nat), page : Seq(Seq(Nat)),
     more : BOOLEAN, yielded : Seq(Seq(Nat)), hasContent : BOOLEAN]

RequestCalls == [op : {"write", "remove"}, at : {"done"}, res : {"ok", "fail", "applied"}]
FileCalls == [op : {"file"}, at : {"open", "done"}, res : {"", "ok"}]
IdleCall == [op |-> "none", at |-> "idle"]

Bodies == [open : BOOLEAN, data : Seq(Byte), pos : Nat]
Files == [key : Keys, info : Entry, offset : Nat, body : Bodies]

CallOK == call \in CopyCalls \cup ListCalls \cup RequestCalls \cup FileCalls \cup {IdleCall}
UploadOK ==
    /\ upload \in [state : {"none", "open", "completed", "aborted"}, parts : {upload.parts}]
    /\ upload.parts \in [DOMAIN upload.parts -> Seq(Byte)]

TypeOK ==
    /\ IsBucket(bucket) /\ IsBucket(was)
    /\ CallOK
    /\ UploadOK
    /\ file \in Files \cup {NoFile}
    /\ cancelled \in BOOLEAN
    /\ version \in Nat
    /\ touched \subseteq Keys

\* The parts of the assumptions on the constants that the proofs use.
LEMMA Constants ==
    /\ Keys \subseteq Seq(Nat) /\ Dirs \subseteq Seq(Nat) /\ Targets \subseteq Keys
    /\ Sizes \subseteq Nat
    /\ MaxKeys \in Nat /\ MaxKeys > 0 /\ MaxCopy \in Nat
    /\ MaxParts \in Nat /\ MaxParts > 0 /\ Increment \in Nat /\ Increment > 0
    /\ MinRange \in Nat /\ MinRange <= MaxCopy /\ MinPartSize \in Nat
    /\ FirstPartSize \in Nat /\ FirstPartSize > 0 /\ FirstPartSize >= MinPartSize
<1>1. {MinPartSize, DefaultPartSize, Increment, MaxParts, DefaultConcurrency} \subseteq Nat \ {0}
  BY S3Assumption
<1>2. PartSize \in Nat
  BY S3Assumption
<1>3. FirstPartSize \in Nat /\ FirstPartSize > 0 /\ FirstPartSize >= MinPartSize
  BY <1>1, <1>2, S3Assumption DEF FirstPartSize
<1> QED BY <1>1, <1>3, S3Assumption

\* What a call with a given control state is.
LEMMA CallKinds ==
    ASSUME CallOK
    PROVE  /\ call.at \in {"head", "copyobject", "create", "parts"} => call \in CopyCalls
           /\ Copying => call \in CopyCalls
           /\ call.at \in {"list", "delete"} => call \in ListCalls
           /\ call.op \in {"removeall", "direntries", "walkfiles"} => call \in ListCalls
           /\ call.at = "open" => call \in FileCalls
           /\ call.at = "idle" => call = IdleCall
<1>1. call \in CopyCalls => /\ call.op \in {"copy", "multi"}
                           /\ call.at \in {"head", "copyobject", "create", "parts", "done"}
  BY DEF CopyCalls
<1>2. call \in ListCalls => /\ call.op \in {"removeall", "direntries", "walkfiles"}
                           /\ call.at \in {"list", "delete", "done"}
  BY DEF ListCalls
<1>3. call \in RequestCalls => call.op \in {"write", "remove"} /\ call.at = "done"
  BY DEF RequestCalls
<1>4. call \in FileCalls => call.op = "file" /\ call.at \in {"open", "done"}
  BY DEF FileCalls
<1>5. call = IdleCall => call.op = "none" /\ call.at = "idle"
  BY DEF IdleCall
<1> HIDE DEF CopyCalls, ListCalls, RequestCalls, FileCalls, IdleCall
<1> QED BY <1>1, <1>2, <1>3, <1>4, <1>5 DEF CallOK, Copying

\* A written file is a sequence of bytes.
LEMMA DataIsSeq ==
    ASSUME NEW v \in Nat, NEW n \in Nat
    PROVE  Data(v, n) \in Seq(Byte) /\ Len(Data(v, n)) = n /\ Whole(Data(v, n))
<1>1. Data(v, n) \in [1..n -> Byte]
  BY DEF Data, Byte
<1>2. Data(v, n) \in Seq(Byte) /\ Len(Data(v, n)) = n
  <2> HIDE DEF Data, Byte
  <2> QED BY <1>1, FunctionIsSeq
<1>3. \A i \in 1..n : Data(v, n)[i] = [v |-> v, i |-> i, n |-> n]
  BY DEF Data
<1>4. DOMAIN Data(v, n) = 1..n
  BY DEF Data
<1>5. ASSUME NEW i \in 1..n
      PROVE  /\ Data(v, n)[i].i = i /\ Data(v, n)[i].n = n
             /\ Data(v, n)[i].v = Data(v, n)[1].v
  <2>1. 1 \in 1..n
    OBVIOUS
  <2>2. Data(v, n)[i] = [v |-> v, i |-> i, n |-> n] /\ Data(v, n)[1] = [v |-> v, i |-> 1, n |-> n]
    BY <1>3, <2>1
  <2> HIDE DEF Data
  <2> QED BY <2>2
<1> QED BY <1>2, <1>4, <1>5 DEF Whole

\* Storing an entry.
LEMMA WithOK ==
    ASSUME NEW b, IsBucket(b), NEW k \in Keys, NEW e \in Entry
    PROVE  /\ IsBucket(With(b, k, e))
           /\ DOMAIN With(b, k, e) = DOMAIN b \cup {k}
           /\ With(b, k, e)[k] = e
           /\ \A j \in DOMAIN b : j # k => With(b, k, e)[j] = b[j]
<1>1. IsFiniteSet(DOMAIN b \cup {k})
  BY FS_AddElement DEF IsBucket
<1> HIDE DEF Entry
<1>2. /\ DOMAIN With(b, k, e) = DOMAIN b \cup {k}
      /\ With(b, k, e)[k] = e
      /\ \A j \in DOMAIN b : j # k => With(b, k, e)[j] = b[j]
      /\ With(b, k, e) \in [DOMAIN b \cup {k} -> Entry]
  BY DEF With, IsBucket
<1> HIDE DEF With
<1> QED BY <1>1, <1>2 DEF IsBucket

Without(b, k) == [j \in DOMAIN b \ {k} |-> b[j]]

\* Removing an entry.
LEMMA WithoutOK ==
    ASSUME NEW b, IsBucket(b), NEW k
    PROVE  /\ IsBucket(Without(b, k))
           /\ DOMAIN Without(b, k) = DOMAIN b \ {k}
           /\ \A j \in DOMAIN b \ {k} : Without(b, k)[j] = b[j]
<1>1. IsFiniteSet(DOMAIN b \ {k})
  BY FS_RemoveElement DEF IsBucket
<1> HIDE DEF Entry
<1>2. /\ DOMAIN Without(b, k) = DOMAIN b \ {k}
      /\ \A j \in DOMAIN b \ {k} : Without(b, k)[j] = b[j]
      /\ Without(b, k) \in [DOMAIN b \ {k} -> Entry]
  BY DEF Without, IsBucket
<1> HIDE DEF Without
<1> QED BY <1>1, <1>2 DEF IsBucket

\* Division with remainder.
LEMMA DivMod ==
    ASSUME NEW a \in Nat, NEW d \in Nat, d > 0
    PROVE  /\ a \div d \in Nat /\ a % d \in Nat
           /\ a = (a \div d) * d + (a % d)
           /\ a % d < d
OBVIOUS

\* A size beyond the total has no whole part.
LEMMA DivSmall ==
    ASSUME NEW a \in Nat, NEW d \in Nat, d > a
    PROVE  a \div d = 0
OBVIOUS

\* adjustPartSize finds a part size, for every source: the parts are at most the maximum
\* number, they cover the source, and none of them is empty.
LEMMA PartSizes ==
    ASSUME NEW total \in Nat
    PROVE  /\ AdjustPartSize(total) \in [size : Nat, count : Nat]
           /\ AdjustPartSize(total).size > 0 /\ AdjustPartSize(total).size >= MinPartSize
           /\ AdjustPartSize(total).count <= MaxParts
           /\ total <= AdjustPartSize(total).count * AdjustPartSize(total).size
           /\ \A i \in 1..AdjustPartSize(total).count : (i - 1) * AdjustPartSize(total).size < total
<1> DEFINE size(s) == FirstPartSize + Increment * s
           fits(s) == total \div size(s) < MaxParts
           p == GrownPartSize(total, MaxParts)
<1>0. /\ MaxParts \in Nat /\ MaxParts > 0 /\ Increment \in Nat /\ Increment > 0
      /\ FirstPartSize \in Nat /\ FirstPartSize > 0
      /\ MinPartSize \in Nat /\ FirstPartSize >= MinPartSize
  BY Constants
<1>1. \A s \in Nat : size(s) \in Nat /\ size(s) > s /\ size(s) >= MinPartSize
  <2> SUFFICES ASSUME NEW s \in Nat
               PROVE  size(s) \in Nat /\ size(s) > s /\ size(s) >= MinPartSize
    OBVIOUS
  <2>1. Increment * s \in Nat /\ Increment * s >= s
    BY <1>0
  <2> QED BY <1>0, <2>1
<1>2. fits(total)
  <2>1. total \div size(total) = 0
    <3> HIDE DEF size
    <3> QED BY <1>1, DivSmall
  <2> HIDE DEF size
  <2> QED BY <1>0, <2>1
<1>3. \E s \in 0..total : fits(s) /\ \A r \in 0..s - 1 : ~fits(r)
  <2> HIDE DEF fits
  <2> DEFINE T == {s \in 0..total : fits(s)}
  <2>1. T \subseteq Nat /\ T # {}
    BY <1>2
  <2>2. PICK m \in T : \A k \in T : m <= k
    <3> HIDE DEF T
    <3> QED BY <2>1, LeastNat
  <2>3. m \in 0..total /\ fits(m)
    OBVIOUS
  <2>4. \A r \in 0..m - 1 : ~fits(r)
    BY <2>2, <2>3
  <2> QED BY <2>3, <2>4
<1>4. PICK s \in 0..total : fits(s) /\ p = size(s)
  <2> DEFINE c == CHOOSE s \in 0..total : fits(s) /\ \A r \in 0..s - 1 : ~fits(r)
  <2>1. p = size(c)
    BY DEF GrownPartSize
  <2>2. c \in 0..total /\ fits(c)
    <3> HIDE DEF fits
    <3> QED BY <1>3
  <2> HIDE DEF c, size, fits, p
  <2> QED BY <2>1, <2>2
<1>5. p \in Nat /\ p > 0 /\ p >= MinPartSize /\ total \div p < MaxParts
  <2>1. size(s) \in Nat /\ size(s) > s /\ size(s) >= MinPartSize
    BY <1>1
  <2> HIDE DEF size, p
  <2> QED BY <1>4, <2>1
<1> HIDE DEF p
<1> DEFINE q == total \div p
           rem == total % p
           count == PartCount(total, p)
<1>6. /\ q \in Nat /\ rem \in Nat /\ total = q * p + rem /\ rem < p /\ q < MaxParts
      /\ count = q + (IF rem > 0 THEN 1 ELSE 0)
  BY <1>5, DivMod DEF PartCount
<1>7. AdjustPartSize(total) = [size |-> p, count |-> count]
  BY DEF AdjustPartSize, p
<1> HIDE DEF q, rem, count
<1>8. count \in Nat /\ count <= MaxParts
  BY <1>0, <1>6
<1>9. total <= count * p
  <2>1. CASE rem > 0
    <3>1. count = q + 1 /\ (q + 1) * p = q * p + p
      BY <2>1, <1>5, <1>6
    <3> QED BY <1>5, <1>6, <3>1
  <2>2. CASE ~ (rem > 0)
    <3>1. count = q /\ total = q * p
      BY <2>2, <1>5, <1>6
    <3> QED BY <1>5, <1>6, <3>1
  <2> QED BY <2>1, <2>2
<1>10. ASSUME NEW i \in 1..count PROVE (i - 1) * p < total
  <2>0. i - 1 \in Nat /\ i \in Nat
    BY <1>8
  <2>1. CASE rem > 0
    <3>1. i - 1 <= q
      BY <2>1, <1>6, <1>8
    <3>2. (i - 1) * p <= q * p
      BY <2>0, <3>1, <1>5, <1>6
    <3>3. (i - 1) * p \in Nat /\ q * p \in Nat
      BY <2>0, <1>5, <1>6
    <3> QED BY <1>6, <2>1, <3>2, <3>3
  <2>2. CASE ~ (rem > 0)
    <3>1. i <= q
      BY <2>2, <1>6, <1>8
    <3>2. i * p <= q * p
      BY <2>0, <3>1, <1>5, <1>6
    <3>3. (i - 1) * p \in Nat /\ q * p \in Nat /\ i * p = (i - 1) * p + p
      BY <2>0, <1>5, <1>6
    <3> QED BY <1>5, <1>6, <2>2, <3>2, <3>3
  <2> QED BY <2>1, <2>2
<1> QED BY <1>5, <1>7, <1>8, <1>9, <1>10

-----------------------------------------------------------------------------
(* Listings *)

\* What a listing shows for a key is a key that is not empty.
LEMMA ShownIsKey ==
    ASSUME NEW dir \in Seq(Nat), NEW k \in Seq(Nat), SE!IsStrictPrefix(dir, k), NEW delim \in BOOLEAN
    PROVE  Shown(dir, k, delim) \in Seq(Nat) /\ Shown(dir, k, delim) # <<>>
<1>0. Len(dir) \in Nat /\ Len(k) \in Nat /\ \A h \in 1..Len(k) : k[h] \in Nat
  BY LenProperties, ElementOfSeq
<1>1. Len(dir) + 1 <= Len(k)
  <2>1. Len(dir) <= Len(k) /\ SubSeq(dir, 1, Len(dir)) = SubSeq(k, 1, Len(dir)) /\ dir # k
    BY DEF SE!IsStrictPrefix, SE!IsPrefix
  <2>2. Len(dir) = Len(k) => SubSeq(dir, 1, Len(dir)) = dir /\ SubSeq(k, 1, Len(dir)) = k
    BY SubSeqFull
  <2>3. Len(dir) # Len(k) /\ Len(dir) <= Len(k)
    BY <2>1, <2>2
  <2>4. \A x, y \in Nat : x # y /\ x <= y => x + 1 <= y
    OBVIOUS
  <2> QED BY <1>0, <2>3, <2>4
<1>2. CASE ~delim
  <2>1. Len(k) # 0
    BY <1>0, <1>1
  <2> QED BY <1>2, <2>1, EmptySeq DEF Shown
<1>3. CASE delim
  <2> DEFINE m == Len(dir) + 1
  <2>1. m \in Int /\ 1 <= m /\ \A h \in 1..m : k[h] \in Nat
    BY <1>0, <1>1
  <2> HIDE DEF m
  <2>2. SubSeq(k, 1, m) \in Seq(Nat) /\ Len(SubSeq(k, 1, m)) = m
    BY <2>1, SubSeqProperties, Z3
  <2>3. SubSeq(k, 1, m) # <<>>
    <3>1. Len(SubSeq(k, 1, m)) # 0
      BY <2>1, <2>2
    <3> QED BY <3>1, EmptySeq
  <2> QED BY <1>3, <2>2, <2>3 DEF Shown, m
<1> QED BY <1>2, <1>3

\* A finite set of keys shows finitely many entries, none of them empty.
LEMMA AllShownOK ==
    ASSUME NEW dir \in Dirs, NEW keys, keys \subseteq Keys, IsFiniteSet(keys), NEW delim \in BOOLEAN
    PROVE  /\ AllShown(dir, keys, delim) \subseteq Seq(Nat)
           /\ <<>> \notin AllShown(dir, keys, delim)
           /\ IsFiniteSet(AllShown(dir, keys, delim))
<1> DEFINE U == Under(dir, keys)
           A == AllShown(dir, keys, delim)
           f == [k \in U |-> Shown(dir, k, delim)]
<1>0. dir \in Seq(Nat) /\ keys \subseteq Seq(Nat)
  BY Constants
<1>1. ASSUME NEW k \in U PROVE Shown(dir, k, delim) \in Seq(Nat) /\ Shown(dir, k, delim) # <<>>
  <2>1. k \in Seq(Nat) /\ SE!IsStrictPrefix(dir, k)
    BY <1>0 DEF Under
  <2> QED BY <1>0, <2>1, ShownIsKey
<1>2. A = {Shown(dir, k, delim) : k \in U}
  BY DEF AllShown
<1>3. IsFiniteSet(U)
  <2>1. U \in SUBSET keys
    BY DEF Under
  <2> HIDE DEF U
  <2> QED BY <2>1, FS_Subset
<1> HIDE DEF U, A
<1>4. f \in Surjection(U, A)
  <2>1. f \in [U -> A] /\ \A t \in A : \E s \in U : f[s] = t
    BY <1>2
  <2> HIDE DEF f
  <2> QED BY <2>1 DEF Surjection
<1>5. IsFiniteSet(A)
  <2> HIDE DEF f
  <2> QED BY <1>3, <1>4, FS_Surjection
<1> QED BY <1>1, <1>2, <1>5 DEF A

\* The entries of a listing behind its token.
Rest(dir, delim, token) ==
    {e \in AllShown(dir, DOMAIN bucket, delim) : token = <<>> \/ Before(token, e)}

\* What one page l of a listing has: members of R, in order and each once, and no member
\* is missed that is neither on the page nor behind the next token.
IsPage(l, R) ==
    /\ l.page \in Seq(R) /\ l.page \in Seq(Seq(Nat)) /\ l.token \in Seq(Nat)
    /\ \A i, j \in 1..Len(l.page) : i < j => Before(l.page[i], l.page[j])
    /\ l.token = <<>> => \A e \in R : \E i \in 1..Len(l.page) : l.page[i] = e
    /\ l.token # <<>> =>
          /\ l.page # <<>> /\ l.token = l.page[Len(l.page)]
          /\ \A e \in R : (\E i \in 1..Len(l.page) : l.page[i] = e) \/ Before(l.token, e)

\* A request returns a page of the entries behind its token.
LEMMA ListPage ==
    ASSUME IsBucket(bucket), NEW dir \in Dirs, NEW delim \in BOOLEAN, NEW token,
           NEW l, l = ListObjects(dir, delim, token)
    PROVE  IsPage(l, Rest(dir, delim, token))
<1> DEFINE R == Rest(dir, delim, token)
           all == Ordered(R)
           n == Cardinality(R)
           m == IF Len(all) < MaxKeys THEN Len(all) ELSE MaxKeys
           page == SubSeq(all, 1, m)
<1>0. MaxKeys \in Nat /\ MaxKeys > 0
  BY Constants
<1>1. R \subseteq Seq(Nat) /\ <<>> \notin R /\ IsFiniteSet(R)
  <2>1. R \in SUBSET AllShown(dir, DOMAIN bucket, delim)
    BY DEF Rest
  <2> HIDE DEF R
  <2>2. DOMAIN bucket \subseteq Keys /\ IsFiniteSet(DOMAIN bucket)
    BY DEF IsBucket
  <2> QED BY <2>1, <2>2, AllShownOK, FS_Subset
<1>2. l = [page |-> page, token |-> IF Len(all) > MaxKeys THEN page[Len(page)] ELSE <<>>]
  BY DEF ListObjects, Rest, SE!Last
<1> HIDE DEF R
<1>3. /\ n \in Nat
      /\ all \in [1..n -> R]
      /\ \A e \in R : \E i \in 1..n : all[i] = e
      /\ \A i, j \in 1..n : i < j => Before(all[i], all[j])
  BY <1>1, OrderedProperties
<1> HIDE DEF all, n
<1>4. all \in Seq(R) /\ Len(all) = n
  BY <1>3, FunctionIsSeq
<1>5. m \in Nat /\ m <= n /\ (n > MaxKeys => m = MaxKeys) /\ (~(n > MaxKeys) => m = n)
  BY <1>0, <1>3, <1>4
<1> HIDE DEF m
<1>6. page \in Seq(R) /\ Len(page) = m /\ \A i \in 1..m : page[i] = all[i]
  <2>1. \A i \in 1..m : all[i] \in R
    BY <1>3, <1>5
  <2> QED BY <1>5, <2>1, SubSeqProperties, Z3
<1> HIDE DEF page
<1>7. page \in Seq(Seq(Nat))
  BY <1>1, <1>6, SeqMonotonic
<1>8. \A i, j \in 1..m : i < j => Before(page[i], page[j])
  BY <1>3, <1>5, <1>6
<1>9. CASE n > MaxKeys
  <2>1. m = MaxKeys /\ m \in 1..m /\ page[m] = all[m] /\ page[m] \in R
    <3>1. m = MaxKeys /\ m \in 1..m /\ m \in 1..n
      BY <1>0, <1>3, <1>5, <1>9
    <3> QED BY <1>3, <1>6, <3>1
  <2>2. l.page = page /\ l.token = page[m]
    BY <1>2, <1>4, <1>6, <1>9
  <2>3. page # <<>>
    <3>1. Len(page) # 0
      BY <1>6, <2>1
    <3> QED BY <3>1, EmptySeq
  <2>4. ASSUME NEW e \in R PROVE (\E i \in 1..m : page[i] = e) \/ Before(page[m], e)
    <3>1. PICK i \in 1..n : all[i] = e
      BY <1>3
    <3>2. CASE i <= m
      <4>1. i \in 1..m
        BY <3>2, <1>3, <1>5
      <4> QED BY <3>1, <4>1, <1>6
    <3>3. CASE m < i
      BY <2>1, <3>1, <3>3, <1>3, <1>5
    <3> QED BY <1>3, <1>5, <3>2, <3>3
  <2> QED BY <1>1, <1>6, <1>7, <1>8, <2>1, <2>2, <2>3, <2>4 DEF R, IsPage
<1>10. CASE ~(n > MaxKeys)
  <2>1. l.page = page /\ l.token = <<>> /\ m = n
    BY <1>2, <1>4, <1>5, <1>10
  <2>2. \A e \in R : \E i \in 1..m : page[i] = e
    BY <1>3, <1>6, <2>1
  <2> QED BY <1>6, <1>7, <1>8, <2>1, <2>2, EmptySeq DEF R, IsPage
<1> QED BY <1>9, <1>10

-----------------------------------------------------------------------------
(* What the steps of a copy do, field by field *)

SameCopy == call'.op = call.op /\ call'.dst = call.dst /\ call'.src = call.src

SameParts ==
    /\ call'.next = call.next /\ call'.running = call.running
    /\ call'.completed = call.completed /\ call'.failed = call.failed

\* The call returns with an error, and nothing else about it changes.
CopyFails == call'.at = "done" /\ call'.res = "error" /\ call'.size = call.size

Quiet == UNCHANGED <<cancelled, file, bytes, was, touched>>

\* Copy and MultiCopy begin with HeadObject, and nothing counted.
LEMMA StartCopyEffect ==
    ASSUME NEW d \in Targets, NEW s \in Targets, Copy(d, s) \/ MultiCopy(d, s)
    PROVE  /\ call.at = "idle" /\ call' \in CopyCalls /\ call'.at = "head"
           /\ call'.dst = d /\ call'.src = s /\ d # s /\ call'.next = 1
           /\ call'.running = {} /\ call'.completed = {} /\ call'.failed = FALSE
           /\ was' = bucket /\ touched' = {}
           /\ UNCHANGED <<bucket, upload, cancelled, file, version, lost, bytes>>
<1>1. PICK op \in {"copy", "multi"} : d # s /\ Begin(CopyCall(op, "head", d, s))
  BY DEF Copy, MultiCopy
<1>2. call' = [op |-> op, at |-> "head", res |-> "", dst |-> d, src |-> s, size |-> 0,
               parts |-> [size |-> 0, count |-> 0], next |-> 1, running |-> {},
               completed |-> {}, failed |-> FALSE]
  BY <1>1 DEF Begin, CopyCall
<1>3. /\ call' \in CopyCalls /\ call'.at = "head" /\ call'.dst = d /\ call'.src = s
      /\ call'.next = 1 /\ call'.running = {} /\ call'.completed = {} /\ call'.failed = FALSE
  BY <1>2, Constants DEF CopyCalls
<1> QED BY <1>1, <1>3 DEF Begin

\* Returning changes where a copy is and its result.
LEMMA ReturnEffect ==
    ASSUME call \in CopyCalls, NEW r \in {"ok", "error"}, Return(r)
    PROVE  /\ call' \in CopyCalls /\ SameCopy
           /\ call'.at = "done" /\ call'.res = r /\ call'.size = call.size
BY DEF Return, CopyCalls, SameCopy

\* HeadObject: the size of the source, or an error when it is missing or the request fails.
LEMMA HeadSourceEffect ==
    ASSUME TypeOK, HeadSource
    PROVE  /\ call \in CopyCalls /\ call' \in CopyCalls /\ call.at = "head" /\ SameCopy /\ Quiet
           /\ UNCHANGED <<bucket, upload, version>>
           /\ \/ /\ call.src \in DOMAIN bucket /\ call'.size = Len(bucket[call.src].data)
                 /\ call'.at = IF call.op = "copy" THEN "copyobject" ELSE "create"
                 /\ lost' = lost /\ SameParts
              \/ CopyFails /\ (call.src \notin DOMAIN bucket \/ lost' # {})
<1>0. CallOK /\ IsBucket(bucket)
  BY DEF TypeOK
<1>1. call \in CopyCalls /\ call.at = "head"
  BY <1>0, CallKinds DEF HeadSource
<1>2. PICK o \in Outcomes :
         /\ IF o = "ok" /\ call.src \in DOMAIN bucket
            THEN call' = [call EXCEPT !.at = IF call.op = "copy" THEN "copyobject" ELSE "create",
                                      !.size = Len(bucket[call.src].data)]
            ELSE Return("error")
         /\ Ended("head", o)
  BY DEF HeadSource
<1>3. Quiet /\ UNCHANGED <<bucket, upload, version>>
  BY DEF HeadSource, Hist, Quiet
<1>4. CASE o = "ok" /\ call.src \in DOMAIN bucket
  <2> DEFINE a == IF call.op = "copy" THEN "copyobject" ELSE "create"
             n == Len(bucket[call.src].data)
  <2>1. call' = [call EXCEPT !.at = a, !.size = n] /\ lost' = lost
    BY <1>2, <1>4 DEF Ended
  <2>2. a \in {"copyobject", "create"}
    OBVIOUS
  <2>3. n \in Nat
    BY <1>0, <1>4, LenProperties DEF IsBucket, Entry
  <2> HIDE DEF a, n
  <2>4. /\ call' \in CopyCalls /\ SameCopy /\ call'.at = a /\ call'.size = n
        /\ SameParts
    BY <1>1, <2>1, <2>2, <2>3 DEF CopyCalls, SameCopy, SameParts
  <2> QED BY <1>1, <1>3, <1>4, <2>1, <2>4 DEF a, n
<1>5. CASE ~(o = "ok" /\ call.src \in DOMAIN bucket)
  <2>1. call' \in CopyCalls /\ SameCopy /\ CopyFails
    BY <1>1, <1>2, <1>5, ReturnEffect DEF CopyFails
  <2>2. call.src \notin DOMAIN bucket \/ lost' # {}
    BY <1>2, <1>5 DEF Ended
  <2> QED BY <1>1, <1>3, <2>1, <2>2
<1> QED BY <1>4, <1>5

\* CopyObject: the copy is made, goes on in parts, or fails for a reason.
LEMMA CopyObjectEffect ==
    ASSUME TypeOK, CopyObject
    PROVE  /\ call \in CopyCalls /\ call' \in CopyCalls /\ call.at = "copyobject" /\ SameCopy /\ Quiet
           /\ UNCHANGED upload
           /\ \/ UNCHANGED <<bucket, version>>
              \/ /\ call.src \in DOMAIN bucket /\ Put(call.dst, bucket[call.src].data)
                 /\ version' = version + 1
           /\ \/ /\ call.src \in DOMAIN bucket /\ Len(bucket[call.src].data) > MaxCopy
                 /\ call'.at = "create" /\ UNCHANGED <<bucket, lost>>
                 /\ call'.size = call.size /\ SameParts
              \/ /\ call'.at = "done" /\ call'.res = "ok"
                 /\ call.src \in DOMAIN bucket /\ Put(call.dst, bucket[call.src].data)
              \/ CopyFails /\ (call.src \notin DOMAIN bucket \/ lost' # {})
<1>0. CallOK /\ IsBucket(bucket)
  BY DEF TypeOK
<1>1. call \in CopyCalls /\ call.at = "copyobject"
  BY <1>0, CallKinds DEF CopyObject
<1> DEFINE there == call.src \in DOMAIN bucket
           small == there /\ Len(bucket[call.src].data) <= MaxCopy
<1>2. PICK o \in Outcomes :
         /\ IF Applied(o) /\ small
            THEN Put(call.dst, bucket[call.src].data) /\ version' = version + 1
            ELSE UNCHANGED <<bucket, version>>
         /\ IF o = "ok" /\ there /\ ~small
            THEN call' = [call EXCEPT !.at = "create"]
            ELSE Return(IF o = "ok" /\ small THEN "ok" ELSE "error")
         /\ Ended("copy", o)
  BY DEF CopyObject
<1>3. Quiet /\ UNCHANGED upload
  BY DEF CopyObject, Hist, Quiet
<1>4. there => Len(bucket[call.src].data) \in Nat
  BY <1>0, LenProperties DEF IsBucket, Entry
<1>5. \/ UNCHANGED <<bucket, version>>
      \/ there /\ Put(call.dst, bucket[call.src].data) /\ version' = version + 1
  BY <1>2
<1>6. CASE o = "ok" /\ there /\ ~small
  <2>1. call' = [call EXCEPT !.at = "create"] /\ UNCHANGED <<bucket, lost>>
    BY <1>2, <1>6 DEF Ended
  <2>2. Len(bucket[call.src].data) > MaxCopy
    BY <1>4, <1>6, Constants
  <2>3. /\ call' \in CopyCalls /\ SameCopy /\ call'.at = "create" /\ call'.size = call.size
        /\ SameParts
    BY <1>1, <2>1 DEF CopyCalls, SameCopy, SameParts
  <2> QED BY <1>1, <1>3, <1>5, <1>6, <2>1, <2>2, <2>3
<1>7. CASE o = "ok" /\ small
  <2>1. Return("ok") /\ Put(call.dst, bucket[call.src].data)
    BY <1>2, <1>7 DEF Applied
  <2>2. call' \in CopyCalls /\ SameCopy /\ call'.at = "done" /\ call'.res = "ok"
    BY <1>1, <2>1, ReturnEffect
  <2> QED BY <1>1, <1>3, <1>5, <1>7, <2>1, <2>2
<1>8. CASE ~(o = "ok" /\ there)
  <2>1. Return("error")
    BY <1>2, <1>8
  <2>2. call' \in CopyCalls /\ SameCopy /\ CopyFails
    BY <1>1, <2>1, ReturnEffect DEF CopyFails
  <2>3. ~there \/ lost' # {}
    BY <1>2, <1>8 DEF Ended
  <2> QED BY <1>1, <1>3, <1>5, <2>2, <2>3
<1> QED BY <1>6, <1>7, <1>8

\* CreateMultipartUpload: parts may start; or the copy fails, the upload open or not.
LEMMA CreateUploadEffect ==
    ASSUME TypeOK, CreateUpload
    PROVE  /\ call \in CopyCalls /\ call' \in CopyCalls /\ call.at = "create" /\ SameCopy /\ Quiet
           /\ UNCHANGED <<bucket, version>>
           /\ call'.size = call.size
           /\ \/ /\ call'.at = "parts" /\ call'.parts = AdjustPartSize(call.size)
                 /\ SameParts
                 /\ upload' = [NoUpload EXCEPT !.state = "open"] /\ lost' = lost
              \/ CopyFails /\ upload' = upload /\ lost' # {}
              \/ /\ CopyFails /\ upload' = [NoUpload EXCEPT !.state = "open"]
                 /\ "create" \in lost'
<1>0. CallOK /\ IsBucket(bucket)
  BY DEF TypeOK
<1>1. call \in CopyCalls /\ call.at = "create"
  BY <1>0, CallKinds DEF CreateUpload
<1>2. PICK o \in Outcomes :
         /\ upload' = IF Applied(o) THEN [NoUpload EXCEPT !.state = "open"] ELSE upload
         /\ IF o = "ok"
            THEN call' = [call EXCEPT !.at = "parts", !.parts = AdjustPartSize(call.size)]
            ELSE Return("error")
         /\ Ended("create", o)
  BY DEF CreateUpload
<1>3. Quiet /\ UNCHANGED <<bucket, version>>
  BY DEF CreateUpload, Hist, Quiet
<1>4. CASE o = "ok"
  <2> DEFINE p == AdjustPartSize(call.size)
  <2>1. p \in [size : Nat, count : Nat]
    <3>1. call.size \in Nat
      BY <1>1 DEF CopyCalls
    <3> QED BY <3>1, PartSizes
  <2>2. call' = [call EXCEPT !.at = "parts", !.parts = p] /\ lost' = lost
    BY <1>2, <1>4 DEF Ended
  <2>3. upload' = [NoUpload EXCEPT !.state = "open"]
    BY <1>2, <1>4 DEF Applied
  <2> HIDE DEF p
  <2>4. /\ call' \in CopyCalls /\ SameCopy /\ call'.at = "parts" /\ call'.parts = p
        /\ call'.size = call.size /\ SameParts
    BY <1>1, <2>1, <2>2 DEF CopyCalls, SameCopy, SameParts
  <2> QED BY <1>1, <1>3, <2>2, <2>3, <2>4 DEF p
<1>5. CASE o # "ok"
  <2>1. call' \in CopyCalls /\ SameCopy /\ CopyFails
    BY <1>1, <1>2, <1>5, ReturnEffect DEF CopyFails
  <2>2. "create" \in lost'
    BY <1>2, <1>5 DEF Ended
  <2>3. call'.size = call.size
    BY <2>1 DEF CopyFails
  <2> QED BY <1>1, <1>2, <1>3, <2>1, <2>2, <2>3
<1> QED BY <1>4, <1>5

\* A part is started, or fails at once under a context that is done.
LEMMA GoPartEffect ==
    ASSUME TypeOK, GoPart
    PROVE  /\ call \in CopyCalls /\ call' \in CopyCalls /\ call.at = "parts" /\ SameCopy /\ Quiet
           /\ UNCHANGED <<bucket, version, upload, lost>>
           /\ call'.at = "parts" /\ call'.size = call.size /\ call'.parts = call.parts
           /\ call.next <= call.parts.count /\ call'.next = call.next + 1
           /\ call'.completed = call.completed
           /\ \/ /\ cancelled \/ call.failed
                 /\ call'.failed /\ call'.running = call.running
              \/ call'.failed = call.failed /\ call'.running = call.running \cup {call.next}
<1>0. CallOK
  BY DEF TypeOK
<1>1. call \in CopyCalls /\ call.at = "parts"
  BY <1>0, CallKinds DEF GoPart
<1>2. Quiet /\ UNCHANGED <<bucket, version, upload, lost>> /\ call.next <= call.parts.count
  BY DEF GoPart, Hist, Quiet
<1> DEFINE n == call.next + 1
           R == call.running \cup {call.next}
<1>3. n \in Nat /\ R \in SUBSET Nat
  <2>1. call.next \in Nat /\ call.running \in SUBSET Nat
    BY <1>1 DEF CopyCalls
  <2> QED BY <2>1
<1>4. CASE cancelled \/ call.failed
  <2>1. call' = [call EXCEPT !.next = n, !.failed = TRUE]
    BY <1>4 DEF GoPart
  <2> HIDE DEF n, R
  <2>2. /\ call' \in CopyCalls /\ SameCopy /\ call'.at = "parts" /\ call'.size = call.size
        /\ call'.parts = call.parts /\ call'.next = n
        /\ call'.completed = call.completed /\ call'.failed /\ call'.running = call.running
    BY <1>1, <1>3, <2>1 DEF CopyCalls, SameCopy
  <2> QED BY <1>1, <1>2, <1>4, <2>2 DEF n
<1>5. CASE ~(cancelled \/ call.failed)
  <2>1. call' = [call EXCEPT !.next = n, !.running = R]
    BY <1>5 DEF GoPart
  <2> HIDE DEF n, R
  <2>2. /\ call' \in CopyCalls /\ SameCopy /\ call'.at = "parts" /\ call'.size = call.size
        /\ call'.parts = call.parts /\ call'.next = n
        /\ call'.completed = call.completed /\ call'.failed = call.failed /\ call'.running = R
    BY <1>1, <1>3, <2>1 DEF CopyCalls, SameCopy
  <2> QED BY <1>1, <1>2, <2>2 DEF n, R
<1> QED BY <1>4, <1>5

\* The bytes that the service copies for part i.
PartOf(i) ==
    LET r == ByteRange(i, call.parts.size, call.size)
    IN  SubSeq(bucket[call.src].data, r.first + 1, r.last + 1)

\* UploadPartCopy ends: the part is stored, or failed for a reason, or both.
LEMMA PartEndsEffect ==
    ASSUME TypeOK, NEW i \in 1..MaxParts + 1, PartEnds(i)
    PROVE  /\ call \in CopyCalls /\ call' \in CopyCalls /\ call.at = "parts" /\ SameCopy /\ Quiet
           /\ UNCHANGED <<bucket, version>>
           /\ call'.at = "parts" /\ call'.size = call.size /\ call'.parts = call.parts
           /\ call'.next = call.next
           /\ i \in call.running /\ call'.running = call.running \ {i}
           /\ \/ upload' = upload
              \/ /\ call.src \in DOMAIN bucket /\ PartOf(i) \in Seq(Byte)
                 /\ upload' = [upload EXCEPT !.parts = With(@, i, PartOf(i))]
           /\ \/ /\ call'.failed = call.failed /\ call'.completed = call.completed \cup {i}
                 /\ upload' = [upload EXCEPT !.parts = With(@, i, PartOf(i))]
              \/ /\ call'.failed /\ call'.completed = call.completed
                 /\ \/ lost' # {}
                    \/ i > MaxParts
                    \/ call.src \notin DOMAIN bucket
                    \/ ~(Len(bucket[call.src].data) > MinRange)
                    \/ ~(ByteRange(i, call.parts.size, call.size).last < Len(bucket[call.src].data))
<1>0. CallOK /\ IsBucket(bucket) /\ MaxParts \in Nat
  BY Constants DEF TypeOK
<1>1. call \in CopyCalls /\ call.at = "parts" /\ i \in call.running
  BY <1>0, CallKinds DEF PartEnds
<1> DEFINE r == ByteRange(i, call.parts.size, call.size)
           good == /\ i <= MaxParts /\ call.src \in DOMAIN bucket
                   /\ Len(bucket[call.src].data) > MinRange
                   /\ r.last < Len(bucket[call.src].data)
           d == PartOf(i)
<1>2. PICK o \in {"ok", "fail", "applied"} :
         /\ upload' = IF Applied(o) /\ good THEN [upload EXCEPT !.parts = With(@, i, d)] ELSE upload
         /\ call' = IF o = "ok" /\ good
                    THEN [call EXCEPT !.running = @ \ {i}, !.completed = @ \cup {i}]
                    ELSE [call EXCEPT !.running = @ \ {i}, !.failed = TRUE]
         /\ Ended("part", o)
  BY DEF PartEnds, PartOf
<1>3. Quiet /\ UNCHANGED <<bucket, version>>
  BY DEF PartEnds, Hist, Quiet
<1>4. good => d \in Seq(Byte)
  <2> SUFFICES ASSUME good PROVE d \in Seq(Byte)
    OBVIOUS
  <2>1. bucket[call.src].data \in Seq(Byte)
    BY <1>0 DEF IsBucket, Entry
  <2>2. call.size \in Nat /\ call.parts.size \in Nat /\ i \in Nat /\ i > 0
    <3>1. call.size \in Nat /\ call.parts.size \in Nat
      BY <1>1 DEF CopyCalls
    <3> QED BY <1>0, <3>1
  <2>3. r.first \in Nat /\ r.last \in Int
    <3>0. \A x, y \in Nat : x * y \in Nat
      OBVIOUS
    <3>1. (i - 1) * call.parts.size \in Nat /\ i * call.parts.size \in Nat
      <4>1. i - 1 \in Nat
        BY <2>2
      <4> QED BY <2>2, <3>0, <4>1
    <3>2. i * call.parts.size - 1 \in Int /\ call.size - 1 \in Int
      BY <2>2, <3>1
    <3> QED BY <3>1, <3>2 DEF ByteRange
  <2>4. r.last < Len(bucket[call.src].data)
    OBVIOUS
  <2>5. d = SubSeq(bucket[call.src].data, r.first + 1, r.last + 1)
    BY DEF PartOf
  <2> HIDE DEF r, d
  <2>6. r.first + 1 \in Int /\ r.last + 1 \in Int
    BY <2>3
  <2>7. \A h \in r.first + 1..r.last + 1 : bucket[call.src].data[h] \in Byte
    <3> SUFFICES ASSUME NEW h \in r.first + 1..r.last + 1 PROVE bucket[call.src].data[h] \in Byte
      OBVIOUS
    <3>1. Len(bucket[call.src].data) \in Nat
      BY <2>1, LenProperties
    <3>2. h \in 1..Len(bucket[call.src].data)
      BY <2>3, <2>4, <3>1
    <3> QED BY <2>1, <3>2, ElementOfSeq
  <2> QED BY <2>5, <2>6, <2>7, SubSeqProperties
<1>5. \/ upload' = upload
      \/ /\ call.src \in DOMAIN bucket /\ d \in Seq(Byte)
         /\ upload' = [upload EXCEPT !.parts = With(@, i, d)]
  BY <1>2, <1>4
<1>6. i \in Nat
  BY <1>0
<1> HIDE DEF d
<1>7. CASE o = "ok" /\ good
  <2>1. call' = [call EXCEPT !.running = @ \ {i}, !.completed = @ \cup {i}]
    BY <1>2, <1>7
  <2>2. upload' = [upload EXCEPT !.parts = With(@, i, d)]
    BY <1>2, <1>7 DEF Applied
  <2>3. /\ call' \in CopyCalls /\ SameCopy /\ call'.at = "parts" /\ call'.size = call.size
        /\ call'.parts = call.parts /\ call'.next = call.next /\ call'.running = call.running \ {i}
        /\ call'.completed = call.completed \cup {i} /\ call'.failed = call.failed
    BY <1>1, <1>6, <2>1 DEF CopyCalls, SameCopy
  <2> QED BY <1>1, <1>3, <1>5, <2>2, <2>3 DEF d
<1>8. CASE ~(o = "ok" /\ good)
  <2>1. call' = [call EXCEPT !.running = @ \ {i}, !.failed = TRUE]
    BY <1>2, <1>8
  <2>2. /\ call' \in CopyCalls /\ SameCopy /\ call'.at = "parts" /\ call'.size = call.size
        /\ call'.parts = call.parts /\ call'.next = call.next /\ call'.running = call.running \ {i}
        /\ call'.completed = call.completed /\ call'.failed
    BY <1>1, <2>1 DEF CopyCalls, SameCopy
  <2>3. lost' # {} \/ ~good
    BY <1>2, <1>8 DEF Ended
  <2>4. lost' # {} \/ i > MaxParts \/ call.src \notin DOMAIN bucket
        \/ ~(Len(bucket[call.src].data) > MinRange)
        \/ ~(r.last < Len(bucket[call.src].data))
    <3> HIDE DEF r
    <3> QED BY <1>0, <1>6, <2>3
  <2> QED BY <1>1, <1>3, <1>5, <2>2, <2>4 DEF d
<1> QED BY <1>7, <1>8

Joined == SE!FlattenSeq([i \in 1..call.parts.count |-> upload.parts[i]])

\* The deferred function: the upload is completed, aborted, or stays open for a reason.
LEMMA EndUploadEffect ==
    ASSUME TypeOK, EndUpload
    PROVE  /\ call \in CopyCalls /\ call' \in CopyCalls /\ call.at = "parts" /\ SameCopy /\ Quiet
           /\ call'.at = "done" /\ call'.size = call.size
           /\ call.next > call.parts.count /\ call.running = {}
           /\ \/ /\ ~call.failed /\ call.parts.count > 0 /\ call.completed = 1..call.parts.count
                 /\ Put(call.dst, Joined) /\ version' = version + 1
                 /\ upload' = [upload EXCEPT !.state = "completed"]
                 /\ call'.res = "ok" \/ (call'.res = "error" /\ lost' # {})
              \/ /\ UNCHANGED <<bucket, version>> /\ CopyFails
                 /\ \/ "end" \in lost' /\ upload' = [upload EXCEPT !.state = upload.state]
                    \/ call.failed /\ upload' = [upload EXCEPT !.state = "aborted"]
                    \/ /\ ~call.failed /\ upload' = [upload EXCEPT !.state = upload.state]
                       /\ ~Completable
<1>0. CallOK
  BY DEF TypeOK
<1>1. /\ call \in CopyCalls /\ call.at = "parts"
      /\ call.next > call.parts.count /\ call.running = {}
  BY <1>0, CallKinds DEF EndUpload
<1> DEFINE good == Completable
           completes(o) == ~Aborts /\ good /\ Applied(o)
<1>2. PICK o \in Outcomes :
         /\ upload' = [upload EXCEPT !.state = IF completes(o) THEN "completed"
                                               ELSE IF Aborts /\ Applied(o) THEN "aborted"
                                               ELSE @]
         /\ IF completes(o) THEN Put(call.dst, Joined) /\ version' = version + 1
                            ELSE UNCHANGED <<bucket, version>>
         /\ Return(IF completes(o) /\ o = "ok" THEN "ok" ELSE "error")
         /\ Ended("end", o)
  BY DEF EndUpload, Joined
<1>3. Quiet
  BY DEF EndUpload, Hist, Quiet
<1> HIDE DEF good
<1>4. CASE completes(o)
  <2>1. /\ ~call.failed /\ good /\ Put(call.dst, Joined) /\ version' = version + 1
        /\ upload' = [upload EXCEPT !.state = "completed"]
    BY <1>2, <1>4 DEF Aborts
  <2>2. (o = "ok" /\ Return("ok")) \/ (Return("error") /\ lost' # {})
    BY <1>2, <1>4 DEF Ended
  <2>3. /\ call' \in CopyCalls /\ SameCopy /\ call'.at = "done" /\ call'.size = call.size
        /\ call'.res = "ok" \/ (call'.res = "error" /\ lost' # {})
    BY <1>1, <2>2, ReturnEffect
  <2> QED BY <1>1, <1>3, <2>1, <2>3 DEF good, Completable
<1>5. CASE ~completes(o)
  <2>1. UNCHANGED <<bucket, version>> /\ Return("error")
    BY <1>2, <1>5
  <2>2. call' \in CopyCalls /\ SameCopy /\ CopyFails
    BY <1>1, <2>1, ReturnEffect DEF CopyFails
  <2>3. call'.at = "done" /\ call'.size = call.size
    BY <2>2 DEF CopyFails
  <2>4. \/ upload' = [upload EXCEPT !.state = "aborted"] /\ call.failed
        \/ upload' = [upload EXCEPT !.state = upload.state] /\ ~(Aborts /\ Applied(o))
    BY <1>2, <1>5 DEF Aborts
  <2>5. ~Applied(o) => "end" \in lost'
    BY <1>2 DEF Applied, Ended
  <2>6. Applied(o) /\ ~Aborts => ~good
    BY <1>5
  <2>7. Aborts <=> call.failed
    BY DEF Aborts
  <2> QED BY <1>1, <1>3, <2>1, <2>2, <2>3, <2>4, <2>5, <2>6, <2>7 DEF good
<1> QED BY <1>4, <1>5

-----------------------------------------------------------------------------
(* What the steps of a listing do, field by field *)

SameList == call'.op = call.op /\ call'.dir = call.dir

\* RemoveAll, DirEntries and WalkFiles begin with the first page.
LEMMA StartListEffect ==
    ASSUME NEW d \in Dirs, RemoveAll(d) \/ DirEntries(d) \/ WalkFiles(d)
    PROVE  /\ call.at = "idle" /\ call' \in ListCalls /\ call'.at = "list" /\ call'.dir = d
           /\ call'.token = <<>> /\ call'.page = <<>> /\ call'.yielded = <<>>
           /\ call'.hasContent = FALSE
           /\ was' = bucket /\ touched' = {}
           /\ UNCHANGED <<bucket, upload, cancelled, file, version, lost, bytes>>
<1>1. PICK op \in {"removeall", "direntries", "walkfiles"} : Begin(ListCall(op, d))
  BY DEF RemoveAll, DirEntries, WalkFiles
<1>2. call' = [op |-> op, at |-> "list", res |-> "", dir |-> d, token |-> <<>>, page |-> <<>>,
               more |-> TRUE, yielded |-> <<>>, hasContent |-> FALSE]
  BY <1>1 DEF Begin, ListCall
<1>3. /\ call' \in ListCalls /\ call'.at = "list" /\ call'.dir = d
      /\ call'.token = <<>> /\ call'.page = <<>> /\ call'.yielded = <<>> /\ call'.hasContent = FALSE
  BY <1>2, EmptySeq DEF ListCalls
<1> QED BY <1>1, <1>3 DEF Begin

\* The page that the next request returns.
NextPage == ListObjects(call.dir, call.op = "direntries", call.token)

\* A page of a listing: an error, a page to delete, the end of the directory, or entries.
LEMMA ListEffect ==
    ASSUME TypeOK, List
    PROVE  /\ call \in ListCalls /\ call' \in ListCalls /\ call.at = "list" /\ SameList /\ Quiet
           /\ UNCHANGED <<bucket, upload, version>>
           /\ \/ /\ call'.at = "done" /\ call'.res = "error"
                 /\ call'.yielded = call.yielded /\ call'.page = call.page
              \/ /\ call.op = "removeall" /\ call'.at = "delete"
                 /\ call'.page = NextPage.page /\ call'.token = NextPage.token
                 /\ call'.more = (NextPage.token # <<>>)
              \/ /\ call.op = "direntries" /\ NextPage.page = <<>> /\ call'.at = "done"
                 /\ call'.yielded = call.yielded
                 /\ call'.res = IF Missing THEN "missing" ELSE "ok"
              \/ /\ call.op # "removeall"
                 /\ call'.yielded = call.yielded \o NextPage.page
                 /\ call'.token = NextPage.token /\ call'.hasContent = TRUE
                 /\ call'.at = IF NextPage.token = <<>> THEN "done" ELSE "list"
                 /\ call'.res = IF NextPage.token = <<>> THEN "ok" ELSE call.res
<1>0. CallOK /\ IsBucket(bucket)
  BY DEF TypeOK
<1>1. call \in ListCalls /\ call.at = "list"
  BY <1>0, CallKinds DEF List
<1> DEFINE l == NextPage
           page == l.page
           token == l.token
           last == l.token = <<>>
<1>2. PICK o \in Outcomes :
         IF o # "ok" THEN Return("error")
         ELSE IF call.op = "removeall"
         THEN call' = [call EXCEPT !.at = "delete", !.page = page, !.token = token, !.more = ~last]
         ELSE IF call.op = "direntries" /\ page = <<>>
         THEN Return(IF Missing THEN "missing" ELSE "ok")
         ELSE call' = [call EXCEPT !.yielded = @ \o page, !.hasContent = TRUE, !.token = token,
                                   !.at = IF last THEN "done" ELSE "list",
                                   !.res = IF last THEN "ok" ELSE @]
  BY DEF List, NextPage
<1>3. Quiet /\ UNCHANGED <<bucket, upload, version>>
  BY DEF List, Hist, Quiet
<1>4. page \in Seq(Seq(Nat)) /\ token \in Seq(Nat)
  <2>1. call.dir \in Dirs /\ (call.op = "direntries") \in BOOLEAN
    BY <1>1 DEF ListCalls
  <2> QED BY <1>0, <2>1, ListPage DEF NextPage, IsPage
<1>5. call.yielded \o page \in Seq(Seq(Nat))
  <2>1. call.yielded \in Seq(Seq(Nat))
    BY <1>1 DEF ListCalls
  <2> QED BY <1>4, <2>1, ConcatProperties
<1> HIDE DEF page, token, last
<1>6. CASE o # "ok"
  <2>1. call' = [call EXCEPT !.at = "done", !.res = "error"]
    BY <1>2, <1>6 DEF Return
  <2>2. /\ call' \in ListCalls /\ SameList /\ call'.at = "done" /\ call'.res = "error"
        /\ call'.yielded = call.yielded /\ call'.page = call.page
    BY <1>1, <2>1 DEF ListCalls, SameList
  <2> QED BY <1>1, <1>3, <2>2
<1>7. CASE o = "ok" /\ call.op = "removeall"
  <2> DEFINE more == ~last
  <2>0. more \in BOOLEAN
    BY DEF last
  <2>1. call' = [call EXCEPT !.at = "delete", !.page = page, !.token = token, !.more = more]
    BY <1>2, <1>7
  <2> HIDE DEF more
  <2>2. /\ call' \in ListCalls /\ SameList /\ call'.at = "delete" /\ call'.page = page
        /\ call'.token = token /\ call'.more = more
    BY <1>1, <1>4, <2>0, <2>1 DEF ListCalls, SameList
  <2>3. call'.more = (l.token # <<>>)
    BY <2>2 DEF more, last
  <2> QED BY <1>1, <1>3, <1>7, <2>2, <2>3 DEF page, token
<1>8. CASE o = "ok" /\ call.op = "direntries" /\ page = <<>>
  <2> DEFINE r == IF Missing THEN "missing" ELSE "ok"
  <2>0. r \in {"missing", "ok"}
    OBVIOUS
  <2>1. call' = [call EXCEPT !.at = "done", !.res = r]
    BY <1>2, <1>8 DEF Return
  <2> HIDE DEF r
  <2>2. /\ call' \in ListCalls /\ SameList /\ call'.at = "done" /\ call'.res = r
        /\ call'.yielded = call.yielded
    BY <1>1, <2>0, <2>1 DEF ListCalls, SameList
  <2> QED BY <1>1, <1>3, <1>8, <2>2 DEF page, r
<1>9. CASE o = "ok" /\ call.op # "removeall" /\ ~(call.op = "direntries" /\ page = <<>>)
  <2> DEFINE y == call.yielded \o page
             a == IF last THEN "done" ELSE "list"
             r == IF last THEN "ok" ELSE call.res
  <2>0. y \in Seq(Seq(Nat)) /\ a \in {"done", "list"} /\ r \in {"", "ok", "error", "missing"}
    BY <1>1, <1>5 DEF ListCalls
  <2>1. call' = [call EXCEPT !.yielded = y, !.hasContent = TRUE, !.token = token, !.at = a, !.res = r]
    BY <1>2, <1>9
  <2> HIDE DEF y, a, r
  <2>2. /\ call' \in ListCalls /\ SameList /\ call'.at = a /\ call'.res = r /\ call'.yielded = y
        /\ call'.token = token /\ call'.hasContent = TRUE
    BY <1>1, <1>4, <2>0, <2>1 DEF ListCalls, SameList
  <2> QED BY <1>1, <1>3, <1>9, <2>2 DEF page, token, last, y, a, r
<1> QED BY <1>1, <1>6, <1>7, <1>8, <1>9

\* A key of the page is deleted, or the call fails.
LEMMA DeleteListedEffect ==
    ASSUME TypeOK, DeleteListed
    PROVE  /\ call \in ListCalls /\ call' \in ListCalls /\ call.at = "delete" /\ SameList /\ Quiet
           /\ UNCHANGED <<upload, version>>
           /\ call.page # <<>>
           /\ \/ UNCHANGED bucket
              \/ Drop(Head(call.page))
           /\ \/ /\ call'.at = "delete" /\ call'.page = Tail(call.page)
                 /\ call'.token = call.token /\ call'.more = call.more
                 /\ Drop(Head(call.page))
              \/ call'.at = "done" /\ call'.res = "error" /\ call'.page = call.page
           /\ call'.yielded = call.yielded
<1>0. CallOK
  BY DEF TypeOK
<1>1. call \in ListCalls /\ call.at = "delete" /\ call.page # <<>>
  BY <1>0, CallKinds DEF DeleteListed
<1> DEFINE p == Tail(call.page)
<1>2. p \in Seq(Seq(Nat))
  <2>1. call.page \in Seq(Seq(Nat))
    BY <1>1 DEF ListCalls
  <2> QED BY <1>1, <2>1, HeadTailProperties
<1>3. Quiet /\ UNCHANGED <<upload, version>>
  BY DEF DeleteListed, Hist, Quiet
<1>4. PICK o \in Outcomes :
         /\ IF Applied(o) THEN Drop(Head(call.page)) ELSE UNCHANGED bucket
         /\ IF o = "ok" THEN call' = [call EXCEPT !.page = p] ELSE Return("error")
  BY DEF DeleteListed
<1> HIDE DEF p
<1>5. CASE o = "ok"
  <2>1. call' = [call EXCEPT !.page = p] /\ Drop(Head(call.page))
    BY <1>4, <1>5 DEF Applied
  <2>2. /\ call' \in ListCalls /\ SameList /\ call'.at = "delete" /\ call'.page = p
        /\ call'.token = call.token /\ call'.more = call.more /\ call'.yielded = call.yielded
    BY <1>1, <1>2, <2>1 DEF ListCalls, SameList
  <2> QED BY <1>1, <1>3, <2>1, <2>2 DEF p
<1>6. CASE o # "ok"
  <2>1. call' = [call EXCEPT !.at = "done", !.res = "error"]
    BY <1>4, <1>6 DEF Return
  <2>2. /\ call' \in ListCalls /\ SameList /\ call'.at = "done" /\ call'.res = "error"
        /\ call'.page = call.page /\ call'.yielded = call.yielded
    BY <1>1, <2>1 DEF ListCalls, SameList
  <2> QED BY <1>1, <1>3, <1>4, <2>2
<1> QED BY <1>5, <1>6

\* The page is done: the next one is listed, or the call returns.
LEMMA PageDeletedEffect ==
    ASSUME TypeOK, PageDeleted
    PROVE  /\ call \in ListCalls /\ call' \in ListCalls /\ call.at = "delete" /\ SameList /\ Quiet
           /\ UNCHANGED <<bucket, upload, version>>
           /\ call.page = <<>> /\ call'.page = call.page /\ call'.token = call.token
           /\ \/ call.more /\ call'.at = "list"
              \/ ~call.more /\ call'.at = "done" /\ call'.res = "ok"
           /\ call'.yielded = call.yielded
<1>0. CallOK
  BY DEF TypeOK
<1>1. call \in ListCalls /\ call.at = "delete" /\ call.page = <<>>
  BY <1>0, CallKinds DEF PageDeleted
<1>2. Quiet /\ UNCHANGED <<bucket, upload, version>>
  BY DEF PageDeleted, Hist, Quiet
<1>3. CASE call.more
  <2>1. call' = [call EXCEPT !.at = "list"]
    BY <1>3 DEF PageDeleted
  <2>2. /\ call' \in ListCalls /\ SameList /\ call'.at = "list" /\ call'.page = call.page
        /\ call'.token = call.token /\ call'.yielded = call.yielded
    BY <1>1, <2>1 DEF ListCalls, SameList
  <2> QED BY <1>1, <1>2, <1>3, <2>2
<1>4. CASE ~call.more
  <2>1. call' = [call EXCEPT !.at = "done", !.res = "ok"]
    BY <1>4 DEF PageDeleted, Return
  <2>2. /\ call' \in ListCalls /\ SameList /\ call'.at = "done" /\ call'.res = "ok"
        /\ call'.page = call.page /\ call'.token = call.token /\ call'.yielded = call.yielded
    BY <1>1, <2>1 DEF ListCalls, SameList
  <2> QED BY <1>1, <1>2, <1>4, <2>2
<1> QED BY <1>3, <1>4

-----------------------------------------------------------------------------
(* The other steps *)

\* Write, Remove and OpenFile begin a call that is neither a copy nor a listing.
LEMMA StartOtherEffect ==
    ASSUME NEW k \in Targets, (\E n \in Sizes : Write(k, n)) \/ Remove(k) \/ OpenFile(k)
    PROVE  /\ call.at = "idle" /\ call' \in RequestCalls \cup FileCalls
           /\ call'.op \in {"write", "remove", "file"} /\ call'.at \in {"done", "open"}
           /\ was' = bucket /\ touched' = {}
           /\ UNCHANGED <<upload, cancelled, bytes>>
<1>1. ASSUME NEW n \in Sizes, Write(k, n)
      PROVE  /\ \E o \in {"ok", "fail", "applied"} : call' = [op |-> "write", at |-> "done", res |-> o]
             /\ call.at = "idle" /\ was' = bucket /\ touched' = {}
             /\ UNCHANGED <<upload, cancelled, bytes>>
  BY <1>1 DEF Write, Outcomes
<1>2. ASSUME Remove(k)
      PROVE  /\ \E o \in {"ok", "fail", "applied"} : call' = [op |-> "remove", at |-> "done", res |-> o]
             /\ call.at = "idle" /\ was' = bucket /\ touched' = {}
             /\ UNCHANGED <<upload, cancelled, bytes>>
  BY <1>2 DEF Remove, Outcomes
<1>3. ASSUME OpenFile(k)
      PROVE  /\ call' = [op |-> "file", at |-> "open", res |-> ""]
             /\ call.at = "idle" /\ was' = bucket /\ touched' = {}
             /\ UNCHANGED <<upload, cancelled, bytes>>
  BY <1>3 DEF OpenFile
<1>4. /\ \/ \E o \in {"ok", "fail", "applied"}, op \in {"write", "remove"} :
                call' = [op |-> op, at |-> "done", res |-> o]
         \/ call' = [op |-> "file", at |-> "open", res |-> ""]
      /\ call.at = "idle" /\ was' = bucket /\ touched' = {}
      /\ UNCHANGED <<upload, cancelled, bytes>>
  BY <1>1, <1>2, <1>3
<1>5. /\ call' \in RequestCalls \cup FileCalls
      /\ call'.op \in {"write", "remove", "file"} /\ call'.at \in {"done", "open"}
  <2>1. ASSUME NEW o \in {"ok", "fail", "applied"}, NEW op \in {"write", "remove"},
               call' = [op |-> op, at |-> "done", res |-> o]
        PROVE  call' \in RequestCalls /\ call'.op = op /\ call'.at = "done"
    BY <2>1 DEF RequestCalls
  <2>2. ASSUME call' = [op |-> "file", at |-> "open", res |-> ""]
        PROVE  call' \in FileCalls /\ call'.op = "file" /\ call'.at = "open"
    BY <2>2 DEF FileCalls
  <2> QED BY <1>4, <2>1, <2>2
<1> QED BY <1>4, <1>5

\* The steps that are not the call's own: the caller's, another client's, and the use of a
\* file.
Aside ==
    \/ Cancel
    \/ \E k \in Keys : OtherRemoves(k)
    \/ \E k \in Keys, n \in Sizes : OtherWrites(k, n)
    \/ \E n \in 1..2 : Read(n)
    \/ \E to \in 0..2 : Seek(to)
    \/ UNCHANGED vars

\* They leave the call as it is, and change no file but those they are recorded for.
LEMMA OtherEffect ==
    ASSUME Aside
    PROVE  /\ UNCHANGED <<call, upload, was, lost>>
           /\ touched \subseteq touched'
           /\ DOMAIN bucket \ touched' \subseteq DOMAIN bucket'
           /\ DOMAIN bucket' \ touched' \subseteq DOMAIN bucket
           /\ \A k \in DOMAIN bucket \ touched' : bucket'[k] = bucket[k]
           /\ cancelled => cancelled'
<1>1. ASSUME NEW k \in Keys, OtherRemoves(k)
      PROVE  /\ UNCHANGED <<call, upload, was, lost, cancelled>> /\ touched' = touched \cup {k}
             /\ DOMAIN bucket' = DOMAIN bucket \ {k}
             /\ \A j \in DOMAIN bucket \ {k} : bucket'[j] = bucket[j]
  BY <1>1 DEF OtherRemoves, Drop
<1>2. ASSUME NEW k \in Keys, NEW n \in Sizes, OtherWrites(k, n)
      PROVE  /\ UNCHANGED <<call, upload, was, lost, cancelled>> /\ touched' = touched \cup {k}
             /\ DOMAIN bucket' = DOMAIN bucket \cup {k}
             /\ \A j \in DOMAIN bucket : j # k => bucket'[j] = bucket[j]
  BY <1>2 DEF OtherWrites, Put, With
<1>3. ASSUME Cancel \/ (\E n \in 1..2 : Read(n)) \/ (\E to \in 0..2 : Seek(to)) \/ UNCHANGED vars
      PROVE  UNCHANGED <<call, upload, was, lost, touched, bucket>> /\ (cancelled => cancelled')
  BY <1>3 DEF Cancel, Read, Seek, vars, Hist
<1>4. CASE \E k \in Keys : OtherRemoves(k)
  <2>1. PICK k \in Keys : OtherRemoves(k)
    BY <1>4
  <2> QED BY <1>1, <2>1
<1>5. CASE \E k \in Keys, n \in Sizes : OtherWrites(k, n)
  <2>1. PICK k \in Keys, n \in Sizes : OtherWrites(k, n)
    BY <1>5
  <2> QED BY <1>2, <2>1
<1> QED BY <1>3, <1>4, <1>5 DEF Aside

-----------------------------------------------------------------------------
(* The parts put together *)

\* FlattenSeq appends the sequences one by one.
LEMMA FlattenIsSteps ==
    ASSUME NEW S, NEW ss \in Seq(Seq(S)), ss # <<>>
    PROVE  \E f \in [0..Len(ss) -> Seq(S)] :
              /\ f[0] = <<>>
              /\ \A i \in 1..Len(ss) : f[i] = f[i - 1] \o ss[i]
              /\ SE!FlattenSeq(ss) = f[Len(ss)]
<1>1. Len(ss) # 0
  BY EmptySeq
<1>2. SE!FlattenSeq(ss) = Flattening(ss)[Len(ss)]
  BY <1>1 DEF SE!FlattenSeq, Flattening
<1>3. PICK f \in [0..Len(ss) -> Seq(S)] :
              /\ f[0] = <<>>
              /\ \A i \in 1..Len(ss) : f[i] = f[i - 1] \o ss[i]
              /\ Flattening(ss)[Len(ss)] = f[Len(ss)]
  BY FlattenSteps
<1> QED BY <1>2, <1>3

\* The file that an upload is completed to is a sequence of bytes.
LEMMA JoinedIsSeq ==
    ASSUME UploadOK, call.parts.count \in Nat, call.parts.count > 0,
           1..call.parts.count \subseteq DOMAIN upload.parts
    PROVE  /\ Joined \in Seq(Byte)
           /\ \E f \in [0..call.parts.count -> Seq(Byte)] :
                 /\ f[0] = <<>>
                 /\ \A i \in 1..call.parts.count : f[i] = f[i - 1] \o upload.parts[i]
                 /\ Joined = f[call.parts.count]
<1> DEFINE n == call.parts.count
           ss == [i \in 1..n |-> upload.parts[i]]
<1> HIDE DEF Byte
<1>1. ss \in [1..n -> Seq(Byte)]
  BY DEF UploadOK
<1>2. n \in Nat /\ n > 0 /\ \A i \in 1..n : ss[i] = upload.parts[i]
  OBVIOUS
<1>3. Joined = SE!FlattenSeq(ss)
  BY DEF Joined
<1> HIDE DEF ss, n
<1>4. ss \in Seq(Seq(Byte)) /\ Len(ss) = n
  BY <1>1, <1>2, FunctionIsSeq
<1>5. ss # <<>>
  <2>1. Len(ss) # 0
    BY <1>2, <1>4
  <2> QED BY <2>1, EmptySeq
<1>6. PICK f \in [0..n -> Seq(Byte)] :
         /\ f[0] = <<>>
         /\ \A i \in 1..n : f[i] = f[i - 1] \o ss[i]
         /\ SE!FlattenSeq(ss) = f[n]
  BY <1>4, <1>5, FlattenIsSteps
<1>7. f[n] \in Seq(Byte)
  BY <1>2
<1> QED BY <1>2, <1>3, <1>6, <1>7 DEF n

\* Parts that are what their ranges say make up the whole source, without a gap and
\* without an overlap, whatever its size is.
LEMMA JoinedIsSource ==
    ASSUME UploadOK, NEW d \in Seq(Byte), call.size = Len(d),
           call.parts = AdjustPartSize(call.size), call.parts.count > 0,
           1..call.parts.count \subseteq DOMAIN upload.parts,
           \A i \in 1..call.parts.count :
               upload.parts[i] = SubSeq(d, ByteRange(i, call.parts.size, call.size).first + 1,
                                           ByteRange(i, call.parts.size, call.size).last + 1)
    PROVE  Joined = d
<1> HIDE DEF Byte
<1> DEFINE n == call.parts.count
           p == call.parts.size
           t == Len(d)
           end(i) == IF i * p > t THEN t ELSE i * p
<1>0. t \in Nat
  BY LenProperties
<1>1. n \in Nat /\ n > 0 /\ p \in Nat /\ p > 0 /\ t <= n * p /\ \A i \in 1..n : (i - 1) * p < t
  BY <1>0, PartSizes
<1>2. ASSUME NEW i \in 1..n
      PROVE  upload.parts[i] = SubSeq(d, (i - 1) * p + 1, end(i))
  <2> DEFINE r == ByteRange(i, p, t)
  <2>1. r.first = (i - 1) * p /\ r.last + 1 = end(i)
    <3>1. i \in Nat /\ i * p \in Nat
      BY <1>1
    <3> DEFINE q == i * p
    <3>2. r.first = (i - 1) * p /\ r.last = IF q - 1 > t - 1 THEN t - 1 ELSE q - 1
      BY DEF ByteRange
    <3> HIDE DEF q, r
    <3>3. q \in Nat
      BY <3>1 DEF q
    <3>4. r.last + 1 = IF q > t THEN t ELSE q
      BY <1>0, <3>2, <3>3
    <3> QED BY <3>2, <3>4 DEF q
  <2>2. upload.parts[i] = SubSeq(d, r.first + 1, r.last + 1)
    OBVIOUS
  <2> HIDE DEF r, end
  <2> QED BY <2>1, <2>2
<1>3. PICK f \in [0..n -> Seq(Byte)] :
         /\ f[0] = <<>>
         /\ \A i \in 1..n : f[i] = f[i - 1] \o upload.parts[i]
         /\ Joined = f[n]
  BY <1>1, JoinedIsSeq
<1> HIDE DEF n, p, t
<1> DEFINE T == {i \in 0..n : f[i] = SubSeq(d, 1, end(i))}
<1>4. \A i \in 0..n : i \in T
  <2>1. 0 \in T
    <3>1. end(0) = 0
      BY <1>0, <1>1
    <3>2. SubSeq(d, 1, 0) = <<>>
      BY SubSeqEmpty
    <3> HIDE DEF end
    <3> QED BY <1>1, <1>3, <3>1, <3>2
  <2>2. ASSUME NEW i \in 1..n, i - 1 \in T PROVE i \in T
    <3> DEFINE k == (i - 1) * p
    <3>1. k \in Nat /\ k < t /\ i \in Nat /\ i * p \in Nat /\ i * p = k + p
      BY <1>1
    <3>2. end(i - 1) = k
      BY <3>1, <1>0
    <3>3. end(i) \in k..t /\ k \in 0..t
      BY <3>1, <1>0, <1>1
    <3>4. f[i - 1] = SubSeq(d, 1, k)
      <4> HIDE DEF end
      <4> QED BY <2>2, <3>2
    <3>5. f[i] = SubSeq(d, 1, k) \o SubSeq(d, k + 1, end(i))
      <4> HIDE DEF end
      <4> QED BY <1>2, <1>3, <3>4
    <3> HIDE DEF end, k
    <3>6. SubSeq(d, 1, k) \o SubSeq(d, k + 1, end(i)) = SubSeq(d, 1, end(i))
      <4>1. 1 \in 1..Len(d) + 1 /\ k \in 1 - 1..Len(d) /\ end(i) \in k..Len(d)
        BY <1>0, <3>3 DEF t
      <4> QED BY <4>1, ConcatAdjacentSubSeq
    <3>7. f[i] = SubSeq(d, 1, end(i))
      BY <3>5, <3>6, Zenon
    <3>8. i \in 0..n
      <4>1. n \in Nat
        BY <1>1
      <4> QED BY <4>1
    <3> QED BY <3>7, <3>8
  <2> HIDE DEF T
  <2> QED BY <1>1, <2>1, <2>2, IntervalInduction
<1>5. f[n] = SubSeq(d, 1, end(n))
  <2> HIDE DEF end
  <2>1. n \in T
    <3> HIDE DEF T
    <3> QED BY <1>1, <1>4
  <2> QED BY <2>1
<1>6. end(n) = t
  <2>1. n * p \in Nat
    BY <1>1
  <2> QED BY <2>1, <1>0, <1>1
<1>7. SubSeq(d, 1, t) = d
  BY SubSeqFull DEF t
<1> HIDE DEF end
<1> QED BY <1>3, <1>5, <1>6, <1>7

-----------------------------------------------------------------------------
(* The open file *)

\* The etags of a bucket are versions that were written.  A file in use is the only call;
\* as long as its etag matches, the bucket holds what was opened, and an open stream has
\* those bytes and is at the offset of the file.
FileInv ==
    /\ \A k \in DOMAIN bucket : bucket[k].etag <= version
    /\ file # NoFile =>
          /\ call.at = "open"
          /\ file.info.etag <= version
          /\ Matches => bucket[file.key].data = file.info.data
          /\ file.body.open => file.body.data = file.info.data /\ file.body.pos = file.offset

\* Read returns bytes of the version that was opened, and leaves the stream at the offset.
LEMMA ReadEffect ==
    ASSUME TypeOK, FileInv, NEW n \in 1..2, Read(n)
    PROVE  /\ file \in Files /\ file' \in Files /\ file # NoFile
           /\ file'.key = file.key /\ file'.info = file.info
           /\ file'.body.data = file.info.data /\ file'.body.pos = file'.offset
           /\ ReadsWhatWasOpened'
           /\ UNCHANGED <<bucket, upload, call, cancelled, version, lost, was, touched>>
<1> DEFINE d == file.info.data
           o == file.offset
           end == IF o + n < Len(d) THEN o + n ELSE Len(d)
           body == [Body EXCEPT !.pos = end]
<1>0. file \in Files /\ file # NoFile /\ o < Len(d) /\ (file.body.open \/ Matches)
  BY DEF TypeOK, Read
<1>1. d \in Seq(Byte) /\ o \in Nat /\ Len(d) \in Nat /\ file.body \in Bodies /\ file.body.open \in BOOLEAN
  <2>1. d \in Seq(Byte) /\ o \in Nat /\ file.body \in Bodies
    BY <1>0 DEF Files, Entry
  <2> QED BY <2>1, LenProperties DEF Bodies
<1>2. Body.data = d /\ Body.pos = o /\ Body \in Bodies
  <2>1. CASE file.body.open
    BY <1>0, <1>1, <2>1 DEF Body, FileInv
  <2>2. CASE ~file.body.open
    <3>1. Body = [open |-> TRUE, data |-> d, pos |-> o]
      BY <1>0, <2>2 DEF Body, FileInv
    <3> QED BY <1>1, <3>1 DEF Bodies
  <2> QED BY <2>1, <2>2
<1>3. end \in Nat /\ o < end /\ end <= Len(d) /\ o + (end - o) = end
  BY <1>0, <1>1
<1>4. /\ bytes' = [at |-> o, want |-> d, data |-> SubSeq(d, o + 1, end)]
      /\ file' = [file EXCEPT !.body = body, !.offset = end]
      /\ UNCHANGED <<bucket, upload, call, cancelled, version, lost, was, touched>>
  <2>1. /\ bytes' = [at |-> o, want |-> d, data |-> SubSeq(d, o + 1, end)]
        /\ file' = [file EXCEPT !.body = body, !.offset = o + (end - o)]
    BY <1>2 DEF Read
  <2>2. UNCHANGED <<bucket, upload, call, cancelled, version, lost, was, touched>>
    BY DEF Read, Hist
  <2> HIDE DEF end, body
  <2> QED BY <1>3, <2>1, <2>2
<1> HIDE DEF end
<1>5. body \in Bodies /\ body.data = d /\ body.pos = end
  <2> HIDE DEF d, o
  <2> QED BY <1>2, <1>3 DEF Bodies
<1> HIDE DEF body
<1>6. /\ file' \in Files /\ file'.key = file.key /\ file'.info = file.info
      /\ file'.body = body /\ file'.offset = end
  BY <1>0, <1>3, <1>4, <1>5 DEF Files
<1>7. SubSeq(d, o + 1, end) = SubSeq(d, o + 1, o + Len(SubSeq(d, o + 1, end)))
  <2>1. o + 1 \in Int /\ end \in Int /\ \A i \in o + 1..end : d[i] \in Byte
    BY <1>1, <1>3, ElementOfSeq
  <2>2. Len(SubSeq(d, o + 1, end)) = IF o + 1 <= end THEN end - (o + 1) + 1 ELSE 0
    BY <2>1, SubSeqProperties, Z3
  <2>3. o + Len(SubSeq(d, o + 1, end)) = end
    BY <1>1, <1>3, <2>2
  <2> QED BY <2>3
<1>8. ReadsWhatWasOpened'
  <2>1. bytes'.at = o /\ bytes'.want = d /\ bytes'.data = SubSeq(d, o + 1, end)
    BY <1>4
  <2> QED BY <1>7, <2>1 DEF ReadsWhatWasOpened
<1> QED BY <1>0, <1>4, <1>5, <1>6, <1>8

\* Seek keeps the file but for its offset, and keeps its stream only where it stays.
LEMMA SeekEffect ==
    ASSUME TypeOK, NEW to \in 0..2, Seek(to)
    PROVE  /\ file \in Files /\ file' \in Files /\ file # NoFile
           /\ file'.key = file.key /\ file'.info = file.info
           /\ file'.body.open => file'.body = file.body /\ file'.offset = file.offset
           /\ UNCHANGED <<bucket, upload, call, cancelled, version, lost, bytes, was, touched>>
<1> DEFINE b == IF to = file.offset THEN file.body ELSE NoBody
<1>1. file \in Files /\ file # NoFile
  BY DEF TypeOK, Seek
<1>2. NoBody \in Bodies /\ NoBody.open = FALSE /\ to \in Nat
  BY EmptySeq DEF NoBody, Bodies
<1>3. file' = [file EXCEPT !.offset = to, !.body = b]
  BY DEF Seek
<1> HIDE DEF Entry, Bodies
<1>4. b \in Bodies /\ (b.open => b = file.body /\ to = file.offset)
  BY <1>1, <1>2 DEF Files
<1> HIDE DEF b
<1>5. file' \in Files /\ file'.key = file.key /\ file'.info = file.info /\ file'.body = b /\ file'.offset = to
  BY <1>1, <1>2, <1>3, <1>4 DEF Files
<1>6. UNCHANGED <<bucket, upload, call, cancelled, version, lost, bytes, was, touched>>
  BY DEF Seek, Hist
<1> QED BY <1>1, <1>4, <1>5, <1>6

-----------------------------------------------------------------------------
(* Type correctness *)

\* No part is counted before the upload is created, and none as completed that the
\* service has not stored.
Stored ==
    /\ call.at \in {"head", "copyobject", "create"} =>
          call.next = 1 /\ call.running = {} /\ call.completed = {} /\ ~call.failed
    /\ call.at = "parts" => call.completed \subseteq DOMAIN upload.parts

\* A bucket that no call has used has the types.
LEMMA TypeInit == Init => TypeOK
<1> SUFFICES ASSUME Init PROVE TypeOK
  OBVIOUS
<1>1. PICK b \in Buckets : bucket = [k \in DOMAIN b |-> [etag |-> 1, data |-> Data(1, b[k])]]
  BY DEF Init
<1>2. IsBucket(bucket)
  <2>1. DOMAIN b \subseteq Keys /\ IsFiniteSet(DOMAIN b) /\ b \in [DOMAIN b -> Nat]
    BY S3Assumption
  <2>2. \A k \in DOMAIN b : [etag |-> 1, data |-> Data(1, b[k])] \in Entry
    BY <2>1, DataIsSeq DEF Entry
  <2>3. DOMAIN bucket = DOMAIN b /\ bucket \in [DOMAIN b -> Entry]
    BY <1>1, <2>2
  <2> QED BY <2>1, <2>3 DEF IsBucket
<1>3. UploadOK
  <2>1. upload = [state |-> "none", parts |-> <<>>]
    BY DEF Init, NoUpload
  <2>2. <<>> \in [DOMAIN <<>> -> Seq(Byte)]
    OBVIOUS
  <2> QED BY <2>1, <2>2 DEF UploadOK
<1> QED BY <1>2, <1>3 DEF Init, TypeOK, CallOK, IdleCall

\* An upload has the type of uploads after each request.
LEMMA UploadStep ==
    ASSUME UploadOK, NEW s \in {"none", "open", "completed", "aborted"}
    PROVE  /\ upload' = upload => UploadOK'
           /\ upload' = [upload EXCEPT !.state = s] => UploadOK'
           /\ upload' = [NoUpload EXCEPT !.state = s] => UploadOK'
           /\ \A i, d : d \in Seq(Byte) /\ upload' = [upload EXCEPT !.parts = With(@, i, d)] => UploadOK'
<1> HIDE DEF Byte
<1>1. upload = [state |-> upload.state, parts |-> upload.parts]
  BY DEF UploadOK
<1>2. upload' = upload => UploadOK'
  BY DEF UploadOK
<1>3. upload' = [upload EXCEPT !.state = s] => UploadOK'
  BY <1>1 DEF UploadOK
<1>4. upload' = [NoUpload EXCEPT !.state = s] => UploadOK'
  <2>1. <<>> \in [DOMAIN <<>> -> Seq(Byte)]
    OBVIOUS
  <2> QED BY <2>1 DEF UploadOK, NoUpload
<1>5. ASSUME NEW i, NEW d \in Seq(Byte), upload' = [upload EXCEPT !.parts = With(@, i, d)]
      PROVE  UploadOK'
  <2> DEFINE w == With(upload.parts, i, d)
  <2>1. w \in [DOMAIN w -> Seq(Byte)]
    BY DEF UploadOK, With
  <2> HIDE DEF w
  <2>2. upload' = [state |-> upload.state, parts |-> w]
    BY <1>1, <1>5 DEF w
  <2> QED BY <2>1, <2>2 DEF UploadOK
<1> QED BY <1>2, <1>3, <1>4, <1>5

\* Every step leaves a bucket: what it writes is an entry under a key.
LEMMA BucketStep ==
    ASSUME TypeOK
    PROVE  /\ \A k \in Keys, d \in Seq(Byte) : Put(k, d) => IsBucket(bucket')
           /\ \A k : Drop(k) => IsBucket(bucket')
           /\ \A k \in Keys, n \in Sizes :
                 Put(k, Data(version + 1, n)) /\ version' = version + 1 => IsBucket(bucket')
<1>0. IsBucket(bucket) /\ version \in Nat /\ Sizes \subseteq Nat
  BY Constants DEF TypeOK
<1>1. ASSUME NEW k \in Keys, NEW d \in Seq(Byte), Put(k, d)
      PROVE  IsBucket(bucket')
  <2>1. [etag |-> version + 1, data |-> d] \in Entry
    BY <1>0 DEF Entry
  <2> HIDE DEF Entry
  <2> QED BY <1>0, <1>1, <2>1, WithOK DEF Put
<1>2. ASSUME NEW k, Drop(k) PROVE IsBucket(bucket')
  BY <1>0, <1>2, WithoutOK DEF Drop, Without
<1>3. \A n \in Sizes : Data(version + 1, n) \in Seq(Byte)
  BY <1>0, DataIsSeq
<1> HIDE DEF Data
<1> QED BY <1>1, <1>2, <1>3

\* Every step keeps the types.
LEMMA TypeStep == TypeOK /\ FileInv /\ Stored /\ [Next]_vars => TypeOK'
<1> SUFFICES ASSUME TypeOK, FileInv, Stored, [Next]_vars PROVE TypeOK'
  OBVIOUS
<1> USE DEF TypeOK
<1>0. CallOK /\ UploadOK /\ IsBucket(bucket) /\ IsBucket(was) /\ Targets \subseteq Keys
  BY Constants
<1>1. ASSUME NEW k \in Targets, NEW n \in Sizes, Write(k, n) PROVE TypeOK'
  <2>1. IsBucket(bucket')
    BY <1>0, <1>1, BucketStep DEF Write
  <2>2. CallOK'
    BY <1>1 DEF Write, Outcomes, CallOK, RequestCalls
  <2>3. version' \in Nat
    BY <1>1 DEF Write
  <2> QED BY <1>0, <1>1, <2>1, <2>2, <2>3, UploadStep DEF Write
<1>2. ASSUME NEW k \in Targets, Remove(k) PROVE TypeOK'
  <2>1. IsBucket(bucket')
    BY <1>0, <1>2, BucketStep DEF Remove
  <2>2. CallOK'
    BY <1>2 DEF Remove, Outcomes, CallOK, RequestCalls
  <2> QED BY <1>0, <1>2, <2>1, <2>2, UploadStep DEF Remove
<1>3. ASSUME NEW c \in CopyCalls \cup ListCalls, Begin(c) PROVE TypeOK'
  BY <1>0, <1>3, UploadStep DEF Begin, CallOK
<1>4. ASSUME NEW d \in Targets, NEW s \in Targets, Copy(d, s) \/ MultiCopy(d, s) PROVE TypeOK'
  <2>1. CopyCall("copy", "head", d, s) \in CopyCalls /\ CopyCall("multi", "head", d, s) \in CopyCalls
    BY <1>0 DEF CopyCall, CopyCalls
  <2> QED BY <1>3, <1>4, <2>1 DEF Copy, MultiCopy
<1>5. ASSUME NEW d \in Dirs, RemoveAll(d) \/ DirEntries(d) \/ WalkFiles(d) PROVE TypeOK'
  <2>1. \A op \in {"removeall", "direntries", "walkfiles"} : ListCall(op, d) \in ListCalls
    BY EmptySeq DEF ListCall, ListCalls
  <2> QED BY <1>3, <1>5, <2>1 DEF RemoveAll, DirEntries, WalkFiles
<1>6. ASSUME HeadSource PROVE TypeOK'
  BY <1>0, <1>6, HeadSourceEffect, UploadStep DEF CallOK, Quiet
<1>7. ASSUME CopyObject PROVE TypeOK'
  <2>1. /\ call \in CopyCalls /\ call' \in CopyCalls /\ Quiet /\ UNCHANGED upload
        /\ \/ UNCHANGED <<bucket, version>>
           \/ /\ call.src \in DOMAIN bucket /\ Put(call.dst, bucket[call.src].data)
              /\ version' = version + 1
    BY <1>7, CopyObjectEffect
  <2>2. IsBucket(bucket')
    <3>1. call.dst \in Keys /\ (call.src \in DOMAIN bucket => bucket[call.src].data \in Seq(Byte))
      BY <1>0, <2>1 DEF CopyCalls, IsBucket, Entry
    <3> QED BY <1>0, <2>1, <3>1, BucketStep
  <2>3. version' \in Nat
    BY <2>1
  <2> QED BY <1>0, <2>1, <2>2, <2>3, UploadStep DEF CallOK, Quiet
<1>8. ASSUME CreateUpload PROVE TypeOK'
  <2>1. /\ call' \in CopyCalls /\ Quiet /\ UNCHANGED <<bucket, version>>
        /\ upload' = upload \/ upload' = [NoUpload EXCEPT !.state = "open"]
    BY <1>8, CreateUploadEffect
  <2> QED BY <1>0, <2>1, UploadStep DEF CallOK, Quiet
<1>9. ASSUME GoPart PROVE TypeOK'
  BY <1>0, <1>9, GoPartEffect, UploadStep DEF CallOK, Quiet
<1>10. ASSUME NEW i \in 1..MaxParts + 1, PartEnds(i) PROVE TypeOK'
  <2>1. /\ call' \in CopyCalls /\ Quiet /\ UNCHANGED <<bucket, version>>
        /\ \/ upload' = upload
           \/ PartOf(i) \in Seq(Byte) /\ upload' = [upload EXCEPT !.parts = With(@, i, PartOf(i))]
    BY <1>10, PartEndsEffect
  <2> QED BY <1>0, <2>1, UploadStep DEF CallOK, Quiet
<1>11. ASSUME EndUpload PROVE TypeOK'
  <2>1. /\ call \in CopyCalls /\ call' \in CopyCalls /\ call.at = "parts" /\ Quiet
        /\ \/ UNCHANGED <<bucket, version>>
           \/ /\ call.parts.count > 0 /\ call.completed = 1..call.parts.count
              /\ Put(call.dst, Joined) /\ version' = version + 1
        /\ \E s \in {"completed", "aborted", upload.state} : upload' = [upload EXCEPT !.state = s]
    BY <1>11, EndUploadEffect
  <2>2. upload.state \in {"none", "open", "completed", "aborted"}
    BY <1>0 DEF UploadOK
  <2>3. UploadOK'
    BY <1>0, <2>1, <2>2, UploadStep
  <2>4. IsBucket(bucket') /\ version' \in Nat
    <3>1. call.dst \in Keys /\ call.parts.count \in Nat
      BY <2>1 DEF CopyCalls
    <3>2. ASSUME call.parts.count > 0, call.completed = 1..call.parts.count
          PROVE  Joined \in Seq(Byte)
      BY <1>0, <2>1, <3>1, <3>2, JoinedIsSeq DEF Stored
    <3> QED BY <1>0, <2>1, <3>1, <3>2, BucketStep
  <2> QED BY <1>0, <2>1, <2>3, <2>4 DEF CallOK, Quiet
<1>12. ASSUME List PROVE TypeOK'
  BY <1>0, <1>12, ListEffect, UploadStep DEF CallOK, Quiet
<1>13. ASSUME DeleteListed PROVE TypeOK'
  <2>1. call' \in ListCalls /\ Quiet /\ UNCHANGED <<upload, version>>
    BY <1>13, DeleteListedEffect
  <2>2. IsBucket(bucket')
    BY <1>0, <1>13, DeleteListedEffect, BucketStep
  <2> QED BY <1>0, <2>1, <2>2, UploadStep DEF CallOK, Quiet
<1>14. ASSUME PageDeleted PROVE TypeOK'
  BY <1>0, <1>14, PageDeletedEffect, UploadStep DEF CallOK, Quiet
<1>15. ASSUME Cancel PROVE TypeOK'
  BY <1>0, <1>15, UploadStep DEF Cancel, Hist, CallOK
<1>16. ASSUME NEW k \in Keys, NEW n \in Sizes, OtherWrites(k, n) PROVE TypeOK'
  <2>1. IsBucket(bucket')
    BY <1>0, <1>16, BucketStep DEF OtherWrites
  <2> QED BY <1>0, <1>16, <2>1, UploadStep DEF OtherWrites, CallOK
<1>17. ASSUME NEW k \in Keys, OtherRemoves(k) PROVE TypeOK'
  <2>1. IsBucket(bucket')
    BY <1>0, <1>17, BucketStep DEF OtherRemoves
  <2> QED BY <1>0, <1>17, <2>1, UploadStep DEF OtherRemoves, CallOK
<1>18. ASSUME NEW k \in Targets, OpenFile(k) PROVE TypeOK'
  <2>1. file' \in Files
    <3>1. bucket[k] \in Entry
      BY <1>0, <1>18 DEF OpenFile, IsBucket
    <3>2. NoBody \in Bodies
      BY EmptySeq DEF NoBody, Bodies
    <3> HIDE DEF Entry, Bodies
    <3> QED BY <1>0, <1>18, <3>1, <3>2 DEF OpenFile, Files
  <2>2. CallOK'
    BY <1>18 DEF OpenFile, CallOK, FileCalls
  <2> QED BY <1>0, <1>18, <2>1, <2>2, UploadStep DEF OpenFile
<1>19. ASSUME NEW n \in 1..2, Read(n) PROVE TypeOK'
  BY <1>0, <1>19, ReadEffect, UploadStep DEF CallOK
<1>20. ASSUME NEW to \in 0..2, Seek(to) PROVE TypeOK'
  BY <1>0, <1>20, SeekEffect, UploadStep DEF CallOK
<1>21. ASSUME CloseFile PROVE TypeOK'
  <2>1. call \in FileCalls
    BY <1>0, <1>21, CallKinds DEF CloseFile, FileInv
  <2>2. call' \in FileCalls
    BY <1>21, <2>1 DEF CloseFile, Return, FileCalls
  <2> QED BY <1>0, <1>21, <2>2, UploadStep DEF CloseFile, Hist, CallOK
<1>22. ASSUME UNCHANGED vars PROVE TypeOK'
  BY <1>0, <1>22, UploadStep DEF vars, CallOK
<1> QED BY <1>1, <1>2, <1>4, <1>5, <1>6, <1>7, <1>8, <1>9, <1>10, <1>11, <1>12, <1>13, <1>14,
           <1>15, <1>16, <1>17, <1>18, <1>19, <1>20, <1>21, <1>22 DEF Next

\* Every step keeps count of the parts that are stored.
LEMMA StoredStep == TypeOK /\ FileInv /\ Stored /\ [Next]_vars => Stored'
<1> SUFFICES ASSUME TypeOK, FileInv, Stored, [Next]_vars PROVE Stored'
  OBVIOUS
<1>0. UploadOK
  BY DEF TypeOK
<1>1. ASSUME HeadSource PROVE Stored'
  BY <1>1, HeadSourceEffect DEF CopyFails, SameParts, Stored
<1>2. ASSUME CopyObject PROVE Stored'
  BY <1>2, CopyObjectEffect DEF CopyFails, SameParts, Stored
<1>3. ASSUME CreateUpload PROVE Stored'
  BY <1>3, CreateUploadEffect DEF CopyFails, SameParts, Stored
<1>4. ASSUME GoPart PROVE Stored'
  BY <1>4, GoPartEffect DEF Stored
<1>5. ASSUME NEW i \in 1..MaxParts + 1, PartEnds(i) PROVE Stored'
  <2>1. \/ upload' = upload /\ call'.completed = call.completed
        \/ /\ upload' = [upload EXCEPT !.parts = With(@, i, PartOf(i))]
           /\ call'.completed \subseteq call.completed \cup {i}
    BY <1>5, PartEndsEffect
  <2>2. upload' = [upload EXCEPT !.parts = With(@, i, PartOf(i))] =>
           DOMAIN upload'.parts = DOMAIN upload.parts \cup {i}
    BY <1>0 DEF UploadOK, With
  <2>3. call'.at = "parts" /\ call.at = "parts"
    BY <1>5, PartEndsEffect
  <2> QED BY <2>1, <2>2, <2>3 DEF Stored
<1>6. ASSUME EndUpload \/ List \/ DeleteListed \/ PageDeleted PROVE Stored'
  <2>1. call'.at \in {"done", "list", "delete"}
    BY <1>6, EndUploadEffect, ListEffect, DeleteListedEffect, PageDeletedEffect
  <2> QED BY <2>1 DEF Stored
<1>7. ASSUME NEW d \in Targets, NEW s \in Targets, Copy(d, s) \/ MultiCopy(d, s) PROVE Stored'
  BY <1>7, StartCopyEffect DEF Stored
<1>8. ASSUME NEW d \in Dirs, RemoveAll(d) \/ DirEntries(d) \/ WalkFiles(d) PROVE Stored'
  BY <1>8, StartListEffect DEF Stored
<1>9. ASSUME NEW k \in Targets, (\E n \in Sizes : Write(k, n)) \/ Remove(k) \/ OpenFile(k) PROVE Stored'
  BY <1>9, StartOtherEffect DEF Stored
<1>10. ASSUME CloseFile PROVE Stored'
  <2>1. call \in FileCalls
    BY <1>10, CallKinds DEF CloseFile, FileInv, TypeOK
  <2> QED BY <1>10, <2>1 DEF CloseFile, Return, FileCalls, Stored
<1>11. ASSUME Aside PROVE Stored'
  BY <1>11, OtherEffect DEF Stored
<1> QED BY <1>1, <1>2, <1>3, <1>4, <1>5, <1>6, <1>7, <1>8, <1>9, <1>10, <1>11
           DEF Next, Aside

\* The other client's writes change the version of a key together with its bytes.
LEMMA FileStep == TypeOK /\ FileInv /\ Stored /\ [Next]_vars => FileInv'
<1> SUFFICES ASSUME TypeOK, FileInv, Stored, [Next]_vars PROVE FileInv'
  OBVIOUS
<1> DEFINE Old(b, v) == \A k \in DOMAIN b : b[k].etag <= v
           Open == /\ call.at = "open"
                   /\ file.info.etag <= version
                   /\ Matches => bucket[file.key].data = file.info.data
                   /\ file.body.open => /\ file.body.data = file.info.data
                                        /\ file.body.pos = file.offset
<1>0. /\ version \in Nat /\ IsBucket(bucket) /\ Old(bucket, version) /\ (file # NoFile => Open)
      /\ \A k \in DOMAIN bucket : bucket[k].etag \in Nat
      /\ file \in Files \cup {NoFile}
  BY DEF TypeOK, FileInv, IsBucket, Entry
<1>a. ASSUME NEW k, NEW d, Put(k, d), version' = version + 1
      PROVE  /\ Old(bucket', version') /\ bucket'[k].etag = version + 1
             /\ DOMAIN bucket' = DOMAIN bucket \cup {k}
             /\ \A j \in DOMAIN bucket : j # k => bucket'[j] = bucket[j]
  <2>1. /\ DOMAIN bucket' = DOMAIN bucket \cup {k}
        /\ bucket'[k] = [etag |-> version + 1, data |-> d]
        /\ \A j \in DOMAIN bucket : j # k => bucket'[j] = bucket[j]
    BY <1>a DEF Put, With
  <2> QED BY <1>0, <1>a, <2>1
<1>b. ASSUME NEW k, Drop(k), version' = version
      PROVE  /\ Old(bucket', version')
             /\ DOMAIN bucket' = DOMAIN bucket \ {k}
             /\ \A j \in DOMAIN bucket \ {k} : bucket'[j] = bucket[j]
  <2>1. /\ DOMAIN bucket' = DOMAIN bucket \ {k}
        /\ \A j \in DOMAIN bucket \ {k} : bucket'[j] = bucket[j]
    BY <1>b DEF Drop
  <2> QED BY <1>0, <1>b, <2>1
<1>c. ASSUME Old(bucket', version'), file' = NoFile PROVE FileInv'
  BY <1>c DEF FileInv
<1>d. ASSUME file' = file, call.at # "open" PROVE file' = NoFile
  BY <1>0, <1>d
<1>e. ASSUME UNCHANGED <<bucket, version>> PROVE Old(bucket', version')
  BY <1>0, <1>e
<1> HIDE DEF Old
<1>1. ASSUME NEW k \in Targets, NEW n \in Sizes, Write(k, n) PROVE FileInv'
  <2>1. /\ call.at = "idle" /\ file' = file
        /\ \/ Put(k, Data(version + 1, n)) /\ version' = version + 1
           \/ UNCHANGED <<bucket, version>>
    BY <1>1 DEF Write
  <2> QED BY <2>1, <1>a, <1>c, <1>d, <1>e
<1>2. ASSUME NEW k \in Targets, Remove(k) PROVE FileInv'
  <2>1. call.at = "idle" /\ file' = file /\ (UNCHANGED bucket \/ Drop(k)) /\ version' = version
    BY <1>2 DEF Remove
  <2> QED BY <2>1, <1>b, <1>c, <1>d, <1>e
<1>3. ASSUME NEW d \in Targets, NEW s \in Targets, Copy(d, s) \/ MultiCopy(d, s) PROVE FileInv'
  BY <1>3, StartCopyEffect, <1>c, <1>d, <1>e
<1>4. ASSUME NEW d \in Dirs, RemoveAll(d) \/ DirEntries(d) \/ WalkFiles(d) PROVE FileInv'
  BY <1>4, StartListEffect, <1>c, <1>d, <1>e
<1>5. ASSUME HeadSource \/ CreateUpload \/ GoPart \/ List \/ PageDeleted PROVE FileInv'
  <2>1. call.at # "open" /\ file' = file /\ UNCHANGED <<bucket, version>>
    BY <1>5, HeadSourceEffect, CreateUploadEffect, GoPartEffect, ListEffect, PageDeletedEffect DEF Quiet
  <2> QED BY <2>1, <1>c, <1>d, <1>e
<1>6. ASSUME CopyObject PROVE FileInv'
  <2>1. /\ call.at # "open" /\ file' = file
        /\ \/ UNCHANGED <<bucket, version>>
           \/ Put(call.dst, bucket[call.src].data) /\ version' = version + 1
    BY <1>6, CopyObjectEffect DEF Quiet
  <2> QED BY <2>1, <1>a, <1>c, <1>d, <1>e
<1>7. ASSUME NEW i \in 1..MaxParts + 1, PartEnds(i) PROVE FileInv'
  <2>1. call.at # "open" /\ file' = file /\ UNCHANGED <<bucket, version>>
    BY <1>7, PartEndsEffect DEF Quiet
  <2> QED BY <2>1, <1>c, <1>d, <1>e
<1>8. ASSUME EndUpload PROVE FileInv'
  <2>1. /\ call.at # "open" /\ file' = file
        /\ UNCHANGED <<bucket, version>> \/ (Put(call.dst, Joined) /\ version' = version + 1)
    BY <1>8, EndUploadEffect DEF Quiet
  <2> QED BY <2>1, <1>a, <1>c, <1>d, <1>e
<1>9. ASSUME DeleteListed PROVE FileInv'
  <2>1. /\ call.at # "open" /\ file' = file /\ version' = version
        /\ UNCHANGED bucket \/ Drop(Head(call.page))
    BY <1>9, DeleteListedEffect DEF Quiet
  <2> QED BY <2>1, <1>b, <1>c, <1>d, <1>e
<1>10. ASSUME Cancel PROVE FileInv'
  <2>1. call.at # "open" /\ file' = file /\ UNCHANGED <<bucket, version>>
    BY <1>10 DEF Cancel
  <2> QED BY <2>1, <1>c, <1>d, <1>e
<1>11. ASSUME NEW k \in Keys, NEW n \in Sizes, OtherWrites(k, n) PROVE FileInv'
  <2>1. /\ Put(k, Data(version + 1, n)) /\ version' = version + 1 /\ call' = call /\ file' = file
    BY <1>11 DEF OtherWrites
  <2>2. /\ Old(bucket', version') /\ bucket'[k].etag = version + 1
        /\ DOMAIN bucket' = DOMAIN bucket \cup {k}
        /\ \A j \in DOMAIN bucket : j # k => bucket'[j] = bucket[j]
    BY <2>1, <1>a
  <2>3. file # NoFile => Open'
    <3> SUFFICES ASSUME file # NoFile PROVE Open'
      OBVIOUS
    <3>1. Open /\ file.info.etag \in Nat
      BY <1>0 DEF Files, Entry
    <3>2. Matches' => Matches /\ bucket'[file.key] = bucket[file.key]
      BY <1>0, <2>1, <2>2, <3>1 DEF Matches
    <3> QED BY <1>0, <2>1, <3>1, <3>2
  <2> QED BY <2>1, <2>2, <2>3 DEF FileInv, Old
<1>12. ASSUME NEW k \in Keys, OtherRemoves(k) PROVE FileInv'
  <2>1. Drop(k) /\ version' = version /\ call' = call /\ file' = file
    BY <1>12 DEF OtherRemoves
  <2>2. /\ Old(bucket', version') /\ DOMAIN bucket' = DOMAIN bucket \ {k}
        /\ \A j \in DOMAIN bucket \ {k} : bucket'[j] = bucket[j]
    BY <2>1, <1>b
  <2>3. Matches' => Matches /\ bucket'[file.key] = bucket[file.key]
    BY <2>1, <2>2 DEF Matches
  <2>4. file # NoFile => Open'
    BY <1>0, <2>1, <2>3
  <2> QED BY <2>1, <2>2, <2>4 DEF FileInv, Old
<1>13. ASSUME NEW k \in Targets, OpenFile(k) PROVE FileInv'
  <2>1. /\ k \in DOMAIN bucket /\ UNCHANGED <<bucket, version>>
        /\ file' = [key |-> k, info |-> bucket[k], offset |-> 0, body |-> NoBody]
        /\ call' = [op |-> "file", at |-> "open", res |-> ""]
    BY <1>13 DEF OpenFile
  <2>2. file'.key = k /\ file'.info = bucket[k] /\ file'.body.open = FALSE
    BY <2>1 DEF NoBody
  <2>3. Old(bucket', version') /\ bucket[k].etag <= version
    BY <1>0, <2>1, <1>e DEF Old
  <2> QED BY <2>1, <2>2, <2>3 DEF FileInv, Matches, Old
<1>14. ASSUME NEW n \in 1..2, Read(n) PROVE FileInv'
  <2>1. /\ file # NoFile /\ file'.key = file.key /\ file'.info = file.info
        /\ file'.body.data = file.info.data /\ file'.body.pos = file'.offset
        /\ UNCHANGED <<bucket, call, version>>
    BY <1>14, ReadEffect
  <2> QED BY <1>0, <2>1, <1>e DEF FileInv, Matches, Old
<1>15. ASSUME NEW to \in 0..2, Seek(to) PROVE FileInv'
  <2>1. /\ file # NoFile /\ file'.key = file.key /\ file'.info = file.info
        /\ file'.body.open => file'.body = file.body /\ file'.offset = file.offset
        /\ UNCHANGED <<bucket, call, version>>
    BY <1>15, SeekEffect
  <2> QED BY <1>0, <2>1, <1>e DEF FileInv, Matches, Old
<1>16. ASSUME CloseFile PROVE FileInv'
  <2>1. file' = NoFile /\ UNCHANGED <<bucket, version>>
    BY <1>16 DEF CloseFile
  <2> QED BY <2>1, <1>c, <1>e
<1>17. ASSUME UNCHANGED vars PROVE FileInv'
  BY <1>17 DEF FileInv, Matches, vars
<1> QED BY <1>1, <1>2, <1>3, <1>4, <1>5, <1>6, <1>7, <1>8, <1>9, <1>10, <1>11, <1>12, <1>13,
           <1>14, <1>15, <1>16, <1>17 DEF Next

\* What every other proof builds on.
BaseInv == TypeOK /\ FileInv /\ Stored

\* It holds at the beginning,
LEMMA BaseInductive == Init => BaseInv
<1> SUFFICES ASSUME Init PROVE BaseInv
  OBVIOUS
<1>1. TypeOK
  BY TypeInit
<1>2. FileInv
  BY DEF Init, FileInv
<1>3. Stored
  BY DEF Init, Stored
<1> QED BY <1>1, <1>2, <1>3 DEF BaseInv

\* and after every step.
LEMMA BaseStep == BaseInv /\ [Next]_vars => BaseInv'
BY TypeStep, FileStep, StoredStep DEF BaseInv

\* Only Read returns bytes.
LEMMA ReadsStep == BaseInv /\ ReadsWhatWasOpened /\ [Next]_vars => ReadsWhatWasOpened'
<1> SUFFICES ASSUME BaseInv, ReadsWhatWasOpened, [Next]_vars PROVE ReadsWhatWasOpened'
  OBVIOUS
<1>1. ASSUME NEW n \in 1..2, Read(n) PROVE ReadsWhatWasOpened'
  BY <1>1, ReadEffect DEF BaseInv
<1>2. ASSUME bytes' = bytes PROVE ReadsWhatWasOpened'
  <2> DEFINE Holds(b) == b.data = SubSeq(b.want, b.at + 1, b.at + Len(b.data))
  <2>1. Holds(bytes)
    BY DEF ReadsWhatWasOpened
  <2> HIDE DEF Holds
  <2>2. Holds(bytes')
    BY <1>2, <2>1, SMTT(30)
  <2> QED BY <2>2 DEF ReadsWhatWasOpened, Holds
<1>3. ASSUME ~ \E n \in 1..2 : Read(n) PROVE bytes' = bytes
  BY <1>3 DEF Next, vars, Write, Remove, Copy, MultiCopy, RemoveAll, DirEntries, WalkFiles, Begin,
     HeadSource, CopyObject, CreateUpload, GoPart, PartEnds, EndUpload, List, DeleteListed,
     PageDeleted, Cancel, OtherWrites, OtherRemoves, OpenFile, Seek, CloseFile
<1> QED BY <1>1, <1>2, <1>3

\* Read returns bytes of the version that was opened, from the position it is at: for
\* every bucket, size and number of reads, seeks and foreign writes (s3File.Read, Seek).
THEOREM FileReads == Spec => []ReadsWhatWasOpened
<1>1. Init => BaseInv /\ ReadsWhatWasOpened
  <2>1. Init => ReadsWhatWasOpened
    <3> SUFFICES ASSUME Init PROVE ReadsWhatWasOpened
      OBVIOUS
    <3>1. bytes.at = 0 /\ bytes.want = <<>> /\ bytes.data = <<>>
      BY DEF Init
    <3>2. SubSeq(<<>>, 1, 0) = <<>>
      BY SubSeqEmpty
    <3> QED BY <3>1, <3>2 DEF ReadsWhatWasOpened
  <2> QED BY <2>1, BaseInductive
<1>2. BaseInv /\ ReadsWhatWasOpened /\ [Next]_vars => BaseInv' /\ ReadsWhatWasOpened'
  BY BaseStep, ReadsStep
<1> QED BY <1>1, <1>2, PTL DEF Spec

-----------------------------------------------------------------------------
(* The upload of a copy *)

\* Closing the file ends the call, which is neither a copy nor a listing.
LEMMA CloseFileEffect ==
    ASSUME BaseInv, CloseFile
    PROVE  /\ call \in FileCalls /\ call' \in FileCalls /\ call'.at = "done"
           /\ UNCHANGED <<bucket, upload, cancelled, lost, was, touched>>
<1>1. call \in FileCalls
  BY CallKinds DEF CloseFile, BaseInv, FileInv, TypeOK
<1>2. call' \in FileCalls /\ call'.at = "done"
  BY <1>1 DEF CloseFile, Return, FileCalls
<1> QED BY <1>1, <1>2 DEF CloseFile, Hist

\* An upload is open only while a copy has parts to copy, or behind a copy that could not
\* end it; the parts are the ones that adjustPartSize chose, and every part that was
\* started is running or completed, unless one failed.
PartsInv ==
    /\ Copying => call.dst # call.src
    /\ upload.state = "open" =>
          /\ Copying /\ call.at \in {"parts", "done"}
          /\ UploadsEnded
    /\ call.at = "parts" =>
          /\ upload.state = "open"
          /\ call.parts = AdjustPartSize(call.size)
          /\ call.next \in 1..call.parts.count + 1
          /\ call.running \cup call.completed \subseteq 1..call.next - 1
          /\ ~call.failed => call.running \cup call.completed = 1..call.next - 1

\* A copy without a failed part that cannot be completed has an empty source.
LEMMA EmptySource ==
    ASSUME PartsInv, call \in CopyCalls, call.at = "parts", call.next > call.parts.count,
           call.running = {}, ~call.failed,
           ~Completable
    PROVE  call.size = 0
<1>1. /\ call.next \in Nat /\ call.parts.count \in Nat /\ call.parts.size \in Nat
      /\ call.size \in Nat /\ call.next \in 1..call.parts.count + 1
      /\ call.completed = 1..call.next - 1
  BY DEF CopyCalls, PartsInv
<1>2. call.next = call.parts.count + 1
  BY <1>1
<1>3. call.parts.size >= MinPartSize
  BY <1>1, PartSizes DEF PartsInv
<1>4. call.parts.count = 0
  BY <1>1, <1>2, <1>3 DEF Completable
<1>5. call.size <= call.parts.count * call.parts.size
  BY <1>1, PartSizes DEF PartsInv
<1> QED BY <1>1, <1>4, <1>5

\* The upload is as PartsInv says after every step.
LEMMA PartsStep == BaseInv /\ PartsInv /\ [Next]_vars => PartsInv'
<1> SUFFICES ASSUME BaseInv, PartsInv, [Next]_vars PROVE PartsInv'
  OBVIOUS
<1>0. TypeOK /\ UploadOK /\ CallOK /\ Stored
  BY DEF BaseInv, TypeOK
<1>a. ASSUME upload' = upload, call.at \notin {"parts", "done"}, call'.at # "parts",
             Copying' => call'.dst # call'.src
      PROVE  PartsInv'
  BY <1>a DEF PartsInv
<1>b. upload = [state |-> upload.state, parts |-> upload.parts]
  BY <1>0 DEF UploadOK
<1>1. ASSUME HeadSource PROVE PartsInv'
  <2>1. upload' = upload /\ call.at = "head" /\ call'.at # "parts"
    BY <1>0, <1>1, HeadSourceEffect DEF CopyFails
  <2>2. Copying' => call'.dst # call'.src
    BY <1>0, <1>1, HeadSourceEffect DEF SameCopy, Copying, PartsInv
  <2> QED BY <2>1, <2>2, <1>a
<1>2. ASSUME CopyObject PROVE PartsInv'
  <2>1. upload' = upload /\ call.at = "copyobject" /\ call'.at # "parts"
    BY <1>0, <1>2, CopyObjectEffect DEF CopyFails
  <2>2. Copying' => call'.dst # call'.src
    BY <1>0, <1>2, CopyObjectEffect DEF SameCopy, Copying, PartsInv
  <2> QED BY <2>1, <2>2, <1>a
<1>3. ASSUME CreateUpload PROVE PartsInv'
  <2>1. /\ call \in CopyCalls /\ call' \in CopyCalls /\ call.at = "create" /\ call'.size = call.size
        /\ SameCopy
    BY <1>0, <1>3, CreateUploadEffect
  <2>2. Copying /\ Copying' /\ call'.dst # call'.src
    BY <2>1 DEF SameCopy, Copying, PartsInv, CopyCalls
  <2>3. CASE /\ call'.at = "parts" /\ call'.parts = AdjustPartSize(call.size) /\ SameParts
             /\ upload' = [NoUpload EXCEPT !.state = "open"]
    <3>1. upload'.state = "open" /\ UploadsEnded'
      BY <2>3 DEF NoUpload, UploadsEnded
    <3>2. call'.next = 1 /\ call'.running = {} /\ call'.completed = {}
      BY <1>0, <2>1, <2>3 DEF Stored, SameParts
    <3>3. call'.parts.count \in Nat
      BY <2>1 DEF CopyCalls
    <3>4. /\ call'.next \in 1..call'.parts.count + 1
          /\ call'.running \cup call'.completed = 1..call'.next - 1
      BY <3>2, <3>3
    <3> QED BY <2>1, <2>2, <2>3, <3>1, <3>4 DEF PartsInv
  <2>4. CASE CopyFails /\ upload' = upload
    BY <1>a, <2>1, <2>2, <2>4 DEF CopyFails
  <2>5. CASE CopyFails /\ "create" \in lost'
    <3>1. UploadsEnded' /\ call'.at = "done"
      BY <2>5 DEF UploadsEnded, CopyFails, Done
    <3> QED BY <2>2, <3>1 DEF PartsInv
  <2> QED BY <1>0, <1>3, <2>3, <2>4, <2>5, CreateUploadEffect
<1>4. ASSUME GoPart PROVE PartsInv'
  <2>1. /\ call \in CopyCalls /\ call' \in CopyCalls /\ call.at = "parts" /\ call'.at = "parts"
        /\ SameCopy /\ upload' = upload /\ call'.size = call.size /\ call'.parts = call.parts
        /\ call.next <= call.parts.count /\ call'.next = call.next + 1
        /\ call'.completed = call.completed
        /\ \/ call'.failed /\ call'.running = call.running
           \/ call'.failed = call.failed /\ call'.running = call.running \cup {call.next}
    BY <1>0, <1>4, GoPartEffect
  <2>2. Copying' /\ call'.dst # call'.src /\ UploadsEnded'
    BY <2>1 DEF SameCopy, Copying, PartsInv, CopyCalls, UploadsEnded
  <2>3. /\ upload.state = "open" /\ call.parts = AdjustPartSize(call.size)
        /\ call.running \cup call.completed \subseteq 1..call.next - 1
        /\ ~call.failed => call.running \cup call.completed = 1..call.next - 1
    BY <2>1 DEF PartsInv
  <2>4. call.next \in Nat /\ call.parts.count \in Nat /\ call.next \in 1..call.parts.count + 1
    BY <2>1 DEF CopyCalls, PartsInv
  <2>5. 1..call.next - 1 \cup {call.next} = 1..call'.next - 1 /\ call'.next \in 1..call'.parts.count + 1
    BY <2>1, <2>4
  <2>6. /\ call'.running \cup call'.completed \subseteq 1..call'.next - 1
        /\ ~call'.failed => call'.running \cup call'.completed = 1..call'.next - 1
    BY <2>1, <2>3, <2>5
  <2> QED BY <2>1, <2>2, <2>3, <2>5, <2>6 DEF PartsInv
<1>5. ASSUME NEW i \in 1..MaxParts + 1, PartEnds(i) PROVE PartsInv'
  <2>1. /\ call \in CopyCalls /\ call' \in CopyCalls /\ call.at = "parts" /\ call'.at = "parts"
        /\ SameCopy /\ call'.size = call.size /\ call'.parts = call.parts /\ call'.next = call.next
        /\ i \in call.running /\ call'.running = call.running \ {i}
        /\ \/ call'.failed = call.failed /\ call'.completed = call.completed \cup {i}
           \/ call'.failed /\ call'.completed = call.completed
    BY <1>0, <1>5, PartEndsEffect
  <2>2. upload'.state = upload.state
    BY <1>0, <1>5, <1>b, PartEndsEffect
  <2>3. Copying' /\ call'.dst # call'.src /\ UploadsEnded'
    BY <2>1 DEF SameCopy, Copying, PartsInv, CopyCalls, UploadsEnded
  <2>4. /\ call'.running \cup call'.completed \subseteq 1..call'.next - 1
        /\ ~call'.failed => call'.running \cup call'.completed = 1..call'.next - 1
    BY <2>1 DEF PartsInv
  <2> QED BY <2>1, <2>2, <2>3, <2>4 DEF PartsInv
<1>6. ASSUME EndUpload PROVE PartsInv'
  <2>1. /\ call \in CopyCalls /\ call' \in CopyCalls /\ call.at = "parts" /\ call'.at = "done"
        /\ SameCopy /\ call'.size = call.size
        /\ call.next > call.parts.count /\ call.running = {}
    BY <1>0, <1>6, EndUploadEffect
  <2>2. Copying' /\ call'.dst # call'.src
    BY <2>1 DEF SameCopy, Copying, PartsInv, CopyCalls
  <2>3. ASSUME ~call.failed, ~Completable
        PROVE  call.size = 0
    BY <2>1, <2>3, EmptySource
  <2>4. upload'.state = "open" => UploadsEnded'
    <3>1. upload'.state = "open" => CopyFails /\ ("end" \in lost' \/ call.size = 0)
      BY <1>0, <1>6, <1>b, <2>3, EndUploadEffect
    <3> QED BY <2>1, <3>1 DEF UploadsEnded, CopyFails, Done
  <2> QED BY <2>1, <2>2, <2>4 DEF PartsInv
<1>7. ASSUME List \/ DeleteListed \/ PageDeleted PROVE PartsInv'
  <2>1. upload' = upload /\ call.at \in {"list", "delete"} /\ call' \in ListCalls
    BY <1>0, <1>7, ListEffect, DeleteListedEffect, PageDeletedEffect
  <2> QED BY <1>a, <2>1 DEF ListCalls, Copying
<1>8. ASSUME NEW d \in Targets, NEW s \in Targets, Copy(d, s) \/ MultiCopy(d, s) PROVE PartsInv'
  BY <1>8, <1>a, StartCopyEffect
<1>9. ASSUME NEW d \in Dirs, RemoveAll(d) \/ DirEntries(d) \/ WalkFiles(d) PROVE PartsInv'
  <2>1. upload' = upload /\ call.at = "idle" /\ call' \in ListCalls
    BY <1>9, StartListEffect
  <2> QED BY <1>a, <2>1 DEF ListCalls, Copying
<1>10. ASSUME NEW k \in Targets, (\E n \in Sizes : Write(k, n)) \/ Remove(k) \/ OpenFile(k) PROVE PartsInv'
  <2>1. /\ upload' = upload /\ call.at = "idle" /\ call'.op \in {"write", "remove", "file"}
        /\ call'.at \in {"done", "open"}
    BY <1>10, StartOtherEffect
  <2> QED BY <1>a, <2>1 DEF Copying
<1>11. ASSUME CloseFile PROVE PartsInv'
  <2>1. upload' = upload /\ call \in FileCalls /\ call' \in FileCalls
    BY <1>11, CloseFileEffect
  <2> QED BY <2>1 DEF PartsInv, FileCalls, Copying
<1>12. ASSUME Aside PROVE PartsInv'
  BY <1>12, OtherEffect DEF PartsInv, Copying, UploadsEnded, Done
<1> QED BY <1>1, <1>2, <1>3, <1>4, <1>5, <1>6, <1>7, <1>8, <1>9, <1>10, <1>11, <1>12 DEF Next, Aside

\* MultiCopier.Copy leaves an upload open only behind a request that failed or an empty
\* source, for every size, part size, number of parts and order in which the parts end.
THEOREM NoOpenUploads == Spec => []UploadsEnded
<1>1. Init => BaseInv /\ PartsInv
  <2>1. Init => PartsInv
    BY DEF Init, PartsInv, Copying, NoUpload
  <2> QED BY <2>1, BaseInductive
<1>2. BaseInv /\ PartsInv /\ [Next]_vars => BaseInv' /\ PartsInv'
  BY BaseStep, PartsStep
<1>3. PartsInv => UploadsEnded
  <2>1. PartsInv /\ upload.state = "open" => UploadsEnded
    BY DEF PartsInv
  <2>2. upload.state # "open" => UploadsEnded
    BY SMTT(30) DEF UploadsEnded
  <2> QED BY <2>1, <2>2
<1> QED BY <1>1, <1>2, <1>3, PTL DEF Spec

-----------------------------------------------------------------------------
(* Why a copy fails *)

\* The requests that failed stay on record.
LEMMA LostKept == [Next]_vars => lost \subseteq lost'
<1>1. \A k, o : Ended(k, o) => lost \subseteq lost'
  BY DEF Ended
<1> QED BY <1>1 DEF Next, vars, Write, Remove, Copy, MultiCopy, RemoveAll, DirEntries, WalkFiles, Begin,
     HeadSource, CopyObject, CreateUpload, GoPart, PartEnds, EndUpload, List, DeleteListed,
     PageDeleted, Cancel, OtherWrites, OtherRemoves, OpenFile, Read, Seek, CloseFile

\* As long as nobody else writes to the source it is what it was when the copy began, its
\* size is what HeadObject said, CopyObject was tried first, and no part of a source that
\* is large enough for ranges fails unless a request does.
SourceInv ==
    Copying /\ call.src \notin touched =>
        /\ call.src \in DOMAIN was <=> call.src \in DOMAIN bucket
        /\ call.src \in DOMAIN was => bucket[call.src] = was[call.src]
        /\ call.at \in {"copyobject", "create", "parts"} =>
              /\ call.src \in DOMAIN was /\ call.size = Len(was[call.src].data)
              /\ call.op = "copy" /\ call.at # "copyobject" => call.size > MaxCopy
              /\ ~cancelled /\ lost = {} /\ call.size > MinRange => ~call.failed

\* A step of the copy itself leaves the source as it is.
LEMMA SourceKept ==
    ASSUME NEW d, Put(call.dst, d) \/ UNCHANGED bucket, call.dst # call.src
    PROVE  /\ call.src \in DOMAIN bucket' <=> call.src \in DOMAIN bucket
           /\ call.src \in DOMAIN bucket => bucket'[call.src] = bucket[call.src]
BY DEF Put, With

\* Both hold after every step.
LEMMA SourceStep ==
    BaseInv /\ PartsInv /\ SourceInv /\ CopiesWhatItCan /\ [Next]_vars => SourceInv' /\ CopiesWhatItCan'
<1> SUFFICES ASSUME BaseInv, PartsInv, SourceInv, CopiesWhatItCan, [Next]_vars
             PROVE  SourceInv' /\ CopiesWhatItCan'
  OBVIOUS
<1>0. TypeOK /\ CallOK /\ Stored /\ IsBucket(was) /\ IsBucket(bucket) /\ lost \subseteq lost'
  BY LostKept DEF BaseInv, TypeOK
<1>a. ASSUME ~Copying' PROVE SourceInv' /\ CopiesWhatItCan'
  BY <1>a DEF SourceInv, CopiesWhatItCan
\* A step of a copy: what remains to show when nobody touched the source.
<1>b. ASSUME call \in CopyCalls, SameCopy, Quiet,
             (\E d : Put(call.dst, d)) \/ UNCHANGED bucket,
             call.src \notin touched =>
                /\ call'.at \in {"copyobject", "create", "parts"} =>
                      /\ call.src \in DOMAIN was /\ call'.size = Len(was[call.src].data)
                      /\ call.op = "copy" /\ call'.at # "copyobject" => call'.size > MaxCopy
                      /\ ~cancelled /\ lost' = {} /\ call'.size > MinRange => ~call'.failed
                /\ call'.at = "done" /\ call'.res = "error" =>
                      \/ cancelled \/ lost' # {} \/ call.src \notin DOMAIN was
                      \/ call.op = "multi" /\ Len(was[call.src].data) <= MinRange
      PROVE  SourceInv' /\ CopiesWhatItCan'
  <2>1. Copying /\ Copying' /\ call.dst # call.src
    BY <1>b DEF Copying, CopyCalls, SameCopy, PartsInv
  <2>2. call'.src = call.src /\ call'.op = call.op /\ was' = was /\ touched' = touched /\ cancelled' = cancelled
    BY <1>b DEF SameCopy, Quiet
  <2>3. /\ call.src \in DOMAIN bucket' <=> call.src \in DOMAIN bucket
        /\ call.src \in DOMAIN bucket => bucket'[call.src] = bucket[call.src]
    BY <1>b, <2>1, SourceKept
  <2>4. SourceInv'
    BY <1>b, <2>1, <2>2, <2>3 DEF SourceInv
  <2>5. CopiesWhatItCan'
    BY <1>b, <2>1, <2>2 DEF CopiesWhatItCan, Done
  <2> QED BY <2>4, <2>5
\* What SourceInv says of a copy whose source nobody touched.
<1>c. ASSUME call \in CopyCalls, call.src \notin touched
      PROVE  /\ call.src \in DOMAIN was <=> call.src \in DOMAIN bucket
             /\ call.src \in DOMAIN was => bucket[call.src] = was[call.src]
             /\ call.at \in {"copyobject", "create", "parts"} =>
                   /\ call.src \in DOMAIN was /\ call.size = Len(was[call.src].data)
                   /\ call.op = "copy" /\ call.at # "copyobject" => call.size > MaxCopy
                   /\ ~cancelled /\ lost = {} /\ call.size > MinRange => ~call.failed
  BY <1>c DEF SourceInv, Copying, CopyCalls
<1>1. ASSUME HeadSource PROVE SourceInv' /\ CopiesWhatItCan'
  <2>1. /\ call \in CopyCalls /\ call.at = "head" /\ SameCopy /\ Quiet /\ UNCHANGED bucket
        /\ \/ /\ call.src \in DOMAIN bucket /\ call'.size = Len(bucket[call.src].data)
              /\ call'.at = IF call.op = "copy" THEN "copyobject" ELSE "create"
              /\ lost' = lost /\ SameParts
           \/ CopyFails /\ (call.src \notin DOMAIN bucket \/ lost' # {})
    BY <1>0, <1>1, HeadSourceEffect
  <2>2. ~call.failed
    BY <1>0, <2>1 DEF Stored
  <2> QED BY <1>b, <1>c, <2>1, <2>2 DEF CopyFails, SameParts
<1>2. ASSUME CopyObject PROVE SourceInv' /\ CopiesWhatItCan'
  <2>1. /\ call \in CopyCalls /\ call.at = "copyobject" /\ SameCopy /\ Quiet
        /\ (\E d : Put(call.dst, d)) \/ UNCHANGED bucket
        /\ \/ /\ call.src \in DOMAIN bucket /\ Len(bucket[call.src].data) > MaxCopy
              /\ call'.at = "create" /\ lost' = lost /\ call'.size = call.size /\ SameParts
           \/ call'.at = "done" /\ call'.res = "ok"
           \/ CopyFails /\ (call.src \notin DOMAIN bucket \/ lost' # {})
    BY <1>0, <1>2, CopyObjectEffect
  <2> QED BY <1>b, <1>c, <2>1 DEF CopyFails, SameParts
<1>3. ASSUME CreateUpload PROVE SourceInv' /\ CopiesWhatItCan'
  <2>1. /\ call \in CopyCalls /\ call.at = "create" /\ SameCopy /\ Quiet /\ UNCHANGED bucket
        /\ call'.size = call.size
        /\ \/ call'.at = "parts" /\ SameParts /\ lost' = lost
           \/ CopyFails /\ lost' # {}
    BY <1>0, <1>3, CreateUploadEffect
  <2> QED BY <1>b, <1>c, <2>1 DEF CopyFails, SameParts
<1>4. ASSUME GoPart PROVE SourceInv' /\ CopiesWhatItCan'
  <2>1. /\ call \in CopyCalls /\ call.at = "parts" /\ SameCopy /\ Quiet /\ UNCHANGED bucket
        /\ call'.at = "parts" /\ call'.size = call.size /\ lost' = lost
        /\ cancelled \/ call.failed \/ call'.failed = call.failed
    BY <1>0, <1>4, GoPartEffect
  <2> QED BY <1>b, <1>c, <2>1
<1>5. ASSUME NEW i \in 1..MaxParts + 1, PartEnds(i) PROVE SourceInv' /\ CopiesWhatItCan'
  <2> DEFINE last == ByteRange(i, call.parts.size, call.size).last
  <2>1. /\ call \in CopyCalls /\ call.at = "parts" /\ SameCopy /\ Quiet /\ UNCHANGED bucket
        /\ call'.at = "parts" /\ call'.size = call.size /\ i \in call.running
        /\ \/ call'.failed = call.failed
           \/ /\ call'.failed
              /\ \/ lost' # {} \/ i > MaxParts \/ call.src \notin DOMAIN bucket
                 \/ ~(Len(bucket[call.src].data) > MinRange)
                 \/ ~(last < Len(bucket[call.src].data))
    BY <1>0, <1>5, PartEndsEffect
  <2>2. call.parts.size \in Nat /\ call.size \in Nat /\ call.parts.count \in Nat /\ call.next \in Nat
    BY <2>1 DEF CopyCalls
  <2>3. i <= MaxParts
    <3>1. i \in 1..call.next - 1 /\ call.next \in 1..call.parts.count + 1 /\ call.parts.count <= MaxParts
      BY <2>1, <2>2, PartSizes DEF PartsInv
    <3> QED BY <2>2, <3>1, Constants
  <2>4. last < call.size
    BY <2>2 DEF ByteRange
  <2> HIDE DEF last
  <2>5. ~(i > MaxParts)
    BY <2>3, Constants
  <2> QED BY <1>0, <1>b, <1>c, <2>1, <2>4, <2>5
<1>6. ASSUME EndUpload PROVE SourceInv' /\ CopiesWhatItCan'
  <2>1. /\ call \in CopyCalls /\ call.at = "parts" /\ SameCopy /\ Quiet /\ call'.at = "done"
        /\ call.next > call.parts.count /\ call.running = {}
        /\ (\E d : Put(call.dst, d)) \/ UNCHANGED bucket
        /\ \/ call'.res = "ok" \/ lost' # {} \/ call.failed
           \/ ~call.failed /\ ~Completable
    BY <1>0, <1>6, EndUploadEffect
  <2>2. ASSUME ~call.failed, ~Completable
        PROVE  call.size = 0
    BY <2>1, <2>2, EmptySource
  <2>3. ASSUME call.src \notin touched, ~(call.size > MinRange)
        PROVE  call.op = "multi" /\ Len(was[call.src].data) <= MinRange
    <3>1. call.size = Len(was[call.src].data) /\ (call.op = "copy" => call.size > MaxCopy)
      BY <1>c, <2>1, <2>3
    <3>2. call.op \in {"copy", "multi"} /\ call.size \in Nat
      BY <2>1 DEF CopyCalls
    <3> QED BY <2>3, <3>1, <3>2, Constants
  <2>4. call.size = 0 => ~(call.size > MinRange)
    BY Constants
  <2> QED BY <1>0, <1>b, <1>c, <2>1, <2>2, <2>3, <2>4
<1>7. ASSUME List \/ DeleteListed \/ PageDeleted PROVE SourceInv' /\ CopiesWhatItCan'
  <2>1. call' \in ListCalls
    BY <1>0, <1>7, ListEffect, DeleteListedEffect, PageDeletedEffect
  <2> QED BY <1>a, <2>1 DEF ListCalls, Copying
<1>8. ASSUME NEW d \in Targets, NEW s \in Targets, Copy(d, s) \/ MultiCopy(d, s)
      PROVE  SourceInv' /\ CopiesWhatItCan'
  <2>1. call'.at = "head" /\ was' = bucket'
    BY <1>8, StartCopyEffect
  <2> QED BY <2>1 DEF SourceInv, CopiesWhatItCan, Done
<1>9. ASSUME NEW d \in Dirs, RemoveAll(d) \/ DirEntries(d) \/ WalkFiles(d)
      PROVE  SourceInv' /\ CopiesWhatItCan'
  <2>1. call' \in ListCalls
    BY <1>9, StartListEffect
  <2> QED BY <1>a, <2>1 DEF ListCalls, Copying
<1>10. ASSUME NEW k \in Targets, (\E n \in Sizes : Write(k, n)) \/ Remove(k) \/ OpenFile(k)
       PROVE  SourceInv' /\ CopiesWhatItCan'
  BY <1>10, <1>a, StartOtherEffect DEF Copying
<1>11. ASSUME CloseFile PROVE SourceInv' /\ CopiesWhatItCan'
  BY <1>11, <1>a, CloseFileEffect DEF FileCalls, Copying
<1>12. ASSUME Aside PROVE SourceInv' /\ CopiesWhatItCan'
  <2>1. /\ UNCHANGED <<call, was, lost>> /\ touched \subseteq touched' /\ (cancelled => cancelled')
        /\ DOMAIN bucket \ touched' \subseteq DOMAIN bucket'
        /\ DOMAIN bucket' \ touched' \subseteq DOMAIN bucket
        /\ \A k \in DOMAIN bucket \ touched' : bucket'[k] = bucket[k]
    BY <1>12, OtherEffect
  <2>2. SourceInv'
    BY <2>1 DEF SourceInv, Copying
  <2>3. CopiesWhatItCan'
    BY <2>1 DEF CopiesWhatItCan, Copying, Done
  <2> QED BY <2>2, <2>3
<1> QED BY <1>1, <1>2, <1>3, <1>4, <1>5, <1>6, <1>7, <1>8, <1>9, <1>10, <1>11, <1>12 DEF Next, Aside

\* The copy of a source that stays as it is fails only when a request does, when the
\* caller cancels it, or when MultiCopier is called for a source that is too small for a
\* range: the service never refuses the ranges, the part sizes or the part counts that
\* Copy chooses, whatever the sizes and limits are.
THEOREM CopiesAreMade == Spec => []CopiesWhatItCan
<1>1. Init => BaseInv /\ PartsInv /\ SourceInv /\ CopiesWhatItCan
  <2>1. Init => PartsInv /\ SourceInv /\ CopiesWhatItCan
    BY DEF Init, PartsInv, SourceInv, CopiesWhatItCan, Copying, NoUpload
  <2> QED BY <2>1, BaseInductive
<1>2. BaseInv /\ PartsInv /\ SourceInv /\ CopiesWhatItCan /\ [Next]_vars
         => BaseInv' /\ PartsInv' /\ SourceInv' /\ CopiesWhatItCan'
  BY BaseStep, PartsStep, SourceStep
<1> QED BY <1>1, <1>2, PTL DEF Spec

-----------------------------------------------------------------------------
(* Files are whole *)

AllWhole(b) == \A k \in DOMAIN b : Whole(b[k].data)

\* Part i of the source as it was when the copy began.
Part(i) ==
    LET r == ByteRange(i, call.parts.size, call.size)
    IN  SubSeq(was[call.src].data, r.first + 1, r.last + 1)

\* The bucket had whole files when the call began; as long as nobody else writes to the
\* source, each part that the service has stored is that part of it.
StoredInv ==
    /\ AllWhole(was)
    /\ call.at = "parts" /\ call.src \notin touched =>
          \A i \in DOMAIN upload.parts : upload.parts[i] = Part(i)
    /\ Copying /\ Done("ok") /\ call.dst \notin touched => call.dst \in DOMAIN bucket

\* A bucket of whole files stays one when a whole file is stored or a file is removed.
LEMMA AllWholeKept ==
    ASSUME AllWhole(bucket)
    PROVE  /\ \A k, d : Put(k, d) /\ Whole(d) => AllWhole(bucket')
           /\ \A k : Drop(k) => AllWhole(bucket')
           /\ UNCHANGED bucket => AllWhole(bucket')
<1>1. ASSUME NEW k, NEW d, Put(k, d), Whole(d) PROVE AllWhole(bucket')
  <2>1. /\ DOMAIN bucket' = DOMAIN bucket \cup {k} /\ bucket'[k].data = d
        /\ \A j \in DOMAIN bucket : j # k => bucket'[j] = bucket[j]
    BY <1>1 DEF Put, With
  <2> HIDE DEF Whole
  <2> QED BY <1>1, <2>1 DEF AllWhole
<1>2. ASSUME NEW k, Drop(k) PROVE AllWhole(bucket')
  <2>1. /\ DOMAIN bucket' = DOMAIN bucket \ {k}
        /\ \A j \in DOMAIN bucket \ {k} : bucket'[j] = bucket[j]
    BY <1>2 DEF Drop
  <2> HIDE DEF Whole
  <2> QED BY <2>1 DEF AllWhole
<1> HIDE DEF Whole
<1> QED BY <1>1, <1>2 DEF AllWhole

\* What the other client writes is a whole file.
LEMMA OthersKeepWhole ==
    ASSUME BaseInv, AllWhole(bucket),
           Aside
    PROVE  AllWhole(bucket')
<1>1. \A n \in Sizes : Whole(Data(version + 1, n))
  BY DataIsSeq, Constants DEF BaseInv, TypeOK
<1> HIDE DEF Data, Whole
<1>2. CASE \E k \in Keys, n \in Sizes : OtherWrites(k, n)
  BY <1>1, <1>2, AllWholeKept DEF OtherWrites
<1>3. CASE \E k \in Keys : OtherRemoves(k)
  BY <1>3, AllWholeKept DEF OtherRemoves
<1>4. CASE Cancel \/ (\E n \in 1..2 : Read(n)) \/ (\E to \in 0..2 : Seek(to)) \/ UNCHANGED vars
  BY <1>4, AllWholeKept DEF Cancel, Read, Seek, vars
<1> QED BY <1>2, <1>3, <1>4 DEF Aside

\* Both hold after every step.
LEMMA FilesStep ==
    BaseInv /\ PartsInv /\ SourceInv /\ StoredInv /\ FilesWhole /\ [Next]_vars => StoredInv' /\ FilesWhole'
<1> SUFFICES ASSUME BaseInv, PartsInv, SourceInv, StoredInv, FilesWhole, [Next]_vars
             PROVE  StoredInv' /\ FilesWhole'
  OBVIOUS
<1> HIDE DEF Whole
<1>0. TypeOK /\ CallOK /\ UploadOK /\ Stored /\ IsBucket(was) /\ IsBucket(bucket) /\ AllWhole(was)
  BY DEF BaseInv, TypeOK, StoredInv
<1>a. ASSUME ~Copying' \/ ~Done("ok")', AllWhole(was'), call'.at # "parts", AllWhole(bucket')
      PROVE  StoredInv' /\ FilesWhole'
  BY <1>a DEF StoredInv, FilesWhole, AllWhole
<1>b. ~Copying \/ call.src \notin touched => AllWhole(bucket)
  BY DEF FilesWhole, AllWhole
<1>c. ASSUME call \in CopyCalls, SameCopy, Quiet,
             call'.at = "parts" /\ call.src \notin touched =>
                \A i \in DOMAIN upload'.parts : upload'.parts[i] = Part(i)',
             \/ UNCHANGED bucket /\ ~Done("ok")'
             \/ \E d : /\ Put(call.dst, d)
                       /\ call.src \notin touched => call.src \in DOMAIN was /\ d = was[call.src].data
      PROVE  StoredInv' /\ FilesWhole'
  <2>1. /\ Copying /\ Copying' /\ call'.src = call.src /\ call'.dst = call.dst
        /\ was' = was /\ touched' = touched
    BY <1>c DEF Copying, CopyCalls, SameCopy, Quiet
  <2>2. CASE UNCHANGED bucket /\ ~Done("ok")'
    <3>1. StoredInv'
      BY <1>0, <1>c, <2>1, <2>2 DEF StoredInv
    <3> QED BY <1>c, <2>1, <2>2, <3>1 DEF FilesWhole
  <2>3. ASSUME NEW d, Put(call.dst, d),
               call.src \notin touched => call.src \in DOMAIN was /\ d = was[call.src].data
        PROVE  StoredInv' /\ FilesWhole'
    <3>1. call.dst \in DOMAIN bucket' /\ bucket'[call.dst].data = d
      BY <2>3 DEF Put, With
    <3>2. StoredInv'
      BY <1>0, <1>c, <2>1, <3>1 DEF StoredInv
    <3>3. ASSUME call.src \notin touched PROVE AllWhole(bucket')
      <4>1. Whole(d)
        BY <1>0, <2>3, <3>3 DEF AllWhole
      <4> QED BY <1>b, <2>3, <3>3, <4>1, AllWholeKept
    <3>4. FilesWhole'
      BY <2>1, <2>3, <3>1, <3>3 DEF FilesWhole, AllWhole
    <3> QED BY <3>2, <3>4
  <2> QED BY <1>c, <2>2, <2>3
<1>d. ASSUME call \in CopyCalls, call.src \notin touched
      PROVE  /\ call.src \in DOMAIN was <=> call.src \in DOMAIN bucket
             /\ call.src \in DOMAIN was => bucket[call.src] = was[call.src]
             /\ call.at = "parts" => call.src \in DOMAIN was /\ call.size = Len(was[call.src].data)
  BY <1>d DEF SourceInv, Copying, CopyCalls
<1>1. ASSUME HeadSource PROVE StoredInv' /\ FilesWhole'
  <2>1. call \in CopyCalls /\ SameCopy /\ Quiet /\ UNCHANGED bucket /\ call'.at # "parts" /\ ~Done("ok")'
    BY <1>0, <1>1, HeadSourceEffect DEF CopyFails, Done
  <2> QED BY <1>c, <2>1
<1>2. ASSUME CopyObject PROVE StoredInv' /\ FilesWhole'
  <2>1. /\ call \in CopyCalls /\ SameCopy /\ Quiet /\ call'.at # "parts"
        /\ \/ UNCHANGED bucket /\ ~Done("ok")'
           \/ call.src \in DOMAIN bucket /\ Put(call.dst, bucket[call.src].data)
    BY <1>0, <1>2, CopyObjectEffect DEF CopyFails, Done
  <2> QED BY <1>c, <1>d, <2>1
<1>3. ASSUME CreateUpload PROVE StoredInv' /\ FilesWhole'
  <2>1. /\ call \in CopyCalls /\ SameCopy /\ Quiet /\ UNCHANGED bucket /\ ~Done("ok")'
        /\ call'.at = "parts" => upload' = [NoUpload EXCEPT !.state = "open"]
    BY <1>0, <1>3, CreateUploadEffect DEF CopyFails, Done
  <2>2. call'.at = "parts" => DOMAIN upload'.parts = {}
    BY <2>1 DEF NoUpload
  <2> QED BY <1>c, <2>1, <2>2
<1>4. ASSUME GoPart PROVE StoredInv' /\ FilesWhole'
  <2>1. /\ call \in CopyCalls /\ SameCopy /\ Quiet /\ UNCHANGED bucket /\ ~Done("ok")'
        /\ call.at = "parts" /\ upload' = upload /\ call'.size = call.size /\ call'.parts = call.parts
    BY <1>0, <1>4, GoPartEffect DEF Done
  <2>2. \A i : Part(i)' = Part(i)
    BY <2>1 DEF Part, SameCopy, Quiet
  <2>3. call.src \notin touched => \A i \in DOMAIN upload.parts : upload.parts[i] = Part(i)
    BY <2>1 DEF StoredInv
  <2> QED BY <1>c, <2>1, <2>2, <2>3
<1>5. ASSUME NEW i \in 1..MaxParts + 1, PartEnds(i) PROVE StoredInv' /\ FilesWhole'
  <2>1. /\ call \in CopyCalls /\ SameCopy /\ Quiet /\ UNCHANGED bucket /\ ~Done("ok")'
        /\ call.at = "parts" /\ call'.size = call.size /\ call'.parts = call.parts
        /\ upload' = upload \/ upload' = [upload EXCEPT !.parts = With(@, i, PartOf(i))]
    BY <1>0, <1>5, PartEndsEffect DEF Done
  <2>2. \A j : Part(j)' = Part(j)
    BY <2>1 DEF Part, SameCopy, Quiet
  <2>3. call.src \notin touched => \A j \in DOMAIN upload.parts : upload.parts[j] = Part(j)
    BY <2>1 DEF StoredInv
  <2>4. call.src \notin touched => PartOf(i) = Part(i)
    BY <1>d, <2>1 DEF PartOf, Part
  <2> HIDE DEF PartOf, Part
  <2>5. upload' # upload => upload'.parts = With(upload.parts, i, PartOf(i))
    <3> DEFINE P == With(upload.parts, i, PartOf(i))
    <3>1. upload' # upload => upload' = [upload EXCEPT !.parts = P]
      BY <2>1
    <3> HIDE DEF P
    <3>2. [upload EXCEPT !.parts = P].parts = P
      BY <1>0 DEF UploadOK
    <3> QED BY <3>1, <3>2 DEF P
  <2>6. call.src \notin touched => \A j \in DOMAIN upload'.parts : upload'.parts[j] = Part(j)
    BY <2>3, <2>4, <2>5 DEF With
  <2> QED BY <1>c, <2>1, <2>2, <2>6
<1>6. ASSUME EndUpload PROVE StoredInv' /\ FilesWhole'
  <2>1. /\ call \in CopyCalls /\ SameCopy /\ Quiet /\ call.at = "parts" /\ call'.at = "done"
        /\ \/ UNCHANGED bucket /\ ~Done("ok")'
           \/ /\ call.parts.count > 0 /\ call.completed = 1..call.parts.count
              /\ Put(call.dst, Joined)
    BY <1>0, <1>6, EndUploadEffect DEF CopyFails, Done
  <2>2. ASSUME call.parts.count > 0, call.completed = 1..call.parts.count, call.src \notin touched
        PROVE  call.src \in DOMAIN was /\ Joined = was[call.src].data
    <3>1. call.src \in DOMAIN was /\ call.size = Len(was[call.src].data)
      BY <1>d, <2>1, <2>2
    <3>2. was[call.src].data \in Seq(Byte)
      BY <1>0, <3>1 DEF IsBucket, Entry
    <3>3. 1..call.parts.count \subseteq DOMAIN upload.parts
      BY <1>0, <2>1, <2>2 DEF Stored
    <3>4. \A i \in 1..call.parts.count : upload.parts[i] = Part(i)
      BY <2>1, <2>2, <3>3 DEF StoredInv
    <3>5. call.parts = AdjustPartSize(call.size)
      BY <2>1 DEF PartsInv
    <3>6. \A i \in 1..call.parts.count :
             upload.parts[i] = SubSeq(was[call.src].data,
                                      ByteRange(i, call.parts.size, call.size).first + 1,
                                      ByteRange(i, call.parts.size, call.size).last + 1)
      BY <3>4 DEF Part
    <3> HIDE DEF Joined, AdjustPartSize, ByteRange, Byte
    <3> QED BY <1>0, <2>2, <3>1, <3>2, <3>3, <3>5, <3>6, JoinedIsSource
  <2> HIDE DEF Joined
  <2> QED BY <1>c, <2>1, <2>2
<1>7. ASSUME List \/ DeleteListed \/ PageDeleted PROVE StoredInv' /\ FilesWhole'
  <2>1. /\ call \in ListCalls /\ call' \in ListCalls /\ Quiet
        /\ UNCHANGED bucket \/ Drop(Head(call.page))
    BY <1>0, <1>7, ListEffect, DeleteListedEffect, PageDeletedEffect
  <2>2. ~Copying /\ ~Copying' /\ call'.at # "parts"
    BY <2>1 DEF ListCalls, Copying
  <2> QED BY <1>0, <1>a, <1>b, <2>1, <2>2, AllWholeKept DEF Quiet
<1>8. ASSUME call.at = "idle" PROVE AllWhole(bucket)
  BY <1>0, <1>8, <1>b, CallKinds DEF IdleCall, Copying
<1>9. ASSUME NEW d \in Targets, NEW s \in Targets, Copy(d, s) \/ MultiCopy(d, s)
      PROVE  StoredInv' /\ FilesWhole'
  <2>1. call.at = "idle" /\ call'.at = "head" /\ was' = bucket /\ UNCHANGED bucket
    BY <1>9, StartCopyEffect
  <2> QED BY <1>a, <1>8, <2>1 DEF Done
<1>10. ASSUME NEW d \in Dirs, RemoveAll(d) \/ DirEntries(d) \/ WalkFiles(d)
       PROVE  StoredInv' /\ FilesWhole'
  <2>1. call.at = "idle" /\ call'.at = "list" /\ was' = bucket /\ UNCHANGED bucket
    BY <1>10, StartListEffect
  <2> QED BY <1>a, <1>8, <2>1 DEF Done
<1>11. ASSUME NEW k \in Targets, (\E n \in Sizes : Write(k, n)) \/ Remove(k) \/ OpenFile(k)
       PROVE  StoredInv' /\ FilesWhole'
  <2>1. /\ call.at = "idle" /\ call'.op \in {"write", "remove", "file"} /\ call'.at \in {"done", "open"}
        /\ was' = bucket
    BY <1>11, StartOtherEffect
  <2>2. \A n \in Sizes : Whole(Data(version + 1, n))
    BY <1>0, DataIsSeq, Constants DEF TypeOK
  <2> HIDE DEF Data
  <2>3. \/ UNCHANGED bucket \/ Drop(k) \/ \E n \in Sizes : Put(k, Data(version + 1, n))
    BY <1>11 DEF Write, Remove, OpenFile
  <2>4. AllWhole(bucket')
    BY <1>8, <2>1, <2>2, <2>3, AllWholeKept
  <2> QED BY <1>a, <1>8, <2>1, <2>4 DEF Copying
<1>12. ASSUME CloseFile PROVE StoredInv' /\ FilesWhole'
  <2>1. call \in FileCalls /\ call' \in FileCalls /\ UNCHANGED <<bucket, was>>
    BY <1>12, CloseFileEffect
  <2>2. ~Copying /\ ~Copying' /\ call'.at # "parts"
    BY <2>1 DEF FileCalls, Copying
  <2> QED BY <1>0, <1>a, <1>b, <2>1, <2>2
<1>13. ASSUME Aside PROVE StoredInv' /\ FilesWhole'
  <2>1. /\ UNCHANGED <<call, upload, was>> /\ touched \subseteq touched'
        /\ DOMAIN bucket \ touched' \subseteq DOMAIN bucket'
        /\ \A k \in DOMAIN bucket \ touched' : bucket'[k] = bucket[k]
    BY <1>13, OtherEffect
  <2>2. AllWhole(bucket) => AllWhole(bucket')
    BY <1>13, OthersKeepWhole
  <2>3. \A i : Part(i)' = Part(i)
    BY <2>1 DEF Part
  <2> HIDE DEF Part
  <2>4. StoredInv'
    BY <1>0, <2>1, <2>3 DEF StoredInv, Copying, Done
  <2>5. FilesWhole'
    <3>1. ASSUME ~(Copying /\ call.src \in touched)' PROVE AllWhole(bucket')
      BY <1>b, <2>1, <2>2, <3>1 DEF Copying
    <3>2. ASSUME ~(Copying /\ call.src \in touched)', Copying, Done("ok"), call.dst \notin touched'
          PROVE  bucket'[call.dst].data = was[call.src].data
      BY <2>1, <3>2 DEF StoredInv, FilesWhole, Copying
    <3> QED BY <2>1, <3>1, <3>2 DEF FilesWhole, AllWhole, Copying, Done
  <2> QED BY <2>4, <2>5
<1> QED BY <1>1, <1>2, <1>3, <1>4, <1>5, <1>6, <1>7, <1>9, <1>10, <1>11, <1>12, <1>13 DEF Next, Aside

\* Every file is one version from its first to its last byte at every moment, and a copy
\* that succeeded has the bytes of its source: for every size of the source, part size,
\* limit of parts, and order in which the parts end, fail or are lost.
THEOREM FilesAreWhole == Spec => []FilesWhole
<1>1. Init => BaseInv /\ PartsInv /\ SourceInv /\ CopiesWhatItCan /\ StoredInv /\ FilesWhole
  <2> SUFFICES ASSUME Init
               PROVE  BaseInv /\ PartsInv /\ SourceInv /\ CopiesWhatItCan /\ StoredInv /\ FilesWhole
    OBVIOUS
  <2>1. BaseInv
    BY BaseInductive
  <2>2. PartsInv /\ SourceInv /\ CopiesWhatItCan
    BY DEF Init, PartsInv, SourceInv, CopiesWhatItCan, Copying, NoUpload
  <2>3. AllWhole(bucket)
    <3>1. PICK b \in Buckets : bucket = [k \in DOMAIN b |-> [etag |-> 1, data |-> Data(1, b[k])]]
      BY DEF Init
    <3>2. \A k \in DOMAIN b : b[k] \in Nat
      BY S3Assumption
    <3>3. \A k \in DOMAIN b : Whole(Data(1, b[k]))
      BY <3>2, DataIsSeq
    <3> HIDE DEF Data, Whole
    <3> QED BY <3>1, <3>3 DEF AllWhole
  <2> HIDE DEF Whole
  <2>4. StoredInv /\ FilesWhole
    BY <2>3 DEF Init, StoredInv, FilesWhole, AllWhole, Copying
  <2> QED BY <2>1, <2>2, <2>4
<1>2. BaseInv /\ PartsInv /\ SourceInv /\ CopiesWhatItCan /\ StoredInv /\ FilesWhole /\ [Next]_vars
         => BaseInv' /\ PartsInv' /\ SourceInv' /\ CopiesWhatItCan' /\ StoredInv' /\ FilesWhole'
  BY BaseStep, PartsStep, SourceStep, FilesStep
<1> QED BY <1>1, <1>2, PTL DEF Spec

-----------------------------------------------------------------------------
(* RemoveAll *)

ToRemove == Under(call.dir, DOMAIN bucket) \ touched

\* What is left to remove is on the page that is being deleted, or behind the token of the
\* next one; pages hold nothing but files of the directory.
RemoveInv ==
    call.op = "removeall" =>
        /\ \A i \in DOMAIN call.page : call.page[i] \in Under(call.dir, Keys)
        /\ (DOMAIN was \ Under(call.dir, Keys)) \ touched \subseteq DOMAIN bucket
        /\ call.at = "list" => \A k \in ToRemove : call.token = <<>> \/ Before(call.token, k)
        /\ call.at = "delete" =>
              \A k \in ToRemove : \/ \E i \in DOMAIN call.page : call.page[i] = k
                                  \/ call.more /\ Before(call.token, k)
        /\ Done("ok") => ToRemove = {}

\* The page that the next request of a listing returns.
LEMMA NextPageIs ==
    ASSUME TypeOK, call \in ListCalls
    PROVE  IsPage(NextPage, Rest(call.dir, call.op = "direntries", call.token))
<1>1. call.dir \in Dirs /\ (call.op = "direntries") \in BOOLEAN /\ IsBucket(bucket)
  BY DEF ListCalls, TypeOK
<1> QED BY <1>1, ListPage DEF NextPage

\* Without a delimiter a listing shows the files of the directory themselves.
LEMMA ShowsFiles ==
    ASSUME NEW dir, NEW keys
    PROVE  AllShown(dir, keys, FALSE) = Under(dir, keys)
BY DEF AllShown, Shown, Under

\* RemoveInv holds after every step.
LEMMA RemoveStep == BaseInv /\ RemoveInv /\ [Next]_vars => RemoveInv'
<1> SUFFICES ASSUME BaseInv, RemoveInv, [Next]_vars PROVE RemoveInv'
  OBVIOUS
<1> HIDE DEF Before
<1>0. TypeOK /\ CallOK /\ IsBucket(bucket) /\ DOMAIN bucket \subseteq Keys
  BY DEF BaseInv, TypeOK, IsBucket
<1>a. ASSUME call'.op # "removeall" PROVE RemoveInv'
  BY <1>a DEF RemoveInv
<1>1. ASSUME List PROVE RemoveInv'
  <2> SUFFICES ASSUME call'.op = "removeall" PROVE RemoveInv'
    BY <1>a
  <2>1. call \in ListCalls /\ call.at = "list" /\ SameList /\ Quiet /\ UNCHANGED bucket
    BY <1>0, <1>1, ListEffect
  <2>2. /\ call.op = "removeall" /\ call'.dir = call.dir /\ call.dir \in Dirs
        /\ UNCHANGED <<was, touched, bucket>>
    BY <2>1 DEF SameList, Quiet, ListCalls
  <2>3. /\ \A i \in DOMAIN call.page : call.page[i] \in Under(call.dir, Keys)
        /\ (DOMAIN was \ Under(call.dir, Keys)) \ touched \subseteq DOMAIN bucket
        /\ \A k \in ToRemove : call.token = <<>> \/ Before(call.token, k)
    BY <2>1, <2>2 DEF RemoveInv
  <2>4. ToRemove' = ToRemove
    BY <2>2 DEF ToRemove
  <2>5. CASE call'.at = "done" /\ call'.res = "error" /\ call'.page = call.page
    BY <2>2, <2>3, <2>5 DEF RemoveInv, Done
  <2>6. CASE /\ call'.at = "delete" /\ call'.page = NextPage.page /\ call'.token = NextPage.token
             /\ call'.more = (NextPage.token # <<>>)
    <3> DEFINE l == NextPage
               R == Rest(call.dir, call.op = "direntries", call.token)
    <3>1. R = Rest(call.dir, FALSE, call.token)
      BY <2>2
    <3> HIDE DEF l, R
    <3>2. /\ l.page \in Seq(R)
          /\ l.token = <<>> => \A e \in R : \E i \in 1..Len(l.page) : l.page[i] = e
          /\ l.token # <<>> =>
                \A e \in R : (\E i \in 1..Len(l.page) : l.page[i] = e) \/ Before(l.token, e)
      BY <1>0, <2>1, NextPageIs DEF l, R, IsPage
    <3>3. R \subseteq Under(call.dir, Keys) /\ ToRemove \subseteq R
      <4>1. R = {e \in Under(call.dir, DOMAIN bucket) : call.token = <<>> \/ Before(call.token, e)}
        BY <3>1, ShowsFiles DEF Rest
      <4> QED BY <1>0, <2>3, <4>1 DEF Under, ToRemove
    <3>4. DOMAIN l.page = 1..Len(l.page) /\ \A i \in DOMAIN l.page : l.page[i] \in R
      BY <3>2, ElementOfSeq, LenProperties
    <3>5. call'.page = l.page /\ call'.token = l.token /\ call'.more = (l.token # <<>>) /\ call'.at = "delete"
      BY <2>6 DEF l
    <3>6. \A i \in DOMAIN call'.page : call'.page[i] \in Under(call.dir, Keys)
      BY <3>3, <3>4, <3>5
    <3>7. \A k \in ToRemove : (\E i \in DOMAIN call'.page : call'.page[i] = k)
                              \/ (call'.more /\ Before(call'.token, k))
      BY <3>2, <3>3, <3>4, <3>5
    <3> QED BY <2>2, <2>3, <2>4, <3>5, <3>6, <3>7 DEF RemoveInv, Done
  <2> QED BY <1>0, <1>1, <2>2, <2>5, <2>6, ListEffect
<1>2. ASSUME DeleteListed PROVE RemoveInv'
  <2> SUFFICES ASSUME call'.op = "removeall" PROVE RemoveInv'
    BY <1>a
  <2>1. /\ call \in ListCalls /\ call.at = "delete" /\ SameList /\ Quiet /\ call.page # <<>>
        /\ UNCHANGED bucket \/ Drop(Head(call.page))
        /\ \/ /\ call'.at = "delete" /\ call'.page = Tail(call.page)
              /\ call'.token = call.token /\ call'.more = call.more
              /\ Drop(Head(call.page))
           \/ call'.at = "done" /\ call'.res = "error" /\ call'.page = call.page
    BY <1>0, <1>2, DeleteListedEffect
  <2>2. /\ call.op = "removeall" /\ call'.dir = call.dir /\ UNCHANGED <<was, touched>>
        /\ call.page \in Seq(Seq(Nat))
    BY <2>1 DEF SameList, Quiet, ListCalls
  <2>3. /\ \A i \in DOMAIN call.page : call.page[i] \in Under(call.dir, Keys)
        /\ (DOMAIN was \ Under(call.dir, Keys)) \ touched \subseteq DOMAIN bucket
        /\ \A k \in ToRemove : \/ \E i \in DOMAIN call.page : call.page[i] = k
                               \/ call.more /\ Before(call.token, k)
    BY <2>1, <2>2 DEF RemoveInv
  <2>4. /\ Head(call.page) = call.page[1] /\ DOMAIN call.page = 1..Len(call.page)
        /\ Len(call.page) \in Nat /\ Len(call.page) >= 1
    BY <2>1, <2>2, EmptySeq
  <2>5. DOMAIN bucket \ {Head(call.page)} \subseteq DOMAIN bucket'
    BY <2>1 DEF Drop
  <2>6. (DOMAIN was \ Under(call.dir, Keys)) \ touched \subseteq DOMAIN bucket'
    BY <2>3, <2>4, <2>5
  <2>7. CASE call'.at = "done" /\ call'.res = "error" /\ call'.page = call.page
    BY <2>2, <2>3, <2>6, <2>7 DEF RemoveInv, Done
  <2>8. CASE /\ call'.at = "delete" /\ call'.page = Tail(call.page)
             /\ call'.token = call.token /\ call'.more = call.more /\ Drop(Head(call.page))
    <3> DEFINE p == Tail(call.page)
    <3>1. DOMAIN p = 1..Len(call.page) - 1 /\ \A i \in DOMAIN p : p[i] = call.page[i + 1]
      BY <2>1, <2>2, <2>4, HeadTailProperties
    <3> HIDE DEF p
    <3>2. \A i \in DOMAIN p : p[i] \in Under(call.dir, Keys)
      BY <2>3, <2>4, <3>1
    <3>3. \A k \in ToRemove' : k \in ToRemove /\ k # call.page[1]
      BY <2>2, <2>4, <2>8 DEF ToRemove, Under, Drop
    <3>4. ASSUME NEW i \in DOMAIN call.page, i # 1 PROVE \E j \in DOMAIN p : p[j] = call.page[i]
      <4>1. i - 1 \in DOMAIN p /\ p[i - 1] = call.page[i - 1 + 1] /\ i - 1 + 1 = i
        BY <2>4, <3>1, <3>4
      <4> QED BY <4>1
    <3>5. \A k \in ToRemove' : (\E i \in DOMAIN p : p[i] = k) \/ (call.more /\ Before(call.token, k))
      BY <2>3, <3>3, <3>4
    <3>6. call'.page = p
      BY <2>8 DEF p
    <3> QED BY <2>2, <2>6, <2>8, <3>2, <3>5, <3>6 DEF RemoveInv, Done
  <2> QED BY <2>1, <2>7, <2>8
<1>3. ASSUME PageDeleted PROVE RemoveInv'
  <2> SUFFICES ASSUME call'.op = "removeall" PROVE RemoveInv'
    BY <1>a
  <2>1. /\ call \in ListCalls /\ call.at = "delete" /\ SameList /\ Quiet /\ call.page = <<>>
        /\ UNCHANGED bucket /\ call'.page = call.page /\ call'.token = call.token
        /\ \/ call.more /\ call'.at = "list"
           \/ ~call.more /\ call'.at = "done" /\ call'.res = "ok"
    BY <1>0, <1>3, PageDeletedEffect
  <2>2. call.op = "removeall" /\ call'.dir = call.dir /\ UNCHANGED <<was, touched, bucket>>
    BY <2>1 DEF SameList, Quiet
  <2>3. \A k \in ToRemove : call.more /\ Before(call.token, k)
    BY <2>1, <2>2 DEF RemoveInv
  <2>4. ToRemove' = ToRemove
    BY <2>2 DEF ToRemove
  <2>5. /\ \A i \in DOMAIN call.page : call.page[i] \in Under(call.dir, Keys)
        /\ (DOMAIN was \ Under(call.dir, Keys)) \ touched \subseteq DOMAIN bucket
    BY <2>2 DEF RemoveInv
  <2>6. call'.at = "list" => \A k \in ToRemove' : call'.token = <<>> \/ Before(call'.token, k)
    BY <2>1, <2>3, <2>4
  <2>7. Done("ok")' => ToRemove' = {}
    BY <2>1, <2>3, <2>4 DEF Done
  <2> QED BY <2>1, <2>2, <2>5, <2>6, <2>7 DEF RemoveInv
<1>4. ASSUME HeadSource \/ CopyObject \/ CreateUpload \/ GoPart \/ (\E i \in 1..MaxParts + 1 : PartEnds(i))
             \/ EndUpload
      PROVE  RemoveInv'
  <2>1. call' \in CopyCalls
    BY <1>0, <1>4, HeadSourceEffect, CopyObjectEffect, CreateUploadEffect, GoPartEffect, PartEndsEffect,
       EndUploadEffect
  <2> QED BY <1>a, <2>1 DEF CopyCalls
<1>5. ASSUME NEW d \in Targets, NEW s \in Targets, Copy(d, s) \/ MultiCopy(d, s) PROVE RemoveInv'
  BY <1>5, <1>a, StartCopyEffect DEF CopyCalls
<1>6. ASSUME NEW d \in Dirs, RemoveAll(d) \/ DirEntries(d) \/ WalkFiles(d) PROVE RemoveInv'
  <2>1. call'.at = "list" /\ call'.token = <<>> /\ call'.page = <<>> /\ was' = bucket'
    BY <1>6, StartListEffect
  <2> QED BY <2>1 DEF RemoveInv, Done
<1>7. ASSUME NEW k \in Targets, (\E n \in Sizes : Write(k, n)) \/ Remove(k) \/ OpenFile(k)
      PROVE  RemoveInv'
  BY <1>7, <1>a, StartOtherEffect
<1>8. ASSUME CloseFile PROVE RemoveInv'
  BY <1>8, <1>a, CloseFileEffect DEF FileCalls
<1>9. ASSUME Aside PROVE RemoveInv'
  <2>1. /\ UNCHANGED <<call, was>> /\ touched \subseteq touched'
        /\ DOMAIN bucket \ touched' \subseteq DOMAIN bucket'
        /\ DOMAIN bucket' \ touched' \subseteq DOMAIN bucket
    BY <1>9, OtherEffect
  <2>2. ToRemove' \subseteq ToRemove
    BY <2>1 DEF ToRemove, Under
  <2>3. (DOMAIN was \ Under(call.dir, Keys)) \ touched \subseteq DOMAIN bucket
        => (DOMAIN was \ Under(call.dir, Keys)) \ touched' \subseteq DOMAIN bucket'
    BY <2>1
  <2> HIDE DEF ToRemove
  <2> QED BY <2>1, <2>2, <2>3 DEF RemoveInv, Done
<1> QED BY <1>1, <1>2, <1>3, <1>4, <1>5, <1>6, <1>7, <1>8, <1>9 DEF Next, Aside

\* RemoveAll that returned nil has removed what was in the directory and nothing else,
\* for every bucket, page size, and writes and removals of others between its requests.
THEOREM RemovesAll == Spec => []RemovedAll
<1>1. Init => BaseInv /\ RemoveInv
  <2>1. Init => RemoveInv
    BY DEF Init, RemoveInv
  <2> QED BY <2>1, BaseInductive
<1>2. BaseInv /\ RemoveInv /\ [Next]_vars => BaseInv' /\ RemoveInv'
  BY BaseStep, RemoveStep
<1>3. RemoveInv => RemovedAll
  BY DEF RemoveInv, RemovedAll, ToRemove
<1> QED BY <1>1, <1>2, <1>3, PTL DEF Spec

-----------------------------------------------------------------------------
(* DirEntries and WalkFiles *)

InOrder(s) == \A i, j \in DOMAIN s : i < j => Before(s[i], s[j])

\* Entries in order are all different.
LEMMA InOrderOnce ==
    ASSUME NEW s \in Seq(Seq(Nat)), InOrder(s)
    PROVE  Cardinality(Members(s)) = Len(s)
<1> HIDE DEF Before
<1>1. Len(s) \in Nat /\ DOMAIN s = 1..Len(s) /\ \A i \in 1..Len(s) : s[i] \in Seq(Nat)
  BY LenProperties, ElementOfSeq
<1>2. \A i, j \in 1..Len(s) : i # j => s[i] # s[j]
  <2>1. \A i, j \in 1..Len(s) : i < j => s[i] # s[j]
    BY <1>1, BeforeIrreflexive DEF InOrder
  <2> QED BY <1>1, <2>1
<1> DEFINE f == [i \in 1..Len(s) |-> s[i]]
<1>3. f \in Surjection(1..Len(s), Members(s))
  BY <1>1 DEF Surjection, Members
<1>4. f \in Injection(1..Len(s), Members(s))
  BY <1>1, <1>2 DEF Injection, IsInjective, Members
<1>5. IsFiniteSet(1..Len(s)) /\ Cardinality(1..Len(s)) = Len(s)
  <2>1. \A n \in Nat : IsFiniteSet(1..n) /\ Cardinality(1..n) = n
    BY FS_Interval
  <2> QED BY <1>1, <2>1
<1> HIDE DEF f
<1> QED BY <1>3, <1>4, <1>5, FS_Surjection

\* A page behind the last entry that was yielded goes on in order.
LEMMA Appended ==
    ASSUME NEW y \in Seq(Seq(Nat)), NEW p \in Seq(Seq(Nat)), InOrder(y), InOrder(p),
           y # <<>> => \A i \in DOMAIN p : Before(y[Len(y)], p[i])
    PROVE  /\ InOrder(y \o p)
           /\ Members(y \o p) = Members(y) \cup Members(p)
           /\ p # <<>> => y \o p # <<>> /\ (y \o p)[Len(y \o p)] = p[Len(p)]
<1> HIDE DEF Before
<1> DEFINE q == y \o p
           m == Len(y)
           n == Len(p)
<1>0. /\ m \in Nat /\ DOMAIN y = 1..m /\ \A i \in 1..m : y[i] \in Seq(Nat)
      /\ n \in Nat /\ DOMAIN p = 1..n /\ \A i \in 1..n : p[i] \in Seq(Nat)
      /\ (m # 0 <=> y # <<>>) /\ (n # 0 <=> p # <<>>)
  BY LenProperties, ElementOfSeq, EmptySeq
<1>a. m = Len(y) /\ n = Len(p) /\ q = y \o p
  OBVIOUS
<1> HIDE DEF q, m, n
<1>1. /\ q \in Seq(Seq(Nat)) /\ Len(q) = m + n
      /\ \A i \in 1..m : i \in DOMAIN q /\ q[i] = y[i]
      /\ \A i \in 1..n : m + i \in DOMAIN q /\ q[m + i] = p[i]
      /\ \A i \in DOMAIN q : i \in 1..m \/ \E j \in 1..n : i = m + j
  <2>1. q \in Seq(Seq(Nat))
    BY <1>a, ConcatProperties
  <2>2. IsConcat(q, y, p)
    BY <1>a, ConcatPlaces
  <2> QED BY <1>0, <1>a, <2>1, <2>2 DEF IsConcat
<1>2. Members(q) = Members(y) \cup Members(p)
  BY <1>a, ConcatMembers
<1>3. ASSUME NEW i \in 1..m, NEW j \in 1..n PROVE Before(y[i], p[j])
  <2>1. m \in 1..m /\ y # <<>>
    BY <1>0
  <2>2. Before(y[m], p[j])
    BY <1>0, <2>1 DEF m
  <2>3. CASE i = m
    BY <2>2, <2>3
  <2>4. CASE i # m
    <3>1. i < m
      BY <1>0, <2>4
    <3>2. Before(y[i], y[m])
      BY <1>0, <2>1, <3>1 DEF InOrder
    <3> QED BY <1>0, <2>1, <2>2, <3>2, BeforeTransitive
  <2> QED BY <2>3, <2>4
<1>4. InOrder(q)
  <2> SUFFICES ASSUME NEW i \in DOMAIN q, NEW j \in DOMAIN q, i < j PROVE Before(q[i], q[j])
    BY DEF InOrder
  <2>1. CASE i \in 1..m /\ j \in 1..m
    BY <1>0, <1>1, <2>1 DEF InOrder
  <2>2. ASSUME i \in 1..m, NEW b \in 1..n, j = m + b PROVE Before(q[i], q[j])
    BY <1>1, <1>3, <2>2
  <2>3. ASSUME NEW a \in 1..n, NEW b \in 1..n, i = m + a, j = m + b PROVE Before(q[i], q[j])
    <3>1. a < b
      BY <1>0, <2>3
    <3>2. Before(p[a], p[b])
      BY <1>0, <3>1 DEF InOrder
    <3> QED BY <1>1, <2>3, <3>2
  <2>4. ASSUME NEW a \in 1..n, i = m + a, j \in 1..m PROVE FALSE
    BY <1>0, <2>4
  <2> QED BY <1>1, <2>1, <2>2, <2>3, <2>4
<1>5. ASSUME p # <<>> PROVE q # <<>> /\ q[Len(q)] = p[n]
  <2>1. n \in 1..n /\ Len(q) # 0
    BY <1>0, <1>1, <1>5
  <2>2. q # <<>>
    BY <1>1, <2>1, EmptySeq
  <2> QED BY <1>1, <2>1, <2>2
<1> QED BY <1>2, <1>4, <1>5 DEF q, n

\* More keys show more.
LEMMA ShowsMore ==
    ASSUME NEW dir, NEW delim, NEW s, NEW t, s \subseteq t
    PROVE  AllShown(dir, s, delim) \subseteq AllShown(dir, t, delim)
<1> HIDE DEF Shown
<1> QED BY DEF AllShown, Under

Delim == call.op = "direntries"
Listing == call.op \in {"direntries", "walkfiles"}
Stayed == AllShown(call.dir, DOMAIN was \ touched, Delim)
Appeared == AllShown(call.dir, DOMAIN was \cup touched, Delim)

\* What was yielded is in order and was in the directory; what stays in it and was not
\* yielded is behind the token, which is the last entry that was.
YieldInv ==
    Listing =>
        /\ call.at \in {"list", "done"}
        /\ DOMAIN was \ touched \subseteq DOMAIN bucket
        /\ DOMAIN bucket \subseteq DOMAIN was \cup touched
        /\ InOrder(call.yielded)
        /\ Members(call.yielded) \subseteq Appeared
        /\ call.at = "list" =>
              /\ IF call.yielded = <<>> THEN call.token = <<>> /\ ~call.hasContent
                 ELSE call.token = call.yielded[Len(call.yielded)] /\ call.hasContent
              /\ \A e \in Stayed \ Members(call.yielded) : call.token = <<>> \/ Before(call.token, e)
        /\ Done("ok") => Stayed \subseteq Members(call.yielded)
        /\ Done("missing") => Stayed = {} /\ Members(call.yielded) = {}

\* YieldInv holds after every step.
LEMMA YieldStep == BaseInv /\ YieldInv /\ [Next]_vars => YieldInv'
<1> SUFFICES ASSUME BaseInv, YieldInv, [Next]_vars PROVE YieldInv'
  OBVIOUS
<1> HIDE DEF Before
<1>0. TypeOK /\ CallOK /\ IsBucket(bucket)
  BY DEF BaseInv, TypeOK
<1>a. ASSUME ~Listing' PROVE YieldInv'
  BY <1>a DEF YieldInv
<1>1. ASSUME List PROVE YieldInv'
  <2> SUFFICES ASSUME Listing' PROVE YieldInv'
    BY <1>a
  <2>1. call \in ListCalls /\ call' \in ListCalls /\ call.at = "list" /\ SameList /\ Quiet /\ UNCHANGED bucket
    BY <1>0, <1>1, ListEffect
  <2>2. /\ Listing /\ call.op # "removeall" /\ Delim' = Delim /\ call'.dir = call.dir
        /\ UNCHANGED <<was, touched, bucket>> /\ call.yielded \in Seq(Seq(Nat))
    BY <2>1 DEF Listing, Delim, SameList, Quiet, ListCalls
  <2>3. Stayed' = Stayed /\ Appeared' = Appeared
    BY <2>2 DEF Stayed, Appeared
  <2> DEFINE y == call.yielded
             l == NextPage
             p == l.page
             R == Rest(call.dir, Delim, call.token)
  <2>4. /\ DOMAIN was \ touched \subseteq DOMAIN bucket
        /\ DOMAIN bucket \subseteq DOMAIN was \cup touched
        /\ InOrder(y) /\ Members(y) \subseteq Appeared
        /\ IF y = <<>> THEN call.token = <<>> /\ ~call.hasContent
           ELSE call.token = y[Len(y)] /\ call.hasContent
        /\ \A e \in Stayed \ Members(y) : call.token = <<>> \/ Before(call.token, e)
    BY <2>1, <2>2 DEF YieldInv
  <2>5. IsPage(l, R)
    BY <1>0, <2>1, NextPageIs DEF Delim
  <2>6. R \subseteq Appeared /\ Stayed \ Members(y) \subseteq R
    <3>1. R = {e \in AllShown(call.dir, DOMAIN bucket, Delim) : call.token = <<>> \/ Before(call.token, e)}
      BY DEF Rest
    <3>2. /\ Stayed \subseteq AllShown(call.dir, DOMAIN bucket, Delim)
          /\ AllShown(call.dir, DOMAIN bucket, Delim) \subseteq Appeared
      BY <2>4, ShowsMore DEF Stayed, Appeared
    <3> HIDE DEF R, y
    <3> QED BY <2>4, <3>1, <3>2
  <2>7. \A e \in R : call.token = <<>> \/ Before(call.token, e)
    BY DEF Rest
  <2> HIDE DEF l, R
  <2>8. /\ p \in Seq(R) /\ p \in Seq(Seq(Nat)) /\ DOMAIN p = 1..Len(p) /\ \A i \in DOMAIN p : p[i] \in R
        /\ InOrder(p) /\ Members(p) \subseteq R
    <3>1. /\ p \in Seq(R) /\ p \in Seq(Seq(Nat))
          /\ \A i, j \in 1..Len(p) : i < j => Before(p[i], p[j])
      BY <2>5 DEF IsPage
    <3>2. DOMAIN p = 1..Len(p) /\ \A i \in DOMAIN p : p[i] \in R
      BY <3>1, ElementOfSeq, LenProperties
    <3> QED BY <3>1, <3>2 DEF InOrder, Members
  <2>9. /\ l.token = <<>> => R \subseteq Members(p)
        /\ l.token # <<>> => /\ p # <<>> /\ l.token = p[Len(p)]
                             /\ \A e \in R \ Members(p) : Before(l.token, e)
    BY <2>5, <2>8 DEF IsPage, Members
  <2> HIDE DEF p, y
  <2>10. CASE call'.at = "done" /\ call'.res = "error" /\ call'.yielded = y
    BY <2>2, <2>3, <2>4, <2>10 DEF YieldInv, Done
  <2>11. CASE /\ p = <<>> /\ call'.at = "done" /\ call'.yielded = y
              /\ call'.res = IF Missing THEN "missing" ELSE "ok"
    <3>1. l.token = <<>> /\ Members(p) = {}
      BY <2>9, <2>11 DEF Members
    <3>2. Stayed \subseteq Members(y)
      BY <2>6, <2>9, <3>1
    <3>3. Missing => Members(y) = {}
      BY <2>4 DEF Missing, Members
    <3> QED BY <2>2, <2>3, <2>4, <2>11, <3>2, <3>3 DEF YieldInv, Done
  <2>12. CASE /\ call'.yielded = y \o p /\ call'.token = l.token /\ call'.hasContent = TRUE
              /\ call'.at = IF l.token = <<>> THEN "done" ELSE "list"
              /\ call'.res = IF l.token = <<>> THEN "ok" ELSE call.res
    <3>1. y # <<>> => \A i \in DOMAIN p : Before(y[Len(y)], p[i])
      <4> SUFFICES ASSUME y # <<>>, NEW i \in DOMAIN p PROVE Before(y[Len(y)], p[i])
        OBVIOUS
      <4>1. call.token = y[Len(y)] /\ y[Len(y)] \in Members(y)
        <5>1. Len(y) \in 1..Len(y) /\ DOMAIN y = 1..Len(y)
          BY <2>2, LenProperties, EmptySeq DEF y
        <5> QED BY <2>4, <5>1 DEF Members
      <4>2. call.token # <<>>
        <5>1. DOMAIN was \cup touched \subseteq Keys /\ call.dir \in Dirs /\ Delim \in BOOLEAN
          BY <1>0, <2>1 DEF TypeOK, IsBucket, ListCalls, Delim
        <5>2. <<>> \notin Appeared
          <6>1. \A k \in Under(call.dir, DOMAIN was \cup touched) :
                   Shown(call.dir, k, Delim) # <<>>
            BY <5>1, Constants, ShownIsKey DEF Under
          <6> HIDE DEF Shown
          <6> QED BY <6>1 DEF Appeared, AllShown
        <5> QED BY <2>4, <4>1, <5>2
      <4> QED BY <2>7, <2>8, <4>1, <4>2
    <3>2. y \in Seq(Seq(Nat))
      BY <2>2 DEF y
    <3> DEFINE q == y \o p
    <3>3. /\ InOrder(q) /\ Members(q) = Members(y) \cup Members(p)
          /\ p # <<>> => q # <<>> /\ q[Len(q)] = p[Len(p)]
      BY <2>4, <2>8, <3>1, <3>2, Appended
    <3> HIDE DEF q
    <3>4. Members(q) \subseteq Appeared
      BY <2>4, <2>6, <2>8, <3>3
    <3>5. call'.yielded = q
      BY <2>12 DEF q
    <3>6. CASE l.token = <<>>
      <4>1. Stayed \subseteq Members(q)
        BY <2>6, <2>9, <3>3, <3>6
      <4>2. call'.at = "done" /\ call'.res = "ok"
        BY <2>12, <3>6
      <4> QED BY <2>2, <2>3, <2>4, <3>3, <3>4, <3>5, <4>1, <4>2 DEF YieldInv, Done
    <3>7. CASE l.token # <<>>
      <4>1. \A e \in Stayed \ Members(q) : Before(l.token, e)
        BY <2>6, <2>9, <3>3, <3>7
      <4>2. call'.at = "list" /\ call'.token = q[Len(q)] /\ q # <<>> /\ call'.hasContent = TRUE
        BY <2>9, <2>12, <3>3, <3>7
      <4> QED BY <2>2, <2>3, <2>4, <2>12, <3>3, <3>4, <3>5, <4>1, <4>2 DEF YieldInv, Done
    <3> QED BY <3>6, <3>7
  <2> QED BY <1>0, <1>1, <2>2, <2>10, <2>11, <2>12, ListEffect DEF l, p, y
<1>2. ASSUME DeleteListed \/ PageDeleted PROVE YieldInv'
  <2>1. call.at = "delete" /\ SameList
    BY <1>0, <1>2, DeleteListedEffect, PageDeletedEffect
  <2> QED BY <1>a, <2>1 DEF YieldInv, Listing, SameList
<1>3. ASSUME HeadSource \/ CopyObject \/ CreateUpload \/ GoPart \/ (\E i \in 1..MaxParts + 1 : PartEnds(i))
             \/ EndUpload
      PROVE  YieldInv'
  <2>1. call' \in CopyCalls
    BY <1>0, <1>3, HeadSourceEffect, CopyObjectEffect, CreateUploadEffect, GoPartEffect, PartEndsEffect,
       EndUploadEffect
  <2> QED BY <1>a, <2>1 DEF CopyCalls, Listing
<1>4. ASSUME NEW d \in Targets, NEW s \in Targets, Copy(d, s) \/ MultiCopy(d, s) PROVE YieldInv'
  BY <1>4, <1>a, StartCopyEffect DEF CopyCalls, Listing
<1>5. ASSUME NEW d \in Dirs, RemoveAll(d) \/ DirEntries(d) \/ WalkFiles(d) PROVE YieldInv'
  <2>1. /\ call'.at = "list" /\ call'.token = <<>> /\ call'.yielded = <<>> /\ call'.hasContent = FALSE
        /\ was' = bucket' /\ touched' = {}
    BY <1>5, StartListEffect
  <2>2. InOrder(<<>>) /\ Members(<<>>) = {}
    BY DEF InOrder, Members
  <2> QED BY <2>1, <2>2 DEF YieldInv, Done
<1>6. ASSUME NEW k \in Targets, (\E n \in Sizes : Write(k, n)) \/ Remove(k) \/ OpenFile(k)
      PROVE  YieldInv'
  BY <1>6, <1>a, StartOtherEffect DEF Listing
<1>7. ASSUME CloseFile PROVE YieldInv'
  BY <1>7, <1>a, CloseFileEffect DEF FileCalls, Listing
<1>8. ASSUME Aside PROVE YieldInv'
  <2>1. /\ UNCHANGED <<call, was>> /\ touched \subseteq touched'
        /\ DOMAIN bucket \ touched' \subseteq DOMAIN bucket'
        /\ DOMAIN bucket' \ touched' \subseteq DOMAIN bucket
    BY <1>8, OtherEffect
  <2>2. Delim' = Delim /\ Listing' = Listing
    BY <2>1 DEF Delim, Listing
  <2>3. Stayed' \subseteq Stayed /\ Appeared \subseteq Appeared'
    <3>1. /\ DOMAIN was' \ touched' \subseteq DOMAIN was \ touched
          /\ DOMAIN was \cup touched \subseteq DOMAIN was' \cup touched'
      BY <2>1
    <3> QED BY <2>1, <2>2, <3>1, ShowsMore DEF Stayed, Appeared
  <2>4. /\ DOMAIN was \ touched \subseteq DOMAIN bucket => DOMAIN was \ touched' \subseteq DOMAIN bucket'
        /\ DOMAIN bucket \subseteq DOMAIN was \cup touched => DOMAIN bucket' \subseteq DOMAIN was \cup touched'
    BY <2>1
  <2> HIDE DEF Stayed, Appeared, Listing, Delim
  <2> QED BY <2>1, <2>2, <2>3, <2>4 DEF YieldInv, Done
<1> QED BY <1>1, <1>2, <1>3, <1>4, <1>5, <1>6, <1>7, <1>8 DEF Next, Aside

\* DirEntries and WalkFiles yield what stays in the directory, each entry once and over
\* all pages, and report only an empty directory as missing: for every bucket, page size,
\* and writes and removals of others between the requests.
THEOREM ListsEverything == Spec => []ListsAll
<1>1. Init => BaseInv /\ YieldInv
  <2>1. Init => YieldInv
    BY DEF Init, YieldInv, Listing
  <2> QED BY <2>1, BaseInductive
<1>2. BaseInv /\ YieldInv /\ [Next]_vars => BaseInv' /\ YieldInv'
  BY BaseStep, YieldStep
<1>3. BaseInv /\ YieldInv => ListsAll
  <2> SUFFICES ASSUME BaseInv, YieldInv, Listing, call.at = "done"
               PROVE  /\ Cardinality(Members(call.yielded)) = Len(call.yielded)
                      /\ Members(call.yielded) \subseteq Appeared
                      /\ call.res = "ok" => Stayed \subseteq Members(call.yielded)
                      /\ call.res = "missing" => Stayed = {} /\ Members(call.yielded) = {}
    BY DEF ListsAll, Listing, Members, Appeared, Stayed, Delim
  <2>1. call.yielded \in Seq(Seq(Nat))
    BY CallKinds DEF BaseInv, TypeOK, Listing, ListCalls
  <2> QED BY <2>1, InOrderOnce DEF YieldInv, Done
<1> QED BY <1>1, <1>2, <1>3, PTL DEF Spec
=============================================================================
