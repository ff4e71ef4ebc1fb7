--------------------------- MODULE SequenceLemmas ---------------------------
(***************************************************************************)
(* Facts about numbers and sequences that the proofs of several components *)
(* share.  Induction is over the members of a set: the theorems of the     *)
(* library that take a predicate as a parameter cannot be used, and that   *)
(* a set of naturals has a least element follows from the ones that do not.*)
(***************************************************************************)
EXTENDS Naturals, Sequences, SequenceTheorems, WellFoundedInduction, TLAPS

\* A set of natural numbers has a least element.
LEMMA LeastNat ==
    ASSUME NEW T, T \subseteq Nat, T # {}
    PROVE  \E m \in T : \A k \in T : m <= k
<1> DEFINE R == {r \in Nat \X Nat : r[1] < r[2]}
<1>1. IsWellFoundedOn(R, Nat)
  BY NatLessThanWellFounded DEF OpToRel
<1>2. PICK m \in T : \A y \in T : ~ (<<y, m>> \in R)
  <2> HIDE DEF R
  <2> QED BY <1>1, WFMin
<1>3. \A y \in T : ~ (y < m)
  BY <1>2
<1> QED BY <1>3

\* A set that has zero, and with each number the next one, has all up to n.
LEMMA IntervalInduction ==
    ASSUME NEW n \in Nat, NEW T, 0 \in T, \A i \in 1..n : i - 1 \in T => i \in T
    PROVE  \A i \in 0..n : i \in T
<1> DEFINE Rest == (0..n) \ T
<1> SUFFICES ASSUME Rest # {} PROVE FALSE
  OBVIOUS
<1>1. PICK m \in Rest : \A k \in Rest : m <= k
  <2> Rest \subseteq Nat
    OBVIOUS
  <2> HIDE DEF Rest
  <2> QED BY LeastNat
<1>2. m \in 1..n /\ m - 1 \notin Rest
  BY <1>1
<1> QED BY <1>1, <1>2

\* A function on 1..n is a sequence of length n.
LEMMA FunctionIsSeq ==
    ASSUME NEW S, NEW n \in Nat, NEW f \in [1..n -> S]
    PROVE  f \in Seq(S) /\ Len(f) = n
<1>1. f \in Seq(S)
  BY SeqDef
<1>2. Len(f) \in Nat /\ 1..Len(f) = 1..n
  BY <1>1, LenProperties
<1>3. \A a, b \in Nat : 1..a = 1..b => a = b
  <2> SUFFICES ASSUME NEW a \in Nat, NEW b \in Nat, a < b, 1..a = 1..b PROVE FALSE
    BY SMT
  <2>1. b \in 1..b /\ b \notin 1..a
    OBVIOUS
  <2> QED BY <2>1
<1> QED BY <1>1, <1>2, <1>3

\* The function that FlattenSeq of SequencesExt computes its result with, as a recursive
\* definition is defined.
Flattening(ss) ==
    CHOOSE g : g = [i \in 1..Len(ss) |-> IF i = 1 THEN ss[i] ELSE g[i - 1] \o ss[i]]

\* What it computes: ss[1], ss[1] \o ss[2], and so on up to all of ss.
LEMMA FlattenSteps ==
    ASSUME NEW S, NEW ss \in Seq(Seq(S)), ss # <<>>
    PROVE  \E f \in [0..Len(ss) -> Seq(S)] :
              /\ f[0] = <<>>
              /\ \A i \in 1..Len(ss) : f[i] = f[i - 1] \o ss[i]
              /\ Flattening(ss)[Len(ss)] = f[Len(ss)]
<1> DEFINE F == Flattening(ss)
           n == Len(ss)
           Step(g, i) == IF i = 1 THEN ss[i] ELSE g[i - 1] \o ss[i]
           Fits(m, g) == \A i \in 1..m : g[i] = Step(g, i)
           Some(m) == \E g \in [1..m -> Seq(S)] : Fits(m, g)
           T == {m \in 0..n : Some(m)}
<1>0. n \in Nat /\ n # 0 /\ \A i \in 1..n : ss[i] \in Seq(S)
  BY EmptySeq
<1>a. ASSUME NEW g, NEW i \in 1..n, i > 1 => g[i - 1] \in Seq(S)
      PROVE  Step(g, i) \in Seq(S)
  <2>1. CASE i = 1
    BY <2>1, <1>0
  <2>2. CASE i # 1
    <3>1. g[i - 1] \in Seq(S) /\ ss[i] \in Seq(S)
      BY <2>2, <1>0, <1>a
    <3>2. g[i - 1] \o ss[i] \in Seq(S)
      BY <3>1, ConcatProperties
    <3> QED BY <2>2, <3>2
  <2> QED BY <2>1, <2>2
<1>1. \A m \in 0..n : m \in T
  <2>1. 0 \in T
    <3>1. [i \in 1..0 |-> <<>>] \in [1..0 -> Seq(S)]
      OBVIOUS
    <3>2. \A g : Fits(0, g)
      OBVIOUS
    <3>3. Some(0)
      <4> HIDE DEF Fits
      <4> QED BY <3>1, <3>2
    <3> HIDE DEF Some
    <3> QED BY <1>0, <3>3
  <2>2. ASSUME NEW m \in 1..n, m - 1 \in T PROVE m \in T
    <3>1. PICK g \in [1..m - 1 -> Seq(S)] : Fits(m - 1, g)
      BY <2>2
    <3> DEFINE h == [i \in 1..m |-> IF i = m THEN Step(g, m) ELSE g[i]]
    <3>2. Step(g, m) \in Seq(S)
      <4>1. m > 1 => g[m - 1] \in Seq(S)
        OBVIOUS
      <4> HIDE DEF Step
      <4> QED BY <4>1, <1>a
    <3>3. h \in [1..m -> Seq(S)]
      <4> HIDE DEF Step
      <4> QED BY <3>2
    <3>4. ASSUME NEW i \in 1..m PROVE h[i] = Step(h, i)
      <4>1. CASE i = m
        BY <4>1
      <4>2. CASE i # m
        <5>1. i \in 1..m - 1 /\ h[i] = g[i] /\ (i # 1 => h[i - 1] = g[i - 1])
          BY <4>2
        <5> QED BY <5>1, <3>1
      <4> QED BY <4>1, <4>2
    <3> HIDE DEF h, Step
    <3>5. Fits(m, h)
      BY <3>4
    <3>6. Some(m)
      <4> HIDE DEF Fits
      <4> QED BY <3>3, <3>5
    <3> HIDE DEF Some
    <3> QED BY <1>0, <3>6
  <2> HIDE DEF T
  <2> QED BY <1>0, <2>1, <2>2, IntervalInduction
<1>2. PICK g \in [1..n -> Seq(S)] : Fits(n, g)
  <2>1. Some(n)
    <3> HIDE DEF Some
    <3> QED BY <1>0, <1>1
  <2> HIDE DEF Fits
  <2> QED BY <2>1
<1>3. F = CHOOSE k : k = [i \in 1..n |-> Step(k, i)]
  BY DEF Flattening
<1> HIDE DEF n, F
<1>4. g = [i \in 1..n |-> Step(g, i)]
  <2> HIDE DEF Step
  <2> QED BY <1>2
<1>5. F = [i \in 1..n |-> Step(F, i)]
  <2> HIDE DEF Step
  <2> QED BY <1>3, <1>4
<1>6. \A i \in 1..n : F[i] = Step(F, i)
  <2> HIDE DEF Step
  <2> QED BY <1>5
<1> DEFINE U == {0} \cup {i \in 1..n : F[i] \in Seq(S)}
<1>7. \A i \in 0..n : i \in U
  <2>1. ASSUME NEW i \in 1..n, i - 1 \in U PROVE i \in U
    <3>1. i > 1 => F[i - 1] \in Seq(S)
      BY <2>1
    <3>2. F[i] \in Seq(S)
      <4> HIDE DEF Step
      <4> QED BY <1>6, <1>a, <3>1
    <3> QED BY <3>2
  <2>2. 0 \in U
    OBVIOUS
  <2> HIDE DEF U
  <2> QED BY <1>0, <2>1, <2>2, IntervalInduction
<1> DEFINE f == [i \in 0..n |-> IF i = 0 THEN <<>> ELSE F[i]]
<1>8. f \in [0..n -> Seq(S)]
  <2>1. ASSUME NEW i \in 1..n PROVE F[i] \in Seq(S)
    <3>1. i \in U /\ i # 0
      <4> HIDE DEF U
      <4> QED BY <1>0, <1>7
    <3> QED BY <3>1
  <2>2. <<>> \in Seq(S)
    BY EmptySeq
  <2>3. ASSUME NEW i \in 0..n PROVE (IF i = 0 THEN <<>> ELSE F[i]) \in Seq(S)
    <3>1. CASE i = 0
      BY <3>1, <2>2
    <3>2. CASE i # 0
      <4>1. i \in 1..n
        BY <3>2, <1>0
      <4>2. F[i] \in Seq(S)
        BY <4>1, <2>1
      <4> QED BY <3>2, <4>2
    <3> QED BY <3>1, <3>2
  <2> QED BY <2>3
<1>9. f[0] = <<>> /\ F[n] = f[n]
  BY <1>0
<1>10. ASSUME NEW i \in 1..n PROVE f[i] = f[i - 1] \o ss[i]
  <2>1. CASE i = 1
    <3>1. f[i] = F[i] /\ f[i - 1] = <<>> /\ ss[i] \in Seq(S)
      BY <2>1, <1>0
    <3>2. <<>> \o ss[i] = ss[i]
      BY <3>1, ConcatEmptySeq
    <3>3. F[i] = ss[i]
      BY <2>1, <1>6
    <3> QED BY <3>1, <3>2, <3>3
  <2>2. CASE i # 1
    <3>1. f[i] = F[i] /\ f[i - 1] = F[i - 1]
      BY <2>2, <1>0
    <3> QED BY <2>2, <3>1, <1>6
  <2> QED BY <2>1, <2>2
<1> HIDE DEF f
<1> QED BY <1>8, <1>9, <1>10 DEF n, F

\* The members of a sequence.
Members(s) == {s[i] : i \in DOMAIN s}

\* What the concatenation q of s and t has at each place.
IsConcat(q, s, t) ==
    /\ Len(q) = Len(s) + Len(t)
    /\ \A i \in DOMAIN s : i \in DOMAIN q /\ q[i] = s[i]
    /\ \A i \in DOMAIN t : Len(s) + i \in DOMAIN q /\ q[Len(s) + i] = t[i]
    /\ \A i \in DOMAIN q : i \in DOMAIN s \/ \E j \in DOMAIN t : i = Len(s) + j

\* A concatenation has its two sequences one behind the other.
LEMMA ConcatPlaces ==
    ASSUME NEW S, NEW s \in Seq(S), NEW t \in Seq(S)
    PROVE  IsConcat(s \o t, s, t)
<1> DEFINE q == s \o t
           m == Len(s)
           n == Len(t)
<1>1. m \in Nat /\ DOMAIN s = 1..m /\ n \in Nat /\ DOMAIN t = 1..n
  BY LenProperties
<1>2. q \in Seq(S) /\ Len(q) = m + n /\ \A i \in 1..m + n : q[i] = IF i <= m THEN s[i] ELSE t[i - m]
  BY ConcatProperties
<1>3. DOMAIN q = 1..m + n
  BY <1>2, LenProperties
<1>4. \A i \in 1..m : i \in 1..m + n /\ i <= m
  BY <1>1
<1>5. \A i \in 1..n : m + i \in 1..m + n /\ ~(m + i <= m) /\ (m + i) - m = i
  BY <1>1
<1>6. ASSUME NEW i \in 1..m + n, i \notin 1..m PROVE \E j \in 1..n : i = m + j
  <2>1. i - m \in 1..n /\ i = m + (i - m)
    BY <1>1, <1>6
  <2> QED BY <2>1
<1> HIDE DEF q, m, n
<1>7. /\ \A i \in 1..m : i \in DOMAIN q /\ q[i] = s[i]
      /\ \A i \in 1..n : m + i \in DOMAIN q /\ q[m + i] = t[i]
      /\ \A i \in DOMAIN q : i \in 1..m \/ \E j \in 1..n : i = m + j
  BY <1>1, <1>2, <1>3, <1>4, <1>5, <1>6
<1>8. Len(q) = Len(s) + Len(t) /\ DOMAIN s = 1..m /\ DOMAIN t = 1..n /\ m = Len(s)
  BY <1>1, <1>2 DEF m, n
<1> QED BY <1>7, <1>8 DEF IsConcat, q

\* A concatenation has the members of both sequences.
LEMMA ConcatMembers ==
    ASSUME NEW S, NEW s \in Seq(S), NEW t \in Seq(S)
    PROVE  Members(s \o t) = Members(s) \cup Members(t)
<1> DEFINE q == s \o t
<1>1. IsConcat(q, s, t)
  BY ConcatPlaces
<1> HIDE DEF q
<1>2. Members(q) = Members(s) \cup Members(t)
  BY <1>1 DEF Members, IsConcat
<1> QED BY <1>2 DEF q

\* A sequence that is not empty has its head and the members of its tail.
LEMMA HeadTailMembers ==
    ASSUME NEW S, NEW s \in Seq(S), s # <<>>
    PROVE  /\ Head(s) \in S /\ Tail(s) \in Seq(S) /\ Head(s) = s[1]
           /\ Members(s) = {Head(s)} \cup Members(Tail(s))
<1> DEFINE t == Tail(s)
           n == Len(s)
<1>1. n \in Nat /\ n >= 1 /\ DOMAIN s = 1..n
  BY EmptySeq, LenProperties
<1>2. Head(s) \in S /\ t \in Seq(S) /\ Head(s) = s[1]
  BY HeadTailProperties
<1>3. DOMAIN t = 1..n - 1 /\ \A i \in DOMAIN t : t[i] = s[i + 1]
  BY HeadTailProperties, LenProperties
<1> HIDE DEF t, n
<1>4. \A i \in DOMAIN t : i + 1 \in DOMAIN s /\ t[i] = s[i + 1]
  BY <1>1, <1>3
<1>5. \A i \in DOMAIN s : i = 1 \/ \E j \in DOMAIN t : t[j] = s[i]
  <2> SUFFICES ASSUME NEW i \in DOMAIN s, i # 1 PROVE \E j \in DOMAIN t : t[j] = s[i]
    OBVIOUS
  <2>1. i - 1 \in DOMAIN t /\ i - 1 + 1 = i
    BY <1>1, <1>3
  <2> QED BY <1>3, <2>1
<1>6. 1 \in DOMAIN s
  BY <1>1
<1>7. Members(s) = {Head(s)} \cup Members(t)
  BY <1>2, <1>4, <1>5, <1>6 DEF Members
<1> QED BY <1>2, <1>7 DEF t

\* A flattened sequence has the members of the sequences it is made of.
LEMMA FlattenMembers ==
    ASSUME NEW S, NEW ss \in Seq(Seq(S)), ss # <<>>
    PROVE  /\ Flattening(ss)[Len(ss)] \in Seq(S)
           /\ Members(Flattening(ss)[Len(ss)]) = UNION {Members(ss[i]) : i \in DOMAIN ss}
<1> DEFINE n == Len(ss)
           Upto(m) == UNION {Members(ss[i]) : i \in 1..m}
<1>0. n \in Nat /\ n # 0 /\ DOMAIN ss = 1..n /\ \A i \in 1..n : ss[i] \in Seq(S)
  BY EmptySeq
<1>1. PICK f \in [0..n -> Seq(S)] :
              /\ f[0] = <<>>
              /\ \A i \in 1..n : f[i] = f[i - 1] \o ss[i]
              /\ Flattening(ss)[n] = f[n]
  BY FlattenSteps
<1> HIDE DEF n
<1> DEFINE T == {m \in 0..n : Members(f[m]) = Upto(m)}
<1>2. 0 \in T
  <2>1. Members(<<>>) = {}
    BY DEF Members
  <2>2. Upto(0) = {}
    OBVIOUS
  <2>3. 0 \in 0..n /\ Members(f[0]) = {}
    BY <1>0, <1>1, <2>1
  <2> HIDE DEF Upto
  <2> QED BY <2>2, <2>3
<1>3. ASSUME NEW m \in 1..n, m - 1 \in T PROVE m \in T
  <2>1. m - 1 \in 0..n /\ m \in 0..n /\ f[m - 1] \in Seq(S) /\ ss[m] \in Seq(S)
    <3>1. m - 1 \in 0..n /\ m \in 0..n
      BY <1>0
    <3> QED BY <1>0, <3>1
  <2>2. Members(f[m]) = Members(f[m - 1]) \cup Members(ss[m])
    <3>1. f[m] = f[m - 1] \o ss[m]
      BY <1>1
    <3> QED BY <2>1, <3>1, ConcatMembers
  <2>3. 1..m = 1..m - 1 \cup {m}
    BY <1>0
  <2>4. Upto(m) = Upto(m - 1) \cup Members(ss[m])
    BY <2>3
  <2>5. Members(f[m - 1]) = Upto(m - 1)
    BY <1>3
  <2> HIDE DEF Upto
  <2> QED BY <2>1, <2>2, <2>4, <2>5
<1> HIDE DEF T
<1>4. \A m \in 0..n : m \in T
  BY <1>0, <1>2, <1>3, IntervalInduction
<1>5. n \in 0..n /\ Members(f[n]) = Upto(n)
  BY <1>0, <1>4 DEF T
<1> QED BY <1>0, <1>1, <1>5 DEF n

-----------------------------------------------------------------------------
(* The order of sequences of numbers *)

\* Two sequences of numbers agree up to n exactly when their first n members are the same.
LEMMA PrefixEq ==
    ASSUME NEW j \in Seq(Nat), NEW k \in Seq(Nat), NEW n \in Nat, n <= Len(j), n <= Len(k)
    PROVE  SubSeq(j, 1, n) = SubSeq(k, 1, n) <=> \A h \in 1..n : j[h] = k[h]
<1>0. /\ Len(j) \in Nat /\ \A h \in 1..Len(j) : j[h] \in Nat
      /\ Len(k) \in Nat /\ \A h \in 1..Len(k) : k[h] \in Nat
  BY LenProperties, ElementOfSeq
<1> DEFINE a == SubSeq(j, 1, n)
           b == SubSeq(k, 1, n)
<1>1. /\ a \in Seq(Nat) /\ Len(a) = n /\ \A h \in 1..n : a[h] = j[h]
  <2>1. \A i \in 1..n : j[i] \in Nat
    BY <1>0
  <2> QED BY <2>1, SubSeqProperties, Z3
<1>2. /\ b \in Seq(Nat) /\ Len(b) = n /\ \A h \in 1..n : b[h] = k[h]
  <2>1. \A i \in 1..n : k[i] \in Nat
    BY <1>0
  <2> QED BY <2>1, SubSeqProperties, Z3
<1> HIDE DEF a, b
<1>3. (\A h \in 1..n : a[h] = b[h]) <=> a = b
  BY <1>1, <1>2, SeqEqual
<1> QED BY <1>1, <1>2, <1>3 DEF a, b

\* Sequence j comes before k at place i: they agree up to there, where j has ended or has
\* the smaller member.
LexAt(j, k, i) ==
    /\ i <= Len(k) /\ i <= Len(j) + 1
    /\ \A h \in 1..i - 1 : j[h] = k[h]
    /\ i = Len(j) + 1 \/ j[i] < k[i]

\* The order of sequences of numbers, member by member.
LexBefore(j, k) == \E i \in Nat \ {0} : LexAt(j, k, i)

\* The same order as the models write it.
ByPrefixes(j, k) ==
    \/ Len(j) <= Len(k) /\ SubSeq(j, 1, Len(j)) = SubSeq(k, 1, Len(j)) /\ j # k
    \/ \E i \in DOMAIN j \cap DOMAIN k : SubSeq(j, 1, i - 1) = SubSeq(k, 1, i - 1) /\ j[i] < k[i]

\* It is the order by prefixes: j is a prefix of k, or has the smaller member behind a
\* prefix that both have.
LEMMA LexByPrefixes ==
    ASSUME NEW j \in Seq(Nat), NEW k \in Seq(Nat)
    PROVE  ByPrefixes(j, k) <=> LexBefore(j, k)
<1>0. /\ Len(j) \in Nat /\ DOMAIN j = 1..Len(j)
      /\ Len(k) \in Nat /\ DOMAIN k = 1..Len(k)
  BY LenProperties
<1>1. ASSUME Len(j) <= Len(k), SubSeq(j, 1, Len(j)) = SubSeq(k, 1, Len(j)), j # k
      PROVE  LexAt(j, k, Len(j) + 1)
  <2>1. Len(j) <= Len(k) /\ SubSeq(j, 1, Len(j)) = SubSeq(k, 1, Len(j)) /\ j # k
    BY <1>1
  <2>2. \A h \in 1..Len(j) : j[h] = k[h]
    BY <2>1, <1>0, PrefixEq
  <2>3. Len(j) # Len(k)
    BY <2>1, <2>2, SeqEqual
  <2>4. (Len(j) + 1) - 1 = Len(j) /\ Len(j) + 1 <= Len(k)
    <3>1. Len(j) <= Len(k)
      BY <2>1
    <3>2. \A x, y \in Nat : x # y /\ x <= y => (x + 1) - 1 = x /\ x + 1 <= y
      OBVIOUS
    <3>3. Len(j) \in Nat /\ Len(k) \in Nat
      BY <1>0
    <3> QED BY <2>3, <3>1, <3>2, <3>3
  <2> QED BY <2>2, <2>4, <1>0 DEF LexAt
<1>2. ASSUME NEW i \in DOMAIN j \cap DOMAIN k,
             SubSeq(j, 1, i - 1) = SubSeq(k, 1, i - 1), j[i] < k[i]
      PROVE  LexAt(j, k, i)
  <2>1. i - 1 \in Nat /\ i - 1 <= Len(j) /\ i - 1 <= Len(k)
    BY <1>0
  <2>2. \A h \in 1..i - 1 : j[h] = k[h]
    BY <1>2, <2>1, PrefixEq
  <2> QED BY <1>0, <1>2, <2>2 DEF LexAt
<1>3. ASSUME NEW i \in Nat \ {0}, LexAt(j, k, i)
      PROVE  ByPrefixes(j, k)
  <2>0. i - 1 \in Nat /\ i - 1 <= Len(j) /\ i - 1 <= Len(k)
    BY <1>0, <1>3 DEF LexAt
  <2>1. SubSeq(j, 1, i - 1) = SubSeq(k, 1, i - 1)
    BY <2>0, <1>3, PrefixEq DEF LexAt
  <2>2. CASE i = Len(j) + 1
    <3>1. Len(j) < Len(k) /\ SubSeq(j, 1, Len(j)) = SubSeq(k, 1, Len(j))
      BY <1>0, <1>3, <2>1, <2>2 DEF LexAt
    <3> QED BY <3>1, <1>0 DEF ByPrefixes
  <2>3. CASE i # Len(j) + 1
    <3>1. i \in DOMAIN j \cap DOMAIN k /\ j[i] < k[i]
      BY <1>0, <1>3, <2>3 DEF LexAt
    <3> QED BY <3>1, <2>1 DEF ByPrefixes
  <2> QED BY <2>2, <2>3
<1> QED BY <1>0, <1>1, <1>2, <1>3, SMTT(30) DEF ByPrefixes, LexBefore

\* No sequence comes before itself.
LEMMA LexIrreflexive ==
    ASSUME NEW j \in Seq(Nat)
    PROVE  ~ LexBefore(j, j)
<1> SUFFICES ASSUME NEW i \in Nat \ {0}, LexAt(j, j, i) PROVE FALSE
  BY DEF LexBefore
<1>1. Len(j) \in Nat /\ \A h \in 1..Len(j) : j[h] \in Nat
  BY LenProperties, ElementOfSeq
<1> QED BY <1>1 DEF LexAt

\* The order is transitive.
LEMMA LexTransitive ==
    ASSUME NEW j \in Seq(Nat), NEW k \in Seq(Nat), NEW m \in Seq(Nat),
           LexBefore(j, k), LexBefore(k, m)
    PROVE  LexBefore(j, m)
<1>0. /\ Len(j) \in Nat /\ \A h \in 1..Len(j) : j[h] \in Nat
      /\ Len(k) \in Nat /\ \A h \in 1..Len(k) : k[h] \in Nat
      /\ Len(m) \in Nat /\ \A h \in 1..Len(m) : m[h] \in Nat
  BY LenProperties, ElementOfSeq
<1>1. PICK a \in Nat \ {0} : LexAt(j, k, a)
  BY DEF LexBefore
<1>2. PICK b \in Nat \ {0} : LexAt(k, m, b)
  BY DEF LexBefore
<1>3. CASE a <= b
  <2>1. /\ a <= Len(k) /\ a <= Len(j) + 1 /\ (a = Len(j) + 1 \/ j[a] < k[a])
        /\ b <= Len(m) /\ (b = Len(k) + 1 \/ k[b] < m[b])
    BY <1>1, <1>2 DEF LexAt
  <2>2. \A h \in 1..a - 1 : j[h] = m[h]
    BY <1>1, <1>2, <1>3 DEF LexAt
  <2>3. a <= Len(m)
    BY <1>0, <1>3, <2>1
  <2>4. ASSUME a # Len(j) + 1 PROVE j[a] < m[a]
    <3>1. j[a] < k[a] /\ j[a] \in Nat /\ k[a] \in Nat /\ m[a] \in Nat
      <4>1. a \in 1..Len(j) /\ a \in 1..Len(k) /\ a \in 1..Len(m)
        <5>1. \A x \in Nat \ {0}, n \in Nat : x <= n + 1 /\ x # n + 1 => x \in 1..n
          OBVIOUS
        <5>2. \A x \in Nat \ {0}, n \in Nat : x <= n => x \in 1..n
          OBVIOUS
        <5>3. /\ Len(j) \in Nat /\ Len(k) \in Nat /\ Len(m) \in Nat
              /\ a <= Len(k) /\ a <= Len(j) + 1
          BY <1>0, <2>1
        <5> QED BY <2>3, <2>4, <5>1, <5>2, <5>3
      <4> QED BY <1>0, <2>1, <2>4, <4>1
    <3>2. k[a] = m[a] \/ k[a] < m[a]
      <4>1. CASE a = b
        BY <4>1, <1>0, <2>1
      <4>2. CASE a # b
        BY <4>2, <1>2, <1>3 DEF LexAt
      <4> QED BY <4>1, <4>2
    <3> QED BY <3>1, <3>2
  <2>5. LexAt(j, m, a)
    BY <2>1, <2>2, <2>3, <2>4 DEF LexAt
  <2> QED BY <2>5 DEF LexBefore
<1>4. CASE b < a
  <2>1. /\ a <= Len(j) + 1 /\ b <= Len(m) /\ b <= Len(k) + 1 /\ (b = Len(k) + 1 \/ k[b] < m[b])
        /\ a <= Len(k)
    BY <1>1, <1>2 DEF LexAt
  <2>2. \A h \in 1..b - 1 : j[h] = k[h] /\ k[h] = m[h]
    <3>1. \A h \in 1..b - 1 : h \in 1..a - 1
      BY <1>4
    <3> QED BY <1>1, <1>2, <3>1 DEF LexAt
  <2>3. b <= Len(j) + 1 /\ b # Len(k) + 1 /\ b \in 1..a - 1
    <3>1. Len(j) \in Nat /\ Len(k) \in Nat /\ a <= Len(j) + 1 /\ a <= Len(k)
      BY <1>0, <2>1
    <3>2. \A x, y \in Nat \ {0}, p, q \in Nat :
              y < x /\ x <= p + 1 /\ x <= q => y <= p + 1 /\ y # q + 1 /\ y \in 1..x - 1
      OBVIOUS
    <3> QED BY <1>4, <3>1, <3>2
  <2>4. j[b] < m[b]
    BY <1>1, <2>1, <2>3 DEF LexAt
  <2>5. LexAt(j, m, b)
    BY <2>1, <2>2, <2>3, <2>4 DEF LexAt
  <2> QED BY <2>5 DEF LexBefore
<1> QED BY <1>3, <1>4

\* Any two different sequences are in order.
LEMMA LexTotal ==
    ASSUME NEW j \in Seq(Nat), NEW k \in Seq(Nat), j # k
    PROVE  LexBefore(j, k) \/ LexBefore(k, j)
<1>0. /\ Len(j) \in Nat /\ \A h \in 1..Len(j) : j[h] \in Nat
      /\ Len(k) \in Nat /\ \A h \in 1..Len(k) : k[h] \in Nat
  BY LenProperties, ElementOfSeq
<1> DEFINE D == {h \in Nat \ {0} : h <= Len(j) /\ h <= Len(k) /\ j[h] # k[h]}
<1>1. CASE D = {}
  <2>1. \A h \in 1..Len(j) : h <= Len(k) => j[h] = k[h]
    BY <1>0, <1>1
  <2>2. Len(j) # Len(k)
    BY <2>1, <1>0, SeqEqual
  <2>3. CASE Len(j) < Len(k)
    <3>1. LexAt(j, k, Len(j) + 1)
      BY <1>0, <2>1, <2>3 DEF LexAt
    <3> QED BY <1>0, <3>1 DEF LexBefore
  <2>4. CASE Len(k) < Len(j)
    <3>1. LexAt(k, j, Len(k) + 1)
      BY <1>0, <2>1, <2>4 DEF LexAt
    <3> QED BY <1>0, <3>1 DEF LexBefore
  <2> QED BY <1>0, <2>2, <2>3, <2>4
<1>2. CASE D # {}
  <2>1. PICK d \in D : \A h \in D : d <= h
    <3>1. D \subseteq Nat
      OBVIOUS
    <3> HIDE DEF D
    <3> QED BY <1>2, <3>1, LeastNat
  <2>2. /\ d \in Nat \ {0} /\ d <= Len(j) /\ d <= Len(k) /\ j[d] # k[d]
        /\ \A h \in 1..d - 1 : j[h] = k[h]
    <3>1. d \in Nat \ {0} /\ d <= Len(j) /\ d <= Len(k) /\ j[d] # k[d]
      OBVIOUS
    <3>2. ASSUME NEW h \in 1..d - 1 PROVE j[h] = k[h]
      <4>1. h \in Nat \ {0} /\ h <= Len(j) /\ h <= Len(k) /\ ~ (d <= h)
        BY <1>0, <3>1
      <4>2. h \notin D
        <5> HIDE DEF D
        <5> QED BY <2>1, <4>1
      <4> QED BY <4>1, <4>2
    <3> QED BY <3>1, <3>2
  <2>3. LexAt(j, k, d) \/ LexAt(k, j, d)
    BY <1>0, <2>2 DEF LexAt
  <2> QED BY <2>2, <2>3 DEF LexBefore
<1> QED BY <1>1, <1>2
=============================================================================
