------------------------- MODULE ObjectUpdateProofs -------------------------
(***************************************************************************)
(* What holds of an object for every set of stages and however often its   *)
(* processes die: whatever can be opened is whole, an acknowledged update  *)
(* stays, and once every update is finished or reverted the object is      *)
(* valid.                                                                  *)
(***************************************************************************)
EXTENDS ObjectUpdate, InventoryProofs

-----------------------------------------------------------------------------
(* The inductive invariant *)

\* What is known of an inventory that an object had or gets.
Good(i) ==
    /\ IsInventory(i)
    /\ i = Nil \/ ValidInventory(i)
    /\ InVersionDirs(i)
    /\ \A v \in DOMAIN i.versions : Normalize(i.versions[v]) = i.versions[v]

\* The files of inventory i are files of inventory j.
FilesWithin(i, j) ==
    /\ PathSet(i.manifest) \subseteq PathSet(j.manifest)
    /\ \A p \in PathSet(i.manifest) : Sums(j.manifest)[p] = Sums(i.manifest)[p]

\* next adds one version to prev, with new content in its own directory only.
Follows(prev, next) ==
    /\ Good(next) /\ next # Nil
    /\ next.head.num = prev.head.num + 1
    /\ DOMAIN next.versions = DOMAIN prev.versions \cup {next.head}
    /\ \A v \in DOMAIN prev.versions : next.versions[v] = prev.versions[v]
    /\ FilesWithin(prev, next)
    /\ \A p \in PathSet(next.manifest) \ PathSet(prev.manifest) : InVersionDir(p, next.head.num)

\* The fields of a directory.
IsDir(d) ==
    d = [decls |-> d.decls, inv |-> d.inv, side |-> d.side, vinv |-> d.vinv, vside |-> d.vside,
         content |-> d.content, strays |-> d.strays, exts |-> d.exts]

\* The inventory that the sidecar stands for is the one the object has for its readers.
\* Its files are all there, and inventory.json is ahead of it only in an update.
DirOk(d, begun) ==
    /\ IsDir(d)
    /\ Good(d.side)
    /\ HasContentOf(d, d.side)
    /\ d.inv = d.side \/ (begun # Nil /\ d.inv = begun)
    /\ begun = Nil \/ begun = d.side \/ Follows(d.side, begun)

\* What the completed steps of plan p have left in the directory.
Effects(p, d) ==
    \A j \in 1 .. p.done :
        /\ p.steps[j].op = "copy" =>
              /\ p.steps[j].arg \in DOMAIN d.content
              /\ d.content[p.steps[j].arg] = Sums(p.next.manifest)[p.steps[j].arg]
        /\ p.steps[j].op = "rootInventory" => d.inv = p.next

PlanRec(base, next, steps, done, call, own) ==
    [base |-> base, next |-> next, steps |-> steps, done |-> done, call |-> call, own |-> own]

IsPlan(p) == p = PlanRec(p.base, p.next, p.steps, p.done, p.call, p.own)

\* A plan, in memory or saved, is for the object as it is or as it was earlier; if any of
\* its steps ran and the object is still the one it was made for, it is the one begun.
PlanOk(p, d, begun) ==
    /\ IsPlan(p)
    /\ p # NoPlan =>
          /\ Good(p.base) /\ Follows(p.base, p.next)
          /\ p.steps = NewPlanSteps(p.base, p.next) /\ p.done \in 0 .. Len(p.steps)
          /\ p.base.head.num <= d.side.head.num
          /\ p.base.head.num = d.side.head.num => p.base = d.side
          /\ p.done > 0 /\ p.base = d.side => begun = p.next
          /\ p.base = d.side /\ p.next = begun => Effects(p, d)

\* What a call of Apply or Revert may rely on.
CallOk(p, kept, d, begun) ==
    /\ p # NoPlan =>
          /\ p.call \in {"none", "apply", "revert"}
          /\ p.call = "none" => p.done < Len(p.steps) /\ (p.own => p.base = d.side)
          /\ p.call = "apply" =>
                /\ begun = p.next
                /\ \/ p.base = d.side /\ p.done < Len(p.steps)
                   \/ p.next = d.side /\ p.done = Len(p.steps)
          /\ p.call = "revert" =>
                /\ p.own /\ kept = NoPlan
                /\ p.base = d.side /\ p.done < Len(p.steps)
          /\ p.own /\ d.inv # d.side => p.done >= Len(p.steps) - 1
    /\ kept # NoPlan => kept.call = "none" /\ kept.done < Len(kept.steps)

\* Apply has run its last step and not yet returned.
Completed(p) == p # NoPlan /\ p.call = "apply" /\ p.done = Len(p.steps)

\* A handle that may be used for updates has the inventory of the sidecar or one that no
\* plan is for, except between the last step of Apply and its return.
HandleOk(h, p, d) ==
    LET readOnly == Exists(h.inv) /\ ~h.isRoot
    IN  /\ h = [open |-> h.open, inv |-> h.inv, isRoot |-> h.isRoot, checked |-> h.checked]
        /\ ~ h.open => h = Closed
        /\ h.checked => ~ readOnly /\ (h.inv = d.side \/ Completed(p))
        /\ h.open /\ ~ readOnly =>
              h.inv = d.side \/ h.inv.head.num > d.side.head.num \/ Completed(p)

\* The acknowledged versions are in the inventory of the sidecar.
AckOk(done, d) ==
    \A a \in done :
        /\ a.head \in DOMAIN d.side.versions
        /\ d.side.versions[a.head] = a.versions[a.head]
        /\ FilesWithin(a, d.side)

\* What holds of an object that storage has not damaged.
ObjectOk ==
    /\ DirOk(dir, inflight)
    /\ PlanOk(plan, dir, inflight)
    /\ PlanOk(saved, dir, inflight)
    /\ CallOk(plan, saved, dir, inflight)
    /\ HandleOk(handle, plan, dir)
    /\ AckOk(acked, dir)

\* The inductive invariant.
ObjectInv == ~ rotted => ObjectOk

-----------------------------------------------------------------------------
(* Inventories *)

\* The parts of a sound inventory that the steps of an update use.
LEMMA GoodFacts ==
    ASSUME NEW i, Good(i)
    PROVE  /\ i.head.num \in Nat /\ i # Garbled
           /\ i # Nil => i.head.num > 0 /\ i.head \in DOMAIN i.versions
           /\ i.head.num = 0 => i = Nil
           /\ \A v \in DOMAIN i.versions : v.num \in Nat /\ v.num <= i.head.num
           /\ PathSet(i.manifest) \subseteq Path
<1>1. i.head.num \in Nat
  BY DEF Good, IsInventory, VNum
<1>2. PathSet(i.manifest) \subseteq Path
  BY PathSetFinite DEF Good, IsInventory
<1>3. Nil # Garbled /\ Garbled.head.num = 0
  <2>1. "id" \in DOMAIN Nil /\ "head" \in DOMAIN Nil /\ Nil.id = "" /\ Nil.head = V(0, 0)
    BY DEF Nil
  <2>2. Garbled.id = "garbled" /\ Garbled.head = V(0, 0)
    BY <2>1 DEF Garbled
  <2>3. V(0, 0).num = 0
    BY DEF V
  <2> QED BY <2>1, <2>2, <2>3
<1>4. CASE i = Nil
  <2>1. i.versions = <<>>
    BY <1>4 DEF Nil
  <2>2. DOMAIN i.versions = {}
    BY <2>1
  <2> QED BY <1>1, <1>2, <1>3, <1>4, <2>2
<1>5. CASE i # Nil
  <2>1. /\ i.head \in DOMAIN i.versions /\ i.head.num > 0
        /\ \A v \in DOMAIN i.versions : v.num \in 1..i.head.num
    BY <1>5, HeadIsLast DEF Good
  <2> QED BY <1>1, <1>2, <1>3, <1>5, <2>1
<1> QED BY <1>4, <1>5

\* The inventory of an object that does not exist yet is sound: it names no file.
LEMMA NilIsGood == Good(Nil) /\ Nil.head.num = 0 /\ PathSet(Nil.manifest) = {} /\ DOMAIN Nil.versions = {}
<1>1. Nil.manifest = <<>> /\ Nil.versions = <<>> /\ Nil.head = V(0, 0)
  BY DEF Nil
<1>2. V(0, 0) \in VNum /\ V(0, 0).num = 0
  BY DEF V, VNum
<1>3. IsDigestMap(<<>>)
  BY FS_EmptySet DEF IsDigestMap
<1>4. PathSet(<<>>) = {}
  BY DEF PathSet
<1>5. IsInventory(Nil)
  BY <1>1, <1>2, <1>3, FS_EmptySet DEF IsInventory
<1> QED BY <1>1, <1>2, <1>4, <1>5 DEF Good, InVersionDirs

\* What NewUpdatePlan builds follows the inventory it starts from.
LEMMA NextFollows ==
    ASSUME NEW prev, Good(prev), NEW id, NEW spec, NEW fixity,
           NEW state, IsDigestMap(state), NEW alg, NEW next,
           next = Finalize(UpdateBuilder(prev, id, spec, 0, Identity, fixity, state, alg)),
           Exists(next)
    PROVE  Follows(prev, next)
<1>1. IsMutation(Identity) /\ 0 \in Nat /\ IsInventory(prev)
  BY DEF IsMutation, Identity, Good
<1>3. Valid(state) /\ \A v \in DOMAIN prev.versions : Valid(prev.versions[v])
  BY FinalizeOne
<1>2. Extends(prev, next, state) /\ AddsInside(prev, next)
  BY <1>1, <1>3, IdentityInside, UpdateExtends
<1>4. prev.head.num \in Nat /\ next.head.num = prev.head.num + 1
  BY <1>2, GoodFacts DEF Extends
<1>5. \A v \in DOMAIN prev.versions : v # next.head
  BY <1>4, GoodFacts
<1>6. \A v \in DOMAIN prev.versions : next.versions[v] = prev.versions[v]
  BY <1>2, <1>5 DEF Extends, Good
<1>7. ASSUME NEW v \in DOMAIN next.versions PROVE Normalize(next.versions[v]) = next.versions[v]
  <2>1. CASE v = next.head
    <3>1. Normalize(Normalize(state)) = Normalize(state)
      BY <1>3, NormalizeTwice
    <3> QED BY <1>2, <2>1, <3>1 DEF Extends
  <2>2. CASE v # next.head
    BY <1>2, <1>6, <2>2 DEF Extends, Good
  <2> QED BY <2>1, <2>2
<1>8. InVersionDirs(next)
  <2> SUFFICES ASSUME NEW p \in PathSet(next.manifest)
               PROVE  \E n \in 1..next.head.num : InVersionDir(p, n)
    BY DEF InVersionDirs
  <2>1. CASE p \in PathSet(prev.manifest)
    <3>1. PICK n \in 1..prev.head.num : InVersionDir(p, n)
      BY <2>1 DEF Good, InVersionDirs
    <3>2. n \in 1..next.head.num
      BY <1>4, <3>1
    <3> QED BY <3>1, <3>2
  <2>2. CASE p \notin PathSet(prev.manifest)
    <3>1. InVersionDir(p, next.head.num)
      BY <1>2, <2>2 DEF AddsInside
    <3>2. next.head.num \in 1..next.head.num
      BY <1>4
    <3> QED BY <3>1, <3>2
  <2> QED BY <2>1, <2>2
<1>9. Good(next)
  BY <1>2, <1>7, <1>8 DEF Good, Extends
<1> QED BY <1>2, <1>6, <1>9 DEF Follows, Extends, AddsInside, FilesWithin, Exists

\* The new content of an update is in no directory of an earlier version.
LEMMA NewContentApart ==
    ASSUME NEW prev, Good(prev), NEW n \in Nat, n > prev.head.num,
           NEW p \in PathSet(prev.manifest)
    PROVE  ~ InVersionDir(p, n)
<1>1. PICK k \in 1..prev.head.num : InVersionDir(p, k)
  BY DEF Good, InVersionDirs
<1>2. p \in Path /\ prev.head.num \in Nat
  BY GoodFacts
<1>3. k \in Nat /\ k # n
  BY <1>1, <1>2
<1> QED BY <1>1, <1>2, <1>3, OneVersionDir

-----------------------------------------------------------------------------
(* The steps of a plan *)

NewContent(next) == {p \in PathSet(next.manifest) : InVersionDir(p, next.head.num)}

\* In which order newPlanSteps puts the steps.
PlanShape(steps, next) ==
    LET n == Len(steps)
    IN  /\ n \in Nat /\ n >= 5 /\ DOMAIN steps = 1..n
        /\ \A i \in 1..n :
              /\ steps[i].op = "objectRoot" => i = 1
              /\ steps[i].op = "rootSidecar" <=> i = n
              /\ steps[i].op = "rootInventory" <=> i = n - 1
              /\ steps[i].op = "verSidecar" <=> i = n - 2
              /\ steps[i].op = "verInventory" <=> i = n - 3
              /\ steps[i].op = "versionDir" => i < n - 3
              /\ steps[i].op = "copy" => steps[i].arg \in NewContent(next)
        /\ \A i, j \in 1..n : steps[i].op = "versionDir" /\ steps[j].op = "copy" => i < j
        /\ \A i, j \in 1..n :
              steps[i].op = "copy" /\ steps[j].op = "copy" /\ steps[i].arg = steps[j].arg => i = j
        /\ \A p \in NewContent(next) : \E i \in 1..n : steps[i] = Step("copy", p)

StepSet(base, next) ==
    {Step(op, arg) : op \in {"objectRoot", "writeDecl", "removeDecl", "versionDir", "copy", "verInventory",
                             "verSidecar", "rootInventory", "rootSidecar"},
                     arg \in {0, base.spec, next.spec} \cup Path}

FrontSteps(base, next) ==
    <<Step("objectRoot", 0)>> \o DeclarationSteps(base, next) \o <<Step("versionDir", 0)>>

\* The steps before the content: the object root comes first, then declarations.
LEMMA FrontShape ==
    ASSUME NEW base, NEW next
    PROVE  LET f == FrontSteps(base, next)
           IN  /\ f \in Seq(StepSet(base, next)) /\ Len(f) \in Nat /\ Len(f) >= 1 /\ DOMAIN f = 1..Len(f)
               /\ \A i \in DOMAIN f :
                     /\ f[i].op \in {"objectRoot", "writeDecl", "removeDecl", "versionDir"}
                     /\ f[i].op = "objectRoot" => i = 1
<1> DEFINE S == StepSet(base, next)
           a == <<Step("objectRoot", 0)>>
           d == DeclarationSteps(base, next)
           v == <<Step("versionDir", 0)>>
           q == a \o d
           f == q \o v
<1>1. \A op, arg : Step(op, arg).op = op
  BY DEF Step
<1>2. /\ Step("objectRoot", 0) \in S /\ Step("versionDir", 0) \in S
      /\ Step("writeDecl", next.spec) \in S /\ Step("removeDecl", base.spec) \in S
  BY DEF StepSet
<1> HIDE DEF S
<1>3. a \in Seq(S) /\ DOMAIN a = {1} /\ Len(a) = 1 /\ a[1].op = "objectRoot"
  BY <1>1, <1>2
<1>4. v \in Seq(S) /\ DOMAIN v = {1} /\ Len(v) = 1 /\ v[1].op = "versionDir"
  BY <1>1, <1>2
<1>5. d \in Seq(S) /\ \A i \in DOMAIN d : d[i].op \in {"writeDecl", "removeDecl"}
  <2> DEFINE w == <<Step("writeDecl", next.spec)>>
             r == <<Step("removeDecl", base.spec)>>
  <2>1. w \in Seq(S) /\ DOMAIN w = {1} /\ w[1].op = "writeDecl"
    BY <1>1, <1>2
  <2>2. r \in Seq(S) /\ DOMAIN r = {1} /\ r[1].op = "removeDecl"
    BY <1>1, <1>2
  <2>3. d = <<>> \/ d = w \o <<>> \/ d = w \o r
    BY DEF DeclarationSteps
  <2> HIDE DEF w, r, d
  <2>4. <<>> \in Seq(S) /\ DOMAIN <<>> = {}
    OBVIOUS
  <2>5. ASSUME NEW t, t \in Seq(S), \A i \in DOMAIN t : t[i].op \in {"writeDecl", "removeDecl"}
        PROVE  w \o t \in Seq(S) /\ \A i \in DOMAIN (w \o t) : (w \o t)[i].op \in {"writeDecl", "removeDecl"}
    <3> DEFINE x == w \o t
    <3>1. x \in Seq(S) /\ IsConcat(x, w, t)
      BY <2>1, <2>5, ConcatPlaces, ConcatProperties
    <3> HIDE DEF x
    <3>3. \A i \in DOMAIN x : (\E h \in DOMAIN w : x[i] = w[h]) \/ (\E j \in DOMAIN t : x[i] = t[j])
      BY <3>1 DEF IsConcat
    <3>2. \A i \in DOMAIN x : x[i].op \in {"writeDecl", "removeDecl"}
      BY <2>1, <2>5, <3>3
    <3> QED BY <3>1, <3>2 DEF x
  <2> QED BY <2>2, <2>3, <2>4, <2>5
<1> HIDE DEF a, d, v
<1>6. q \in Seq(S) /\ IsConcat(q, a, d)
  BY <1>3, <1>5, ConcatPlaces, ConcatProperties
<1> HIDE DEF q
<1>7. f \in Seq(S) /\ IsConcat(f, q, v)
  BY <1>4, <1>6, ConcatPlaces, ConcatProperties
<1> HIDE DEF f
<1>8. \A i \in DOMAIN q : q[i].op \in {"objectRoot", "writeDecl", "removeDecl"}
                          /\ (q[i].op = "objectRoot" => i = 1)
  BY <1>3, <1>5, <1>6 DEF IsConcat
<1>9. \A i \in DOMAIN f : f[i].op \in {"objectRoot", "writeDecl", "removeDecl", "versionDir"}
                          /\ (f[i].op = "objectRoot" => i = 1)
  BY <1>4, <1>7, <1>8 DEF IsConcat
<1>10. Len(f) \in Nat /\ DOMAIN f = 1..Len(f) /\ Len(f) >= 1
  <2>1. Len(f) \in Nat /\ DOMAIN f = 1..Len(f)
    BY <1>7, LenProperties
  <2>2. Len(q) \in Nat /\ Len(f) = Len(q) + 1
    BY <1>4, <1>6, <1>7, LenProperties DEF IsConcat
  <2> QED BY <2>1, <2>2
<1> QED BY <1>7, <1>9, <1>10 DEF f, q, a, d, v, S, FrontSteps

\* newPlanSteps: the content is copied after the version directory was made and before
\* any inventory is written, each file once; the root sidecar is the last step and the root
\* inventory the one before it.
LEMMA StepsShape ==
    ASSUME NEW base, NEW next, PathSet(next.manifest) \subseteq Path, IsFiniteSet(PathSet(next.manifest))
    PROVE  PlanShape(NewPlanSteps(base, next), next)
<1> DEFINE S == StepSet(base, next)
           f == FrontSteps(base, next)
           paths == SortedSet(NewContent(next))
           c == ContentSteps(next)
           t == InventorySteps
           g == f \o c
           s == g \o t
           k == Len(f)
           m == Len(paths)
<1>1. /\ f \in Seq(S) /\ k \in Nat /\ k >= 1 /\ DOMAIN f = 1..k
      /\ \A i \in 1..k : /\ f[i].op \in {"objectRoot", "writeDecl", "removeDecl", "versionDir"}
                         /\ f[i].op = "objectRoot" => i = 1
  BY FrontShape
<1>2. /\ paths \in Seq(Path) /\ Members(paths) = NewContent(next)
      /\ \A i, j \in DOMAIN paths : paths[i] = paths[j] => i = j
  <2>1. NewContent(next) \in SUBSET PathSet(next.manifest)
    BY DEF NewContent
  <2>2. NewContent(next) \subseteq Path /\ IsFiniteSet(NewContent(next))
    BY <2>1, FS_Subset
  <2> QED BY <2>2, SortedSetOnce
<1>3. m \in Nat /\ DOMAIN paths = 1..m
  BY <1>2, LenProperties
<1>4. c = [i \in 1..m |-> Step("copy", paths[i])]
  <2>1. DOMAIN VersionContent(next, next.head) = NewContent(next)
    BY DEF VersionContent, PathMap, NewContent
  <2>2. c = [i \in DOMAIN paths |-> Step("copy", paths[i])]
    BY <2>1 DEF ContentSteps
  <2> QED BY <1>3, <2>2
<1> HIDE DEF f, paths, c, k, m
<1>5. \A op, arg : Step(op, arg).op = op /\ Step(op, arg).arg = arg
  BY DEF Step
<1>6. c \in Seq(S) /\ Len(c) = m /\ DOMAIN c = 1..m
  <2>1. \A p \in Path : Step("copy", p) \in S
    BY DEF StepSet
  <2>2. \A i \in 1..m : paths[i] \in Path
    BY <1>2, <1>3, ElementOfSeq
  <2>3. c \in [1..m -> S]
    <3> HIDE DEF S
    <3> QED BY <1>4, <2>1, <2>2
  <2> QED BY <1>3, <1>4, <2>3, FunctionIsSeq
<1>7. /\ t \in Seq(S) /\ Len(t) = 4 /\ DOMAIN t = 1..4
      /\ t[1].op = "verInventory" /\ t[2].op = "verSidecar" /\ t[3].op = "rootInventory" /\ t[4].op = "rootSidecar"
  <2>1. \A op \in {"verInventory", "verSidecar", "rootInventory", "rootSidecar"} : Step(op, 0) \in S
    BY DEF StepSet
  <2> HIDE DEF S
  <2>2. t = <<Step("verInventory", 0), Step("verSidecar", 0), Step("rootInventory", 0), Step("rootSidecar", 0)>>
    BY DEF InventorySteps
  <2>3. Step("verInventory", 0) \in S /\ Step("verSidecar", 0) \in S /\ Step("rootInventory", 0) \in S
        /\ Step("rootSidecar", 0) \in S
    BY <2>1
  <2>4. t \in Seq(S) /\ Len(t) = 4 /\ t[1] = Step("verInventory", 0) /\ t[2] = Step("verSidecar", 0)
        /\ t[3] = Step("rootInventory", 0) /\ t[4] = Step("rootSidecar", 0)
    BY <2>2, <2>3
  <2> QED BY <1>5, <2>4, LenProperties
<1> HIDE DEF S, t
<1>8. g \in Seq(S) /\ IsConcat(g, f, c)
  BY <1>1, <1>6, ConcatPlaces, ConcatProperties
<1> HIDE DEF g
<1>9. s \in Seq(S) /\ IsConcat(s, g, t)
  BY <1>7, <1>8, ConcatPlaces, ConcatProperties
<1> HIDE DEF s
<1>10. Len(g) = k + m /\ DOMAIN g = 1..k + m /\ Len(s) = k + m + 4 /\ DOMAIN s = 1..k + m + 4
  <2>1. Len(g) = k + m
    BY <1>6, <1>8 DEF IsConcat, k
  <2>2. Len(s) = k + m + 4
    BY <1>7, <1>9, <2>1 DEF IsConcat
  <2> QED BY <1>8, <1>9, <2>1, <2>2, LenProperties
<1>11. \A i \in 1..k : s[i] = f[i]
  <2>1. \A i \in 1..k : i \in DOMAIN g /\ g[i] = f[i]
    BY <1>1, <1>8 DEF IsConcat
  <2> QED BY <1>9, <2>1 DEF IsConcat
<1>12. \A i \in 1..m : s[k + i] = Step("copy", paths[i])
  <2>1. \A i \in 1..m : k + i \in DOMAIN g /\ g[k + i] = c[i]
    BY <1>6, <1>8 DEF IsConcat, k
  <2>2. \A i \in 1..m : c[i] = Step("copy", paths[i])
    BY <1>4
  <2> QED BY <1>9, <2>1, <2>2 DEF IsConcat
<1>13. /\ s[k + m + 1].op = "verInventory" /\ s[k + m + 2].op = "verSidecar"
       /\ s[k + m + 3].op = "rootInventory" /\ s[k + m + 4].op = "rootSidecar"
  <2>1. \A i \in 1..4 : s[k + m + i] = t[i]
    BY <1>7, <1>9, <1>10 DEF IsConcat
  <2> QED BY <1>7, <2>1
<1>14. ASSUME NEW i \in 1..k + m + 4
       PROVE  \/ i \in 1..k
              \/ \E j \in 1..m : i = k + j
              \/ i \in {k + m + 1, k + m + 2, k + m + 3, k + m + 4}
  <2>1. CASE i \in k + 1..k + m
    <3>1. i - k \in 1..m /\ i = k + (i - k)
      BY <1>1, <1>3, <2>1
    <3> QED BY <3>1
  <2>2. CASE i \notin k + 1..k + m
    BY <1>1, <1>3, <2>2
  <2> QED BY <2>1, <2>2
<1>15. ASSUME NEW i \in 1..k + m + 4
       PROVE  /\ s[i].op = "objectRoot" => i = 1
              /\ s[i].op = "rootSidecar" <=> i = k + m + 4
              /\ s[i].op = "rootInventory" <=> i = k + m + 3
              /\ s[i].op = "verSidecar" <=> i = k + m + 2
              /\ s[i].op = "verInventory" <=> i = k + m + 1
              /\ s[i].op = "versionDir" => i <= k
              /\ s[i].op = "copy" => \E j \in 1..m : i = k + j /\ s[i].arg = paths[j]
  <2>1. CASE i \in 1..k
    <3>1. s[i].op \in {"objectRoot", "writeDecl", "removeDecl", "versionDir"}
          /\ (s[i].op = "objectRoot" => i = 1)
      BY <1>1, <1>11, <2>1
    <3>2. i <= k /\ i # k + m + 1 /\ i # k + m + 2 /\ i # k + m + 3 /\ i # k + m + 4
      BY <1>1, <1>3, <2>1
    <3> QED BY <3>1, <3>2
  <2>2. ASSUME NEW j \in 1..m, i = k + j PROVE s[i].op = "copy" /\ s[i].arg = paths[j] /\ i <= k + m
    <3>1. s[i] = Step("copy", paths[j])
      BY <1>12, <2>2
    <3>2. i <= k + m
      BY <1>1, <1>3, <2>2
    <3> QED BY <1>5, <3>1, <3>2
  <2>3. CASE \E j \in 1..m : i = k + j
    BY <1>1, <1>3, <2>2, <2>3
  <2>4. CASE i \in {k + m + 1, k + m + 2, k + m + 3, k + m + 4}
    <3>1. CASE i = k + m + 1
      BY <1>1, <1>3, <1>13, <3>1
    <3>2. CASE i = k + m + 2
      BY <1>1, <1>3, <1>13, <3>2
    <3>3. CASE i = k + m + 3
      BY <1>1, <1>3, <1>13, <3>3
    <3>4. CASE i = k + m + 4
      BY <1>1, <1>3, <1>13, <3>4
    <3> QED BY <2>4, <3>1, <3>2, <3>3, <3>4
  <2> QED BY <1>14, <2>1, <2>3, <2>4
<1>16. \A j \in 1..m : paths[j] \in NewContent(next)
  BY <1>2, <1>3 DEF Members
<1>17. ASSUME NEW p \in NewContent(next) PROVE \E i \in 1..k + m + 4 : s[i] = Step("copy", p)
  <2>1. PICK j \in 1..m : p = paths[j]
    BY <1>2, <1>3 DEF Members
  <2>2. k + j \in 1..k + m + 4
    BY <1>1, <1>3
  <2> QED BY <1>12, <2>1, <2>2
<1>18. \A i, j \in 1..k + m + 4 : s[i].op = "versionDir" /\ s[j].op = "copy" => i < j
  <2> SUFFICES ASSUME NEW i \in 1..k + m + 4, NEW j \in 1..k + m + 4, s[i].op = "versionDir", s[j].op = "copy"
               PROVE  i < j
    OBVIOUS
  <2>1. PICK h \in 1..m : j = k + h
    BY <1>15
  <2>2. i <= k
    BY <1>15
  <2> QED BY <1>1, <1>3, <2>1, <2>2
<1>19. \A i, j \in 1..k + m + 4 :
          s[i].op = "copy" /\ s[j].op = "copy" /\ s[i].arg = s[j].arg => i = j
  <2> SUFFICES ASSUME NEW i \in 1..k + m + 4, NEW j \in 1..k + m + 4,
                      s[i].op = "copy", s[j].op = "copy", s[i].arg = s[j].arg
               PROVE  i = j
    OBVIOUS
  <2>1. PICK h \in 1..m : i = k + h /\ s[i].arg = paths[h]
    BY <1>15
  <2>2. PICK l \in 1..m : j = k + l /\ s[j].arg = paths[l]
    BY <1>15
  <2>3. h = l
    BY <1>2, <1>3, <2>1, <2>2
  <2> QED BY <2>1, <2>2, <2>3
<1>20. k + m + 4 \in Nat /\ k + m + 4 >= 5
  BY <1>1, <1>3
<1> DEFINE n == k + m + 4
<1>21. n = Len(s) /\ n \in Nat /\ n >= 5
  BY <1>10, <1>20
<1> HIDE DEF n
<1>22. PlanShape(s, next)
  <2>1. \A i \in 1..n : /\ s[i].op = "objectRoot" => i = 1
                        /\ s[i].op = "rootSidecar" <=> i = n
                        /\ s[i].op = "rootInventory" <=> i = n - 1
                        /\ s[i].op = "verSidecar" <=> i = n - 2
                        /\ s[i].op = "verInventory" <=> i = n - 3
                        /\ s[i].op = "versionDir" => i < n - 3
    <3>1. n - 1 = k + m + 3 /\ n - 2 = k + m + 2 /\ n - 3 = k + m + 1 /\ \A i \in 1..n : i <= k => i < n - 3
      BY <1>1, <1>3 DEF n
    <3> QED BY <1>15, <3>1 DEF n
  <2>2. \A i \in 1..n : s[i].op = "copy" => s[i].arg \in NewContent(next)
    BY <1>15, <1>16 DEF n
  <2>3. /\ \A i, j \in 1..n : s[i].op = "versionDir" /\ s[j].op = "copy" => i < j
        /\ \A i, j \in 1..n : s[i].op = "copy" /\ s[j].op = "copy" /\ s[i].arg = s[j].arg => i = j
        /\ \A p \in NewContent(next) : \E i \in 1..n : s[i] = Step("copy", p)
    BY <1>17, <1>18, <1>19 DEF n
  <2>4. DOMAIN s = 1..n
    BY <1>10 DEF n
  <2> QED BY <1>21, <2>1, <2>2, <2>3, <2>4 DEF PlanShape
<1>23. s = NewPlanSteps(base, next)
  BY DEF s, g, f, c, t, FrontSteps, NewPlanSteps
<1> QED BY <1>22, <1>23

-----------------------------------------------------------------------------
(* What the steps do *)

\* A directory with given inventory, sidecar and content.
DirWith(r, inv, side, content) == IsDir(r) /\ r.inv = inv /\ r.side = side /\ r.content = content

\* Assigning a field of a directory leaves the others.
LEMMA AssignField ==
    ASSUME NEW d, IsDir(d), NEW x, NEW r
    PROVE  /\ r = [d EXCEPT !.decls = x] => DirWith(r, d.inv, d.side, d.content)
           /\ r = [d EXCEPT !.vinv = x] => DirWith(r, d.inv, d.side, d.content)
           /\ r = [d EXCEPT !.vside = x] => DirWith(r, d.inv, d.side, d.content)
           /\ r = [d EXCEPT !.strays = x] => DirWith(r, d.inv, d.side, d.content)
           /\ r = [d EXCEPT !.inv = x] => DirWith(r, x, d.side, d.content)
           /\ r = [d EXCEPT !.side = x] => DirWith(r, d.inv, x, d.content)
           /\ r = [d EXCEPT !.content = x] => DirWith(r, d.inv, d.side, x)
<1>1. DOMAIN d = {"decls", "inv", "side", "vinv", "vside", "content", "strays", "exts"}
  BY DEF IsDir
<1>2. ASSUME r = [f \in DOMAIN r |-> r[f]], DOMAIN r = DOMAIN d
      PROVE  IsDir(r)
  BY <1>1, <1>2 DEF IsDir
<1>3. ASSUME NEW g \in DOMAIN d, r = [d EXCEPT ![g] = x]
      PROVE  IsDir(r) /\ r[g] = x /\ \A f \in DOMAIN d \ {g} : r[f] = d[f]
  <2>1. DOMAIN r = DOMAIN d /\ r = [f \in DOMAIN r |-> r[f]] /\ r[g] = x
        /\ \A f \in DOMAIN d \ {g} : r[f] = d[f]
    BY <1>3
  <2> QED BY <1>2, <2>1
<1> QED BY <1>1, <1>3 DEF DirWith

\* The run function of a step, as far as inventories and content are concerned.
LEMMA RunStepIs ==
    ASSUME NEW d, IsDir(d), NEW p, NEW s
    PROVE  LET r == RunStep(d, p, s)
           IN  /\ IsDir(r)
               /\ r.inv = IF s.op = "rootInventory" THEN p.next ELSE d.inv
               /\ r.side = IF s.op = "rootSidecar" THEN p.next ELSE d.side
               /\ r.content = IF s.op = "copy"
                              THEN With(d.content, s.arg, DigestFor(p.next.manifest, s.arg)[1])
                              ELSE d.content
<1> DEFINE n == p.next.head.num
           r == RunStep(d, p, s)
           c == With(d.content, s.arg, DigestFor(p.next.manifest, s.arg)[1])
<1>1. CASE s.op = "writeDecl"
  <2>1. r = [d EXCEPT !.decls = With(d.decls, s.arg, TRUE)]
    BY <1>1 DEF RunStep
  <2> HIDE DEF r
  <2>2. DirWith(r, d.inv, d.side, d.content)
    BY <2>1, AssignField
  <2> QED BY <1>1, <2>2 DEF DirWith, r
<1>2. CASE s.op = "removeDecl"
  <2>1. r = [d EXCEPT !.decls = SE!Restrict(d.decls, DOMAIN d.decls \ {s.arg})]
    BY <1>2 DEF RunStep
  <2> HIDE DEF r
  <2>2. DirWith(r, d.inv, d.side, d.content)
    BY <2>1, AssignField
  <2> QED BY <1>2, <2>2 DEF DirWith, r
<1>3. CASE s.op = "copy"
  <2>1. r = [d EXCEPT !.content = c]
    BY <1>3 DEF RunStep
  <2> HIDE DEF c, r
  <2>2. DirWith(r, d.inv, d.side, c)
    BY <2>1, AssignField
  <2> QED BY <1>3, <2>2 DEF DirWith, c, r
<1>4. CASE s.op = "verInventory"
  <2>1. r = [d EXCEPT !.vinv = [d.vinv EXCEPT ![n] = p.next]]
    BY <1>4 DEF RunStep
  <2> HIDE DEF r
  <2>2. DirWith(r, d.inv, d.side, d.content)
    BY <2>1, AssignField
  <2> QED BY <1>4, <2>2 DEF DirWith, r
<1>5. CASE s.op = "verSidecar"
  <2>1. r = [d EXCEPT !.vside = [d.vside EXCEPT ![n] = p.next]]
    BY <1>5 DEF RunStep
  <2> HIDE DEF r
  <2>2. DirWith(r, d.inv, d.side, d.content)
    BY <2>1, AssignField
  <2> QED BY <1>5, <2>2 DEF DirWith, r
<1>6. CASE s.op = "rootInventory"
  <2>1. r = [d EXCEPT !.inv = p.next]
    BY <1>6 DEF RunStep
  <2> HIDE DEF r
  <2>2. DirWith(r, p.next, d.side, d.content)
    BY <2>1, AssignField
  <2> QED BY <1>6, <2>2 DEF DirWith, r
<1>7. CASE s.op = "rootSidecar"
  <2>1. r = [d EXCEPT !.side = p.next]
    BY <1>7 DEF RunStep
  <2> HIDE DEF r
  <2>2. DirWith(r, d.inv, p.next, d.content)
    BY <2>1, AssignField
  <2> QED BY <1>7, <2>2 DEF DirWith, r
<1>8. CASE s.op \notin {"writeDecl", "removeDecl", "copy", "verInventory", "verSidecar",
                        "rootInventory", "rootSidecar"}
  <2>1. r = d
    BY <1>8 DEF RunStep
  <2> QED BY <1>8, <2>1
<1> QED BY <1>1, <1>2, <1>3, <1>4, <1>5, <1>6, <1>7, <1>8

\* The revert function of a step, on an object whose sidecar is that of the base.
LEMMA RevertStepIs ==
    ASSUME NEW d, IsDir(d), NEW p, p.base = d.side, NEW s, s.op = "objectRoot" => p.next.head.num # 1
    PROVE  LET r == RevertStep(d, p, s)
               gone == IF s.op = "versionDir" THEN ContentIn(d, p.next.head.num)
                       ELSE IF s.op = "copy" THEN {s.arg} ELSE {}
           IN  /\ IsDir(r)
               /\ r.inv = IF s.op = "rootInventory" THEN p.base ELSE d.inv
               /\ r.side = d.side
               /\ DOMAIN r.content = DOMAIN d.content \ gone
               /\ \A c \in DOMAIN d.content \ gone : r.content[c] = d.content[c]
<1> DEFINE n == p.next.head.num
           r == RevertStep(d, p, s)
           less(gone) == SE!Restrict(d.content, DOMAIN d.content \ gone)
<1>1. \A gone : /\ DOMAIN less(gone) = DOMAIN d.content \ gone
                /\ \A c \in DOMAIN d.content \ gone : less(gone)[c] = d.content[c]
  BY DEF SE!Restrict
<1> HIDE DEF less
<1>2. CASE s.op = "objectRoot"
  <2>1. r = d
    BY <1>2 DEF RevertStep
  <2> QED BY <1>2, <2>1
<1>3. CASE s.op = "writeDecl"
  <2>1. r = [d EXCEPT !.decls = SE!Restrict(d.decls, DOMAIN d.decls \ {s.arg})]
    BY <1>3 DEF RevertStep
  <2> HIDE DEF r
  <2>2. DirWith(r, d.inv, d.side, d.content)
    BY <2>1, AssignField
  <2> QED BY <1>3, <2>2 DEF DirWith, r
<1>4. CASE s.op = "removeDecl"
  <2>1. r = [d EXCEPT !.decls = With(d.decls, s.arg, TRUE)]
    BY <1>4 DEF RevertStep
  <2> HIDE DEF r
  <2>2. DirWith(r, d.inv, d.side, d.content)
    BY <2>1, AssignField
  <2> QED BY <1>4, <2>2 DEF DirWith, r
<1>5. CASE s.op = "versionDir"
  <2> DEFINE g == ContentIn(d, n)
             vi == [d.vinv EXCEPT ![n] = Nil]
             vs == [d.vside EXCEPT ![n] = Nil]
             st == d.strays \ {n}
             l == less(g)
             d1 == [d EXCEPT !.content = l]
             d2 == [d1 EXCEPT !.vinv = vi]
             d3 == [d2 EXCEPT !.vside = vs]
             d4 == [d3 EXCEPT !.strays = st]
  <2>1. r = [d EXCEPT !.content = l, !.vinv = vi, !.vside = vs, !.strays = st]
    BY <1>5 DEF RevertStep, less
  <2> HIDE DEF r, l, vi, vs, st
  <2>2. r = d4
    BY <2>1
  <2>3. DirWith(d1, d.inv, d.side, l)
    BY AssignField
  <2> HIDE DEF d1
  <2>4. DirWith(d2, d.inv, d.side, l)
    BY <2>3, AssignField DEF DirWith
  <2> HIDE DEF d2
  <2>5. DirWith(d3, d.inv, d.side, l)
    BY <2>4, AssignField DEF DirWith
  <2> HIDE DEF d3
  <2>6. DirWith(d4, d.inv, d.side, l)
    BY <2>5, AssignField DEF DirWith
  <2> HIDE DEF d4
  <2> QED BY <1>1, <1>5, <2>2, <2>6 DEF DirWith, r, l
<1>6. CASE s.op = "copy"
  <2>1. r = [d EXCEPT !.content = less({s.arg})]
    BY <1>6 DEF RevertStep, less
  <2> HIDE DEF r
  <2> DEFINE l == less({s.arg})
  <2>2. DirWith(r, d.inv, d.side, l)
    BY <2>1, AssignField
  <2>3. /\ DOMAIN l = DOMAIN d.content \ {s.arg}
        /\ \A c \in DOMAIN d.content \ {s.arg} : l[c] = d.content[c]
    BY <1>1
  <2> HIDE DEF l
  <2>4. IsDir(r) /\ r.inv = d.inv /\ r.side = d.side /\ r.content = l
    BY <2>2 DEF DirWith
  <2>5. s.op # "versionDir" /\ s.op # "rootInventory"
    BY <1>6
  <2> QED BY <1>6, <2>3, <2>4, <2>5 DEF r
<1>7. CASE s.op = "verInventory"
  <2>1. r = [d EXCEPT !.vinv = [d.vinv EXCEPT ![n] = Nil]]
    BY <1>7 DEF RevertStep
  <2> HIDE DEF r
  <2>2. DirWith(r, d.inv, d.side, d.content)
    BY <2>1, AssignField
  <2> QED BY <1>7, <2>2 DEF DirWith, r
<1>8. CASE s.op = "verSidecar"
  <2>1. r = [d EXCEPT !.vside = [d.vside EXCEPT ![n] = Nil]]
    BY <1>8 DEF RevertStep
  <2> HIDE DEF r
  <2>2. DirWith(r, d.inv, d.side, d.content)
    BY <2>1, AssignField
  <2> QED BY <1>8, <2>2 DEF DirWith, r
<1>9. CASE s.op = "rootInventory"
  <2>1. r = [d EXCEPT !.inv = p.base]
    BY <1>9 DEF RevertStep
  <2> HIDE DEF r
  <2>2. DirWith(r, p.base, d.side, d.content)
    BY <2>1, AssignField
  <2> QED BY <1>9, <2>2 DEF DirWith, r
<1>10. CASE s.op \notin {"objectRoot", "writeDecl", "removeDecl", "versionDir", "copy",
                         "verInventory", "verSidecar", "rootInventory"}
  <2>1. r = [d EXCEPT !.side = p.base]
    BY <1>10 DEF RevertStep
  <2> HIDE DEF r
  <2>2. DirWith(r, d.inv, p.base, d.content)
    BY <2>1, AssignField
  <2> QED BY <1>10, <2>2 DEF DirWith, r
<1> QED BY <1>2, <1>3, <1>4, <1>5, <1>6, <1>7, <1>8, <1>9, <1>10

-----------------------------------------------------------------------------
(* Plans and the directory *)

\* Plan q is plan p with done steps completed, perhaps in another call or with another owner.
SamePlan(p, q, done) ==
    IsPlan(q) /\ q.base = p.base /\ q.next = p.next /\ q.steps = p.steps /\ q.done = done

\* Assigning a field of a plan leaves the others.
LEMMA PlanFields ==
    ASSUME NEW p, IsPlan(p), NEW x, NEW q
    PROVE  /\ q = [p EXCEPT !.call = x] => SamePlan(p, q, p.done) /\ q.call = x /\ q.own = p.own
           /\ q = [p EXCEPT !.own = x] => SamePlan(p, q, p.done) /\ q.call = p.call /\ q.own = x
           /\ q = [p EXCEPT !.done = x] => SamePlan(p, q, x) /\ q.call = p.call /\ q.own = p.own
<1>1. DOMAIN p = {"base", "next", "steps", "done", "call", "own"}
  BY DEF IsPlan, PlanRec
<1>2. ASSUME q = [f \in DOMAIN q |-> q[f]], DOMAIN q = DOMAIN p
      PROVE  IsPlan(q)
  BY <1>1, <1>2 DEF IsPlan, PlanRec
<1>3. ASSUME NEW g \in DOMAIN p, q = [p EXCEPT ![g] = x]
      PROVE  IsPlan(q) /\ q[g] = x /\ \A f \in DOMAIN p \ {g} : q[f] = p[f]
  <2>1. DOMAIN q = DOMAIN p /\ q = [f \in DOMAIN q |-> q[f]] /\ q[g] = x
        /\ \A f \in DOMAIN p \ {g} : q[f] = p[f]
    BY <1>3
  <2> QED BY <1>2, <2>1
<1> QED BY <1>1, <1>3 DEF SamePlan

\* No plan at all.
LEMMA NoPlanOk ==
    ASSUME NEW d, NEW begun
    PROVE  PlanOk(NoPlan, d, begun) /\ NoPlan.call = "none" /\ NoPlan.done = 0
<1>1. NoPlan.base = Nil /\ NoPlan.next = Nil /\ NoPlan.steps = <<>> /\ NoPlan.done = 0
      /\ NoPlan.call = "none" /\ NoPlan.own = FALSE
  BY DEF NoPlan
<1>2. NoPlan = PlanRec(Nil, Nil, <<>>, 0, "none", FALSE)
  BY DEF NoPlan, PlanRec
<1> QED BY <1>1, <1>2 DEF PlanOk, IsPlan

\* What a plan that is there has.
LEMMA PlanFacts ==
    ASSUME NEW p, NEW d, NEW begun, PlanOk(p, d, begun), p # NoPlan
    PROVE  /\ PlanShape(p.steps, p.next)
           /\ p.base.head.num \in Nat /\ p.next.head.num = p.base.head.num + 1
           /\ p.next # Nil /\ p.next # p.base
           /\ p.done \in Nat /\ p.done <= Len(p.steps)
<1>1. Good(p.base) /\ Follows(p.base, p.next) /\ p.steps = NewPlanSteps(p.base, p.next)
      /\ p.done \in 0..Len(p.steps)
  BY DEF PlanOk
<1>2. p.base.head.num \in Nat /\ Good(p.next) /\ p.next # Nil /\ p.next.head.num = p.base.head.num + 1
  BY <1>1, GoodFacts DEF Follows
<1>3. p.next # p.base
  BY <1>2
<1>4. PathSet(p.next.manifest) \subseteq Path /\ IsFiniteSet(PathSet(p.next.manifest))
  BY <1>2, PathSetFinite DEF Good, IsInventory
<1>5. PlanShape(p.steps, p.next)
  BY <1>1, <1>4, StepsShape
<1>6. Len(p.steps) \in Nat
  BY <1>5 DEF PlanShape
<1> QED BY <1>1, <1>2, <1>3, <1>5, <1>6

\* The same plan in another call or with another owner.
LEMMA PlanCopy ==
    ASSUME NEW p, NEW d, NEW begun, PlanOk(p, d, begun), p # NoPlan,
           NEW q, SamePlan(p, q, p.done)
    PROVE  PlanOk(q, d, begun) /\ q # NoPlan
<1>1. q.next # Nil /\ NoPlan.next = Nil
  BY PlanFacts DEF SamePlan, NoPlan
<1>2. q # NoPlan
  BY <1>1
<1>3. Effects(p, d) => Effects(q, d)
  BY DEF Effects, SamePlan
<1> QED BY <1>2, <1>3 DEF PlanOk, SamePlan

\* Beginning the update of plan p changes nothing for a plan.
LEMMA BeginKeeps ==
    ASSUME NEW p, NEW d, NEW begun, NEW next, begun \in {Nil, next},
           PlanOk(p, d, begun)
    PROVE  PlanOk(p, d, next)
<1>1. CASE begun = next
  BY <1>1
<1>2. CASE begun = Nil /\ p # NoPlan
  <2>1. p.next # Nil /\ p.done \in Nat
    BY <1>2, PlanFacts
  <2>2. p.base = d.side => p.done = 0
    BY <1>2, <2>1 DEF PlanOk
  <2>3. p.done = 0 => Effects(p, d)
    BY DEF Effects
  <2> QED BY <1>2, <2>1, <2>2, <2>3 DEF PlanOk
<1>3. CASE p = NoPlan
  BY <1>3, NoPlanOk
<1> QED BY <1>1, <1>2, <1>3

\* When the update is resolved, a plan for the inventory of the sidecar has run no step.
LEMMA ResolveKeeps ==
    ASSUME NEW p, NEW d, NEW begun, begun = d.side, PlanOk(p, d, begun)
    PROVE  PlanOk(p, d, Nil)
<1>1. CASE p # NoPlan
  <2>1. p.next # Nil /\ p.done \in Nat /\ p.next # p.base
    BY <1>1, PlanFacts
  <2>2. ~ (p.done > 0 /\ p.base = d.side)
    BY <1>1, <2>1 DEF PlanOk
  <2> QED BY <1>1, <2>1, <2>2 DEF PlanOk
<1>2. CASE p = NoPlan
  BY <1>2, NoPlanOk
<1> QED BY <1>1, <1>2

\* The sum that a manifest has for a path.
LEMMA SumsIs == \A m : \A p \in PathSet(m) : Sums(m)[p] = DigestFor(m, p)[1]
BY DEF Sums

\* A plan that is not completed leaves what a handle may rely on.
LEMMA HandleKept ==
    ASSUME NEW h, NEW p, NEW q, NEW d, NEW e, HandleOk(h, p, d), ~ Completed(p),
           e.side = d.side
    PROVE  HandleOk(h, q, e)
<1> QED BY DEF HandleOk

\* Nothing there, and nothing open.
LEMMA EmptyDirOk == DirOk(EmptyDir(MaxHead), Nil)
<1> DEFINE d == EmptyDir(MaxHead)
<1>1. IsDir(d) /\ d.inv = Nil /\ d.side = Nil
  BY DEF EmptyDir, IsDir
<1> HIDE DEF d
<1>2. HasContentOf(d, Nil)
  BY NilIsGood DEF HasContentOf
<1> QED BY <1>1, <1>2, NilIsGood DEF DirOk, d

\* A handle that is closed holds nothing that could be wrong.
LEMMA ClosedOk ==
    ASSUME NEW p, NEW d
    PROVE  HandleOk(Closed, p, d)
<1>1. ~Closed.open /\ ~Closed.checked
      /\ Closed = [open |-> Closed.open, inv |-> Closed.inv, isRoot |-> Closed.isRoot,
                   checked |-> Closed.checked]
  BY DEF Closed
<1> QED BY <1>1 DEF HandleOk

-----------------------------------------------------------------------------
(* The actions that leave the directory alone *)

\* Nothing is in the directory and no handle is open: the invariant holds.
LEMMA ObjectInit == Init => ObjectOk
<1> SUFFICES ASSUME Init PROVE ObjectOk
  OBVIOUS
<1>1. dir = EmptyDir(MaxHead) /\ handle = Closed /\ plan = NoPlan /\ saved = NoPlan
      /\ inflight = Nil /\ acked = {}
  BY DEF Init
<1>2. DirOk(dir, inflight)
  BY <1>1, EmptyDirOk
<1>3. HandleOk(handle, plan, dir)
  BY <1>1, ClosedOk
<1>4. AckOk(acked, dir)
  BY <1>1 DEF AckOk
<1> QED BY <1>1, <1>2, <1>3, <1>4, NoPlanOk DEF ObjectOk, CallOk

\* NewObject: what it returns with the sidecar checked is the inventory of the sidecar.
LEMMA NewObjectStep ==
    ASSUME ObjectOk, NEW cached, NEW skip \in BOOLEAN, NewObject(cached, skip)
    PROVE  ObjectOk'
<1> DEFINE i == OpenedInventory(cached)
<1>1. /\ UNCHANGED <<dir, plan, saved, inflight, acked>> /\ plan.call = "none" /\ OpenOk(cached, skip)
      /\ handle' = [open |-> TRUE, inv |-> i,
                    isRoot |-> Exists(i) /\ (~skip \/ ~Exists(cached)), checked |-> ~skip]
  BY DEF NewObject
<1>2. /\ handle'.open /\ handle'.inv = i /\ handle'.checked = ~skip
      /\ handle'.isRoot = (Exists(i) /\ (~skip \/ ~Exists(cached)))
      /\ handle' = [open |-> handle'.open, inv |-> handle'.inv, isRoot |-> handle'.isRoot,
                    checked |-> handle'.checked]
  BY <1>1
<1>3. ~skip => i = dir.side
  <2>1. CASE Exists(i)
    BY <1>1, <2>1 DEF OpenOk, SidecarOk
  <2>2. CASE ~Exists(i) /\ ~skip
    <3>1. EmptyState(ParseObjectDir(dir))
      BY <1>1, <2>2 DEF OpenOk
    <3>2. dir.side = Nil
      BY <3>1 DEF EmptyState, ParseObjectDir
    <3> QED BY <2>2, <3>2 DEF Exists
  <2> QED BY <2>1, <2>2
<1>4. ~Exists(cached) => i = dir.side \/ i.head.num > dir.side.head.num
  <2>1. ~Exists(cached) => i = dir.inv
    BY DEF OpenedInventory
  <2>2. dir.side.head.num \in Nat
    BY GoodFacts DEF ObjectOk, DirOk
  <2> QED BY <2>1, <2>2 DEF ObjectOk, DirOk, Follows
<1>5. Exists(i) /\ Exists(cached) /\ skip => ~handle'.isRoot
  BY <1>2
<1>6. ~Exists(i) => ~Exists(cached)
  BY DEF OpenedInventory
<1> HIDE DEF i
<1>7. HandleOk(handle', plan, dir)
  <2>1. ~skip => ~ (Exists(handle'.inv) /\ ~handle'.isRoot) /\ handle'.inv = dir.side
    BY <1>2, <1>3
  <2>2. ~ (Exists(handle'.inv) /\ ~handle'.isRoot) =>
            handle'.inv = dir.side \/ handle'.inv.head.num > dir.side.head.num
    BY <1>2, <1>3, <1>4, <1>5, <1>6
  <2> QED BY <1>2, <2>1, <2>2 DEF HandleOk
<1> QED BY <1>1, <1>7 DEF ObjectOk

\* object.go: dropping a handle leaves the directory and the plan as they are.
LEMMA CloseObjectStep ==
    ASSUME ObjectOk, CloseObject
    PROVE  ObjectOk'
<1>1. handle' = Closed /\ UNCHANGED <<dir, plan, saved, inflight, acked>>
  BY DEF CloseObject
<1>2. HandleOk(handle', plan, dir)
  BY <1>1, ClosedOk
<1> QED BY <1>1, <1>2 DEF ObjectOk

\* NewUpdatePlan: the plan is for the inventory of the sidecar.
LEMMA NewUpdatePlanStep ==
    ASSUME ObjectOk, NEW stage \in Stages, NEW spec, NewUpdatePlan(stage, spec)
    PROVE  ObjectOk'
<1> DEFINE next == NextInventory(stage, spec)
<1>1. /\ handle.checked /\ plan = NoPlan /\ inflight = Nil /\ Exists(next)
      /\ plan' = PlanRec(handle.inv, next, NewPlanSteps(handle.inv, next), 0, "none", TRUE)
      /\ UNCHANGED <<dir, handle, saved, inflight, acked>>
  BY DEF NewUpdatePlan, PlanRec
<1>2. handle.inv = dir.side
  BY <1>1 DEF ObjectOk, HandleOk, Completed
<1>3. Follows(handle.inv, next)
  <2>1. Good(handle.inv)
    BY <1>2 DEF ObjectOk, DirOk
  <2>2. IsDigestMap(stage)
    BY ObjectAssumption
  <2>3. next = Finalize(UpdateBuilder(handle.inv, "obj", spec, 0, Identity, <<>>, stage, "sha512"))
    BY DEF NextInventory, UpdateBuilder
  <2> HIDE DEF next
  <2> QED BY <1>1, <2>1, <2>2, <2>3, NextFollows
<1> HIDE DEF next
<1>4. /\ plan'.base = dir.side /\ plan'.next = next /\ plan'.steps = NewPlanSteps(dir.side, next)
      /\ plan'.done = 0 /\ plan'.call = "none" /\ plan'.own = TRUE
  BY <1>1, <1>2 DEF PlanRec
<1>5. Good(dir.side) /\ Follows(dir.side, next) /\ dir.side.head.num \in Nat /\ next # Nil
  BY <1>2, <1>3, GoodFacts DEF ObjectOk, DirOk, Follows
<1>6. PlanShape(plan'.steps, next)
  <2>1. PathSet(next.manifest) \subseteq Path /\ IsFiniteSet(PathSet(next.manifest))
    BY <1>5, PathSetFinite DEF Follows, Good, IsInventory
  <2> QED BY <1>4, <2>1, StepsShape
<1>7. Len(plan'.steps) \in Nat /\ 0 < Len(plan'.steps)
  BY <1>6 DEF PlanShape
<1>8. PlanOk(plan', dir, inflight)
  <2>1. IsPlan(plan')
    BY <1>1, <1>2, <1>4 DEF IsPlan
  <2>2. inflight # next
    BY <1>1, <1>5
  <2> QED BY <1>4, <1>5, <1>7, <2>1, <2>2 DEF PlanOk
<1>9. dir.inv = dir.side
  BY <1>1 DEF ObjectOk, DirOk
<1>10. CallOk(plan', saved, dir, inflight)
  BY <1>4, <1>7, <1>9 DEF ObjectOk, CallOk
<1>11. HandleOk(handle, plan', dir)
  <2>1. ~ Completed(plan)
    BY <1>1 DEF Completed
  <2> QED BY <2>1, HandleKept DEF ObjectOk
<1> QED BY <1>1, <1>8, <1>10, <1>11 DEF ObjectOk

\* update-plan.go, MarshalBinary: the saved plan is as sound as the one it was made from.
LEMMA SavePlanStep ==
    ASSUME ObjectOk, SavePlan
    PROVE  ObjectOk'
<1>1. saved' = plan /\ plan # NoPlan /\ plan.call = "none" /\ UNCHANGED <<dir, handle, plan, inflight, acked>>
  BY DEF SavePlan
<1>2. CallOk(plan, saved', dir, inflight)
  BY <1>1 DEF ObjectOk, CallOk
<1> QED BY <1>1, <1>2 DEF ObjectOk

\* update-plan.go, UnmarshalBinary: the plan read back is as sound as the saved one.
LEMMA LoadPlanStep ==
    ASSUME ObjectOk, LoadPlan
    PROVE  ObjectOk'
<1>1. plan' = [saved EXCEPT !.own = FALSE] /\ plan = NoPlan /\ saved # NoPlan
      /\ UNCHANGED <<dir, handle, saved, inflight, acked>>
  BY DEF LoadPlan
<1>2. SamePlan(saved, plan', saved.done) /\ plan'.call = saved.call /\ plan'.own = FALSE
  <2>1. \A x : plan' = [saved EXCEPT !.own = x] =>
            SamePlan(saved, plan', saved.done) /\ plan'.call = saved.call /\ plan'.own = x
    BY PlanFields DEF ObjectOk, PlanOk
  <2> QED BY <1>1, <2>1, Zenon
<1>3. PlanOk(plan', dir, inflight)
  BY <1>1, <1>2, PlanCopy DEF ObjectOk
<1>4. CallOk(plan', saved, dir, inflight)
  BY <1>1, <1>2 DEF ObjectOk, CallOk, SamePlan
<1>5. HandleOk(handle, plan', dir)
  <2>1. ~ Completed(plan)
    BY <1>1 DEF Completed
  <2> QED BY <2>1, HandleKept DEF ObjectOk
<1> QED BY <1>1, <1>3, <1>4, <1>5 DEF ObjectOk

\* The inventory of the sidecar may be acknowledged.
LEMMA SideAcked ==
    ASSUME NEW d, NEW done, Good(d.side), d.side # Nil, AckOk(done, d)
    PROVE  AckOk(done \cup {d.side}, d)
<1>1. d.side.head \in DOMAIN d.side.versions
  BY GoodFacts
<1>2. FilesWithin(d.side, d.side)
  BY DEF FilesWithin
<1> QED BY <1>1, <1>2 DEF AckOk

\* ApplyUpdatePlan: the plan of a handle that may be updated is for the inventory of the
\* sidecar.
LEMMA ApplyUpdatePlanStep ==
    ASSUME ObjectOk, ApplyUpdatePlan
    PROVE  ObjectOk'
<1>1. /\ handle.open /\ plan # NoPlan /\ plan.call = "none" /\ inflight \in {Nil, plan.next}
      /\ ~ (Exists(handle.inv) /\ ~handle.isRoot) /\ plan.base = handle.inv
      /\ plan' = [plan EXCEPT !.call = "apply"] /\ inflight' = plan.next
      /\ UNCHANGED <<dir, handle, saved, acked>>
  BY DEF ApplyUpdatePlan, OwnPlan, ReadOnly, PlanIsCurrent
<1>2. SamePlan(plan, plan', plan.done) /\ plan'.call = "apply" /\ plan'.own = plan.own
  BY <1>1, PlanFields DEF ObjectOk, PlanOk
<1>3. plan.base = dir.side
  <2>1. dir.side.head.num \in Nat /\ plan.base.head.num \in Nat
    BY <1>1, GoodFacts DEF ObjectOk, DirOk, PlanOk
  <2>2. ~ Completed(plan)
    BY <1>1 DEF Completed
  <2>3. handle.inv = dir.side \/ handle.inv.head.num > dir.side.head.num
    BY <1>1, <2>2 DEF ObjectOk, HandleOk
  <2>4. plan.base.head.num <= dir.side.head.num
    BY <1>1 DEF ObjectOk, PlanOk
  <2> QED BY <1>1, <2>1, <2>3, <2>4
<1>4. DirOk(dir, inflight')
  <2>1. Follows(dir.side, inflight')
    BY <1>1, <1>3 DEF ObjectOk, PlanOk
  <2>2. inflight' # Nil
    BY <2>1 DEF Follows
  <2>3. dir.inv = dir.side \/ dir.inv = inflight'
    BY <1>1 DEF ObjectOk, DirOk
  <2> QED BY <2>1, <2>2, <2>3 DEF ObjectOk, DirOk
<1>5. PlanOk(saved, dir, inflight') /\ PlanOk(plan, dir, inflight')
  BY <1>1, BeginKeeps DEF ObjectOk
<1>6. PlanOk(plan', dir, inflight')
  BY <1>1, <1>2, <1>5, PlanCopy
<1>7. CallOk(plan', saved, dir, inflight')
  BY <1>1, <1>2, <1>3 DEF ObjectOk, CallOk, SamePlan
<1>8. HandleOk(handle, plan', dir)
  <2>1. ~ Completed(plan)
    BY <1>1 DEF Completed
  <2> QED BY <2>1, HandleKept DEF ObjectOk
<1> QED BY <1>1, <1>4, <1>5, <1>6, <1>7, <1>8 DEF ObjectOk

\* The update whose inventory the sidecar stands for is resolved.
LEMMA Resolved ==
    ASSUME DirOk(dir, inflight), PlanOk(saved, dir, inflight), CallOk(plan, saved, dir, inflight),
           AckOk(acked, dir), dir.side # Nil, inflight = dir.side
    PROVE  /\ DirOk(dir, Nil) /\ PlanOk(saved, dir, Nil)
           /\ CallOk(NoPlan, saved, dir, Nil)
           /\ AckOk(acked \cup {dir.side}, dir)
<1>1. DirOk(dir, Nil)
  BY DEF DirOk
<1>2. PlanOk(saved, dir, Nil)
  BY ResolveKeeps
<1>3. CallOk(NoPlan, saved, dir, Nil)
  BY DEF CallOk
<1>4. AckOk(acked \cup {dir.side}, dir)
  BY SideAcked DEF DirOk
<1> QED BY <1>1, <1>2, <1>3, <1>4

\* ApplyUpdatePlan refuses a plan that is not for the inventory of the handle.
LEMMA ApplyRefusedStep ==
    ASSUME ObjectOk, ApplyRefused
    PROVE  ObjectOk'
<1> DEFINE found == ~ReadOnly /\ handle.checked /\ handle.inv = plan.next
<1>1. /\ plan # NoPlan /\ plan.call = "none" /\ plan' = NoPlan
      /\ inflight' = IF found /\ inflight = plan.next THEN Nil ELSE inflight
      /\ acked' = IF found THEN acked \cup {plan.next} ELSE acked
      /\ UNCHANGED <<dir, handle, saved>>
  BY DEF ApplyRefused
<1>2. ~ Completed(plan)
  BY <1>1 DEF Completed
<1>3. HandleOk(handle, NoPlan, dir)
  BY <1>2, HandleKept DEF ObjectOk
<1>4. PlanOk(NoPlan, dir, inflight')
  BY NoPlanOk
<1>5. found => plan.next = dir.side /\ dir.side # Nil
  <2>1. plan.next # Nil
    BY <1>1, PlanFacts DEF ObjectOk
  <2> QED BY <1>2, <2>1 DEF ObjectOk, HandleOk
<1> HIDE DEF found
<1>6. AckOk(acked', dir)
  <2>1. CASE found
    BY <1>1, <1>5, <2>1, SideAcked DEF ObjectOk, DirOk
  <2>2. CASE ~found
    BY <1>1, <2>2 DEF ObjectOk
  <2> QED BY <2>1, <2>2
<1>7. DirOk(dir, inflight') /\ PlanOk(saved, dir, inflight') /\ CallOk(NoPlan, saved, dir, inflight')
  <2>1. CASE found /\ inflight = plan.next
    <3>1. inflight' = Nil /\ inflight = dir.side /\ dir.side # Nil
      BY <1>1, <1>5, <2>1
    <3> QED BY <3>1, Resolved DEF ObjectOk
  <2>2. CASE ~(found /\ inflight = plan.next)
    <3>1. inflight' = inflight
      BY <1>1, <2>2
    <3> QED BY <3>1 DEF ObjectOk, CallOk
  <2> QED BY <2>1, <2>2
<1> QED BY <1>1, <1>3, <1>4, <1>6, <1>7 DEF ObjectOk

\* UpdatePlan.Apply on an object that cannot be opened: its sidecar is that of the base.
LEMMA ResumeDirectlyStep ==
    ASSUME ObjectOk, ResumeDirectly
    PROVE  ObjectOk'
<1>1. /\ plan # NoPlan /\ plan.call = "none" /\ inflight = plan.next /\ ~OpenOk(Nil, FALSE)
      /\ plan' = [plan EXCEPT !.call = "apply"]
      /\ UNCHANGED <<dir, handle, saved, inflight, acked>>
  BY DEF ResumeDirectly
<1>2. SamePlan(plan, plan', plan.done) /\ plan'.call = "apply" /\ plan'.own = plan.own
  BY <1>1, PlanFields DEF ObjectOk, PlanOk
<1>3. plan.next # Nil /\ plan.base.head.num \in Nat /\ plan.next.head.num = plan.base.head.num + 1
  BY <1>1, PlanFacts DEF ObjectOk
<1>4. dir.side # plan.next
  <2> SUFFICES ASSUME dir.side = plan.next PROVE FALSE
    OBVIOUS
  <2>1. dir.inv = dir.side /\ dir.side # Garbled
    BY <1>1, GoodFacts DEF ObjectOk, DirOk
  <2>2. OpenedInventory(Nil) = dir.inv
    BY DEF OpenedInventory, Exists
  <2>3. OpenOk(Nil, FALSE)
    BY <1>3, <2>1, <2>2 DEF OpenOk, Unreadable, Exists, SidecarOk
  <2> QED BY <1>1, <2>3
<1>5. plan.base = dir.side
  <2>1. Follows(dir.side, plan.next) /\ dir.side.head.num \in Nat
    BY <1>1, <1>3, <1>4, GoodFacts DEF ObjectOk, DirOk
  <2>2. plan.base.head.num = dir.side.head.num
    BY <1>3, <2>1 DEF Follows
  <2> QED BY <1>1, <2>2 DEF ObjectOk, PlanOk
<1>6. PlanOk(plan', dir, inflight)
  BY <1>1, <1>2, PlanCopy DEF ObjectOk
<1>7. CallOk(plan', saved, dir, inflight)
  BY <1>1, <1>2, <1>5 DEF ObjectOk, CallOk, SamePlan
<1>8. HandleOk(handle, plan', dir)
  <2>1. ~ Completed(plan)
    BY <1>1 DEF Completed
  <2> QED BY <2>1, HandleKept DEF ObjectOk
<1> QED BY <1>1, <1>6, <1>7, <1>8 DEF ObjectOk

\* update-plan.go: a step that fails leaves the directory alone and ends the call.
LEMMA StepFailsStep ==
    ASSUME ObjectOk, StepFails
    PROVE  ObjectOk'
<1>1. /\ \/ plan.call = "apply" /\ plan.done < Len(plan.steps)
         \/ plan.call = "revert" /\ plan.done > 0
      /\ plan' = [plan EXCEPT !.call = "none"]
      /\ UNCHANGED <<dir, handle, saved, inflight, acked>>
  BY DEF StepFails
<1>2. plan # NoPlan
  BY <1>1, NoPlanOk
<1>3. SamePlan(plan, plan', plan.done) /\ plan'.call = "none" /\ plan'.own = plan.own
  BY <1>1, PlanFields DEF ObjectOk, PlanOk
<1>4. Len(plan.steps) \in Nat /\ plan.done \in Nat
  BY <1>2, PlanFacts DEF ObjectOk, PlanShape
<1>5. plan.done < Len(plan.steps) /\ plan.base = dir.side /\ plan.done # Len(plan.steps)
  BY <1>1, <1>2, <1>4 DEF ObjectOk, CallOk
<1>6. PlanOk(plan', dir, inflight)
  BY <1>2, <1>3, PlanCopy DEF ObjectOk
<1>7. CallOk(plan', saved, dir, inflight)
  BY <1>2, <1>3, <1>5 DEF ObjectOk, CallOk, SamePlan
<1>8. HandleOk(handle, plan', dir)
  <2>1. ~ Completed(plan)
    BY <1>5 DEF Completed
  <2> QED BY <2>1, HandleKept DEF ObjectOk
<1> QED BY <1>1, <1>6, <1>7, <1>8 DEF ObjectOk

\* Apply returns: the sidecar is that of the new inventory.
LEMMA ApplyReturnsStep ==
    ASSUME ObjectOk, ApplyReturns
    PROVE  ObjectOk'
<1>1. /\ plan.call = "apply" /\ plan.done = Len(plan.steps) /\ plan' = NoPlan /\ inflight' = Nil
      /\ handle' = IF handle.open
                   THEN [handle EXCEPT !.inv = plan.next, !.isRoot = TRUE, !.checked = TRUE]
                   ELSE handle
      /\ acked' = acked \cup {plan.next} /\ UNCHANGED <<dir, saved>>
  BY DEF ApplyReturns
<1>2. plan # NoPlan
  BY <1>1, NoPlanOk
<1>3. Len(plan.steps) \in Nat /\ plan.next # Nil
  BY <1>2, PlanFacts DEF ObjectOk, PlanShape
<1>4. plan.next = dir.side /\ inflight = plan.next
  BY <1>1, <1>2, <1>3 DEF ObjectOk, CallOk
<1>5. /\ DirOk(dir, Nil) /\ PlanOk(saved, dir, Nil) /\ CallOk(NoPlan, saved, dir, Nil)
      /\ AckOk(acked \cup {dir.side}, dir)
  BY <1>3, <1>4, Resolved DEF ObjectOk
<1>6. HandleOk(handle', NoPlan, dir)
  <2>1. CASE ~ handle.open
    <3>1. handle' = Closed
      BY <1>1, <2>1 DEF ObjectOk, HandleOk
    <3> QED BY <3>1, ClosedOk
  <2>2. CASE handle.open
    <3>1. handle = [open |-> handle.open, inv |-> handle.inv, isRoot |-> handle.isRoot,
                    checked |-> handle.checked]
      BY DEF ObjectOk, HandleOk
    <3>2. handle' = [open |-> handle.open, inv |-> plan.next, isRoot |-> TRUE, checked |-> TRUE]
      BY <1>1, <2>2, <3>1
    <3>3. /\ handle'.open /\ handle'.inv = plan.next /\ handle'.isRoot
          /\ handle' = [open |-> handle'.open, inv |-> handle'.inv, isRoot |-> handle'.isRoot,
                        checked |-> handle'.checked]
      BY <2>2, <3>2
    <3> QED BY <1>4, <3>3 DEF HandleOk
  <2> QED BY <2>1, <2>2
<1> QED BY <1>1, <1>4, <1>5, <1>6, NoPlanOk DEF ObjectOk

\* update-plan.go, Revert: beginning to revert changes nothing in the directory.
LEMMA RevertBegins ==
    ASSUME ObjectOk, Revert
    PROVE  ObjectOk'
<1>1. /\ plan # NoPlan /\ plan.call = "none" /\ plan.own /\ plan.done < Len(plan.steps)
      /\ plan' = [plan EXCEPT !.call = "revert"] /\ saved' = NoPlan
      /\ UNCHANGED <<dir, handle, inflight, acked>>
  BY DEF Revert
<1>2. SamePlan(plan, plan', plan.done) /\ plan'.call = "revert" /\ plan'.own = plan.own
  BY <1>1, PlanFields, ZenonT(40) DEF ObjectOk, PlanOk
<1>3. PlanOk(plan', dir, inflight)
  BY <1>1, <1>2, PlanCopy DEF ObjectOk
<1>4. CallOk(plan', saved', dir, inflight)
  BY <1>1, <1>2 DEF ObjectOk, CallOk, SamePlan
<1>5. HandleOk(handle, plan', dir)
  <2>1. ~ Completed(plan)
    BY <1>1 DEF Completed
  <2> QED BY <2>1, HandleKept DEF ObjectOk
<1> QED BY <1>1, <1>3, <1>4, <1>5, NoPlanOk DEF ObjectOk

\* Revert returns: no step is left, so inventory.json is that of the sidecar again.
LEMMA RevertReturnsStep ==
    ASSUME ObjectOk, RevertReturns
    PROVE  ObjectOk'
<1>1. /\ plan.call = "revert" /\ plan.done = 0 /\ plan' = NoPlan /\ inflight' = Nil
      /\ UNCHANGED <<dir, handle, saved, acked>>
  BY DEF RevertReturns
<1>2. plan # NoPlan
  BY <1>1, NoPlanOk
<1>3. Len(plan.steps) \in Nat /\ Len(plan.steps) >= 5
  BY <1>2, PlanFacts DEF ObjectOk, PlanShape
<1>4. dir.inv = dir.side /\ saved = NoPlan
  BY <1>1, <1>2, <1>3 DEF ObjectOk, CallOk
<1>5. DirOk(dir, Nil)
  BY <1>4 DEF ObjectOk, DirOk
<1>6. HandleOk(handle, NoPlan, dir)
  <2>1. ~ Completed(plan)
    BY <1>1 DEF Completed
  <2> QED BY <2>1, HandleKept DEF ObjectOk
<1> QED BY <1>1, <1>4, <1>5, <1>6, NoPlanOk DEF ObjectOk, CallOk

\* A process dies: handles and plans are lost, the directory and the saved plan stay.
LEMMA CrashStep ==
    ASSUME ObjectOk, Crash
    PROVE  ObjectOk'
<1>1. handle' = Closed /\ plan' = NoPlan /\ UNCHANGED <<dir, saved, inflight, acked>>
  BY DEF Crash
<1>2. HandleOk(handle', plan', dir)
  BY <1>1, ClosedOk
<1>3. CallOk(NoPlan, saved, dir, inflight)
  BY DEF ObjectOk, CallOk
<1> QED BY <1>1, <1>2, <1>3, NoPlanOk DEF ObjectOk

-----------------------------------------------------------------------------
(* The steps of Apply *)

\* A step of Apply leaves the content of the base and what earlier steps did, and does
\* what the plan says of it.
LEMMA RunKeeps ==
    ASSUME NEW d, NEW begun, DirOk(d, begun), NEW p, PlanOk(p, d, begun), p # NoPlan, p.base = d.side,
           NEW i \in 1..Len(p.steps), NEW e, e = RunStep(d, p, p.steps[i])
    PROVE  /\ IsDir(e) /\ HasContentOf(e, d.side)
           /\ \A q : q.next = p.next /\ Effects(q, d) => Effects(q, e)
           /\ p.steps[i].op = "copy" =>
                 /\ p.steps[i].arg \in DOMAIN e.content
                 /\ e.content[p.steps[i].arg] = Sums(p.next.manifest)[p.steps[i].arg]
           /\ e.inv = (IF i = Len(p.steps) - 1 THEN p.next ELSE d.inv)
           /\ e.side = (IF i = Len(p.steps) THEN p.next ELSE d.side)
<1> DEFINE s == p.steps[i]
           y == DigestFor(p.next.manifest, s.arg)[1]
<1>1. PlanShape(p.steps, p.next) /\ p.base.head.num \in Nat /\ p.next.head.num = p.base.head.num + 1
  BY PlanFacts
<1>2. /\ IsDir(e)
      /\ e.inv = IF s.op = "rootInventory" THEN p.next ELSE d.inv
      /\ e.side = IF s.op = "rootSidecar" THEN p.next ELSE d.side
      /\ e.content = IF s.op = "copy" THEN With(d.content, s.arg, y) ELSE d.content
  BY RunStepIs DEF DirOk
<1>3. (s.op = "rootInventory" <=> i = Len(p.steps) - 1) /\ (s.op = "rootSidecar" <=> i = Len(p.steps))
  BY <1>1 DEF PlanShape
<1>4. s.op = "copy" =>
          /\ s.arg \in PathSet(p.next.manifest) /\ InVersionDir(s.arg, p.next.head.num)
          /\ y = Sums(p.next.manifest)[s.arg]
  BY <1>1, SumsIs DEF PlanShape, NewContent
<1> HIDE DEF s, y
<1>5. s.op = "copy" => /\ s.arg \in DOMAIN e.content /\ e.content[s.arg] = y
                       /\ \A z \in DOMAIN d.content : z \in DOMAIN e.content /\ (z # s.arg => e.content[z] = d.content[z])
  <2> DEFINE w == With(d.content, s.arg, y)
  <2>1. /\ DOMAIN w = DOMAIN d.content \cup {s.arg} /\ w[s.arg] = y
        /\ \A z \in DOMAIN d.content : z # s.arg => w[z] = d.content[z]
    BY DEF With
  <2>2. s.op = "copy" => e.content = w
    BY <1>2
  <2> HIDE DEF w
  <2> QED BY <2>1, <2>2
<1>6. \A z \in DOMAIN d.content :
          z \in DOMAIN e.content /\ (e.content[z] = d.content[z] \/ (s.op = "copy" /\ z = s.arg))
  BY <1>2, <1>5
<1>7. HasContentOf(e, d.side)
  <2> SUFFICES ASSUME NEW z \in PathSet(d.side.manifest)
               PROVE  z \in DOMAIN e.content /\ e.content[z] = DigestFor(d.side.manifest, z)[1]
    BY DEF HasContentOf
  <2>1. z \in DOMAIN d.content /\ d.content[z] = DigestFor(d.side.manifest, z)[1]
    BY DEF DirOk, HasContentOf
  <2>2. ~ InVersionDir(z, p.next.head.num)
    <3>1. Good(d.side) /\ p.next.head.num \in Nat /\ p.next.head.num > d.side.head.num
      BY <1>1 DEF DirOk
    <3> QED BY <3>1, NewContentApart
  <2>3. ~ (s.op = "copy" /\ z = s.arg)
    BY <1>4, <2>2
  <2> QED BY <1>6, <2>1, <2>3
<1>8. ASSUME NEW q, q.next = p.next, Effects(q, d)
      PROVE  Effects(q, e)
  <2> SUFFICES ASSUME NEW j \in 1..q.done
               PROVE  /\ q.steps[j].op = "copy" =>
                            /\ q.steps[j].arg \in DOMAIN e.content
                            /\ e.content[q.steps[j].arg] = Sums(q.next.manifest)[q.steps[j].arg]
                      /\ q.steps[j].op = "rootInventory" => e.inv = q.next
    BY DEF Effects
  <2> DEFINE z == q.steps[j].arg
  <2>1. q.steps[j].op = "copy" => z \in DOMAIN d.content /\ d.content[z] = Sums(q.next.manifest)[z]
    BY <1>8 DEF Effects
  <2>2. q.steps[j].op = "rootInventory" => d.inv = q.next
    BY <1>8 DEF Effects
  <2> HIDE DEF z
  <2>3. q.steps[j].op = "copy" => z \in DOMAIN e.content /\ e.content[z] = Sums(q.next.manifest)[z]
    BY <1>4, <1>5, <1>6, <1>8, <2>1
  <2>4. q.steps[j].op = "rootInventory" => e.inv = q.next
    BY <1>2, <1>8, <2>2
  <2> QED BY <2>3, <2>4 DEF z
<1> QED BY <1>2, <1>3, <1>4, <1>5, <1>7, <1>8 DEF s

\* When all steps but the last have run, the files of the new inventory are all there.
LEMMA ContentBeforeSidecar ==
    ASSUME NEW d, NEW begun, DirOk(d, begun), NEW p, PlanOk(p, d, begun), p # NoPlan, p.base = d.side,
           Effects(p, d), p.done = Len(p.steps) - 1
    PROVE  d.inv = p.next /\ HasContentOf(d, p.next)
<1> DEFINE n == Len(p.steps)
<1>1. PlanShape(p.steps, p.next) /\ Follows(d.side, p.next) /\ n \in Nat /\ n >= 5
  BY PlanFacts DEF PlanOk, PlanShape
<1>2. d.inv = p.next
  <2>1. p.steps[n - 1].op = "rootInventory" /\ n - 1 \in 1..p.done
    BY <1>1 DEF PlanShape
  <2> QED BY <2>1 DEF Effects
<1>3. ASSUME NEW z \in PathSet(p.next.manifest)
      PROVE  z \in DOMAIN d.content /\ d.content[z] = Sums(p.next.manifest)[z]
  <2>1. CASE z \in PathSet(d.side.manifest)
    <3>1. z \in DOMAIN d.content /\ d.content[z] = Sums(d.side.manifest)[z]
      BY <2>1, SumsIs DEF DirOk, HasContentOf
    <3> QED BY <1>1, <2>1, <3>1 DEF Follows, FilesWithin
  <2>2. CASE z \notin PathSet(d.side.manifest)
    <3>1. z \in NewContent(p.next)
      BY <1>1, <2>2 DEF Follows, NewContent
    <3>2. PICK i \in 1..n : p.steps[i] = Step("copy", z)
      BY <1>1, <3>1 DEF PlanShape
    <3>3. p.steps[i].op = "copy" /\ p.steps[i].arg = z
      BY <3>2 DEF Step
    <3>4. i # n
      BY <1>1, <3>3 DEF PlanShape
    <3>5. i \in 1..p.done
      BY <1>1, <3>4
    <3> QED BY <3>3, <3>5 DEF Effects
  <2> QED BY <2>1, <2>2
<1> QED BY <1>2, <1>3, SumsIs DEF HasContentOf

\* update-plan.go, Apply: one step run by the process that applies the plan keeps the invariant.
LEMMA ApplyStepStep ==
    ASSUME ObjectOk, ApplyStep
    PROVE  ObjectOk'
<1> DEFINE i == plan.done + 1
           n == Len(plan.steps)
<1>1. /\ plan.call = "apply" /\ plan.done < n /\ dir' = RunStep(dir, plan, plan.steps[i])
      /\ plan' = [plan EXCEPT !.done = i] /\ UNCHANGED <<handle, saved, inflight, acked>>
  BY DEF ApplyStep
<1>2. plan # NoPlan
  BY <1>1, NoPlanOk
<1>3. /\ PlanShape(plan.steps, plan.next) /\ plan.base.head.num \in Nat /\ plan.done \in Nat
      /\ plan.next.head.num = plan.base.head.num + 1 /\ plan.next # Nil /\ n \in Nat /\ n >= 5
  BY <1>2, PlanFacts DEF ObjectOk, PlanShape
<1>4. inflight = plan.next /\ plan.base = dir.side
  BY <1>1, <1>2, <1>3 DEF ObjectOk, CallOk
<1>5. SamePlan(plan, plan', i) /\ plan'.call = "apply" /\ plan'.own = plan.own
  BY <1>1, PlanFields DEF ObjectOk, PlanOk
<1>6. i \in 1..n /\ i - 1 = plan.done
  BY <1>1, <1>3
<1> HIDE DEF i
<1>7. /\ IsDir(dir') /\ HasContentOf(dir', dir.side)
      /\ \A q : q.next = plan.next /\ Effects(q, dir) => Effects(q, dir')
      /\ plan.steps[i].op = "copy" =>
            /\ plan.steps[i].arg \in DOMAIN dir'.content
            /\ dir'.content[plan.steps[i].arg] = Sums(plan.next.manifest)[plan.steps[i].arg]
      /\ dir'.inv = (IF i = n - 1 THEN plan.next ELSE dir.inv)
      /\ dir'.side = (IF i = n THEN plan.next ELSE dir.side)
  BY <1>1, <1>2, <1>4, <1>6, RunKeeps DEF ObjectOk
<1>8. Effects(plan, dir) /\ Effects(plan, dir')
  BY <1>2, <1>4, <1>7 DEF ObjectOk, PlanOk
<1>9. Follows(dir.side, plan.next) /\ Good(dir.side) /\ dir.side.head.num \in Nat
  BY <1>2, <1>3, <1>4 DEF ObjectOk, PlanOk
<1>10. plan' # NoPlan
  <2>1. plan'.next # Nil /\ NoPlan.next = Nil
    BY <1>3, <1>5 DEF SamePlan, NoPlan
  <2> QED BY <2>1
<1>11. CASE i = n
  <2>1. dir'.side = plan.next /\ dir'.inv = dir.inv /\ plan.done = n - 1
    BY <1>3, <1>6, <1>7, <1>11
  <2>2. dir'.content = dir.content
    <3>1. plan.steps[i].op = "rootSidecar"
      BY <1>3, <1>6, <1>11 DEF PlanShape
    <3> QED BY <1>1, <3>1, RunStepIs DEF ObjectOk, DirOk
  <2>3. dir.inv = plan.next /\ HasContentOf(dir, plan.next)
    BY <1>2, <1>4, <1>8, <2>1, ContentBeforeSidecar DEF ObjectOk
  <2>4. HasContentOf(dir', plan.next)
    BY <2>2, <2>3 DEF HasContentOf
  <2>5. DirOk(dir', inflight)
    BY <1>4, <1>7, <1>9, <2>1, <2>3, <2>4 DEF DirOk, Follows
  <2>6. dir'.side.head.num = dir.side.head.num + 1
    BY <1>3, <1>4, <2>1
  <2>7. ASSUME NEW q, PlanOk(q, dir, inflight) PROVE PlanOk(q, dir', inflight)
    <3>1. CASE q = NoPlan
      BY <3>1, NoPlanOk
    <3>2. CASE q # NoPlan
      <4>1. q.base.head.num \in Nat /\ q.base.head.num <= dir.side.head.num
        BY <2>7, <3>2, PlanFacts DEF PlanOk
      <4>2. q.base.head.num <= dir'.side.head.num /\ q.base.head.num # dir'.side.head.num
        BY <1>9, <2>6, <4>1
      <4>3. q.base # dir'.side
        BY <4>2
      <4> QED BY <2>7, <3>2, <4>2, <4>3 DEF PlanOk
    <3> QED BY <3>1, <3>2
  <2>8. PlanOk(plan', dir', inflight)
    <3>1. PlanOk(plan, dir', inflight)
      BY <2>7 DEF ObjectOk
    <3>2. plan'.base = plan.base /\ plan'.next = plan.next /\ plan'.steps = plan.steps /\ plan'.done = n
          /\ IsPlan(plan')
      BY <1>5, <1>11 DEF SamePlan
    <3>3. n \in 0..n
      BY <1>3
    <3>4. plan.base # dir'.side
      BY <1>3, <2>1
    <3> QED BY <1>2, <3>1, <3>2, <3>3, <3>4 DEF PlanOk
  <2>9. CallOk(plan', saved, dir', inflight)
    BY <1>3, <1>4, <1>5, <1>10, <1>11, <2>1, <2>3 DEF ObjectOk, CallOk, SamePlan
  <2>10. HandleOk(handle, plan', dir')
    <3>1. Completed(plan')
      BY <1>5, <1>10, <1>11 DEF Completed, SamePlan
    <3> QED BY <3>1 DEF ObjectOk, HandleOk
  <2>11. AckOk(acked, dir')
    <3>1. dir'.side = plan.next
      BY <2>1
    <3> SUFFICES ASSUME NEW a \in acked
                 PROVE  /\ a.head \in DOMAIN plan.next.versions
                        /\ plan.next.versions[a.head] = a.versions[a.head]
                        /\ FilesWithin(a, plan.next)
      BY <3>1 DEF AckOk
    <3>2. a.head \in DOMAIN dir.side.versions /\ dir.side.versions[a.head] = a.versions[a.head]
          /\ FilesWithin(a, dir.side)
      BY DEF ObjectOk, AckOk
    <3>3. FilesWithin(a, plan.next)
      BY <1>9, <3>2 DEF Follows, FilesWithin
    <3> QED BY <1>9, <3>2, <3>3 DEF Follows
  <2> QED BY <1>1, <2>5, <2>7, <2>8, <2>9, <2>10, <2>11 DEF ObjectOk
<1>12. CASE i # n
  <2>1. dir'.side = dir.side /\ dir'.inv = (IF i = n - 1 THEN plan.next ELSE dir.inv)
    BY <1>7, <1>12
  <2>2. DirOk(dir', inflight)
    <3>1. dir'.inv = dir.side \/ dir'.inv = inflight
      BY <1>4, <2>1 DEF ObjectOk, DirOk
    <3> QED BY <1>3, <1>4, <1>7, <1>9, <2>1, <3>1 DEF DirOk
  <2>3. PlanOk(saved, dir', inflight)
    <3>1. saved.next = inflight /\ Effects(saved, dir) => Effects(saved, dir')
      BY <1>4, <1>7
    <3> QED BY <2>1, <3>1 DEF ObjectOk, PlanOk
  <2>4. PlanOk(plan', dir', inflight)
    <3>1. plan'.base = plan.base /\ plan'.next = plan.next /\ plan'.steps = plan.steps /\ plan'.done = i
          /\ IsPlan(plan')
      BY <1>5 DEF SamePlan
    <3>2. i \in 0..n
      BY <1>3, <1>6
    <3>3. Effects(plan', dir')
      <4> SUFFICES ASSUME NEW j \in 1..i
                   PROVE  /\ plan.steps[j].op = "copy" =>
                                /\ plan.steps[j].arg \in DOMAIN dir'.content
                                /\ dir'.content[plan.steps[j].arg] = Sums(plan.next.manifest)[plan.steps[j].arg]
                          /\ plan.steps[j].op = "rootInventory" => dir'.inv = plan.next
        BY <3>1 DEF Effects
      <4>1. CASE j = i
        <5>1. plan.steps[j].op = "rootInventory" => j = n - 1
          BY <1>3, <1>6, <4>1 DEF PlanShape
        <5> QED BY <1>7, <4>1, <5>1
      <4>2. CASE j # i
        <5>1. j \in 1..plan.done
          BY <1>3, <1>6, <4>2
        <5> QED BY <1>8, <5>1 DEF Effects
      <4> QED BY <4>1, <4>2
    <3> QED BY <1>2, <1>4, <2>1, <3>1, <3>2, <3>3 DEF ObjectOk, PlanOk
  <2>5. CallOk(plan', saved, dir', inflight)
    <3>1. plan'.next = plan.next /\ plan'.base = plan.base /\ plan'.steps = plan.steps /\ plan'.done = i
      BY <1>5 DEF SamePlan
    <3>2. i < n
      BY <1>3, <1>6, <1>12
    <3>3. dir'.inv # dir'.side /\ plan.own => i >= n - 1
      <4>1. CASE dir.inv # dir.side
        <5>1. plan.own => plan.done >= n - 1
          BY <1>2, <4>1 DEF ObjectOk, CallOk
        <5> QED BY <1>3, <1>6, <5>1
      <4>2. CASE dir.inv = dir.side
        BY <1>3, <1>6, <2>1, <4>2
      <4> QED BY <4>1, <4>2
    <3> QED BY <1>4, <1>5, <2>1, <3>1, <3>2, <3>3 DEF ObjectOk, CallOk
  <2>6. HandleOk(handle, plan', dir')
    <3>1. ~ Completed(plan)
      BY <1>1, <1>3 DEF Completed
    <3> QED BY <2>1, <3>1, HandleKept DEF ObjectOk
  <2>7. AckOk(acked, dir')
    BY <2>1, SMTT(30) DEF ObjectOk, AckOk
  <2> QED BY <1>1, <2>2, <2>3, <2>4, <2>5, <2>6, <2>7 DEF ObjectOk
<1> QED BY <1>11, <1>12

-----------------------------------------------------------------------------
(* The steps of Revert *)

\* A step of Revert leaves the content of the base and what the steps before it did.
LEMMA UndoKeeps ==
    ASSUME NEW d, NEW begun, DirOk(d, begun), NEW p, PlanOk(p, d, begun), p # NoPlan, p.base = d.side,
           Effects(p, d), p.done \in 1..Len(p.steps) - 1,
           p.steps[p.done].op = "objectRoot" => p.next.head.num # 1,
           NEW e, e = RevertStep(d, p, p.steps[p.done])
    PROVE  /\ IsDir(e) /\ e.side = d.side /\ HasContentOf(e, d.side)
           /\ e.inv = (IF p.done = Len(p.steps) - 1 THEN d.side ELSE d.inv)
           /\ \A j \in 1..p.done - 1 :
                 /\ p.steps[j].op = "copy" =>
                       /\ p.steps[j].arg \in DOMAIN e.content
                       /\ e.content[p.steps[j].arg] = Sums(p.next.manifest)[p.steps[j].arg]
                 /\ p.steps[j].op # "rootInventory"
<1> DEFINE i == p.done
           n == Len(p.steps)
           s == p.steps[i]
           num == p.next.head.num
           gone == IF s.op = "versionDir" THEN ContentIn(d, num)
                   ELSE IF s.op = "copy" THEN {s.arg} ELSE {}
<1>1. /\ PlanShape(p.steps, p.next) /\ p.base.head.num \in Nat /\ num = p.base.head.num + 1
      /\ n \in Nat /\ i \in Nat /\ i \in 1..n
  <2>1. PlanShape(p.steps, p.next) /\ p.base.head.num \in Nat /\ num = p.base.head.num + 1 /\ i \in Nat
    BY PlanFacts
  <2>2. n \in Nat
    BY <2>1 DEF PlanShape
  <2> QED BY <2>1, <2>2
<1>2. /\ IsDir(e) /\ e.side = d.side
      /\ e.inv = IF s.op = "rootInventory" THEN p.base ELSE d.inv
      /\ DOMAIN e.content = DOMAIN d.content \ gone
      /\ \A c \in DOMAIN d.content \ gone : e.content[c] = d.content[c]
  BY RevertStepIs DEF DirOk
<1>3. \A c \in gone : InVersionDir(c, num)
  <2>1. s.op = "copy" => InVersionDir(s.arg, num)
    BY <1>1 DEF PlanShape, NewContent
  <2>2. \A c \in ContentIn(d, num) : InVersionDir(c, num)
    BY DEF ContentIn
  <2> QED BY <2>1, <2>2
<1>4. HasContentOf(e, d.side)
  <2> SUFFICES ASSUME NEW z \in PathSet(d.side.manifest)
               PROVE  z \in DOMAIN e.content /\ e.content[z] = DigestFor(d.side.manifest, z)[1]
    BY DEF HasContentOf
  <2>1. z \in DOMAIN d.content /\ d.content[z] = DigestFor(d.side.manifest, z)[1]
    BY DEF DirOk, HasContentOf
  <2>2. ~ InVersionDir(z, num)
    <3>1. Good(d.side) /\ num \in Nat /\ num > d.side.head.num
      BY <1>1 DEF DirOk
    <3> QED BY <3>1, NewContentApart
  <2>3. z \notin gone
    BY <1>3, <2>2
  <2> HIDE DEF gone
  <2> QED BY <1>2, <2>1, <2>3
<1>5. e.inv = (IF i = n - 1 THEN d.side ELSE d.inv)
  <2>1. s.op = "rootInventory" <=> i = n - 1
    BY <1>1 DEF PlanShape
  <2> QED BY <1>2, <2>1
<1>6. ASSUME NEW j \in 1..i - 1
      PROVE  /\ p.steps[j].op = "copy" =>
                   /\ p.steps[j].arg \in DOMAIN e.content
                   /\ e.content[p.steps[j].arg] = Sums(p.next.manifest)[p.steps[j].arg]
             /\ p.steps[j].op # "rootInventory"
  <2>1. j \in 1..i /\ j \in 1..n /\ j < i /\ j # n - 1
    BY <1>1, <1>6
  <2>2. p.steps[j].op # "rootInventory"
    BY <1>1, <2>1 DEF PlanShape
  <2>3. ASSUME p.steps[j].op = "copy" PROVE p.steps[j].arg \notin gone
    <3>1. s.op # "versionDir"
      <4>1. s.op = "versionDir" => i < j
        BY <1>1, <2>1, <2>3 DEF PlanShape
      <4> QED BY <1>1, <2>1, <4>1
    <3>2. s.op = "copy" => p.steps[j].arg # s.arg
      <4>1. s.op = "copy" /\ p.steps[j].arg = s.arg => i = j
        BY <1>1, <2>1, <2>3 DEF PlanShape
      <4> QED BY <1>1, <2>1, <4>1
    <3> QED BY <3>1, <3>2
  <2> HIDE DEF gone
  <2>4. p.steps[j].op = "copy" =>
            p.steps[j].arg \in DOMAIN d.content /\ d.content[p.steps[j].arg] = Sums(p.next.manifest)[p.steps[j].arg]
    BY <2>1 DEF Effects
  <2> QED BY <1>2, <2>2, <2>3, <2>4
<1> QED BY <1>2, <1>4, <1>5, <1>6

\* update-plan.go, Revert: one step undone keeps the invariant.
LEMMA UndoStepStep ==
    ASSUME ObjectOk, UndoStep
    PROVE  ObjectOk'
<1> DEFINE i == plan.done
           n == Len(plan.steps)
<1>1. /\ plan.call = "revert" /\ i > 0 /\ dir' = RevertStep(dir, plan, plan.steps[i])
      /\ plan' = [plan EXCEPT !.done = i - 1] /\ UNCHANGED <<handle, saved, inflight, acked>>
  BY DEF UndoStep
<1>2. plan # NoPlan
  BY <1>1, NoPlanOk
<1>3. /\ PlanShape(plan.steps, plan.next) /\ plan.base.head.num \in Nat /\ i \in Nat
      /\ plan.next.head.num = plan.base.head.num + 1 /\ plan.next # Nil /\ n \in Nat /\ n >= 5
  BY <1>2, PlanFacts DEF ObjectOk, PlanShape
<1>4. plan.own /\ saved = NoPlan /\ plan.base = dir.side /\ i < n
  BY <1>1, <1>2 DEF ObjectOk, CallOk
<1>5. inflight = plan.next /\ Effects(plan, dir)
  BY <1>1, <1>2, <1>4 DEF ObjectOk, PlanOk
<1>6. /\ plan'.base = plan.base /\ plan'.next = plan.next /\ plan'.steps = plan.steps /\ plan'.done = i - 1
      /\ IsPlan(plan') /\ plan'.call = "revert" /\ plan'.own = plan.own
  <2> DEFINE k == i - 1
  <2>1. plan' = [plan EXCEPT !.done = k] /\ IsPlan(plan)
    BY <1>1 DEF ObjectOk, PlanOk
  <2> HIDE DEF k
  <2>2. SamePlan(plan, plan', k) /\ plan'.call = plan.call /\ plan'.own = plan.own
    BY <2>1, PlanFields
  <2> QED BY <1>1, <2>2 DEF SamePlan, k
<1>7. Follows(dir.side, plan.next) /\ Good(dir.side)
  BY <1>2, <1>4 DEF ObjectOk, PlanOk
<1>8. i \in 1..n - 1 /\ i \in 1..n /\ i - 1 \in 0..n /\ i - 1 < n
  BY <1>1, <1>3, <1>4
<1>9. /\ dir'.side = dir.side /\ DirOk(dir', inflight) /\ (dir'.inv # dir'.side => i - 1 >= n - 1)
      /\ \A j \in 1..i - 1 :
            /\ plan.steps[j].op = "copy" =>
                  /\ plan.steps[j].arg \in DOMAIN dir'.content
                  /\ dir'.content[plan.steps[j].arg] = Sums(plan.next.manifest)[plan.steps[j].arg]
            /\ plan.steps[j].op # "rootInventory"
  <2>1. CASE plan.steps[i].op = "objectRoot" /\ plan.next.head.num = 1
    <3>1. i = 1
      BY <1>3, <1>8, <2>1 DEF PlanShape
    <3>2. dir' = EmptyDir(MaxHead)
      BY <1>1, <2>1 DEF RevertStep
    <3>3. dir.side = Nil
      BY <1>3, <1>4, <1>7, <2>1, GoodFacts
    <3>4. dir'.side = Nil /\ dir'.inv = Nil
      BY <3>2 DEF EmptyDir
    <3>5. DirOk(dir', inflight)
      BY <1>3, <1>5, <1>7, <3>2, <3>3, <3>4, EmptyDirOk DEF DirOk
    <3> QED BY <3>1, <3>3, <3>4, <3>5
  <2>2. CASE ~ (plan.steps[i].op = "objectRoot" /\ plan.next.head.num = 1)
    <3>1. /\ IsDir(dir') /\ dir'.side = dir.side /\ HasContentOf(dir', dir.side)
          /\ dir'.inv = (IF i = n - 1 THEN dir.side ELSE dir.inv)
          /\ \A j \in 1..i - 1 :
                /\ plan.steps[j].op = "copy" =>
                      /\ plan.steps[j].arg \in DOMAIN dir'.content
                      /\ dir'.content[plan.steps[j].arg] = Sums(plan.next.manifest)[plan.steps[j].arg]
                /\ plan.steps[j].op # "rootInventory"
      BY <1>1, <1>2, <1>4, <1>5, <1>8, <2>2, UndoKeeps DEF ObjectOk
    <3>2. DirOk(dir', inflight)
      <4>1. dir'.inv = dir.side \/ dir'.inv = inflight
        BY <3>1 DEF ObjectOk, DirOk
      <4> QED BY <1>3, <1>5, <1>7, <3>1, <4>1 DEF DirOk
    <3>3. dir'.inv = dir.side
      <4>1. CASE i = n - 1
        BY <3>1, <4>1
      <4>2. CASE i # n - 1
        <5>1. ~ i >= n - 1
          BY <1>3, <1>4, <4>2
        <5>2. dir.inv = dir.side
          BY <1>2, <1>4, <5>1 DEF ObjectOk, CallOk
        <5> QED BY <3>1, <4>2, <5>2
      <4> QED BY <4>1, <4>2
    <3> QED BY <3>1, <3>2, <3>3
  <2> QED BY <2>1, <2>2
<1>10. plan' # NoPlan
  <2>1. plan'.next # Nil /\ NoPlan.next = Nil
    BY <1>3, <1>6 DEF NoPlan
  <2> QED BY <2>1
<1>11. PlanOk(plan', dir', inflight)
  <2>1. Effects(plan', dir')
    BY <1>6, <1>9 DEF Effects
  <2> HIDE DEF i, n
  <2> QED BY <1>2, <1>4, <1>5, <1>6, <1>8, <1>9, <2>1 DEF ObjectOk, PlanOk, n
<1>12. CallOk(plan', saved, dir', inflight)
  BY <1>4, <1>6, <1>8, <1>9, <1>10 DEF CallOk
<1>13. HandleOk(handle, plan', dir')
  <2>1. ~ Completed(plan)
    BY <1>1 DEF Completed
  <2> QED BY <1>9, <2>1, HandleKept DEF ObjectOk
<1>14. AckOk(acked, dir')
  BY <1>9 DEF ObjectOk, AckOk
<1> QED BY <1>1, <1>4, <1>9, <1>11, <1>12, <1>13, <1>14, NoPlanOk DEF ObjectOk

-----------------------------------------------------------------------------
(* The theorems *)

\* The invariant is inductive: every step of a handle, of a process or of a plan keeps it.
LEMMA ObjectNext == ObjectInv /\ [Next]_vars => ObjectInv'
<1> SUFFICES ASSUME ObjectInv, [Next]_vars, ~ rotted' PROVE ObjectOk'
  BY DEF ObjectInv
<1>1. CASE UNCHANGED vars
  BY <1>1 DEF ObjectInv, ObjectOk, vars
<1>2. CASE Next /\ ~ rotted
  <2> USE <1>2
  <2>1. ObjectOk
    BY DEF ObjectInv
  <2>2. ASSUME NEW cached \in {Nil} \cup acked, NEW skip \in BOOLEAN, NewObject(cached, skip)
        PROVE  ObjectOk'
    BY <2>1, <2>2, NewObjectStep
  <2>3. CASE CloseObject
    BY <2>1, <2>3, CloseObjectStep
  <2>4. ASSUME NEW stage \in Stages, NEW spec \in Specs, NewUpdatePlan(stage, spec)
        PROVE  ObjectOk'
    BY <2>1, <2>4, NewUpdatePlanStep
  <2>5. CASE SavePlan
    BY <2>1, <2>5, SavePlanStep
  <2>6. CASE LoadPlan
    BY <2>1, <2>6, LoadPlanStep
  <2>7. CASE ApplyUpdatePlan
    BY <2>1, <2>7, ApplyUpdatePlanStep
  <2>8. CASE ApplyRefused
    BY <2>1, <2>8, ApplyRefusedStep
  <2>9. CASE ResumeDirectly
    BY <2>1, <2>9, ResumeDirectlyStep
  <2>10. CASE ApplyStep
    BY <2>1, <2>10, ApplyStepStep
  <2>11. CASE StepFails
    BY <2>1, <2>11, StepFailsStep
  <2>12. CASE ApplyReturns
    BY <2>1, <2>12, ApplyReturnsStep
  <2>13. CASE Revert
    BY <2>1, <2>13, RevertBegins
  <2>14. CASE UndoStep
    BY <2>1, <2>14, UndoStepStep
  <2>15. CASE RevertReturns
    BY <2>1, <2>15, RevertReturnsStep
  <2>16. CASE Crash
    BY <2>1, <2>16, CrashStep
  <2>17. CASE Damage
    BY <2>17 DEF Damage
  <2> QED BY <2>2, <2>3, <2>4, <2>5, <2>6, <2>7, <2>8, <2>9, <2>10, <2>11, <2>12, <2>13, <2>14,
             <2>15, <2>16, <2>17 DEF Next
<1>3. CASE Next /\ rotted
  BY <1>3 DEF Next, NewObject, CloseObject, NewUpdatePlan, SavePlan, LoadPlan, ApplyUpdatePlan, ApplyRefused,
              ResumeDirectly, ApplyStep, StepFails, ApplyReturns, Revert, UndoStep, RevertReturns, Crash, Damage
<1> QED BY <1>1, <1>2, <1>3

\* What the invariant says of an object that NewObject opens, and of acknowledged updates.
LEMMA ObjectInvIsEnough == ObjectInv => OpenedObjectIsWhole /\ AckedKept
<1> SUFFICES ASSUME ObjectInv, ~ rotted
             PROVE  /\ OpenOk(Nil, FALSE) => HasContentOf(dir, dir.inv)
                    /\ \A a \in acked : /\ a.head \in DOMAIN dir.inv.versions
                                        /\ dir.inv.versions[a.head] = a.versions[a.head]
                                        /\ HasContentOf(dir, a)
  BY DEF OpenedObjectIsWhole, AckedKept
<1>1. DirOk(dir, inflight) /\ AckOk(acked, dir)
  BY DEF ObjectInv, ObjectOk
<1>2. OpenOk(Nil, FALSE) => HasContentOf(dir, dir.inv)
  <2>1. OpenedInventory(Nil) = dir.inv
    BY DEF OpenedInventory, Exists
  <2>2. CASE dir.inv = Nil
    BY <2>2, NilIsGood DEF HasContentOf
  <2>3. CASE dir.inv # Nil
    <3>1. OpenOk(Nil, FALSE) => dir.inv = dir.side
      BY <2>1, <2>3 DEF OpenOk, Exists, SidecarOk
    <3> QED BY <1>1, <3>1 DEF DirOk
  <2> QED BY <2>2, <2>3
<1>3. ASSUME NEW a \in acked
      PROVE  /\ a.head \in DOMAIN dir.inv.versions
             /\ dir.inv.versions[a.head] = a.versions[a.head]
             /\ HasContentOf(dir, a)
  <2>1. a.head \in DOMAIN dir.side.versions /\ dir.side.versions[a.head] = a.versions[a.head]
        /\ FilesWithin(a, dir.side)
    BY <1>1 DEF AckOk
  <2>2. dir.inv = dir.side \/ Follows(dir.side, dir.inv)
    BY <1>1 DEF DirOk
  <2>3. a.head \in DOMAIN dir.inv.versions /\ dir.inv.versions[a.head] = a.versions[a.head]
    BY <2>1, <2>2 DEF Follows
  <2>4. HasContentOf(dir, a)
    <3> SUFFICES ASSUME NEW z \in PathSet(a.manifest)
                 PROVE  z \in DOMAIN dir.content /\ dir.content[z] = DigestFor(a.manifest, z)[1]
      BY DEF HasContentOf
    <3>1. z \in PathSet(dir.side.manifest) /\ Sums(dir.side.manifest)[z] = Sums(a.manifest)[z]
      BY <2>1 DEF FilesWithin
    <3>2. z \in DOMAIN dir.content /\ dir.content[z] = DigestFor(dir.side.manifest, z)[1]
      BY <1>1, <3>1 DEF DirOk, HasContentOf
    <3>3. /\ Sums(dir.side.manifest)[z] = DigestFor(dir.side.manifest, z)[1]
          /\ Sums(a.manifest)[z] = DigestFor(a.manifest, z)[1]
      BY <3>1, SumsIs
    <3> QED BY <3>1, <3>2, <3>3
  <2> QED BY <2>3, <2>4
<1> QED BY <1>2, <1>3

\* object.go, update-plan.go: whatever was begun, resumed or reverted, and wherever a process
\* died, an object that NewObject opens has every file its inventory names.
THEOREM OpenedIsWhole == Spec => []OpenedObjectIsWhole
<1>1. Init => ObjectInv
  BY ObjectInit DEF ObjectInv
<1> QED BY <1>1, ObjectNext, ObjectInvIsEnough, PTL DEF Spec

\* update-plan.go: the version of an acknowledged update stays in the object with its files;
\* no plan, saved before a crash or made by another handle, is applied over it.
THEOREM AcknowledgedIsKept == Spec => []AckedKept
<1>1. Init => ObjectInv
  BY ObjectInit DEF ObjectInv
<1> QED BY <1>1, ObjectNext, ObjectInvIsEnough, PTL DEF Spec

-----------------------------------------------------------------------------
(* What else an object directory holds *)

\* The inventory of the update that was begun, unless its last step has run.
Pending(d, begun) == IF begun = d.side THEN Nil ELSE begun

\* The inventory in the directory of version m is what the object was at that version.
VersionOk(d, m) ==
    LET i == d.vinv[m]
    IN  /\ Good(i) /\ i.head = V(m, 0) /\ i.id = "obj"
        /\ d.vside[m] = i
        /\ FilesWithin(i, d.side)
        /\ \A v \in DOMAIN i.versions : v \in DOMAIN d.side.versions /\ d.side.versions[v] = i.versions[v]
        /\ \A p \in PathSet(d.side.manifest), k \in 1 .. m : InVersionDir(p, k) => p \in PathSet(i.manifest)
        /\ m > 1 => d.vinv[m - 1].spec <= i.spec

\* The versions up to the one of the sidecar are in place.
VersionsOk(d) ==
    /\ d.side.head.num <= MaxHead
    /\ \A m \in 1 .. d.side.head.num : VersionOk(d, m)
    /\ d.side # Nil => d.vinv[d.side.head.num] = d.side

Total(vi) == vi = [m \in 1 .. MaxHead |-> vi[m]]

\* What is in the version directories, the content and the declarations of an object belongs
\* to the inventory of the sidecar or to the one that is pending.
InventoriesOf(vi, side, new) ==
    /\ Total(vi)
    /\ \A m \in 1 .. MaxHead : m > side.head.num => vi[m] = Nil \/ (m = new.head.num /\ vi[m] = new)

ContentOf(content, side, new) ==
    /\ content = [p \in DOMAIN content |-> content[p]]
    /\ \A p \in DOMAIN content : p \in PathSet(side.manifest) \/ p \in NewContent(new)

DeclarationsOf(decls, side, new) ==
    /\ decls = [s \in DOMAIN decls |-> TRUE]
    /\ IF new = Nil \/ new.spec = side.spec
       THEN DOMAIN decls = {side.spec} \ {0}
       ELSE DOMAIN decls \subseteq {side.spec, new.spec} \ {0}

NothingBut(d, new) ==
    /\ d.strays = {} /\ d.exts = {}
    /\ InventoriesOf(d.vinv, d.side, new) /\ InventoriesOf(d.vside, d.side, new)
    /\ ContentOf(d.content, d.side, new)
    /\ DeclarationsOf(d.decls, d.side, new)

\* What a completed step of plan p has done to declarations and version inventories.
Trace(p, s, d) ==
    /\ s.op = "writeDecl" => p.next.spec \in DOMAIN d.decls
    /\ s.op = "removeDecl" => p.base.spec \notin DOMAIN d.decls
    /\ s.op = "verInventory" => d.vinv[p.next.head.num] = p.next
    /\ s.op = "verSidecar" => d.vside[p.next.head.num] = p.next

\* A step of plan p has left nothing.
NoTrace(p, s, d) ==
    /\ s.op = "copy" => s.arg \notin DOMAIN d.content
    /\ s.op = "writeDecl" => p.next.spec \notin DOMAIN d.decls
    /\ s.op = "removeDecl" => p.base.spec \in DOMAIN d.decls
    /\ s.op = "verInventory" => d.vinv[p.next.head.num] = Nil
    /\ s.op = "verSidecar" => d.vside[p.next.head.num] = Nil

Traces(p, d) == \A j \in 1 .. p.done : Trace(p, p.steps[j], d)
Untouched(p, d) == \A j \in p.done + 1 .. Len(p.steps) : NoTrace(p, p.steps[j], d)

PlanTidy(p, d, begun) ==
    p # NoPlan =>
        /\ p.next.head = V(p.next.head.num, 0) /\ p.next.head.num <= MaxHead
        /\ p.next.id = "obj" /\ p.base.spec <= p.next.spec
        /\ p.base = d.side /\ p.next = begun => Traces(p, d)

\* The process that made a plan knows all that was done of it.
OwnTidy(p, d, begun) ==
    p # NoPlan /\ p.own => begun \in {Nil, p.next} /\ (p.base = d.side => Untouched(p, d))

Tidy == /\ VersionsOk(dir) /\ NothingBut(dir, Pending(dir, inflight))
        /\ PlanTidy(plan, dir, inflight) /\ PlanTidy(saved, dir, inflight)
        /\ OwnTidy(plan, dir, inflight)

\* The inductive invariant for ResolvedIsValid.
TidyInv == ~ rotted => ObjectOk /\ Tidy

-----------------------------------------------------------------------------
(* What the steps do to declarations and version inventories *)

\* A directory with given declarations and version inventories.
DirRest(r, d, decls, vinv, vside, strays) ==
    r.decls = decls /\ r.vinv = vinv /\ r.vside = vside /\ r.strays = strays /\ r.exts = d.exts

\* What an assignment to one part of the directory leaves of the others.
LEMMA AssignRest ==
    ASSUME NEW d, IsDir(d), NEW x, NEW r
    PROVE  /\ r = [d EXCEPT !.decls = x] => DirRest(r, d, x, d.vinv, d.vside, d.strays)
           /\ r = [d EXCEPT !.vinv = x] => DirRest(r, d, d.decls, x, d.vside, d.strays)
           /\ r = [d EXCEPT !.vside = x] => DirRest(r, d, d.decls, d.vinv, x, d.strays)
           /\ r = [d EXCEPT !.strays = x] => DirRest(r, d, d.decls, d.vinv, d.vside, x)
           /\ r = [d EXCEPT !.inv = x] => DirRest(r, d, d.decls, d.vinv, d.vside, d.strays)
           /\ r = [d EXCEPT !.side = x] => DirRest(r, d, d.decls, d.vinv, d.vside, d.strays)
           /\ r = [d EXCEPT !.content = x] => DirRest(r, d, d.decls, d.vinv, d.vside, d.strays)
<1>1. DOMAIN d = {"decls", "inv", "side", "vinv", "vside", "content", "strays", "exts"}
  BY DEF IsDir
<1>2. ASSUME NEW g \in DOMAIN d, r = [d EXCEPT ![g] = x]
      PROVE  r[g] = x /\ \A f \in DOMAIN d \ {g} : r[f] = d[f]
  BY <1>2
<1> QED BY <1>1, <1>2 DEF DirRest

\* What running a step does to declarations and version inventories.
LEMMA RunStepRest ==
    ASSUME NEW d, IsDir(d), NEW p, NEW s
    PROVE  LET r == RunStep(d, p, s)
               n == p.next.head.num
           IN  DirRest(r, d,
                       IF s.op = "writeDecl" THEN With(d.decls, s.arg, TRUE)
                       ELSE IF s.op = "removeDecl" THEN SE!Restrict(d.decls, DOMAIN d.decls \ {s.arg})
                       ELSE d.decls,
                       IF s.op = "verInventory" THEN [d.vinv EXCEPT ![n] = p.next] ELSE d.vinv,
                       IF s.op = "verSidecar" THEN [d.vside EXCEPT ![n] = p.next] ELSE d.vside,
                       d.strays)
<1> DEFINE n == p.next.head.num
           r == RunStep(d, p, s)
           w == With(d.decls, s.arg, TRUE)
           l == SE!Restrict(d.decls, DOMAIN d.decls \ {s.arg})
           c == With(d.content, s.arg, DigestFor(p.next.manifest, s.arg)[1])
           vi == [d.vinv EXCEPT ![n] = p.next]
           vs == [d.vside EXCEPT ![n] = p.next]
<1>1. CASE s.op = "writeDecl"
  <2>1. r = [d EXCEPT !.decls = w]
    BY <1>1 DEF RunStep
  <2> HIDE DEF r, w
  <2> QED BY <1>1, <2>1, AssignRest DEF r, w
<1>2. CASE s.op = "removeDecl"
  <2>1. r = [d EXCEPT !.decls = l]
    BY <1>2 DEF RunStep
  <2> HIDE DEF r, l
  <2>2. DirRest(r, d, l, d.vinv, d.vside, d.strays)
    BY <2>1, AssignRest
  <2> QED BY <1>2, <2>2 DEF r, l
<1>3. CASE s.op = "copy"
  <2>1. r = [d EXCEPT !.content = c]
    BY <1>3 DEF RunStep
  <2> HIDE DEF r, c
  <2>2. DirRest(r, d, d.decls, d.vinv, d.vside, d.strays)
    BY <2>1, AssignRest
  <2> QED BY <1>3, <2>2 DEF r
<1>4. CASE s.op = "verInventory"
  <2>1. r = [d EXCEPT !.vinv = vi]
    BY <1>4 DEF RunStep
  <2> HIDE DEF r, vi
  <2>2. DirRest(r, d, d.decls, vi, d.vside, d.strays)
    BY <2>1, AssignRest
  <2> QED BY <1>4, <2>2 DEF r, vi
<1>5. CASE s.op = "verSidecar"
  <2>1. r = [d EXCEPT !.vside = vs]
    BY <1>5 DEF RunStep
  <2> HIDE DEF r, vs
  <2>2. DirRest(r, d, d.decls, d.vinv, vs, d.strays)
    BY <2>1, AssignRest
  <2> QED BY <1>5, <2>2 DEF r, vs
<1>6. CASE s.op = "rootInventory"
  <2>1. r = [d EXCEPT !.inv = p.next]
    BY <1>6 DEF RunStep
  <2> HIDE DEF r
  <2>2. DirRest(r, d, d.decls, d.vinv, d.vside, d.strays)
    BY <2>1, AssignRest
  <2> QED BY <1>6, <2>2 DEF r
<1>7. CASE s.op = "rootSidecar"
  <2>1. r = [d EXCEPT !.side = p.next]
    BY <1>7 DEF RunStep
  <2> HIDE DEF r
  <2>2. DirRest(r, d, d.decls, d.vinv, d.vside, d.strays)
    BY <2>1, AssignRest
  <2> QED BY <1>7, <2>2 DEF r
<1>8. CASE s.op \notin {"writeDecl", "removeDecl", "copy", "verInventory", "verSidecar",
                        "rootInventory", "rootSidecar"}
  <2>1. r = d
    BY <1>8 DEF RunStep
  <2> QED BY <1>8, <2>1 DEF DirRest
<1> QED BY <1>1, <1>2, <1>3, <1>4, <1>5, <1>6, <1>7, <1>8

\* What undoing a step does to declarations and version inventories.
LEMMA RevertStepRest ==
    ASSUME NEW d, IsDir(d), NEW p, NEW s, s.op = "objectRoot" => p.next.head.num # 1
    PROVE  LET r == RevertStep(d, p, s)
               n == p.next.head.num
           IN  DirRest(r, d,
                       IF s.op = "removeDecl" THEN With(d.decls, s.arg, TRUE)
                       ELSE IF s.op = "writeDecl" THEN SE!Restrict(d.decls, DOMAIN d.decls \ {s.arg})
                       ELSE d.decls,
                       IF s.op \in {"versionDir", "verInventory"} THEN [d.vinv EXCEPT ![n] = Nil] ELSE d.vinv,
                       IF s.op \in {"versionDir", "verSidecar"} THEN [d.vside EXCEPT ![n] = Nil] ELSE d.vside,
                       IF s.op = "versionDir" THEN d.strays \ {n} ELSE d.strays)
<1> DEFINE n == p.next.head.num
           r == RevertStep(d, p, s)
           w == With(d.decls, s.arg, TRUE)
           l == SE!Restrict(d.decls, DOMAIN d.decls \ {s.arg})
           vi == [d.vinv EXCEPT ![n] = Nil]
           vs == [d.vside EXCEPT ![n] = Nil]
           st == d.strays \ {n}
<1>1. CASE s.op = "objectRoot"
  <2>1. r = d
    BY <1>1 DEF RevertStep
  <2> QED BY <1>1, <2>1 DEF DirRest
<1>2. CASE s.op = "writeDecl"
  <2>1. r = [d EXCEPT !.decls = l]
    BY <1>2 DEF RevertStep
  <2> HIDE DEF r, l
  <2>2. DirRest(r, d, l, d.vinv, d.vside, d.strays)
    BY <2>1, AssignRest
  <2> QED BY <1>2, <2>2 DEF r, l
<1>3. CASE s.op = "removeDecl"
  <2>1. r = [d EXCEPT !.decls = w]
    BY <1>3 DEF RevertStep
  <2> HIDE DEF r, w
  <2>2. DirRest(r, d, w, d.vinv, d.vside, d.strays)
    BY <2>1, AssignRest
  <2> QED BY <1>3, <2>2 DEF r, w
<1>4. CASE s.op = "versionDir"
  <2> DEFINE g == SE!Restrict(d.content, DOMAIN d.content \ ContentIn(d, n))
  <2>1. r = [d EXCEPT !.content = g, !.vinv = vi, !.vside = vs, !.strays = st]
    BY <1>4 DEF RevertStep
  <2> HIDE DEF r, g, vi, vs, st
  <2>2. DirRest(r, d, d.decls, vi, vs, st)
    BY <2>1 DEF DirRest, IsDir
  <2> QED BY <1>4, <2>2 DEF r, vi, vs, st
<1>5. CASE s.op = "copy"
  <2> DEFINE c == SE!Restrict(d.content, DOMAIN d.content \ {s.arg})
  <2>1. r = [d EXCEPT !.content = c]
    BY <1>5 DEF RevertStep
  <2> HIDE DEF r, c
  <2>2. DirRest(r, d, d.decls, d.vinv, d.vside, d.strays)
    BY <2>1, AssignRest
  <2> QED BY <1>5, <2>2 DEF r
<1>6. CASE s.op = "verInventory"
  <2>1. r = [d EXCEPT !.vinv = vi]
    BY <1>6 DEF RevertStep
  <2> HIDE DEF r, vi
  <2>2. DirRest(r, d, d.decls, vi, d.vside, d.strays)
    BY <2>1, AssignRest
  <2> QED BY <1>6, <2>2 DEF r, vi
<1>7. CASE s.op = "verSidecar"
  <2>1. r = [d EXCEPT !.vside = vs]
    BY <1>7 DEF RevertStep
  <2> HIDE DEF r, vs
  <2>2. DirRest(r, d, d.decls, d.vinv, vs, d.strays)
    BY <2>1, AssignRest
  <2> QED BY <1>7, <2>2 DEF r, vs
<1>8. CASE s.op = "rootInventory"
  <2>1. r = [d EXCEPT !.inv = p.base]
    BY <1>8 DEF RevertStep
  <2> HIDE DEF r
  <2>2. DirRest(r, d, d.decls, d.vinv, d.vside, d.strays)
    BY <2>1, AssignRest
  <2> QED BY <1>8, <2>2 DEF r
<1>9. CASE s.op \notin {"objectRoot", "writeDecl", "removeDecl", "versionDir", "copy",
                        "verInventory", "verSidecar", "rootInventory"}
  <2>1. r = [d EXCEPT !.side = p.base]
    BY <1>9 DEF RevertStep
  <2> HIDE DEF r
  <2>2. DirRest(r, d, d.decls, d.vinv, d.vside, d.strays)
    BY <2>1, AssignRest
  <2> QED BY <1>9, <2>2 DEF r
<1> QED BY <1>1, <1>2, <1>3, <1>4, <1>5, <1>6, <1>7, <1>8, <1>9

\* A sequence of one step.
LEMMA OneStep ==
    ASSUME NEW S, NEW x \in S
    PROVE  <<x>> \in Seq(S) /\ Members(<<x>>) = {x}
<1>1. DOMAIN <<x>> = {1} /\ <<x>>[1] = x
  OBVIOUS
<1> QED BY <1>1 DEF Members

\* The declarations that a plan changes: the new one is written if the spec changes, and
\* the old one removed if there was one.
LEMMA DeclarationPlaces ==
    ASSUME NEW base, NEW next, PathSet(next.manifest) \subseteq Path, IsFiniteSet(PathSet(next.manifest)),
           NEW s, s = NewPlanSteps(base, next)
    PROVE  /\ \A i \in DOMAIN s :
                 /\ s[i].op = "writeDecl" => i = 2 /\ s[i].arg = next.spec /\ base.spec # next.spec
                 /\ s[i].op = "removeDecl" =>
                       i = 3 /\ s[i].arg = base.spec /\ base.spec # next.spec /\ base.spec # 0
           /\ base.spec # next.spec => \E i \in DOMAIN s : s[i].op = "writeDecl"
           /\ base.spec # next.spec /\ base.spec # 0 => \E i \in DOMAIN s : s[i].op = "removeDecl"
<1> DEFINE a == <<Step("objectRoot", 0)>>
           d == DeclarationSteps(base, next)
           v == <<Step("versionDir", 0)>>
           c == ContentSteps(next)
           t == InventorySteps
           W == Step("writeDecl", next.spec)
           R == Step("removeDecl", base.spec)
           ops == {"objectRoot", "versionDir", "copy", "verInventory", "verSidecar", "rootInventory", "rootSidecar"}
           S == StepSet(base, next)
<1>1. \A op, arg : Step(op, arg).op = op /\ Step(op, arg).arg = arg
  BY DEF Step
<1>2. /\ a \in Seq(S) /\ v \in Seq(S) /\ t \in Seq(S)
      /\ \A x \in Members(a) \cup Members(v) \cup Members(t) : x.op \in ops
  <2>1. a \in Seq(S) /\ \A x \in Members(a) : x.op \in ops
    <3>1. Step("objectRoot", 0) \in S /\ Step("objectRoot", 0).op \in ops
      BY <1>1 DEF StepSet
    <3> HIDE DEF S
    <3> QED BY <3>1, OneStep
  <2>2. v \in Seq(S) /\ \A x \in Members(v) : x.op \in ops
    <3>1. Step("versionDir", 0) \in S /\ Step("versionDir", 0).op \in ops
      BY <1>1 DEF StepSet
    <3> HIDE DEF S
    <3> QED BY <3>1, OneStep
  <2>3. t \in Seq(S) /\ \A x \in Members(t) : x.op \in ops
    <3>1. t = <<Step("verInventory", 0), Step("verSidecar", 0), Step("rootInventory", 0), Step("rootSidecar", 0)>>
      BY DEF InventorySteps
    <3>2. \A op \in {"verInventory", "verSidecar", "rootInventory", "rootSidecar"} : Step(op, 0) \in S
      BY DEF StepSet
    <3> HIDE DEF S
    <3>a. Step("verInventory", 0) \in S /\ Step("verSidecar", 0) \in S /\ Step("rootInventory", 0) \in S
          /\ Step("rootSidecar", 0) \in S
      BY <3>2
    <3>3. t \in Seq(S)
      BY <3>1, <3>a
    <3>4. Len(t) = 4 /\ t[1].op \in ops /\ t[2].op \in ops /\ t[3].op \in ops /\ t[4].op \in ops
      BY <1>1, <3>1
    <3>5. DOMAIN t = 1..4
      BY <3>3, <3>4, LenProperties
    <3> QED BY <3>3, <3>4, <3>5 DEF Members
  <2> QED BY <2>1, <2>2, <2>3
<1>3. c \in Seq(S) /\ \A x \in Members(c) : x.op \in ops
  <2> DEFINE paths == SortedSet(NewContent(next))
  <2>1. paths \in Seq(Path)
    <3>1. NewContent(next) \in SUBSET PathSet(next.manifest)
      BY DEF NewContent
    <3>2. NewContent(next) \subseteq Path /\ IsFiniteSet(NewContent(next))
      BY <3>1, FS_Subset
    <3> QED BY <3>2, SortedSetOnce
  <2>2. c = [i \in DOMAIN paths |-> Step("copy", paths[i])]
    <3>1. DOMAIN VersionContent(next, next.head) = NewContent(next)
      BY DEF VersionContent, PathMap, NewContent
    <3> QED BY <3>1 DEF ContentSteps
  <2> HIDE DEF paths, c
  <2>3. Len(paths) \in Nat /\ DOMAIN paths = 1..Len(paths) /\ \A i \in DOMAIN paths : paths[i] \in Path
    BY <2>1, LenProperties, ElementOfSeq
  <2>4. \A i \in DOMAIN paths : Step("copy", paths[i]) \in S
    BY <2>3 DEF StepSet
  <2> HIDE DEF S
  <2>5. c \in [1..Len(paths) -> S]
    BY <2>2, <2>3, <2>4
  <2>6. c \in Seq(S)
    BY <2>3, <2>5, FunctionIsSeq
  <2>7. \A x \in Members(c) : \E i \in DOMAIN paths : x = Step("copy", paths[i])
    BY <2>2 DEF Members
  <2> QED BY <1>1, <2>6, <2>7
<1>4. /\ d \in Seq(S)
      /\ \A j \in DOMAIN d : /\ base.spec # next.spec
                             /\ (j = 1 /\ d[j] = W) \/ (j = 2 /\ d[j] = R /\ base.spec # 0)
      /\ base.spec # next.spec => 1 \in DOMAIN d
      /\ base.spec # next.spec /\ base.spec # 0 => 2 \in DOMAIN d
  <2>1. W \in S /\ R \in S
    BY DEF StepSet
  <2>2. d = IF base.spec = next.spec THEN <<>> ELSE IF base.spec = 0 THEN <<W>> \o <<>> ELSE <<W>> \o <<R>>
    BY DEF DeclarationSteps
  <2> HIDE DEF S, W, R, d
  <2>3. CASE base.spec = next.spec
    BY <2>2, <2>3
  <2>4. CASE base.spec # next.spec /\ base.spec = 0
    <3>1. d = <<W>>
      BY <2>1, <2>2, <2>4
    <3>2. d \in Seq(S) /\ DOMAIN d = {1} /\ d[1] = W
      BY <2>1, <3>1
    <3> QED BY <2>4, <3>2
  <2>5. CASE base.spec # next.spec /\ base.spec # 0
    <3> DEFINE w == <<W>>
               r == <<R>>
    <3>1. w \in Seq(S) /\ Len(w) = 1 /\ DOMAIN w = {1} /\ w[1] = W
      BY <2>1
    <3>2. r \in Seq(S) /\ DOMAIN r = {1} /\ r[1] = R
      BY <2>1
    <3>3. d = w \o r
      BY <2>2, <2>5
    <3> HIDE DEF w, r
    <3>4. d \in Seq(S) /\ IsConcat(d, w, r)
      BY <3>1, <3>2, <3>3, ConcatPlaces, ConcatProperties
    <3>5. 1 \in DOMAIN d /\ d[1] = W /\ 2 \in DOMAIN d /\ d[2] = R /\ \A j \in DOMAIN d : j = 1 \/ j = 2
      BY <3>1, <3>2, <3>4 DEF IsConcat
    <3> QED BY <2>5, <3>4, <3>5
  <2> QED BY <2>3, <2>4, <2>5
<1>5. Len(a) = 1 /\ DOMAIN a = {1} /\ a[1].op \in ops
  BY <1>1
<1> HIDE DEF a, d, v, c, t, S, W, R, ops
<1>6. /\ \A j \in DOMAIN d : j + 1 \in DOMAIN s /\ s[j + 1] = d[j]
      /\ \A i \in DOMAIN s : s[i].op \in ops \/ \E j \in DOMAIN d : i = j + 1
  <2> DEFINE q1 == a \o d
             q2 == q1 \o v
             q3 == q2 \o c
  <2>1. s = q3 \o t
    BY DEF NewPlanSteps, a, d, v, c, t
  <2>2. q1 \in Seq(S) /\ IsConcat(q1, a, d)
    BY <1>2, <1>4, ConcatPlaces, ConcatProperties
  <2> HIDE DEF q1
  <2>3. q2 \in Seq(S) /\ IsConcat(q2, q1, v)
    BY <1>2, <2>2, ConcatPlaces, ConcatProperties
  <2> HIDE DEF q2
  <2>4. q3 \in Seq(S) /\ IsConcat(q3, q2, c)
    BY <1>3, <2>3, ConcatPlaces, ConcatProperties
  <2> HIDE DEF q3
  <2>5. IsConcat(s, q3, t)
    BY <1>2, <2>1, <2>4, ConcatPlaces
  <2>6. \A j \in DOMAIN d : j \in Nat
    BY <1>4
  <2>7. /\ \A j \in DOMAIN d : j + 1 \in DOMAIN q1 /\ q1[j + 1] = d[j]
        /\ \A i \in DOMAIN q1 : q1[i].op \in ops \/ \E j \in DOMAIN d : i = j + 1
    BY <1>5, <2>2, <2>6 DEF IsConcat
  <2>8. /\ \A i \in DOMAIN q1 : i \in DOMAIN s /\ s[i] = q1[i]
        /\ \A i \in DOMAIN s : i \in DOMAIN q1 \/ s[i] \in Members(v) \cup Members(c) \cup Members(t)
    BY <2>3, <2>4, <2>5 DEF IsConcat, Members
  <2> QED BY <1>2, <1>3, <2>7, <2>8
<1>7. /\ W.op = "writeDecl" /\ W.arg = next.spec /\ R.op = "removeDecl" /\ R.arg = base.spec
      /\ "writeDecl" \notin ops /\ "removeDecl" \notin ops
  BY <1>1 DEF W, R, ops
<1>8. ASSUME NEW i \in DOMAIN s, s[i].op \notin ops
      PROVE  /\ base.spec # next.spec
             /\ (i = 2 /\ s[i] = W) \/ (i = 3 /\ s[i] = R /\ base.spec # 0)
  BY <1>4, <1>6, <1>8
<1>9. base.spec # next.spec => \E i \in DOMAIN s : s[i].op = "writeDecl"
  <2>1. base.spec # next.spec => 1 \in DOMAIN d /\ d[1] = W
    BY <1>4
  <2> QED BY <1>6, <1>7, <2>1
<1>10. base.spec # next.spec /\ base.spec # 0 => \E i \in DOMAIN s : s[i].op = "removeDecl"
  <2>1. base.spec # next.spec /\ base.spec # 0 => 2 \in DOMAIN d /\ d[2] = R
    BY <1>4
  <2> QED BY <1>6, <1>7, <2>1
<1> QED BY <1>7, <1>8, <1>9, <1>10


-----------------------------------------------------------------------------
(* What holds of the specs and directories of a plan *)

\* The spec of an inventory is a supported one, or none.
LEMMA SpecFacts ==
    ASSUME NEW i, Good(i)
    PROVE  i.spec \in Nat /\ (i # Nil => i.spec \in Supported /\ i.spec # 0) /\ (i = Nil => i.spec = 0)
<1>1. Nil.spec = 0
  BY DEF Nil
<1>2. ASSUME i # Nil PROVE i.spec \in Supported
  <2>1. HeaderErrors(i) = {}
    BY <1>2 DEF Good, ValidInventory, ValidateInventory
  <2>2. Err("type", i.spec \notin Supported) = {}
    BY <2>1 DEF HeaderErrors
  <2> QED BY <2>2 DEF Err
<1> QED BY <1>1, <1>2 DEF Supported, Spec1_0, Spec1_1

\* The steps of a plan that change declarations are the second and the third.
LEMMA PlanDeclarations ==
    ASSUME NEW p, NEW d, NEW begun, PlanOk(p, d, begun), p # NoPlan
    PROVE  /\ \A i \in 1..Len(p.steps) :
                 /\ p.steps[i].op = "writeDecl" =>
                       i = 2 /\ p.steps[i].arg = p.next.spec /\ p.base.spec # p.next.spec
                 /\ p.steps[i].op = "removeDecl" =>
                       i = 3 /\ p.steps[i].arg = p.base.spec /\ p.base.spec # p.next.spec /\ p.base.spec # 0
           /\ p.base.spec # p.next.spec => \E i \in 1..Len(p.steps) : p.steps[i].op = "writeDecl"
           /\ p.base.spec # p.next.spec /\ p.base.spec # 0 =>
                 \E i \in 1..Len(p.steps) : p.steps[i].op = "removeDecl"
           /\ p.base.spec \in Nat /\ p.next.spec \in Nat /\ p.next.spec # 0
<1>1. Good(p.base) /\ Good(p.next) /\ p.next # Nil /\ p.steps = NewPlanSteps(p.base, p.next)
  BY DEF PlanOk, Follows
<1>2. PathSet(p.next.manifest) \subseteq Path /\ IsFiniteSet(PathSet(p.next.manifest))
  BY <1>1, PathSetFinite DEF Good, IsInventory
<1>3. DOMAIN p.steps = 1..Len(p.steps)
  BY PlanFacts DEF PlanShape
<1>4. p.base.spec \in Nat /\ p.next.spec \in Nat /\ p.next.spec # 0
  BY <1>1, SpecFacts
<1> QED BY <1>1, <1>2, <1>3, <1>4, DeclarationPlaces

\* Declarations that are all right stay so when one is added or removed.
LEMMA DeclarationSets ==
    ASSUME NEW f, f = [s \in DOMAIN f |-> TRUE], NEW x
    PROVE  /\ With(f, x, TRUE) = [s \in DOMAIN f \cup {x} |-> TRUE]
           /\ SE!Restrict(f, DOMAIN f \ {x}) = [s \in DOMAIN f \ {x} |-> TRUE]
BY DEF With, SE!Restrict

\* Assigning one entry of the version inventories.
LEMMA AssignVersion ==
    ASSUME NEW vi, Total(vi), NEW n, NEW x, NEW r, r = [vi EXCEPT ![n] = x]
    PROVE  Total(r) /\ \A m \in 1..MaxHead : r[m] = IF m = n THEN x ELSE vi[m]
<1>1. DOMAIN vi = 1..MaxHead /\ DOMAIN r = 1..MaxHead /\ r = [m \in DOMAIN r |-> r[m]]
  BY DEF Total
<1> QED BY <1>1 DEF Total

\* Running a step, as far as NothingBut is concerned.
RunDone(d, p, s, e) ==
    /\ e.strays = {} /\ e.exts = {}
    /\ Total(e.vinv) /\ Total(e.vside)
    /\ \A m \in 1 .. MaxHead :
          /\ e.vinv[m] = IF s.op = "verInventory" /\ m = p.next.head.num THEN p.next ELSE d.vinv[m]
          /\ e.vside[m] = IF s.op = "verSidecar" /\ m = p.next.head.num THEN p.next ELSE d.vside[m]
    /\ e.content = [z \in DOMAIN e.content |-> e.content[z]]
    /\ DOMAIN e.content = IF s.op = "copy" THEN DOMAIN d.content \cup {s.arg} ELSE DOMAIN d.content
    /\ e.decls = [z \in DOMAIN e.decls |-> TRUE]
    /\ DOMAIN e.decls = IF s.op = "writeDecl" THEN DOMAIN d.decls \cup {s.arg}
                        ELSE IF s.op = "removeDecl" THEN DOMAIN d.decls \ {s.arg}
                        ELSE DOMAIN d.decls

\* The run function of a step does no more than RunDone says.
LEMMA RunParts ==
    ASSUME NEW d, IsDir(d), NEW new, NothingBut(d, new), NEW p, NEW s, NEW e, e = RunStep(d, p, s)
    PROVE  RunDone(d, p, s, e)
<1> DEFINE n == p.next.head.num
           w == With(d.decls, s.arg, TRUE)
           l == SE!Restrict(d.decls, DOMAIN d.decls \ {s.arg})
           vi == [d.vinv EXCEPT ![n] = p.next]
           vs == [d.vside EXCEPT ![n] = p.next]
           c == With(d.content, s.arg, DigestFor(p.next.manifest, s.arg)[1])
<1>1. /\ e.decls = IF s.op = "writeDecl" THEN w ELSE IF s.op = "removeDecl" THEN l ELSE d.decls
      /\ e.vinv = IF s.op = "verInventory" THEN vi ELSE d.vinv
      /\ e.vside = IF s.op = "verSidecar" THEN vs ELSE d.vside
      /\ e.strays = d.strays /\ e.exts = d.exts
  <2>1. DirRest(e, d, IF s.op = "writeDecl" THEN w ELSE IF s.op = "removeDecl" THEN l ELSE d.decls,
                IF s.op = "verInventory" THEN vi ELSE d.vinv, IF s.op = "verSidecar" THEN vs ELSE d.vside,
                d.strays)
    BY RunStepRest
  <2> HIDE DEF w, l, vi, vs
  <2> QED BY <2>1 DEF DirRest
<1>2. e.content = IF s.op = "copy" THEN c ELSE d.content
  BY RunStepIs
<1>3. /\ d.strays = {} /\ d.exts = {} /\ Total(d.vinv) /\ Total(d.vside)
      /\ d.content = [z \in DOMAIN d.content |-> d.content[z]]
      /\ d.decls = [z \in DOMAIN d.decls |-> TRUE]
  BY DEF NothingBut, InventoriesOf, ContentOf, DeclarationsOf
<1>4. DOMAIN c = DOMAIN d.content \cup {s.arg} /\ c = [z \in DOMAIN c |-> c[z]]
  BY DEF With
<1>5. w = [z \in DOMAIN d.decls \cup {s.arg} |-> TRUE] /\ l = [z \in DOMAIN d.decls \ {s.arg} |-> TRUE]
  BY <1>3, DeclarationSets, ZenonT(40)
<1>6. DOMAIN w = DOMAIN d.decls \cup {s.arg} /\ w = [z \in DOMAIN w |-> TRUE]
      /\ DOMAIN l = DOMAIN d.decls \ {s.arg} /\ l = [z \in DOMAIN l |-> TRUE]
  BY <1>5
<1>7. Total(vi) /\ \A m \in 1..MaxHead : vi[m] = IF m = n THEN p.next ELSE d.vinv[m]
  <2>1. vi = [d.vinv EXCEPT ![n] = p.next]
    OBVIOUS
  <2> DEFINE x == p.next
  <2>2. vi = [d.vinv EXCEPT ![n] = x] /\ Total(d.vinv)
    BY <1>3, <2>1
  <2> HIDE DEF vi, n, x
  <2>3. Total(vi) /\ \A m \in 1..MaxHead : vi[m] = IF m = n THEN x ELSE d.vinv[m]
    BY <2>2, AssignVersion
  <2> QED BY <2>3 DEF x
<1>8. Total(vs) /\ \A m \in 1..MaxHead : vs[m] = IF m = n THEN p.next ELSE d.vside[m]
  <2>1. vs = [d.vside EXCEPT ![n] = p.next]
    OBVIOUS
  <2> HIDE DEF vs, n
  <2> QED BY <1>3, <2>1, AssignVersion, SMTT(30)
<1> HIDE DEF w, l, vi, vs, c
<1>9. e.strays = {} /\ e.exts = {}
  BY <1>1, <1>3
<1>10. Total(e.vinv) /\ \A m \in 1..MaxHead :
          e.vinv[m] = IF s.op = "verInventory" /\ m = n THEN p.next ELSE d.vinv[m]
  BY <1>1, <1>3, <1>7
<1>11. Total(e.vside) /\ \A m \in 1..MaxHead :
          e.vside[m] = IF s.op = "verSidecar" /\ m = n THEN p.next ELSE d.vside[m]
  BY <1>1, <1>3, <1>8
<1>12. /\ e.content = [z \in DOMAIN e.content |-> e.content[z]]
       /\ DOMAIN e.content = IF s.op = "copy" THEN DOMAIN d.content \cup {s.arg} ELSE DOMAIN d.content
  BY <1>2, <1>3, <1>4
<1>13. /\ e.decls = [z \in DOMAIN e.decls |-> TRUE]
       /\ DOMAIN e.decls = IF s.op = "writeDecl" THEN DOMAIN d.decls \cup {s.arg}
                           ELSE IF s.op = "removeDecl" THEN DOMAIN d.decls \ {s.arg}
                           ELSE DOMAIN d.decls
  BY <1>1, <1>3, <1>6
<1> QED BY <1>9, <1>10, <1>11, <1>12, <1>13 DEF RunDone


\* The versions in place stay so when only the directory of a new version changes.
LEMMA VersionsKept ==
    ASSUME NEW d, NEW e, VersionsOk(d), e.side = d.side, d.side.head.num \in Nat,
           \A m \in 1..d.side.head.num : e.vinv[m] = d.vinv[m] /\ e.vside[m] = d.vside[m],
           d.side # Nil => d.side.head.num > 0
    PROVE  VersionsOk(e)
<1>1. ASSUME NEW m \in 1..d.side.head.num PROVE VersionOk(e, m)
  <2>1. VersionOk(d, m) /\ e.vinv[m] = d.vinv[m] /\ e.vside[m] = d.vside[m]
    BY DEF VersionsOk
  <2>2. m > 1 => e.vinv[m - 1] = d.vinv[m - 1]
    OBVIOUS
  <2> QED BY <2>1, <2>2 DEF VersionOk
<1>2. d.side # Nil => e.vinv[d.side.head.num] = d.side
  BY DEF VersionsOk
<1> QED BY <1>1, <1>2 DEF VersionsOk

\* What is known of a plan that is applied or reverted.
PlanBegun(p, d) ==
    /\ DirOk(d, p.next) /\ PlanOk(p, d, p.next) /\ p # NoPlan /\ p.base = d.side
    /\ PlanTidy(p, d, p.next)
    /\ VersionsOk(d) /\ NothingBut(d, p.next)

\* The numbers and specs of a plan that was begun.
LEMMA BegunFacts ==
    ASSUME NEW p, NEW d, PlanBegun(p, d)
    PROVE  /\ d.side.head.num \in Nat /\ p.next.head.num = d.side.head.num + 1
           /\ p.next.head.num \in 1..MaxHead /\ p.next # Nil /\ p.next # d.side
           /\ d.side # Nil => d.side.head.num > 0
           /\ IsDir(d) /\ Good(d.side) /\ Follows(d.side, p.next) /\ Good(p.next)
           /\ p.next.spec # 0 /\ d.side.spec <= p.next.spec
           /\ PlanShape(p.steps, p.next) /\ Len(p.steps) \in Nat /\ Len(p.steps) >= 5
<1>1. DirOk(d, p.next) /\ PlanOk(p, d, p.next) /\ p # NoPlan /\ p.base = d.side /\ PlanTidy(p, d, p.next)
  BY DEF PlanBegun
<1>2. /\ PlanShape(p.steps, p.next) /\ p.base.head.num \in Nat /\ p.next.head.num = p.base.head.num + 1
      /\ p.next # Nil /\ p.next # p.base
  BY <1>1, PlanFacts
<1>3. Len(p.steps) \in Nat /\ Len(p.steps) >= 5
  BY <1>2 DEF PlanShape
<1>4. IsDir(d) /\ Good(d.side) /\ Follows(d.side, p.next) /\ Good(p.next)
  BY <1>1 DEF DirOk, PlanOk, Follows
<1>5. d.side # Nil => d.side.head.num > 0
  BY <1>4, GoodFacts
<1>6. p.next.spec # 0
  BY <1>1, PlanDeclarations
<1>7. d.side.spec <= p.next.spec /\ p.next.head.num <= MaxHead
  BY <1>1 DEF PlanTidy
<1>8. p.next.head.num \in 1..MaxHead
  BY <1>1, <1>2, <1>7, ObjectAssumption
<1> QED BY <1>1, <1>2, <1>3, <1>4, <1>5, <1>6, <1>7, <1>8

\* Running a step other than the last.
LEMMA RunTidy ==
    ASSUME NEW d, NEW p, PlanBegun(p, d),
           NEW i \in 1..Len(p.steps), i # Len(p.steps), NEW e, e = RunStep(d, p, p.steps[i])
    PROVE  /\ VersionsOk(e) /\ NothingBut(e, p.next)
           /\ \A q, s : q.base = p.base /\ q.next = p.next /\ Trace(q, s, d) => Trace(q, s, e)
           /\ Trace(p, p.steps[i], e)
           /\ \A j \in 1..Len(p.steps) : j # i /\ NoTrace(p, p.steps[j], d) => NoTrace(p, p.steps[j], e)
<1> DEFINE s == p.steps[i]
           n == Len(p.steps)
           num == p.next.head.num
<1>1. /\ d.side.head.num \in Nat /\ num = d.side.head.num + 1 /\ num \in 1..MaxHead
      /\ p.next # Nil /\ (d.side # Nil => d.side.head.num > 0) /\ IsDir(d) /\ p.next.spec # 0
      /\ PlanShape(p.steps, p.next) /\ n \in Nat /\ p.base = d.side
  BY BegunFacts DEF PlanBegun
<1>2. RunDone(d, p, s, e)
  BY <1>1, RunParts DEF PlanBegun
<1>3. e.side = d.side
  <2>1. s.op # "rootSidecar"
    BY <1>1 DEF PlanShape
  <2> QED BY <1>1, <2>1, RunStepIs
<1>4. \A j \in 1..n :
          /\ p.steps[j].op = "writeDecl" => j = 2 /\ p.steps[j].arg = p.next.spec /\ d.side.spec # p.next.spec
          /\ p.steps[j].op = "removeDecl" =>
                j = 3 /\ p.steps[j].arg = d.side.spec /\ d.side.spec # p.next.spec
  BY <1>1, PlanDeclarations DEF PlanBegun
<1>5. s.op = "copy" => s.arg \in NewContent(p.next)
  BY <1>1 DEF PlanShape
<1>6. NothingBut(d, p.next) /\ VersionsOk(d)
  BY DEF PlanBegun
<1>7. \A m \in 1..MaxHead : m # num => e.vinv[m] = d.vinv[m] /\ e.vside[m] = d.vside[m]
  BY <1>2 DEF RunDone
<1>8. VersionsOk(e)
  <2>1. \A m \in 1..d.side.head.num : m \in 1..MaxHead /\ m # num
    BY <1>1, ObjectAssumption, SMTT(30)
  <2> QED BY <1>1, <1>3, <1>6, <1>7, <2>1, VersionsKept
<1>9. /\ \A m \in 1..MaxHead : e.vinv[m] = d.vinv[m] \/ (m = num /\ e.vinv[m] = p.next)
      /\ \A m \in 1..MaxHead : e.vside[m] = d.vside[m] \/ (m = num /\ e.vside[m] = p.next)
      /\ s.op = "verInventory" => e.vinv[num] = p.next
      /\ s.op = "verSidecar" => e.vside[num] = p.next
      /\ s.op # "verInventory" => e.vinv[num] = d.vinv[num]
      /\ s.op # "verSidecar" => e.vside[num] = d.vside[num]
  BY <1>1, <1>2, SMTT(30) DEF RunDone
<1>10. InventoriesOf(e.vinv, d.side, p.next) /\ InventoriesOf(e.vside, d.side, p.next)
  BY <1>2, <1>6, <1>9 DEF RunDone, NothingBut, InventoriesOf
<1>11. ContentOf(e.content, d.side, p.next)
  BY <1>2, <1>5, <1>6 DEF RunDone, NothingBut, ContentOf
<1>12. DeclarationsOf(e.decls, d.side, p.next)
  BY <1>1, <1>2, <1>4, <1>6 DEF RunDone, NothingBut, DeclarationsOf
<1>13. NothingBut(e, p.next)
  BY <1>2, <1>3, <1>10, <1>11, <1>12 DEF NothingBut, RunDone
<1>14. /\ s.op = "writeDecl" => DOMAIN e.decls = DOMAIN d.decls \cup {p.next.spec} /\ d.side.spec # p.next.spec
       /\ s.op = "removeDecl" => DOMAIN e.decls = DOMAIN d.decls \ {d.side.spec} /\ d.side.spec # p.next.spec
       /\ s.op \notin {"writeDecl", "removeDecl"} => DOMAIN e.decls = DOMAIN d.decls
  BY <1>2, <1>4 DEF RunDone
<1>15. /\ s.op = "copy" => DOMAIN e.content = DOMAIN d.content \cup {s.arg}
       /\ s.op # "copy" => DOMAIN e.content = DOMAIN d.content
  BY <1>2 DEF RunDone
<1>16. ASSUME NEW q, NEW r, q.base = p.base, q.next = p.next, Trace(q, r, d) PROVE Trace(q, r, e)
  <2>1. r.op = "writeDecl" => p.next.spec \in DOMAIN e.decls
    BY <1>1, <1>14, <1>16 DEF Trace
  <2>2. r.op = "removeDecl" => d.side.spec \notin DOMAIN e.decls
    BY <1>1, <1>14, <1>16 DEF Trace
  <2>3. r.op = "verInventory" => e.vinv[num] = p.next
    BY <1>1, <1>9, <1>16 DEF Trace
  <2>4. r.op = "verSidecar" => e.vside[num] = p.next
    BY <1>1, <1>9, <1>16 DEF Trace
  <2> QED BY <1>1, <1>16, <2>1, <2>2, <2>3, <2>4 DEF Trace
<1>17. Trace(p, s, e)
  BY <1>1, <1>9, <1>14 DEF Trace
<1>18. ASSUME NEW j \in 1..n, j # i, NoTrace(p, p.steps[j], d) PROVE NoTrace(p, p.steps[j], e)
  <2> DEFINE r == p.steps[j]
  <2>1. r.op = "copy" => r.arg \notin DOMAIN e.content
    <3>1. r.op = "copy" /\ s.op = "copy" => r.arg # s.arg
      BY <1>1, <1>18 DEF PlanShape
    <3> QED BY <1>15, <1>18, <3>1 DEF NoTrace
  <2>2. r.op = "writeDecl" => p.next.spec \notin DOMAIN e.decls
    <3>1. r.op = "writeDecl" => s.op # "writeDecl"
      BY <1>4, <1>18
    <3> QED BY <1>14, <1>18, <3>1 DEF NoTrace
  <2>3. r.op = "removeDecl" => d.side.spec \in DOMAIN e.decls
    <3>1. r.op = "removeDecl" => s.op # "removeDecl"
      BY <1>4, <1>18
    <3> QED BY <1>1, <1>14, <1>18, <3>1 DEF NoTrace
  <2>4. r.op = "verInventory" => e.vinv[num] = Nil
    <3>1. r.op = "verInventory" => s.op # "verInventory"
      BY <1>1, <1>18 DEF PlanShape
    <3> QED BY <1>9, <1>18, <3>1 DEF NoTrace
  <2>5. r.op = "verSidecar" => e.vside[num] = Nil
    <3>1. r.op = "verSidecar" => s.op # "verSidecar"
      BY <1>1, <1>18 DEF PlanShape
    <3> QED BY <1>9, <1>18, <3>1 DEF NoTrace
  <2> QED BY <1>1, <2>1, <2>2, <2>3, <2>4, <2>5 DEF NoTrace
<1> QED BY <1>8, <1>13, <1>16, <1>17, <1>18


\* Running the last step: what was pending is what the object is now.
LEMMA SidecarTidy ==
    ASSUME NEW d, NEW p, PlanBegun(p, d), p.done = Len(p.steps) - 1, Traces(p, d),
           NEW e, e = RunStep(d, p, p.steps[Len(p.steps)])
    PROVE  VersionsOk(e) /\ NothingBut(e, Nil)
<1> DEFINE n == Len(p.steps)
           s == p.steps[n]
           x == p.next
           num == x.head.num
<1>1. /\ d.side.head.num \in Nat /\ num = d.side.head.num + 1 /\ num \in 1..MaxHead
      /\ x # Nil /\ (d.side # Nil => d.side.head.num > 0) /\ IsDir(d) /\ x.spec # 0
      /\ PlanShape(p.steps, x) /\ n \in Nat /\ n >= 5 /\ p.base = d.side
      /\ Good(d.side) /\ Follows(d.side, x) /\ Good(x) /\ d.side.spec <= x.spec
  BY BegunFacts DEF PlanBegun
<1>2. s.op = "rootSidecar"
  BY <1>1 DEF PlanShape
<1>3. RunDone(d, p, s, e)
  BY <1>1, RunParts DEF PlanBegun
<1>4. e.side = x
  BY <1>1, <1>2, RunStepIs
<1>5. /\ \A m \in 1..MaxHead : e.vinv[m] = d.vinv[m] /\ e.vside[m] = d.vside[m]
      /\ DOMAIN e.content = DOMAIN d.content /\ DOMAIN e.decls = DOMAIN d.decls
  BY <1>2, <1>3 DEF RunDone
<1>6. \A j \in 1..n - 1 : Trace(p, p.steps[j], d)
  BY DEF Traces
<1>7. d.vinv[num] = x /\ d.vside[num] = x
  <2>1. n - 3 \in 1..n - 1 /\ n - 2 \in 1..n - 1 /\ n - 3 \in 1..n /\ n - 2 \in 1..n
    BY <1>1
  <2>2. p.steps[n - 3].op = "verInventory" /\ p.steps[n - 2].op = "verSidecar"
    BY <1>1, <2>1 DEF PlanShape
  <2> QED BY <1>6, <2>1, <2>2 DEF Trace
<1>8. x.head = V(num, 0) /\ x.id = "obj"
  BY DEF PlanBegun, PlanTidy
<1>9. NothingBut(d, x) /\ VersionsOk(d)
  BY DEF PlanBegun
<1>10. /\ DOMAIN x.versions = DOMAIN d.side.versions \cup {x.head}
       /\ \A v \in DOMAIN d.side.versions : x.versions[v] = d.side.versions[v]
       /\ FilesWithin(d.side, x)
       /\ \A z \in PathSet(x.manifest) \ PathSet(d.side.manifest) : InVersionDir(z, num)
  BY <1>1 DEF Follows
<1> HIDE DEF n, s, x, num
<1>11. ASSUME NEW m \in 1..d.side.head.num PROVE VersionOk(e, m)
  <2> DEFINE i == d.vinv[m]
  <2>1. VersionOk(d, m) /\ m \in 1..MaxHead /\ (m > 1 => m - 1 \in 1..MaxHead)
    BY <1>1, <1>9, ObjectAssumption DEF VersionsOk
  <2>2. /\ Good(i) /\ i.head = V(m, 0) /\ i.id = "obj" /\ d.vside[m] = i /\ FilesWithin(i, d.side)
        /\ \A v \in DOMAIN i.versions : v \in DOMAIN d.side.versions /\ d.side.versions[v] = i.versions[v]
        /\ \A z \in PathSet(d.side.manifest), k \in 1..m : InVersionDir(z, k) => z \in PathSet(i.manifest)
        /\ m > 1 => d.vinv[m - 1].spec <= i.spec
    BY <2>1 DEF VersionOk
  <2>3. e.vinv[m] = i /\ e.vside[m] = i /\ (m > 1 => e.vinv[m - 1] = d.vinv[m - 1])
    BY <1>5, <2>1, <2>2
  <2> HIDE DEF i
  <2>4. FilesWithin(i, x)
    BY <1>10, <2>2 DEF FilesWithin
  <2>5. \A v \in DOMAIN i.versions : v \in DOMAIN x.versions /\ x.versions[v] = i.versions[v]
    BY <1>10, <2>2
  <2>6. ASSUME NEW z \in PathSet(x.manifest), NEW k \in 1..m, InVersionDir(z, k)
        PROVE  z \in PathSet(i.manifest)
    <3>1. CASE z \in PathSet(d.side.manifest)
      BY <2>2, <2>6, <3>1
    <3>2. CASE z \notin PathSet(d.side.manifest)
      <4>1. InVersionDir(z, num) /\ z \in Path
        BY <1>1, <1>10, <3>2, GoodFacts
      <4>2. k \in Nat /\ num \in Nat /\ k # num
        BY <1>1, <2>6
      <4> QED BY <2>6, <4>1, <4>2, OneVersionDir
    <3> QED BY <3>1, <3>2
  <2> QED BY <1>4, <2>2, <2>3, <2>4, <2>5, <2>6 DEF VersionOk
<1>12. VersionOk(e, num)
  <2>1. e.vinv[num] = x /\ e.vside[num] = x
    BY <1>1, <1>5, <1>7
  <2>2. FilesWithin(x, x)
    BY DEF FilesWithin
  <2>3. num > 1 => e.vinv[num - 1].spec <= x.spec
    <3>1. num > 1 => num - 1 = d.side.head.num /\ d.side.head.num \in 1..MaxHead /\ d.side # Nil
      BY <1>1, ObjectAssumption, NilIsGood
    <3>2. num > 1 => e.vinv[num - 1] = d.side
      BY <1>5, <1>9, <3>1 DEF VersionsOk
    <3> QED BY <1>1, <3>2
  <2> QED BY <1>1, <1>4, <1>8, <2>1, <2>2, <2>3 DEF VersionOk
<1>13. VersionsOk(e)
  <2>1. \A m \in 1..num : m \in 1..d.side.head.num \/ m = num
    BY <1>1
  <2>2. e.side.head.num = num /\ num <= MaxHead /\ e.vinv[num] = e.side
    BY <1>1, <1>4, <1>5, <1>7, ObjectAssumption DEF num
  <2> QED BY <1>11, <1>12, <2>1, <2>2 DEF VersionsOk
<1>14. InventoriesOf(e.vinv, x, Nil) /\ InventoriesOf(e.vside, x, Nil)
  <2>1. \A m \in 1..MaxHead : m > num => m > d.side.head.num /\ m # num
    BY <1>1, ObjectAssumption
  <2>2. \A m \in 1..MaxHead : m > num => e.vinv[m] = Nil /\ e.vside[m] = Nil
    BY <1>5, <1>9, <2>1 DEF NothingBut, InventoriesOf, num
  <2> QED BY <1>3, <2>2 DEF InventoriesOf, RunDone, num
<1>15. ContentOf(e.content, x, Nil)
  <2>1. \A z \in DOMAIN e.content : z \in PathSet(x.manifest)
    BY <1>5, <1>9, <1>10 DEF NothingBut, ContentOf, NewContent, FilesWithin
  <2> QED BY <1>3, <2>1 DEF ContentOf, RunDone
<1>16. DeclarationsOf(e.decls, x, Nil)
  <2>1. DOMAIN d.decls = {x.spec} \ {0}
    <3>1. CASE d.side.spec = x.spec
      BY <1>9, <3>1 DEF NothingBut, DeclarationsOf
    <3>2. CASE d.side.spec # x.spec
      <4>1. /\ \E i \in 1..n : p.steps[i].op = "writeDecl"
            /\ d.side.spec # 0 => \E i \in 1..n : p.steps[i].op = "removeDecl"
        BY <1>1, <3>2, PlanDeclarations DEF PlanBegun, n, x
      <4>2. \A i \in 1..n : p.steps[i].op \in {"writeDecl", "removeDecl"} => i \in 1..n - 1
        <5>1. p.steps[n].op = "rootSidecar"
          BY <1>2 DEF s
        <5> QED BY <1>1, <5>1
      <4>3. x.spec \in DOMAIN d.decls
        BY <1>6, <4>1, <4>2 DEF Trace, x
      <4>4. d.side.spec # 0 => d.side.spec \notin DOMAIN d.decls
        BY <1>1, <1>6, <4>1, <4>2 DEF Trace
      <4>5. DOMAIN d.decls \subseteq {d.side.spec, x.spec} \ {0}
        BY <1>1, <1>9, <3>2 DEF NothingBut, DeclarationsOf
      <4> QED BY <1>1, <4>3, <4>4, <4>5
    <3> QED BY <3>1, <3>2
  <2> QED BY <1>3, <1>5, <2>1 DEF DeclarationsOf, RunDone
<1> QED BY <1>3, <1>4, <1>13, <1>14, <1>15, <1>16 DEF NothingBut, RunDone


-----------------------------------------------------------------------------
(* Undoing a step *)

IsFunction(f) == f = [z \in DOMAIN f |-> f[z]]

\* Undoing a step leaves a content that is a function.
LEMMA RevertContent ==
    ASSUME NEW d, IsDir(d), IsFunction(d.content),
           NEW p, NEW s, s.op = "objectRoot" => p.next.head.num # 1, NEW e, e = RevertStep(d, p, s)
    PROVE  IsFunction(e.content)
<1> SUFFICES e.content = [z \in DOMAIN e.content |-> e.content[z]]
  BY DEF IsFunction
<1>0. d.content = [z \in DOMAIN d.content |-> d.content[z]]
  BY DEF IsFunction
<1> DEFINE n == p.next.head.num
           less(gone) == SE!Restrict(d.content, DOMAIN d.content \ gone)
<1>1. \A gone : less(gone) = [z \in DOMAIN less(gone) |-> less(gone)[z]]
  BY DEF SE!Restrict
<1> HIDE DEF less
<1>2. CASE s.op = "versionDir"
  <2> DEFINE l == less(ContentIn(d, n))
             vi == [d.vinv EXCEPT ![n] = Nil]
             vs == [d.vside EXCEPT ![n] = Nil]
             st == d.strays \ {n}
  <2>1. e = [d EXCEPT !.content = l, !.vinv = vi, !.vside = vs, !.strays = st]
    BY <1>2 DEF RevertStep, less
  <2>2. l = [z \in DOMAIN l |-> l[z]]
    BY <1>1
  <2> HIDE DEF l, vi, vs, st
  <2>3. e.content = l
    BY <2>1 DEF IsDir
  <2> QED BY <2>2, <2>3
<1>3. CASE s.op = "copy"
  <2> DEFINE l == less({s.arg})
  <2>1. e = [d EXCEPT !.content = l]
    BY <1>3 DEF RevertStep, less
  <2>2. l = [z \in DOMAIN l |-> l[z]]
    BY <1>1
  <2> HIDE DEF l
  <2>3. e.content = l
    BY <2>1 DEF IsDir
  <2> QED BY <2>2, <2>3
<1>4. CASE s.op = "objectRoot"
  <2>1. e = d
    BY <1>4 DEF RevertStep
  <2> QED BY <1>0, <2>1
<1>5. ASSUME NEW f \in {"decls", "vinv", "vside", "inv", "side"}, NEW x, e = [d EXCEPT ![f] = x]
      PROVE  e.content = d.content
  BY <1>5 DEF IsDir
<1>6. CASE s.op \notin {"objectRoot", "versionDir", "copy"}
  <2>1. \E f \in {"decls", "vinv", "vside", "inv", "side"} : \E x : e = [d EXCEPT ![f] = x]
    BY <1>6 DEF RevertStep
  <2>2. e.content = d.content
    BY <1>5, <2>1
  <2> QED BY <1>0, <2>2
<1> QED BY <1>2, <1>3, <1>4, <1>6

\* Undoing a step, as far as NothingBut is concerned.
UndoDone(d, p, s, e) ==
    /\ e.strays = {} /\ e.exts = {}
    /\ Total(e.vinv) /\ Total(e.vside)
    /\ \A m \in 1 .. MaxHead :
          /\ e.vinv[m] = IF s.op \in {"versionDir", "verInventory"} /\ m = p.next.head.num THEN Nil ELSE d.vinv[m]
          /\ e.vside[m] = IF s.op \in {"versionDir", "verSidecar"} /\ m = p.next.head.num THEN Nil ELSE d.vside[m]
    /\ e.content = [z \in DOMAIN e.content |-> e.content[z]]
    /\ DOMAIN e.content \subseteq DOMAIN d.content
    /\ s.op = "copy" => s.arg \notin DOMAIN e.content
    /\ e.decls = [z \in DOMAIN e.decls |-> TRUE]
    /\ DOMAIN e.decls = IF s.op = "removeDecl" THEN DOMAIN d.decls \cup {s.arg}
                        ELSE IF s.op = "writeDecl" THEN DOMAIN d.decls \ {s.arg}
                        ELSE DOMAIN d.decls

\* The revert function of a step does no more than UndoDone says.
LEMMA UndoParts ==
    ASSUME NEW d, IsDir(d), NEW new, NothingBut(d, new), NEW p, p.base = d.side,
           NEW s, s.op = "objectRoot" => p.next.head.num # 1, NEW e, e = RevertStep(d, p, s)
    PROVE  UndoDone(d, p, s, e)
<1> DEFINE n == p.next.head.num
           w == With(d.decls, s.arg, TRUE)
           l == SE!Restrict(d.decls, DOMAIN d.decls \ {s.arg})
           vi == [d.vinv EXCEPT ![n] = Nil]
           vs == [d.vside EXCEPT ![n] = Nil]
           st == d.strays \ {n}
<1>1. /\ e.decls = IF s.op = "removeDecl" THEN w ELSE IF s.op = "writeDecl" THEN l ELSE d.decls
      /\ e.vinv = IF s.op \in {"versionDir", "verInventory"} THEN vi ELSE d.vinv
      /\ e.vside = IF s.op \in {"versionDir", "verSidecar"} THEN vs ELSE d.vside
      /\ e.strays = IF s.op = "versionDir" THEN st ELSE d.strays
      /\ e.exts = d.exts
  <2>1. DirRest(e, d, IF s.op = "removeDecl" THEN w ELSE IF s.op = "writeDecl" THEN l ELSE d.decls,
                IF s.op \in {"versionDir", "verInventory"} THEN vi ELSE d.vinv,
                IF s.op \in {"versionDir", "verSidecar"} THEN vs ELSE d.vside,
                IF s.op = "versionDir" THEN st ELSE d.strays)
    BY RevertStepRest
  <2> HIDE DEF w, l, vi, vs, st
  <2> QED BY <2>1 DEF DirRest
<1>2. DOMAIN e.content \subseteq DOMAIN d.content /\ (s.op = "copy" => s.arg \notin DOMAIN e.content)
  <2> DEFINE gone == IF s.op = "versionDir" THEN ContentIn(d, p.next.head.num)
                     ELSE IF s.op = "copy" THEN {s.arg} ELSE {}
  <2>1. DOMAIN e.content = DOMAIN d.content \ gone
    BY RevertStepIs
  <2>2. s.op = "copy" => s.arg \in gone
    OBVIOUS
  <2> HIDE DEF gone
  <2> QED BY <2>1, <2>2
<1>3. /\ d.strays = {} /\ d.exts = {} /\ Total(d.vinv) /\ Total(d.vside)
      /\ d.content = [z \in DOMAIN d.content |-> d.content[z]]
      /\ d.decls = [z \in DOMAIN d.decls |-> TRUE]
  BY DEF NothingBut, InventoriesOf, ContentOf, DeclarationsOf
<1>4. e.content = [z \in DOMAIN e.content |-> e.content[z]]
  <2>1. IsFunction(d.content)
    BY <1>3 DEF IsFunction
  <2>2. IsFunction(e.content)
    BY <2>1, RevertContent
  <2> QED BY <2>2 DEF IsFunction
<1>5. w = [z \in DOMAIN d.decls \cup {s.arg} |-> TRUE] /\ l = [z \in DOMAIN d.decls \ {s.arg} |-> TRUE]
  <2> DEFINE f == d.decls
             x == s.arg
  <2>1. f = [z \in DOMAIN f |-> TRUE]
    BY <1>3
  <2> HIDE DEF f, x
  <2>2. /\ With(f, x, TRUE) = [z \in DOMAIN f \cup {x} |-> TRUE]
        /\ SE!Restrict(f, DOMAIN f \ {x}) = [z \in DOMAIN f \ {x} |-> TRUE]
    BY <2>1, DeclarationSets
  <2> QED BY <2>2 DEF f, x
<1>6. DOMAIN w = DOMAIN d.decls \cup {s.arg} /\ w = [z \in DOMAIN w |-> TRUE]
      /\ DOMAIN l = DOMAIN d.decls \ {s.arg} /\ l = [z \in DOMAIN l |-> TRUE]
  BY <1>5
<1>7. Total(vi) /\ \A m \in 1..MaxHead : vi[m] = IF m = n THEN Nil ELSE d.vinv[m]
  <2>1. vi = [d.vinv EXCEPT ![n] = Nil] /\ Total(d.vinv)
    BY <1>3
  <2> HIDE DEF vi, n
  <2> QED BY <2>1, AssignVersion
<1>8. Total(vs) /\ \A m \in 1..MaxHead : vs[m] = IF m = n THEN Nil ELSE d.vside[m]
  <2>1. vs = [d.vside EXCEPT ![n] = Nil] /\ Total(d.vside)
    BY <1>3
  <2> HIDE DEF vs, n
  <2> QED BY <2>1, AssignVersion
<1>9. e.strays = {} /\ e.exts = {}
  BY <1>1, <1>3
<1> HIDE DEF w, l, vi, vs, st
<1>10. Total(e.vinv) /\ \A m \in 1..MaxHead :
          e.vinv[m] = IF s.op \in {"versionDir", "verInventory"} /\ m = n THEN Nil ELSE d.vinv[m]
  BY <1>1, <1>3, <1>7
<1>11. Total(e.vside) /\ \A m \in 1..MaxHead :
          e.vside[m] = IF s.op \in {"versionDir", "verSidecar"} /\ m = n THEN Nil ELSE d.vside[m]
  BY <1>1, <1>3, <1>8
<1>12. /\ e.decls = [z \in DOMAIN e.decls |-> TRUE]
       /\ DOMAIN e.decls = IF s.op = "removeDecl" THEN DOMAIN d.decls \cup {s.arg}
                           ELSE IF s.op = "writeDecl" THEN DOMAIN d.decls \ {s.arg}
                           ELSE DOMAIN d.decls
  BY <1>1, <1>3, <1>6
<1> QED BY <1>2, <1>4, <1>9, <1>10, <1>11, <1>12 DEF UndoDone

\* Undoing the last completed step.
LEMMA UndoTidy ==
    ASSUME NEW d, NEW p, PlanBegun(p, d), Traces(p, d), Untouched(p, d),
           p.done \in 1..Len(p.steps) - 1,
           p.steps[p.done].op = "objectRoot" => p.next.head.num # 1,
           NEW e, e = RevertStep(d, p, p.steps[p.done])
    PROVE  /\ VersionsOk(e) /\ NothingBut(e, p.next)
           /\ \A j \in 1..p.done - 1 : Trace(p, p.steps[j], e)
           /\ \A j \in p.done..Len(p.steps) : NoTrace(p, p.steps[j], e)
<1> DEFINE i == p.done
           s == p.steps[i]
           n == Len(p.steps)
           num == p.next.head.num
<1>1. /\ d.side.head.num \in Nat /\ num = d.side.head.num + 1 /\ num \in 1..MaxHead
      /\ p.next # Nil /\ (d.side # Nil => d.side.head.num > 0) /\ IsDir(d) /\ p.next.spec # 0
      /\ PlanShape(p.steps, p.next) /\ n \in Nat /\ p.base = d.side
  BY BegunFacts DEF PlanBegun
<1>2. UndoDone(d, p, s, e)
  BY <1>1, UndoParts DEF PlanBegun
<1>3. e.side = d.side
  BY <1>1, RevertStepIs
<1>4. \A j \in 1..n :
          /\ p.steps[j].op = "writeDecl" => j = 2 /\ p.steps[j].arg = p.next.spec /\ d.side.spec # p.next.spec
          /\ p.steps[j].op = "removeDecl" =>
                j = 3 /\ p.steps[j].arg = d.side.spec /\ d.side.spec # p.next.spec /\ d.side.spec # 0
  BY <1>1, PlanDeclarations DEF PlanBegun
<1>5. i \in 1..n /\ i \in Nat
  BY <1>1
<1>6. NothingBut(d, p.next) /\ VersionsOk(d)
  BY SMTT(30) DEF PlanBegun
<1>7. \A m \in 1..MaxHead : m # num => e.vinv[m] = d.vinv[m] /\ e.vside[m] = d.vside[m]
  BY <1>2 DEF UndoDone
<1>8. VersionsOk(e)
  <2>1. \A m \in 1..d.side.head.num : m \in 1..MaxHead /\ m # num
    BY <1>1, ObjectAssumption, SMTT(30)
  <2> QED BY <1>1, <1>3, <1>6, <1>7, <2>1, VersionsKept
<1>9. /\ \A m \in 1..MaxHead : e.vinv[m] = d.vinv[m] \/ (m = num /\ e.vinv[m] = Nil)
      /\ \A m \in 1..MaxHead : e.vside[m] = d.vside[m] \/ (m = num /\ e.vside[m] = Nil)
      /\ s.op = "verInventory" => e.vinv[num] = Nil
      /\ s.op = "verSidecar" => e.vside[num] = Nil
      /\ s.op \notin {"verInventory", "versionDir"} => e.vinv[num] = d.vinv[num]
      /\ s.op \notin {"verSidecar", "versionDir"} => e.vside[num] = d.vside[num]
  BY <1>1, <1>2, ZenonT(40) DEF UndoDone
<1>10. InventoriesOf(e.vinv, d.side, p.next) /\ InventoriesOf(e.vside, d.side, p.next)
  <2>1. InventoriesOf(d.vinv, d.side, p.next) /\ InventoriesOf(d.vside, d.side, p.next)
    BY <1>6, SMTT(30) DEF NothingBut
  <2>2. Total(e.vinv) /\ Total(e.vside)
    BY <1>2 DEF UndoDone
  <2>3. InventoriesOf(e.vinv, d.side, p.next)
    BY <1>9, <2>1, <2>2, SMTT(30) DEF InventoriesOf
  <2> QED BY <1>9, <2>1, <2>2, <2>3 DEF InventoriesOf
<1>11. ContentOf(e.content, d.side, p.next)
  BY <1>2, <1>6, SMTT(30) DEF UndoDone, NothingBut, ContentOf
<1>12. /\ s.op = "removeDecl" => DOMAIN e.decls = DOMAIN d.decls \cup {d.side.spec} /\ d.side.spec # p.next.spec
       /\ s.op = "writeDecl" => DOMAIN e.decls = DOMAIN d.decls \ {p.next.spec} /\ d.side.spec # p.next.spec
       /\ s.op \notin {"writeDecl", "removeDecl"} => DOMAIN e.decls = DOMAIN d.decls
  BY <1>2, <1>4, <1>5 DEF UndoDone
<1>13. DeclarationsOf(e.decls, d.side, p.next)
  <2>1. e.decls = [z \in DOMAIN e.decls |-> TRUE]
    BY <1>2 DEF UndoDone
  <2>2. DeclarationsOf(d.decls, d.side, p.next)
    BY <1>6 DEF NothingBut
  <2>3. s.op = "removeDecl" => d.side.spec # 0
    BY <1>4, <1>5
  <2> HIDE DEF s
  <2>4. CASE d.side.spec = p.next.spec
    BY <1>12, <2>1, <2>2, <2>4 DEF DeclarationsOf
  <2>5. CASE d.side.spec # p.next.spec
    <3>1. DOMAIN d.decls \subseteq {d.side.spec, p.next.spec} \ {0}
      BY <1>1, <2>2, <2>5 DEF DeclarationsOf
    <3>2. DOMAIN e.decls \subseteq {d.side.spec, p.next.spec} \ {0}
      BY <1>12, <2>3, <3>1, SMTT(30)
    <3> QED BY <1>1, <2>1, <2>5, <3>2 DEF DeclarationsOf
  <2> QED BY <2>4, <2>5, SMTT(30)
<1>14. NothingBut(e, p.next)
  BY <1>2, <1>3, <1>10, <1>11, <1>13, SMTT(30) DEF NothingBut, UndoDone
<1>15. DOMAIN e.content \subseteq DOMAIN d.content /\ (s.op = "copy" => s.arg \notin DOMAIN e.content)
  BY <1>2 DEF UndoDone
<1>16. ASSUME NEW j \in 1..i - 1 PROVE Trace(p, p.steps[j], e)
  <2> DEFINE r == p.steps[j]
  <2>1. j \in 1..i /\ j \in 1..n /\ j < i
    BY <1>5
  <2>2. Trace(p, r, d)
    BY <2>1 DEF Traces
  <2>3. r.op = "writeDecl" => p.next.spec \in DOMAIN e.decls
    <3>1. r.op = "writeDecl" => s.op # "writeDecl"
      BY <1>4, <1>5, <2>1
    <3> QED BY <1>12, <2>2, <3>1 DEF Trace
  <2>4. r.op = "removeDecl" => d.side.spec \notin DOMAIN e.decls
    <3>1. r.op = "removeDecl" => s.op # "removeDecl"
      BY <1>4, <1>5, <2>1
    <3> QED BY <1>1, <1>12, <2>2, <3>1 DEF Trace
  <2>5. r.op = "verInventory" => e.vinv[num] = p.next
    <3>1. r.op = "verInventory" => j = n - 3
      BY <1>1, <2>1 DEF PlanShape
    <3>2. (s.op = "verInventory" => i = n - 3) /\ (s.op = "versionDir" => i < n - 3)
      BY <1>1, <1>5 DEF PlanShape
    <3>3. r.op = "verInventory" => s.op \notin {"verInventory", "versionDir"}
      BY <1>1, <1>5, <2>1, <3>1, <3>2
    <3> QED BY <1>9, <2>2, <3>3 DEF Trace
  <2>6. r.op = "verSidecar" => e.vside[num] = p.next
    <3>1. r.op = "verSidecar" => j = n - 2
      BY <1>1, <2>1 DEF PlanShape
    <3>2. (s.op = "verSidecar" => i = n - 2) /\ (s.op = "versionDir" => i < n - 3)
      BY <1>1, <1>5 DEF PlanShape
    <3>3. r.op = "verSidecar" => s.op \notin {"verSidecar", "versionDir"}
      BY <1>1, <1>5, <2>1, <3>1, <3>2
    <3> QED BY <1>9, <2>2, <3>3 DEF Trace
  <2> QED BY <1>1, <2>3, <2>4, <2>5, <2>6 DEF Trace
<1>17. ASSUME NEW j \in i..n PROVE NoTrace(p, p.steps[j], e)
  <2> DEFINE r == p.steps[j]
  <2>1. j \in 1..n /\ (j # i => j \in i + 1..n)
    BY <1>1, <1>5
  <2>2. j # i => NoTrace(p, r, d)
    BY <2>1 DEF Untouched
  <2>3. r.op = "copy" => r.arg \notin DOMAIN e.content
    BY <1>15, <2>2 DEF NoTrace
  <2>4. r.op = "writeDecl" => p.next.spec \notin DOMAIN e.decls
    <3>1. r.op = "writeDecl" => s.op # "removeDecl"
      <4>1. r.op = "writeDecl" => j = 2
        BY <1>4, <2>1
      <4>2. s.op = "removeDecl" => i = 3
        BY <1>4, <1>5
      <4> QED BY <1>5, <2>1, <4>1, <4>2
    <3> QED BY <1>12, <2>2, <3>1 DEF NoTrace
  <2>5. r.op = "removeDecl" => d.side.spec \in DOMAIN e.decls
    BY <1>1, <1>12, <2>2 DEF NoTrace
  <2>6. r.op = "verInventory" => e.vinv[num] = Nil
    BY <1>1, <1>9, <2>2 DEF NoTrace
  <2>7. r.op = "verSidecar" => e.vside[num] = Nil
    BY <1>1, <1>9, <2>2 DEF NoTrace
  <2> QED BY <1>1, <2>3, <2>4, <2>5, <2>6, <2>7 DEF NoTrace
<1> QED BY <1>8, <1>14, <1>16, <1>17


-----------------------------------------------------------------------------
(* The actions that leave the directory alone *)

\* An empty directory holds nothing that does not belong there.
LEMMA EmptyDirTidy ==
    /\ VersionsOk(EmptyDir(MaxHead))
    /\ \A new : NothingBut(EmptyDir(MaxHead), new)
<1> DEFINE d == EmptyDir(MaxHead)
           none == [m \in 1..MaxHead |-> Nil]
<1>1. /\ d.side = Nil /\ d.vinv = none /\ d.vside = none
      /\ d.content = <<>> /\ d.decls = <<>> /\ d.strays = {} /\ d.exts = {}
  BY DEF EmptyDir
<1>2. Nil.head.num = 0 /\ Nil.spec = 0
  BY NilIsGood, SpecFacts
<1>3. \A new : InventoriesOf(none, Nil, new)
  BY DEF InventoriesOf, Total
<1>4. \A new : ContentOf(<<>>, Nil, new) /\ DeclarationsOf(<<>>, Nil, new)
  BY <1>2 DEF ContentOf, DeclarationsOf
<1> HIDE DEF none, d
<1>5. VersionsOk(d)
  BY <1>1, <1>2, ObjectAssumption DEF VersionsOk
<1>6. \A new : NothingBut(d, new)
  BY <1>1, <1>3, <1>4 DEF NothingBut
<1> QED BY <1>5, <1>6 DEF d

\* Nothing is pending when no update was begun or the one begun has run its last step.
LEMMA NothingPending == \A d : Pending(d, Nil) = Nil /\ Pending(d, d.side) = Nil
BY DEF Pending

\* No plan, no condition.
LEMMA NoPlanTidy == \A d, begun : PlanTidy(NoPlan, d, begun) /\ OwnTidy(NoPlan, d, begun)
BY DEF PlanTidy, OwnTidy

\* What a directory without an update holds, it may hold during one.
LEMMA NothingButMore ==
    ASSUME NEW d, NothingBut(d, Nil), NEW new
    PROVE  NothingBut(d, new)
<1>1. NewContent(Nil) = {}
  BY NilIsGood DEF NewContent
<1>2. InventoriesOf(d.vinv, d.side, new) /\ InventoriesOf(d.vside, d.side, new)
  BY DEF NothingBut, InventoriesOf
<1>3. ContentOf(d.content, d.side, new)
  BY <1>1 DEF NothingBut, ContentOf
<1>4. DeclarationsOf(d.decls, d.side, new)
  BY DEF NothingBut, DeclarationsOf
<1> QED BY <1>2, <1>3, <1>4 DEF NothingBut

\* The same plan in another call, or read back.
LEMMA TidyCopy ==
    ASSUME NEW p, p # NoPlan, NEW d, NEW begun, NEW q, SamePlan(p, q, p.done)
    PROVE  /\ PlanTidy(p, d, begun) => PlanTidy(q, d, begun)
           /\ OwnTidy(p, d, begun) /\ q.own = p.own => OwnTidy(q, d, begun)
<1>1. Traces(p, d) => Traces(q, d)
  BY DEF Traces, Trace, SamePlan
<1>2. Untouched(p, d) => Untouched(q, d)
  BY DEF Untouched, NoTrace, SamePlan
<1>3. PlanTidy(p, d, begun) => PlanTidy(q, d, begun)
  BY <1>1 DEF PlanTidy, SamePlan
<1>4. OwnTidy(p, d, begun) /\ q.own = p.own => OwnTidy(q, d, begun)
  BY <1>2 DEF OwnTidy, SamePlan
<1> QED BY <1>3, <1>4

\* When an update begins, a plan for the inventory of the sidecar has run no step.
LEMMA BeginTidy ==
    ASSUME NEW p, NEW d, NEW begun, NEW next, begun \in {Nil, next},
           PlanOk(p, d, begun), PlanTidy(p, d, begun)
    PROVE  PlanTidy(p, d, next)
<1>1. CASE begun = next
  BY <1>1
<1>2. CASE begun = Nil /\ p # NoPlan
  <2>1. p.next # Nil /\ p.done \in Nat
    BY <1>2, PlanFacts
  <2>2. p.base = d.side => p.done = 0
    BY <1>2, <2>1 DEF PlanOk
  <2>3. p.done = 0 => Traces(p, d)
    BY DEF Traces
  <2> QED BY <1>2, <2>2, <2>3 DEF PlanTidy
<1>3. CASE p = NoPlan
  BY <1>3, NoPlanTidy
<1> QED BY <1>1, <1>2, <1>3

\* When an update is resolved, no plan is the one that was begun.
LEMMA ResolveTidy ==
    ASSUME NEW p, NEW d, NEW begun, PlanOk(p, d, begun), PlanTidy(p, d, begun)
    PROVE  PlanTidy(p, d, Nil)
<1>1. p # NoPlan => p.next # Nil
  BY PlanFacts
<1> QED BY <1>1 DEF PlanTidy

\* Nothing is there at first.
LEMMA TidyInit == Init => Tidy
<1> SUFFICES ASSUME Init PROVE Tidy
  OBVIOUS
<1>1. dir = EmptyDir(MaxHead) /\ plan = NoPlan /\ saved = NoPlan /\ inflight = Nil
  BY DEF Init
<1> QED BY <1>1, EmptyDirTidy, NoPlanTidy DEF Tidy

\* Opening and closing handles, saving a plan and failing to run a step.
LEMMA TidyHandles ==
    ASSUME ObjectOk, Tidy,
           \/ \E cached, skip : NewObject(cached, skip)
           \/ CloseObject \/ SavePlan \/ Crash
    PROVE  Tidy'
<1>1. UNCHANGED <<dir, inflight>> /\ (UNCHANGED plan \/ plan' = NoPlan) /\ saved' \in {saved, plan}
  BY DEF NewObject, CloseObject, SavePlan, Crash
<1>2. PlanTidy(plan', dir, inflight) /\ OwnTidy(plan', dir, inflight) /\ PlanTidy(saved', dir, inflight)
  BY <1>1, NoPlanTidy DEF Tidy
<1> QED BY <1>1, <1>2 DEF Tidy

\* Calls that begin or end without a step.
LEMMA TidyCalls ==
    ASSUME ObjectOk, Tidy, ResumeDirectly \/ StepFails \/ Revert
    PROVE  Tidy'
<1>1. /\ UNCHANGED <<dir, inflight>> /\ saved' \in {saved, NoPlan}
      /\ plan # NoPlan /\ \E x : plan' = [plan EXCEPT !.call = x]
  BY NoPlanOk DEF ResumeDirectly, StepFails, Revert
<1>2. SamePlan(plan, plan', plan.done) /\ plan'.own = plan.own
  BY <1>1, PlanFields DEF ObjectOk, PlanOk
<1>3. PlanTidy(plan', dir, inflight) /\ OwnTidy(plan', dir, inflight)
  BY <1>1, <1>2, TidyCopy DEF Tidy
<1>4. PlanTidy(saved', dir, inflight)
  BY <1>1, NoPlanTidy DEF Tidy
<1> QED BY <1>1, <1>3, <1>4 DEF Tidy

\* update-plan.go, UnmarshalBinary: the plan read back.
LEMMA TidyLoad ==
    ASSUME ObjectOk, Tidy, LoadPlan
    PROVE  Tidy'
<1>1. UNCHANGED <<dir, saved, inflight>> /\ saved # NoPlan /\ plan' = [saved EXCEPT !.own = FALSE]
  BY DEF LoadPlan
<1>2. SamePlan(saved, plan', saved.done) /\ plan'.own = FALSE
  <2>1. \A x : plan' = [saved EXCEPT !.own = x] => SamePlan(saved, plan', saved.done) /\ plan'.own = x
    BY PlanFields DEF ObjectOk, PlanOk
  <2> QED BY <1>1, <2>1, Zenon
<1>3. PlanTidy(plan', dir, inflight)
  BY <1>1, <1>2, TidyCopy DEF Tidy
<1>4. OwnTidy(plan', dir, inflight)
  BY <1>2 DEF OwnTidy
<1> QED BY <1>1, <1>3, <1>4 DEF Tidy

\* ApplyUpdatePlan begins: what may be in the directory is now what the plan may leave.
LEMMA TidyBegin ==
    ASSUME ObjectOk, Tidy, ApplyUpdatePlan
    PROVE  Tidy'
<1>1. /\ plan # NoPlan /\ inflight \in {Nil, plan.next} /\ inflight' = plan.next
      /\ plan' = [plan EXCEPT !.call = "apply"] /\ UNCHANGED <<dir, saved>>
  BY DEF ApplyUpdatePlan, OwnPlan
<1>2. SamePlan(plan, plan', plan.done) /\ plan'.own = plan.own
  BY <1>1, PlanFields DEF ObjectOk, PlanOk
<1>3. PlanTidy(plan, dir, plan.next) /\ PlanTidy(saved, dir, plan.next)
  BY <1>1, BeginTidy DEF ObjectOk, Tidy
<1>4. PlanTidy(plan', dir, plan.next)
  BY <1>1, <1>2, <1>3, TidyCopy
<1>5. OwnTidy(plan, dir, plan.next)
  BY DEF Tidy, OwnTidy
<1>6. OwnTidy(plan', dir, plan.next)
  BY <1>1, <1>2, <1>5, TidyCopy
<1>7. NothingBut(dir, Pending(dir, plan.next))
  <2>1. CASE inflight = plan.next
    BY <2>1 DEF Tidy
  <2>2. CASE inflight = Nil
    BY <2>2, NothingPending, NothingButMore DEF Tidy
  <2> QED BY <1>1, <2>1, <2>2
<1> QED BY <1>1, <1>3, <1>4, <1>6, <1>7 DEF Tidy

\* An update that is done is resolved: nothing was pending any more.
LEMMA TidyResolved ==
    ASSUME ObjectOk, Tidy, plan' = NoPlan, UNCHANGED <<dir, saved>>,
           inflight' = inflight \/ (inflight = dir.side /\ inflight' = Nil)
    PROVE  Tidy'
<1>1. CASE inflight' = inflight
  BY <1>1, NoPlanTidy DEF Tidy
<1>2. CASE inflight = dir.side /\ inflight' = Nil
  <2>1. PlanTidy(saved, dir, Nil)
    BY ResolveTidy DEF ObjectOk, Tidy
  <2>2. NothingBut(dir, Pending(dir, Nil))
    BY <1>2, NothingPending DEF Tidy
  <2> QED BY <1>2, <2>1, <2>2, NoPlanTidy DEF Tidy
<1> QED BY <1>1, <1>2

\* ApplyUpdatePlan refuses a plan, or returns.
LEMMA TidyReturns ==
    ASSUME ObjectOk, Tidy, ApplyRefused \/ ApplyReturns
    PROVE  Tidy'
<1>1. CASE ApplyRefused
  <2>1. /\ plan.call = "none" /\ plan' = NoPlan /\ UNCHANGED <<dir, saved>>
        /\ inflight' = inflight \/
              (handle.checked /\ handle.inv = plan.next /\ inflight = plan.next /\ inflight' = Nil)
    BY <1>1 DEF ApplyRefused
  <2>2. handle.checked => handle.inv = dir.side
    BY <2>1 DEF ObjectOk, HandleOk, Completed
  <2> QED BY <2>1, <2>2, TidyResolved
<1>2. CASE ApplyReturns
  <2>1. plan.call = "apply" /\ plan.done = Len(plan.steps) /\ plan' = NoPlan /\ inflight' = Nil
        /\ UNCHANGED <<dir, saved>>
    BY <1>2 DEF ApplyReturns
  <2>2. plan # NoPlan
    BY <2>1, NoPlanOk
  <2>3. Len(plan.steps) \in Nat
    BY <2>2, PlanFacts DEF ObjectOk, PlanShape
  <2>4. plan.next = dir.side /\ inflight = plan.next
    BY <2>1, <2>2, <2>3 DEF ObjectOk, CallOk
  <2> QED BY <2>1, <2>4, TidyResolved
<1> QED BY <1>1, <1>2

\* A plan of which nothing was left is a plan that was not begun.
LEMMA UntouchedIsTidy ==
    ASSUME NEW p, NEW d, PlanBegun(p, d), p.done = 0, Untouched(p, d)
    PROVE  NothingBut(d, Nil)
<1> DEFINE n == Len(p.steps)
           num == p.next.head.num
<1>1. /\ d.side.head.num \in Nat /\ num \in 1..MaxHead /\ p.next.spec # 0
      /\ PlanShape(p.steps, p.next) /\ n \in Nat /\ n >= 5 /\ p.base = d.side
  BY BegunFacts DEF PlanBegun
<1>2. \A j \in 1..n : NoTrace(p, p.steps[j], d)
  BY <1>1 DEF Untouched
<1>3. NothingBut(d, p.next)
  BY DEF PlanBegun
<1>4. d.vinv[num] = Nil /\ d.vside[num] = Nil
  <2>1. n - 3 \in 1..n /\ n - 2 \in 1..n
    BY <1>1
  <2>2. p.steps[n - 3].op = "verInventory" /\ p.steps[n - 2].op = "verSidecar"
    BY <1>1, <2>1 DEF PlanShape
  <2> QED BY <1>2, <2>1, <2>2 DEF NoTrace
<1>5. InventoriesOf(d.vinv, d.side, Nil) /\ InventoriesOf(d.vside, d.side, Nil)
  BY <1>3, <1>4 DEF NothingBut, InventoriesOf
<1>6. ContentOf(d.content, d.side, Nil)
  <2>1. \A z \in NewContent(p.next) : z \notin DOMAIN d.content
    <3> SUFFICES ASSUME NEW z \in NewContent(p.next) PROVE z \notin DOMAIN d.content
      OBVIOUS
    <3>1. PICK j \in 1..n : p.steps[j] = Step("copy", z)
      BY <1>1 DEF PlanShape
    <3>2. p.steps[j].op = "copy" /\ p.steps[j].arg = z
      BY <3>1 DEF Step
    <3> QED BY <1>2, <3>2 DEF NoTrace
  <2> QED BY <1>3, <2>1 DEF NothingBut, ContentOf
<1>7. DeclarationsOf(d.decls, d.side, Nil)
  <2>1. d.decls = [z \in DOMAIN d.decls |-> TRUE]
    BY <1>3 DEF NothingBut, DeclarationsOf
  <2>2. CASE d.side.spec = p.next.spec
    BY <1>3, <2>2 DEF NothingBut, DeclarationsOf
  <2>3. CASE d.side.spec # p.next.spec
    <3>1. /\ \E j \in 1..n : p.steps[j].op = "writeDecl"
          /\ d.side.spec # 0 => \E j \in 1..n : p.steps[j].op = "removeDecl"
      BY <1>1, <2>3, PlanDeclarations DEF PlanBegun
    <3>2. p.next.spec \notin DOMAIN d.decls /\ (d.side.spec # 0 => d.side.spec \in DOMAIN d.decls)
      BY <1>1, <1>2, <3>1 DEF NoTrace
    <3>3. DOMAIN d.decls \subseteq {d.side.spec, p.next.spec} \ {0}
      BY <1>1, <1>3, <2>3 DEF NothingBut, DeclarationsOf
    <3>4. DOMAIN d.decls = {d.side.spec} \ {0}
      BY <3>2, <3>3
    <3> QED BY <2>1, <3>4 DEF DeclarationsOf
  <2> QED BY <2>2, <2>3
<1> QED BY <1>3, <1>5, <1>6, <1>7 DEF NothingBut

\* Revert returns: nothing of the plan is left.
LEMMA TidyReverted ==
    ASSUME ObjectOk, Tidy, RevertReturns
    PROVE  Tidy'
<1>1. plan.call = "revert" /\ plan.done = 0 /\ plan' = NoPlan /\ inflight' = Nil /\ UNCHANGED <<dir, saved>>
  BY DEF RevertReturns
<1>2. plan # NoPlan
  BY <1>1, NoPlanOk
<1>3. plan.own /\ saved = NoPlan /\ plan.base = dir.side
  BY <1>1, <1>2 DEF ObjectOk, CallOk
<1>4. inflight \in {Nil, plan.next} /\ Untouched(plan, dir)
  BY <1>2, <1>3 DEF Tidy, OwnTidy
<1>5. NothingBut(dir, Nil)
  <2>1. CASE inflight = Nil
    BY <2>1, NothingPending DEF Tidy
  <2>2. CASE inflight = plan.next
    <3>1. plan.next # dir.side
      BY <1>2, <1>3, PlanFacts DEF ObjectOk
    <3>2. PlanBegun(plan, dir)
      BY <1>2, <1>3, <2>2, <3>1 DEF ObjectOk, Tidy, PlanBegun, Pending
    <3> QED BY <1>1, <1>4, <3>2, UntouchedIsTidy
  <2> QED BY <1>4, <2>1, <2>2
<1> QED BY <1>1, <1>3, <1>5, NothingPending, NoPlanTidy DEF Tidy


\* A plan that was just made has left nothing.
LEMMA FreshIsUntouched ==
    ASSUME NEW p, NEW d, NEW begun, PlanOk(p, d, begun), p # NoPlan, p.base = d.side, Good(d.side),
           NothingBut(d, Nil), p.next.head.num <= MaxHead
    PROVE  \A j \in 1..Len(p.steps) : NoTrace(p, p.steps[j], d)
<1> DEFINE num == p.next.head.num
           n == Len(p.steps)
<1>1. /\ PlanShape(p.steps, p.next) /\ d.side.head.num \in Nat /\ num = d.side.head.num + 1
      /\ num \in 1..MaxHead
  BY PlanFacts, ObjectAssumption, SMTT(30)
<1>2. \A j \in 1..n :
          /\ p.steps[j].op = "writeDecl" => d.side.spec # p.next.spec
          /\ p.steps[j].op = "removeDecl" => d.side.spec # 0
  BY PlanDeclarations
<1>3. DOMAIN d.decls = {d.side.spec} \ {0}
  BY DEF NothingBut, DeclarationsOf
<1>4. d.vinv[num] = Nil /\ d.vside[num] = Nil
  BY <1>1 DEF NothingBut, InventoriesOf
<1>5. \A z \in NewContent(p.next) : z \notin DOMAIN d.content
  <2> SUFFICES ASSUME NEW z \in NewContent(p.next), z \in DOMAIN d.content PROVE FALSE
    OBVIOUS
  <2>1. z \in PathSet(d.side.manifest)
    BY NilIsGood DEF NothingBut, ContentOf, NewContent
  <2>2. InVersionDir(z, num)
    BY DEF NewContent
  <2>3. num \in Nat /\ num > d.side.head.num
    BY <1>1
  <2> QED BY <2>1, <2>2, <2>3, NewContentApart
<1>6. ASSUME NEW j \in 1..n PROVE NoTrace(p, p.steps[j], d)
  <2>1. p.steps[j].op = "copy" => p.steps[j].arg \notin DOMAIN d.content
    BY <1>1, <1>5 DEF PlanShape
  <2>2. p.steps[j].op = "writeDecl" => p.next.spec \notin DOMAIN d.decls
    BY <1>2, <1>3
  <2>3. p.steps[j].op = "removeDecl" => p.base.spec \in DOMAIN d.decls
    BY <1>2, <1>3
  <2> QED BY <1>4, <2>1, <2>2, <2>3 DEF NoTrace
<1> QED BY <1>6

\* NewUpdatePlan: the plan is for the next version of the object.
LEMMA TidyNewPlan ==
    ASSUME ObjectOk, Tidy, NEW stage \in Stages, NEW spec \in Specs, NewUpdatePlan(stage, spec)
    PROVE  Tidy'
<1> DEFINE next == NextInventory(stage, spec)
<1>1. /\ handle.checked /\ plan = NoPlan /\ inflight = Nil /\ Exists(next)
      /\ handle.inv.head.num < MaxHead /\ next.spec >= handle.inv.spec
      /\ plan' = PlanRec(handle.inv, next, NewPlanSteps(handle.inv, next), 0, "none", TRUE)
      /\ UNCHANGED <<dir, saved, inflight>>
  BY DEF NewUpdatePlan, PlanRec
<1>2. handle.inv = dir.side
  BY <1>1 DEF ObjectOk, HandleOk, Completed
<1>3. ObjectOk'
  BY NewUpdatePlanStep
<1>4. next.id = "obj" /\ next.head = NextVNum(IF Exists(dir.side) THEN dir.side.head ELSE V(0, 0))
  <2>1. next = Finalize(UpdateBuilder(dir.side, "obj", spec, 0, Identity, <<>>, stage, "sha512"))
    BY <1>2 DEF NextInventory, UpdateBuilder
  <2> HIDE DEF next
  <2> QED BY <1>1, <2>1, FinalizeOne
<1> HIDE DEF next
<1>5. /\ plan'.base = dir.side /\ plan'.next = next /\ plan'.done = 0 /\ plan'.own = TRUE
  BY <1>1, <1>2 DEF PlanRec
<1>6. PlanOk(plan', dir, inflight)
  BY <1>1, <1>3 DEF ObjectOk
<1>7. plan' # NoPlan /\ next # Nil
  <2>1. NoPlan.own = FALSE
    BY DEF NoPlan
  <2> QED BY <1>1, <1>5, <2>1 DEF Exists
<1>8. Good(dir.side) /\ dir.side.head.num \in Nat /\ (dir.side # Nil => dir.side.head.num > 0)
  BY GoodFacts DEF ObjectOk, DirOk
<1>9. next.head = V(next.head.num, 0) /\ next.head.num = dir.side.head.num + 1
  <2>1. dir.side # Nil => dir.side.head = V(dir.side.head.num, 0)
    <3>1. dir.side # Nil => dir.side.head.num \in 1..dir.side.head.num
      BY <1>8
    <3>2. dir.side # Nil => VersionOk(dir, dir.side.head.num) /\ dir.vinv[dir.side.head.num] = dir.side
      BY <3>1 DEF Tidy, VersionsOk
    <3> QED BY <3>2 DEF VersionOk
  <2>2. \A k \in Nat : NextVNum(V(k, 0)) = V(k + 1, 0) /\ V(k + 1, 0).num = k + 1
    BY DEF NextVNum, V
  <2>3. dir.side = Nil => dir.side.head.num = 0
    BY NilIsGood
  <2>4. next.head = V(dir.side.head.num + 1, 0)
    BY <1>4, <1>8, <2>1, <2>2, <2>3 DEF Exists
  <2> QED BY <1>8, <2>2, <2>4
<1>10. next.head.num <= MaxHead
  BY <1>1, <1>2, <1>8, <1>9, ObjectAssumption
<1>11. dir.side.spec <= next.spec
  <2>1. Good(next)
    BY <1>5, <1>6, <1>7 DEF PlanOk, Follows
  <2> QED BY <1>1, <1>2, <1>8, <2>1, SpecFacts
<1>12. PlanTidy(plan', dir, inflight)
  BY <1>1, <1>4, <1>5, <1>7, <1>9, <1>10, <1>11 DEF PlanTidy
<1>13. OwnTidy(plan', dir, inflight)
  <2>1. NothingBut(dir, Nil)
    BY <1>1, NothingPending DEF Tidy
  <2>2. \A j \in 1..Len(plan'.steps) : NoTrace(plan', plan'.steps[j], dir)
    BY <1>5, <1>6, <1>7, <1>8, <1>10, <2>1, FreshIsUntouched
  <2>3. Untouched(plan', dir)
    BY <1>5, <2>2 DEF Untouched
  <2> QED BY <1>1, <2>3 DEF OwnTidy
<1> QED BY <1>1, <1>12, <1>13 DEF Tidy

-----------------------------------------------------------------------------
(* The actions that change the directory *)

\* A plan that is being applied or reverted is the one that was begun.
LEMMA BegunIs ==
    ASSUME ObjectOk, Tidy, plan # NoPlan, inflight = plan.next, plan.base = dir.side
    PROVE  PlanBegun(plan, dir) /\ Traces(plan, dir) /\ Pending(dir, inflight) = plan.next
<1>1. plan.next # dir.side
  BY PlanFacts DEF ObjectOk
<1>2. Pending(dir, inflight) = plan.next
  BY <1>1 DEF Pending
<1>3. PlanBegun(plan, dir)
  BY <1>2 DEF ObjectOk, Tidy, PlanBegun
<1> QED BY <1>2, <1>3 DEF PlanBegun, PlanTidy

\* update-plan.go, Apply: one step run keeps the directory tidy.
LEMMA TidyApplyStep ==
    ASSUME ObjectOk, Tidy, ApplyStep
    PROVE  Tidy'
<1> DEFINE i == plan.done + 1
           n == Len(plan.steps)
<1>1. /\ plan.call = "apply" /\ plan.done < n /\ dir' = RunStep(dir, plan, plan.steps[i])
      /\ plan' = [plan EXCEPT !.done = i] /\ UNCHANGED <<saved, inflight>>
  BY DEF ApplyStep
<1>2. plan # NoPlan
  BY <1>1, NoPlanOk
<1>3. plan.done \in Nat /\ n \in Nat
  BY <1>2, PlanFacts DEF ObjectOk, PlanShape
<1>4. inflight = plan.next /\ plan.base = dir.side
  BY <1>1, <1>2, <1>3 DEF ObjectOk, CallOk
<1>5. SamePlan(plan, plan', i) /\ plan'.own = plan.own
  BY <1>1, PlanFields DEF ObjectOk, PlanOk
<1>6. i \in 1..n /\ i \in Nat
  BY <1>1, <1>3
<1>7. PlanBegun(plan, dir) /\ Traces(plan, dir)
  BY <1>2, <1>4, BegunIs
<1>8. plan.own => Untouched(plan, dir)
  BY <1>2, <1>4 DEF Tidy, OwnTidy
<1>9. \A j \in 1..i : j \in 1..plan.done \/ j = i
  BY <1>3
<1>10. \A j \in i + 1..n : j \in plan.done + 1..n /\ j \in 1..n /\ j # i
  BY <1>3, <1>6
<1> HIDE DEF i
<1>11. CASE i # n
  <2>1. /\ VersionsOk(dir') /\ NothingBut(dir', plan.next)
        /\ \A q, s : q.base = plan.base /\ q.next = plan.next /\ Trace(q, s, dir) => Trace(q, s, dir')
        /\ Trace(plan, plan.steps[i], dir')
        /\ \A j \in 1..n : j # i /\ NoTrace(plan, plan.steps[j], dir) => NoTrace(plan, plan.steps[j], dir')
    BY <1>1, <1>6, <1>7, <1>11, RunTidy
  <2>2. dir'.side = dir.side
    <3>1. PlanShape(plan.steps, plan.next) /\ IsDir(dir)
      BY <1>7, BegunFacts
    <3>2. plan.steps[i].op # "rootSidecar"
      BY <1>6, <1>11, <3>1 DEF PlanShape
    <3> QED BY <1>1, <3>1, <3>2, RunStepIs
  <2>3. Traces(plan', dir')
    <3> SUFFICES ASSUME NEW j \in 1..i PROVE Trace(plan', plan.steps[j], dir')
      BY <1>5 DEF Traces, SamePlan
    <3>1. Trace(plan, plan.steps[j], dir')
      BY <1>7, <1>9, <2>1 DEF Traces
    <3> QED BY <1>5, <3>1 DEF Trace, SamePlan
  <2>4. plan.own => Untouched(plan', dir')
    <3> SUFFICES ASSUME plan.own, NEW j \in i + 1..n PROVE NoTrace(plan', plan.steps[j], dir')
      BY <1>5 DEF Untouched, SamePlan
    <3>1. NoTrace(plan, plan.steps[j], dir')
      BY <1>8, <1>10, <2>1 DEF Untouched
    <3> QED BY <1>5, <3>1 DEF NoTrace, SamePlan
  <2>5. PlanTidy(plan', dir', inflight)
    BY <1>2, <1>5, <2>3 DEF Tidy, PlanTidy, SamePlan
  <2>6. OwnTidy(plan', dir', inflight)
    BY <1>4, <1>5, <2>4 DEF OwnTidy, SamePlan
  <2>7. PlanTidy(saved, dir', inflight)
    <3>1. saved.base = dir.side /\ saved.next = inflight /\ Traces(saved, dir) => Traces(saved, dir')
      BY <1>4, <2>1 DEF Traces
    <3> QED BY <2>2, <3>1 DEF Tidy, PlanTidy
  <2>8. Pending(dir', inflight) = plan.next
    BY <1>2, <1>4, <2>2, BegunIs DEF Pending
  <2> QED BY <1>1, <2>1, <2>5, <2>6, <2>7, <2>8 DEF Tidy
<1>12. CASE i = n
  <2>1. VersionsOk(dir') /\ NothingBut(dir', Nil)
    <3>1. plan.done = n - 1
      BY <1>3, <1>12 DEF i
    <3> QED BY <1>1, <1>7, <1>12, <3>1, SidecarTidy
  <2>2. dir'.side = plan.next
    <3>1. PlanShape(plan.steps, plan.next) /\ IsDir(dir)
      BY <1>7, BegunFacts
    <3>2. plan.steps[i].op = "rootSidecar"
      BY <1>6, <1>12, <3>1 DEF PlanShape
    <3> QED BY <1>1, <3>1, <3>2, RunStepIs
  <2>3. ASSUME NEW p, PlanOk(p, dir, inflight), p # NoPlan PROVE p.base # dir'.side
    <3>1. plan.next.head.num = dir.side.head.num + 1 /\ dir.side.head.num \in Nat
      BY <1>7, BegunFacts
    <3>2. p.base.head.num <= dir.side.head.num /\ p.base.head.num \in Nat
      BY <2>3, PlanFacts DEF PlanOk
    <3> QED BY <2>2, <3>1, <3>2
  <2>4. PlanTidy(saved, dir', inflight)
    BY <2>3 DEF ObjectOk, Tidy, PlanTidy
  <2>5. plan'.base # dir'.side
    BY <1>2, <1>5, <2>3 DEF ObjectOk, SamePlan
  <2>6. PlanTidy(plan', dir', inflight)
    BY <1>2, <1>5, <2>5 DEF Tidy, PlanTidy, SamePlan
  <2>7. OwnTidy(plan', dir', inflight)
    BY <1>4, <1>5, <2>5 DEF OwnTidy, SamePlan
  <2>8. Pending(dir', inflight) = Nil
    BY <1>4, <2>2 DEF Pending
  <2> QED BY <1>1, <2>1, <2>4, <2>6, <2>7, <2>8 DEF Tidy
<1> QED BY <1>11, <1>12

\* update-plan.go, Revert: one step undone keeps the directory tidy.
LEMMA TidyUndoStep ==
    ASSUME ObjectOk, Tidy, UndoStep
    PROVE  Tidy'
<1> DEFINE i == plan.done
           n == Len(plan.steps)
           k == i - 1
<1>1. /\ plan.call = "revert" /\ i > 0 /\ dir' = RevertStep(dir, plan, plan.steps[i])
      /\ plan' = [plan EXCEPT !.done = k] /\ UNCHANGED <<saved, inflight>>
  BY DEF UndoStep
<1>2. plan # NoPlan
  BY <1>1, NoPlanOk
<1>3. i \in Nat /\ n \in Nat
  BY <1>2, PlanFacts DEF ObjectOk, PlanShape
<1>4. plan.own /\ saved = NoPlan /\ plan.base = dir.side /\ i < n
  BY <1>1, <1>2 DEF ObjectOk, CallOk
<1>5. inflight = plan.next
  BY <1>1, <1>2, <1>4 DEF ObjectOk, PlanOk
<1>6. SamePlan(plan, plan', k) /\ plan'.own = plan.own
  <2>1. plan' = [plan EXCEPT !.done = k] /\ IsPlan(plan)
    BY <1>1 DEF ObjectOk, PlanOk
  <2> HIDE DEF k
  <2> QED BY <2>1, PlanFields
<1>7. i \in 1..n - 1 /\ i \in 1..n /\ k + 1 = i /\ k \in Nat
  BY <1>1, <1>3, <1>4
<1>8. PlanBegun(plan, dir) /\ Traces(plan, dir)
  BY <1>2, <1>4, <1>5, BegunIs
<1>9. Untouched(plan, dir)
  BY <1>2, <1>4 DEF Tidy, OwnTidy
<1>10. plan.next # dir.side /\ PlanShape(plan.steps, plan.next) /\ IsDir(dir) /\ Good(dir.side)
       /\ plan.next.head.num = dir.side.head.num + 1 /\ dir.side.head.num \in Nat
  BY <1>8, BegunFacts
<1>11. /\ dir'.side = dir.side /\ VersionsOk(dir') /\ NothingBut(dir', plan.next)
       /\ \A j \in 1..k : Trace(plan, plan.steps[j], dir')
       /\ \A j \in i..n : NoTrace(plan, plan.steps[j], dir')
  <2>1. CASE plan.steps[i].op = "objectRoot" /\ plan.next.head.num = 1
    <3>1. i = 1
      BY <1>7, <1>10, <2>1 DEF PlanShape
    <3>2. dir' = EmptyDir(MaxHead)
      BY <1>1, <2>1 DEF RevertStep
    <3>3. dir.side = Nil
      BY <1>10, <2>1, GoodFacts
    <3>4. dir'.side = Nil /\ VersionsOk(dir') /\ NothingBut(dir', plan.next) /\ NothingBut(dir', Nil)
      BY <3>2, EmptyDirTidy DEF EmptyDir
    <3>5. plan.next.head.num <= MaxHead
      BY <1>8, BegunFacts, ObjectAssumption
    <3>6. \A j \in 1..n : NoTrace(plan, plan.steps[j], dir')
      <4>1. PlanOk(plan', dir', inflight)
        BY <1>1, UndoStepStep DEF ObjectOk
      <4>2. /\ plan'.base = dir'.side /\ Good(dir'.side) /\ plan'.next.head.num <= MaxHead
            /\ plan'.next # Nil /\ plan'.next = plan.next /\ plan'.steps = plan.steps /\ plan'.base = plan.base
        BY <1>4, <1>6, <1>8, <1>10, <3>3, <3>4, <3>5, BegunFacts DEF SamePlan
      <4>3. plan' # NoPlan
        BY <4>2 DEF NoPlan
      <4>4. \A j \in 1..Len(plan'.steps) : NoTrace(plan', plan'.steps[j], dir')
        BY <3>4, <4>1, <4>2, <4>3, FreshIsUntouched
      <4> QED BY <4>2, <4>4 DEF NoTrace
    <3> QED BY <1>7, <3>1, <3>3, <3>4, <3>6
  <2>2. CASE ~ (plan.steps[i].op = "objectRoot" /\ plan.next.head.num = 1)
    <3>1. dir'.side = dir.side
      BY <1>1, <1>4, <1>10, <2>2, RevertStepIs
    <3> QED BY <1>1, <1>7, <1>8, <1>9, <2>2, <3>1, UndoTidy
  <2> QED BY <2>1, <2>2
<1> HIDE DEF k
<1>12. Traces(plan', dir')
  <2> SUFFICES ASSUME NEW j \in 1..k PROVE Trace(plan', plan.steps[j], dir')
    BY <1>6 DEF Traces, SamePlan
  <2> QED BY <1>6, <1>11 DEF Trace, SamePlan
<1>13. Untouched(plan', dir')
  <2> SUFFICES ASSUME NEW j \in i..n PROVE NoTrace(plan', plan.steps[j], dir')
    BY <1>6, <1>7 DEF Untouched, SamePlan
  <2> QED BY <1>6, <1>11 DEF NoTrace, SamePlan
<1>14. PlanTidy(plan', dir', inflight)
  BY <1>2, <1>6, <1>12 DEF Tidy, PlanTidy, SamePlan
<1>15. OwnTidy(plan', dir', inflight)
  BY <1>5, <1>6, <1>13 DEF OwnTidy, SamePlan
<1>16. Pending(dir', inflight) = plan.next
  BY <1>5, <1>10, <1>11 DEF Pending
<1> QED BY <1>1, <1>4, <1>11, <1>14, <1>15, <1>16, NoPlanTidy DEF Tidy

\* The invariant for the whole directory is inductive.
LEMMA TidyNext == TidyInv /\ [Next]_vars => TidyInv'
<1> SUFFICES ASSUME TidyInv, [Next]_vars, ~ rotted' PROVE ObjectOk' /\ Tidy'
  BY DEF TidyInv
<1>1. ObjectInv
  BY DEF TidyInv, ObjectInv
<1>2. ObjectOk'
  BY <1>1, ObjectNext DEF ObjectInv
<1>3. CASE UNCHANGED vars
  <2>1. Tidy /\ UNCHANGED <<dir, plan, saved, inflight>>
    BY <1>3 DEF TidyInv, vars
  <2> QED BY <1>2, <2>1 DEF Tidy
<1>4. CASE Next /\ rotted
  BY <1>4 DEF Next, NewObject, CloseObject, NewUpdatePlan, SavePlan, LoadPlan, ApplyUpdatePlan, ApplyRefused,
              ResumeDirectly, ApplyStep, StepFails, ApplyReturns, Revert, UndoStep, RevertReturns, Crash, Damage
<1>5. CASE Next /\ ~ rotted
  <2> USE <1>2
  <2>1. ObjectOk /\ Tidy
    BY <1>5 DEF TidyInv
  <2>2. ASSUME NEW cached \in {Nil} \cup acked, NEW skip \in BOOLEAN, NewObject(cached, skip)
        PROVE  Tidy'
    BY <2>1, <2>2, TidyHandles
  <2>3. CASE CloseObject \/ SavePlan \/ Crash
    BY <2>1, <2>3, TidyHandles
  <2>4. ASSUME NEW stage \in Stages, NEW spec \in Specs, NewUpdatePlan(stage, spec)
        PROVE  Tidy'
    BY <2>1, <2>4, TidyNewPlan
  <2>5. CASE LoadPlan
    BY <2>1, <2>5, TidyLoad
  <2>6. CASE ApplyUpdatePlan
    BY <2>1, <2>6, TidyBegin
  <2>7. CASE ApplyRefused \/ ApplyReturns
    BY <2>1, <2>7, TidyReturns
  <2>8. CASE ResumeDirectly \/ StepFails \/ Revert
    BY <2>1, <2>8, TidyCalls
  <2>9. CASE ApplyStep
    BY <2>1, <2>9, TidyApplyStep
  <2>10. CASE UndoStep
    BY <2>1, <2>10, TidyUndoStep
  <2>11. CASE RevertReturns
    BY <2>1, <2>11, TidyReverted
  <2>12. CASE Damage
    BY <2>12 DEF Damage
  <2> QED BY <1>2, <1>5, <2>2, <2>3, <2>4, <2>5, <2>6, <2>7, <2>8, <2>9, <2>10, <2>11, <2>12 DEF Next
<1> QED BY <1>3, <1>4, <1>5


-----------------------------------------------------------------------------
(* ValidateObject on a directory with nothing pending *)

\* The versions of an inventory without padding are those up to its head.
LEMMA LineageIsThere ==
    ASSUME NEW i, Good(i), i # Nil, NEW k \in Nat, i.head = V(k, 0)
    PROVE  \A n \in 1..k : V(n, 0) \in DOMAIN i.versions
<1> DEFINE D == DOMAIN i.versions
           c == Cardinality(D)
           P == {v.padding : v \in D}
<1>1. D \subseteq VNum /\ IsFiniteSet(D) /\ c \in Nat /\ ValidInventory(i) /\ IsInventory(i)
  BY FS_CardinalityType DEF Good, IsInventory
<1>2. VersionNameErrors(i) = {}
  BY <1>1 DEF ValidInventory, ValidateInventory
<1>3. VNumsErr(D) # "empty" /\ VNumsErr(D) # "missing" /\ VNumsErr(D) # "padding"
  BY <1>2 DEF VersionNameErrors, Err
<1>4. D # {}
  BY <1>3 DEF VNumsErr
<1>5. {v.num : v \in D} = 1..c
  BY <1>3, <1>4 DEF VNumsErr
<1>6. ~ Cardinality(P) > 1
  BY <1>3, <1>4, <1>5 DEF VNumsErr
<1>7. i.head \in D /\ i.head.num > 0 /\ \A v \in D : v.num \in 1..i.head.num
  BY <1>1, HeadIsLast
<1>8. V(k, 0).num = k /\ V(k, 0).padding = 0
  BY DEF V
<1>9. P = {0}
  <2> DEFINE f == [v \in D |-> v.padding]
  <2>1. Members(f) = P /\ DOMAIN f = D /\ f \in [DOMAIN f -> Members(f)]
    BY DEF Members
  <2> HIDE DEF f, P
  <2>2. IsFiniteSet(P)
    BY <1>1, <2>1, FiniteImage
  <2>3. 0 \in P
    BY <1>7, <1>8 DEF P
  <2>4. Cardinality(P) \in Nat /\ Cardinality(P) # 0
    BY <2>2, <2>3, FS_CardinalityType, FS_EmptySet
  <2>5. Cardinality(P) = 1
    BY <1>6, <2>4
  <2>6. PICK x : P = {x}
    BY <2>2, <2>5, FS_Singleton
  <2> QED BY <2>3, <2>6
<1> HIDE DEF D, c, P
<1>10. c = k
  <2>1. \A n \in 1..c : n <= k
    BY <1>1, <1>5, <1>7, <1>8
  <2>2. k \in 1..c
    BY <1>5, <1>7, <1>8
  <2> QED BY <1>1, <2>1, <2>2
<1>11. ASSUME NEW n \in 1..k PROVE V(n, 0) \in D
  <2>1. PICK v \in D : v.num = n
    BY <1>5, <1>10
  <2>2. v.padding = 0 /\ v \in VNum
    BY <1>1, <1>9 DEF P
  <2>3. v = V(n, 0)
    BY <2>1, <2>2 DEF V, VNum
  <2> QED BY <2>3
<1> QED BY <1>11 DEF D

\* The digests of a version state are digests of the manifest.
LEMMA StateDigests ==
    ASSUME NEW i, Good(i), NEW v \in DOMAIN i.versions, NEW d \in DOMAIN i.versions[v]
    PROVE  d \in DOMAIN i.manifest
<1>1. i # Nil
  BY NilIsGood
<1>2. StateErrors(i) = {}
  BY <1>1 DEF Good, ValidInventory, ValidateInventory
<1> DEFINE E(w) == Err("E050", \E x \in DOMAIN i.versions[w] :
                                  x \notin DOMAIN i.manifest \/ i.manifest[x] = <<>>)
           M(w) == MapErrors(i.versions[w], "E050", "E052", "E095")
<1>3. StateErrors(i) = UNION {M(w) \cup E(w) : w \in DOMAIN i.versions}
  BY DEF StateErrors
<1> HIDE DEF M, E
<1>4. E(v) = {}
  BY <1>2, <1>3
<1> QED BY <1>4 DEF E, Err

\* logicalState.forwardMatch: a version that two inventories of the object share.
LEMMA ForwardMatches ==
    ASSUME NEW i, Good(i), NEW s, Good(s), FilesWithin(i, s), NEW v \in DOMAIN i.versions,
           v \in DOMAIN s.versions, i.versions[v] = s.versions[v]
    PROVE  ForwardMatch(i, s, v)
<1> DEFINE m == i.versions[v]
<1>1. i # Nil /\ s # Nil
  BY NilIsGood
<1>2. IsDigestMap(i.manifest) /\ Valid(i.manifest) /\ IsDigestMap(s.manifest) /\ Valid(s.manifest)
  BY <1>1, ValidInventoryMaps DEF Good, IsInventory
<1>3. ASSUME NEW p \in PathSet(m), NEW x \in Members(i.manifest[DigestFor(m, p)])
      PROVE  x \in Members(s.manifest[DigestFor(m, p)])
  <2> DEFINE D == DigestFor(m, p)
             C == DigestFor(s.manifest, x)
  <2>1. D \in DOMAIN m
    BY PathSetIs
  <2>2. D \in DOMAIN i.manifest /\ D \in DOMAIN s.manifest
    BY <2>1, StateDigests
  <2>3. DigestFor(i.manifest, x) = D /\ x \in PathSet(i.manifest)
    BY <1>2, <1>3, <2>2, ValidDigestFor
  <2>4. x \in PathSet(s.manifest) /\ Sums(s.manifest)[x] = Sums(i.manifest)[x]
    BY <2>3 DEF FilesWithin
  <2>5. C \in DOMAIN s.manifest /\ x \in Members(s.manifest[C])
    BY <2>4, PathSetIs
  <2>6. C[1] = D[1]
    BY <2>3, <2>4, SumsIs
  <2>7. NormalizeDigest(C) = NormalizeDigest(D)
    BY <2>6 DEF NormalizeDigest
  <2>8. C = D
    BY <1>2, <2>2, <2>5, <2>7, ValidMap
  <2> QED BY <2>5, <2>8
<1> QED BY <1>3, ToSetIsMembers DEF ForwardMatch

\* A directory of an object that exists, and in which nothing is pending.
Settled(d) == DirOk(d, Nil) /\ VersionsOk(d) /\ NothingBut(d, Nil) /\ d.side # Nil

\* What a settled directory has.
LEMMA SettledFacts ==
    ASSUME NEW d, Settled(d)
    PROVE  /\ d.inv = d.side /\ Good(d.side) /\ d.side # Nil /\ HasContentOf(d, d.side)
           /\ d.side.head.num \in Nat /\ d.side.head.num > 0 /\ d.side.head.num <= MaxHead
           /\ d.strays = {} /\ d.exts = {}
           /\ DOMAIN d.decls = {d.side.spec} /\ d.decls[d.side.spec] = TRUE
           /\ DOMAIN d.content = PathSet(d.side.manifest)
           /\ DOMAIN d.vinv = 1..MaxHead
           /\ \A m \in 1..MaxHead : m > d.side.head.num => d.vinv[m] = Nil /\ d.vside[m] = Nil
           /\ \A m \in 1..d.side.head.num : VersionOk(d, m) /\ m \in 1..MaxHead /\ d.vinv[m] # Nil
           /\ d.vinv[d.side.head.num] = d.side
<1>1. d.inv = d.side /\ Good(d.side) /\ d.side # Nil /\ HasContentOf(d, d.side)
  BY DEF Settled, DirOk
<1>2. d.side.head.num \in Nat /\ d.side.head.num > 0 /\ d.side.head.num <= MaxHead
  BY <1>1, GoodFacts DEF Settled, VersionsOk
<1>3. d.strays = {} /\ d.exts = {}
  BY DEF Settled, NothingBut
<1>4. DOMAIN d.decls = {d.side.spec} /\ d.decls[d.side.spec] = TRUE
  <2>1. d.side.spec # 0
    BY <1>1, SpecFacts
  <2>2. d.decls = [s \in DOMAIN d.decls |-> TRUE] /\ DOMAIN d.decls = {d.side.spec} \ {0}
    BY DEF Settled, NothingBut, DeclarationsOf
  <2>3. DOMAIN d.decls = {d.side.spec}
    BY <2>1, <2>2
  <2> QED BY <2>2, <2>3
<1>5. DOMAIN d.content = PathSet(d.side.manifest)
  <2>1. NewContent(Nil) = {}
    BY NilIsGood DEF NewContent
  <2>2. DOMAIN d.content \subseteq PathSet(d.side.manifest)
    BY <2>1 DEF Settled, NothingBut, ContentOf
  <2>3. PathSet(d.side.manifest) \subseteq DOMAIN d.content
    BY <1>1 DEF HasContentOf
  <2> QED BY <2>2, <2>3
<1>6. InventoriesOf(d.vinv, d.side, Nil) /\ InventoriesOf(d.vside, d.side, Nil)
  BY DEF Settled, NothingBut
<1>7. DOMAIN d.vinv = 1..MaxHead
  BY <1>6 DEF InventoriesOf, Total
<1>8. \A m \in 1..MaxHead : m > d.side.head.num => d.vinv[m] = Nil /\ d.vside[m] = Nil
  BY <1>6 DEF InventoriesOf
<1>9. ASSUME NEW m \in 1..d.side.head.num PROVE VersionOk(d, m) /\ m \in 1..MaxHead /\ d.vinv[m] # Nil
  <2>1. VersionOk(d, m) /\ m \in 1..MaxHead
    BY <1>2, ObjectAssumption DEF Settled, VersionsOk
  <2>2. d.vinv[m].head = V(m, 0) /\ V(m, 0).num = m
    BY <2>1 DEF VersionOk, V
  <2> QED BY <2>1, <2>2, NilIsGood
<1>10. d.vinv[d.side.head.num] = d.side
  BY DEF Settled, VersionsOk
<1> QED BY <1>1, <1>2, <1>3, <1>4, <1>5, <1>7, <1>8, <1>9, <1>10

\* The numbers 1 to n as version numbers.
Numbered(n) == {V(m, 0) : m \in 1 .. n}

\* VNums.Valid and VNums.Head on them.
LEMMA NumberedIs ==
    ASSUME NEW n \in Nat, n > 0
    PROVE  VNumsErr(Numbered(n)) = "ok" /\ HeadOf(Numbered(n)).num = n
<1> DEFINE N == Numbered(n)
<1>1. \A m : V(m, 0).num = m /\ V(m, 0).padding = 0
  BY DEF V
<1>2. \A v \in N : v.num \in 1..n /\ v.padding = 0 /\ v = V(v.num, 0)
  BY <1>1 DEF Numbered
<1>3. \A m \in 1..n : V(m, 0) \in N
  BY DEF Numbered
<1>4. n \in 1..n /\ 1 \in 1..n
  OBVIOUS
<1>5. Cardinality(N) = n
  <2> DEFINE f == [m \in 1..n |-> V(m, 0)]
  <2>1. f \in Bijection(1..n, N)
    BY <1>1 DEF Bijection, Injection, Surjection, IsInjective, Numbered
  <2>2. ExistsBijection(1..n, N)
    BY <2>1 DEF ExistsBijection
  <2>3. IsFiniteSet(1..n) /\ Cardinality(1..n) = n
    BY FS_Interval
  <2> HIDE DEF N
  <2> QED BY <2>2, <2>3, FS_Bijection
<1> HIDE DEF N
<1>6. {v.num : v \in N} = 1..n
  BY <1>1, <1>2, <1>3
<1>7. {v.padding : v \in N} = {0}
  BY <1>1, <1>2, <1>3, <1>4
<1>8. N # {}
  BY <1>3, <1>4
<1>9. HeadOf(N) = V(n, 0)
  <2>1. HeadOf(N) = CHOOSE v \in N : \A w \in N : w.num <= v.num
    BY <1>8 DEF HeadOf
  <2>2. V(n, 0) \in N /\ \A w \in N : w.num <= V(n, 0).num
    BY <1>1, <1>2, <1>3, <1>4
  <2>3. \A v \in N : (\A w \in N : w.num <= v.num) => v = V(n, 0)
    <3> SUFFICES ASSUME NEW v \in N, \A w \in N : w.num <= v.num PROVE v.num = n
      BY <1>2
    <3>1. n <= v.num
      BY <1>1, <2>2
    <3> QED BY <1>2, <3>1
  <2> QED BY <2>1, <2>2, <2>3
<1>10. ValidVNum(HeadOf(N))
  BY <1>1, <1>9 DEF ValidVNum, PaddingOverflow
<1>11. Cardinality({0}) = 1
  BY FS_Singleton
<1> QED
  <2> DEFINE nums == {v.num : v \in N}
             pads == {v.padding : v \in N}
  <2>1. nums = 1..n /\ pads = {0}
    BY <1>6, <1>7
  <2>2. VNumsErr(N) = IF N = {} THEN "empty" ELSE IF nums # 1..Cardinality(N) THEN "missing"
                      ELSE IF Cardinality(pads) > 1 THEN "padding"
                      ELSE IF ~ValidVNum(HeadOf(N)) THEN "invalid" ELSE "ok"
    BY DEF VNumsErr
  <2> HIDE DEF nums, pads
  <2>3. nums = 1..Cardinality(N)
    BY <1>5, <2>1
  <2>4. Cardinality(pads) = 1
    BY <1>11, <2>1
  <2>5. ~ Cardinality(pads) > 1
    BY <2>4
  <2>6. VNumsErr(N) = "ok"
    BY <1>8, <1>10, <2>2, <2>3, <2>5, Zenon
  <2> QED BY <1>1, <1>9, <2>6 DEF N

\* The version directories are those of the versions.
LEMMA VersionDirsAre ==
    ASSUME NEW d, Settled(d)
    PROVE  VersionDirs(d) = Numbered(d.side.head.num)
<1> DEFINE n == d.side.head.num
           there(m) == \/ d.vinv[m] # Nil \/ d.vside[m] # Nil \/ m \in d.strays \/ ContentIn(d, m) # {}
<1>1. /\ n \in Nat /\ n > 0 /\ n <= MaxHead /\ d.strays = {} /\ DOMAIN d.vinv = 1..MaxHead
      /\ DOMAIN d.content = PathSet(d.side.manifest) /\ Good(d.side)
      /\ \A m \in 1..MaxHead : m > n => d.vinv[m] = Nil /\ d.vside[m] = Nil
      /\ \A m \in 1..n : m \in 1..MaxHead /\ d.vinv[m] # Nil
  BY SettledFacts
<1>2. ASSUME NEW m \in 1..MaxHead, m > n PROVE ~ there(m)
  <2>1. ContentIn(d, m) = {}
    <3>1. m \in Nat
      BY <1>2
    <3>2. \A z \in PathSet(d.side.manifest) : ~ InVersionDir(z, m)
      BY <1>1, <1>2, <3>1, NewContentApart
    <3> QED BY <1>1, <3>2 DEF ContentIn
  <2> QED BY <1>1, <1>2, <2>1
<1>3. \A m \in 1..n : there(m)
  BY <1>1
<1>4. VersionDirs(d) = {V(k, 0) : k \in {m \in DOMAIN d.vinv : there(m)}}
  BY DEF VersionDirs
<1> HIDE DEF there
<1>5. {m \in DOMAIN d.vinv : there(m)} = 1..n
  <2>1. \A m \in 1..MaxHead : m <= n => m \in 1..n
    BY <1>1, ObjectAssumption
  <2>2. \A m \in 1..MaxHead : m > n \/ m <= n
    BY <1>1, ObjectAssumption
  <2> QED BY <1>1, <1>2, <1>3, <2>1, <2>2
<1> QED BY <1>4, <1>5 DEF Numbered

\* ValidateObjectRoot reports nothing.
LEMMA RootIsFine ==
    ASSUME NEW d, Settled(d)
    PROVE  RootErrors(d, ParseObjectDir(d)) = {} /\ HeadOf(ParseObjectDir(d).versionDirs).num = d.side.head.num
<1> DEFINE st == ParseObjectDir(d)
           sp == d.side.spec
<1>1. /\ d.inv = d.side /\ Good(d.side) /\ d.side # Nil /\ d.strays = {} /\ d.exts = {}
      /\ DOMAIN d.decls = {sp} /\ d.decls[sp] = TRUE /\ d.side.head.num \in Nat /\ d.side.head.num > 0
  BY SettledFacts
<1>2. sp \in Nat /\ d.side # Garbled
  BY <1>1, SpecFacts, GoodFacts
<1>3. SE!Min({sp}) = sp
  BY <1>2 DEF SE!Min
<1>4. Cardinality({sp}) = 1
  BY FS_Singleton
<1>5. /\ st.hasNamaste = (DOMAIN d.decls # {}) /\ st.versionDirs = VersionDirs(d)
      /\ st.spec = (IF DOMAIN d.decls = {} THEN 0 ELSE SE!Min(DOMAIN d.decls))
      /\ st.hasInventory = (d.inv # Nil) /\ st.hasSidecar = (d.side # Nil)
      /\ st.invalid = (0 \in d.strays \/ Cardinality(DOMAIN d.decls) > 1)
  BY DEF ParseObjectDir
<1> HIDE DEF st
<1>6. st.hasNamaste /\ st.spec = sp /\ st.hasInventory /\ st.hasSidecar
  BY <1>1, <1>3, <1>5
<1>7. ~ st.invalid
  <2>1. ~ (0 \in d.strays \/ Cardinality(DOMAIN d.decls) > 1)
    BY <1>1, <1>4
  <2> QED BY <1>5, <2>1, Zenon
<1>8. VNumsErr(st.versionDirs) = "ok" /\ HeadOf(st.versionDirs).num = d.side.head.num
  BY <1>1, <1>5, VersionDirsAre, NumberedIs
<1>9. RootStateErrors(st) = {}
  BY <1>6, <1>7, <1>8 DEF RootStateErrors, Err
<1>10. ExtensionErrors(d) = {}
  BY <1>1 DEF ExtensionErrors, Err
<1>11. RootErrors(d, st) = {}
  BY <1>1, <1>2, <1>6, <1>9, <1>10 DEF RootErrors, Unreadable, SidecarOk, Err
<1> QED BY <1>8, <1>11 DEF st


\* The files in the directories of the versions up to n.
FilesUpTo(d, n) == {p \in DOMAIN d.content : \E m \in 1 .. n : InVersionDir(p, m)}

\* What the validation has gathered after version n, when it has found nothing.
Gathered(d, n) ==
    [errs |-> {}, exists |-> FilesUpTo(d, n), prev |-> IF n = 0 THEN Nil ELSE d.vinv[n],
     known |-> [p \in PathSet(d.inv.manifest) |-> DigestFor(d.inv.manifest, p)[1]]]

\* The fields of that record.
LEMMA GatheredFields ==
    ASSUME NEW d, NEW n
    PROVE  /\ Gathered(d, n).errs = {} /\ Gathered(d, n).exists = FilesUpTo(d, n)
           /\ Gathered(d, n).prev = IF n = 0 THEN Nil ELSE d.vinv[n]
           /\ Gathered(d, n).known = Sums(d.inv.manifest)
BY DEF Gathered, Sums

\* compareVersionInventory finds no difference in a version that the object had before.
LEMMA ComparesWell ==
    ASSUME NEW d, Settled(d), NEW k \in 1..d.side.head.num, d.vinv[k] # d.side
    PROVE  CompareErrors(d.vinv[k], d.side) = {}
<1> DEFINE i == d.vinv[k]
           s == d.side
           n == s.head.num
<1>1. Good(s) /\ s # Nil /\ n \in Nat /\ n > 0 /\ d.vinv[n] = s /\ VersionOk(d, k) /\ i # Nil
  BY SettledFacts
<1>2. /\ Good(i) /\ i.head = V(k, 0) /\ i.id = "obj" /\ FilesWithin(i, s)
      /\ \A v \in DOMAIN i.versions : v \in DOMAIN s.versions /\ s.versions[v] = i.versions[v]
  BY <1>1 DEF VersionOk
<1>3. s.head = V(n, 0) /\ s.id = "obj"
  <2>1. n \in 1..n
    BY <1>1
  <2>2. VersionOk(d, n)
    BY <2>1, SettledFacts
  <2> QED BY <1>1, <2>2 DEF VersionOk
<1>4. i.head # s.head
  <2>1. V(k, 0).num = k /\ V(n, 0).num = n
    BY DEF V
  <2> QED BY <1>1, <1>2, <1>3, <2>1
<1> DEFINE L == SE!ToSet(Lineage(i.head))
<1>5. L \subseteq DOMAIN i.versions
  <2>1. k \in Nat
    BY <1>1
  <2>2. V(k, 0).num = k /\ V(k, 0).padding = 0
    BY DEF V
  <2>3. Lineage(i.head) = [m \in 1..k |-> V(m, 0)]
    BY <1>2, <2>2 DEF Lineage
  <2>4. Members([m \in 1..k |-> V(m, 0)]) = {V(m, 0) : m \in 1..k}
    BY DEF Members
  <2>5. L = {V(m, 0) : m \in 1..k}
    BY <2>3, <2>4, ToSetIsMembers
  <2>6. \A m \in 1..k : V(m, 0) \in DOMAIN i.versions
    BY <1>1, <1>2, <2>1, LineageIsThere
  <2> HIDE DEF L, i
  <2> QED BY <2>5, <2>6
<1>6. \A v \in L : ForwardMatch(i, s, v)
  <2> SUFFICES ASSUME NEW v \in L PROVE ForwardMatch(i, s, v)
    OBVIOUS
  <2>1. v \in DOMAIN i.versions /\ v \in DOMAIN s.versions /\ i.versions[v] = s.versions[v]
    BY <1>2, <1>5
  <2> HIDE DEF i, s
  <2> QED BY <1>1, <1>2, <2>1, ForwardMatches
<1>7. L \subseteq DOMAIN s.versions
  BY <1>2, <1>5
<1> HIDE DEF i, s
<1>8. CompareErrors(i, s) = Err("E064", i.head = s.head) \cup Err("E037", i.id # s.id)
                            \cup Err("E046", ~ L \subseteq DOMAIN s.versions)
                            \cup Err("E066", \E v \in L \cap DOMAIN s.versions : ~ForwardMatch(i, s, v))
  BY DEF CompareErrors
<1> HIDE DEF L
<1>9. ~ \E v \in L \cap DOMAIN s.versions : ~ForwardMatch(i, s, v)
  BY <1>6
<1>10. CompareErrors(i, s) = {}
  BY <1>2, <1>3, <1>4, <1>7, <1>8, <1>9 DEF Err
<1> QED BY <1>10 DEF i, s

\* One turn of the loop over the versions finds nothing.
LEMMA TurnIsFine ==
    ASSUME NEW d, Settled(d), NEW k \in 1..d.side.head.num
    PROVE  ValidateVersion(d, Gathered(d, k - 1), k) = Gathered(d, k)
<1> DEFINE i == d.vinv[k]
           s == d.side
           n == s.head.num
           vld == Gathered(d, k - 1)
           S == [p \in PathSet(s.manifest) |-> DigestFor(s.manifest, p)[1]]
           X == FilesUpTo(d, k)
           seen == [errs |-> {}, exists |-> X, prev |-> vld.prev, known |-> S]
<1>1. /\ d.inv = s /\ Good(s) /\ n \in Nat /\ d.strays = {} /\ VersionOk(d, k) /\ i # Nil
      /\ DOMAIN d.content = PathSet(s.manifest)
  BY SettledFacts
<1>2. /\ Good(i) /\ i.head = V(k, 0) /\ FilesWithin(i, s) /\ d.vside[k] = i
      /\ \A z \in PathSet(s.manifest), j \in 1..k : InVersionDir(z, j) => z \in PathSet(i.manifest)
      /\ k > 1 => d.vinv[k - 1].spec <= i.spec
  BY <1>1 DEF VersionOk
<1>3. k \in Nat /\ k - 1 \in Nat /\ (k - 1 = 0 <=> ~ k > 1)
  BY <1>1
<1>4. vld = [errs |-> {}, exists |-> FilesUpTo(d, k - 1), prev |-> vld.prev, known |-> S]
      /\ vld.prev = (IF k - 1 = 0 THEN Nil ELSE d.vinv[k - 1])
  BY <1>1 DEF Gathered
<1>5. Gathered(d, k) = [errs |-> {}, exists |-> X, prev |-> i, known |-> S]
  <2>1. k # 0
    BY <1>1
  <2>2. (IF k = 0 THEN Nil ELSE d.vinv[k]) = i
    BY <2>1
  <2>3. [p \in PathSet(d.inv.manifest) |-> DigestFor(d.inv.manifest, p)[1]] = S
    BY <1>1
  <2> HIDE DEF i, S, X
  <2>4. Gathered(d, k) = [errs |-> {}, exists |-> FilesUpTo(d, k), prev |-> i, known |-> S]
    BY <2>2, <2>3 DEF Gathered
  <2> QED BY <2>4 DEF X
<1>6. FilesUpTo(d, k - 1) \cup ContentIn(d, k) = X
  <2>1. \A m \in 1..k : m \in 1..k - 1 \/ m = k
    BY <1>3
  <2>2. 1..k - 1 \subseteq 1..k /\ k \in 1..k
    BY <1>3
  <2> QED BY <2>1, <2>2 DEF FilesUpTo, ContentIn
<1>7. X \subseteq PathSet(s.manifest) /\ X \subseteq PathSet(i.manifest)
  BY <1>1, <1>2 DEF FilesUpTo
<1>8. DOMAIN S = PathSet(s.manifest) /\ PathSet(i.manifest) \subseteq DOMAIN S
      /\ \A p \in PathSet(i.manifest) : S[p] = DigestFor(i.manifest, p)[1]
  BY <1>2, SumsIs DEF FilesWithin
<1>9. ~ Unreadable(i)
  BY <1>2, GoodFacts DEF Unreadable
<1>10. ~ ExtraFiles(d, k)
  BY <1>1 DEF ExtraFiles
<1>11. vld.prev # Nil => ~ i.spec < vld.prev.spec
  <2>1. k > 1 => d.vinv[k - 1].spec \in Nat
    <3>1. k > 1 => k - 1 \in 1..n
      BY <1>1, <1>3
    <3>2. k > 1 => Good(d.vinv[k - 1])
      BY <3>1, SettledFacts DEF VersionOk
    <3> QED BY <3>2, SpecFacts
  <2>2. i.spec \in Nat
    BY <1>2, SpecFacts
  <2>3. vld.prev # Nil => k > 1 /\ vld.prev = d.vinv[k - 1]
    BY <1>3, <1>4
  <2> QED BY <1>2, <2>1, <2>2, <2>3
<1> HIDE DEF S, X, vld
<1>12. seen.errs = {} /\ seen.exists = X /\ seen.prev = vld.prev /\ seen.known = S
  OBVIOUS
<1>13. ~ AddInventoryPanics(seen, i)
  BY <1>7, <1>8, <1>12 DEF AddInventoryPanics
<1>14. ~ DigestsDisagree(seen, i)
  BY <1>8, <1>12 DEF DigestsDisagree
<1>15. AddedDigests(seen, i) = S
  <2>1. DOMAIN S \cup PathSet(i.manifest) = DOMAIN S
    BY <1>8
  <2>2. AddedDigests(seen, i) = [p \in DOMAIN S \cup PathSet(i.manifest) |->
                                    IF p \in DOMAIN S THEN S[p] ELSE DigestFor(i.manifest, p)[1]]
    BY <1>12 DEF AddedDigests
  <2>3. S = [p \in DOMAIN S |-> S[p]]
    BY DEF S
  <2> QED BY <2>1, <2>2, <2>3
<1>16. (i # s) => CompareErrors(i, s) = {}
  BY ComparesWell
<1> HIDE DEF i, s, seen
<1>17. VersionInventoryErrors(d, seen, k) = {}
  <2>1. VersionInventoryErrors(d, seen, k) =
              Err("E060", ~SidecarOk(i, d.vside[k]))
         \cup Err("E103", Exists(seen.prev) /\ i.spec < seen.prev.spec)
         \cup Err("E040", i.head # V(k, 0))
         \cup (IF i # s THEN CompareErrors(i, s) ELSE {})
         \cup Err("E066", i # s /\ DigestsDisagree(seen, i))
         \cup Err("E023", ~ seen.exists \subseteq PathSet(i.manifest))
    BY <1>1 DEF VersionInventoryErrors, i
  <2> QED BY <1>2, <1>7, <1>11, <1>12, <1>14, <1>16, <2>1 DEF Err, SidecarOk, Exists
<1> DEFINE found == [errs |-> {}, exists |-> X, prev |-> i, known |-> S]
<1>18. [vld EXCEPT !.exists = @ \cup ContentIn(d, k), !.errs = @ \cup Err("E015", ExtraFiles(d, k)),
                   !.prev = i] = found
  <2>1. Err("E015", ExtraFiles(d, k)) = {}
    BY <1>10 DEF Err
  <2> DEFINE a == FilesUpTo(d, k - 1)
             b == ContentIn(d, k)
             q == vld.prev
             e == Err("E015", ExtraFiles(d, k))
  <2>2. vld = [errs |-> {}, exists |-> a, prev |-> q, known |-> S] /\ a \cup b = X /\ e = {}
    BY <1>4, <1>6, <2>1
  <2> HIDE DEF a, b, q, e
  <2>3. [vld EXCEPT !.exists = @ \cup b, !.errs = @ \cup e, !.prev = i] = found
    <3> DEFINE h == {} \cup e
               w == a \cup b
               one == [vld EXCEPT !.exists = @ \cup b]
               two == [one EXCEPT !.errs = @ \cup e]
    <3>1. h = {} /\ w = X
      BY <2>2
    <3>2. one = [errs |-> {}, exists |-> w, prev |-> q, known |-> S]
      BY <2>2
    <3>3. two = [one EXCEPT !.errs = @ \cup e]
      OBVIOUS
    <3>4. [two EXCEPT !.prev = i] = [vld EXCEPT !.exists = @ \cup b, !.errs = @ \cup e, !.prev = i]
      BY DEF one, two
    <3> HIDE DEF one, two, w
    <3>5. two = [errs |-> h, exists |-> w, prev |-> q, known |-> S]
      BY <3>2, <3>3
    <3> HIDE DEF h
    <3>6. [two EXCEPT !.prev = i] = [errs |-> h, exists |-> w, prev |-> i, known |-> S]
      BY <3>5
    <3> QED BY <3>1, <3>4, <3>6
  <2> QED BY <2>3 DEF b, e
<1>19. [found EXCEPT !.prev = vld.prev] = seen
  BY DEF seen
<1> HIDE DEF found
<1>20. ValidateVersion(d, vld, k) =
           [found EXCEPT !.errs = @ \cup VersionInventoryErrors(d, seen, k),
                         !.known = IF i = s THEN @ ELSE AddedDigests(seen, i)]
  <2>1. ValidateVersion(d, vld, k) =
          IF Unreadable(i) THEN [vld EXCEPT !.errs = @ \cup {"unreadable"}]
          ELSE IF i = Nil THEN found
          ELSE IF i # s /\ AddInventoryPanics(seen, i) THEN [found EXCEPT !.errs = @ \cup {"panic"}]
          ELSE [found EXCEPT !.errs = @ \cup VersionInventoryErrors(d, seen, k),
                             !.known = IF i = s THEN @ ELSE AddedDigests(seen, i)]
    BY <1>1, <1>18, <1>19 DEF ValidateVersion, i
  <2> QED BY <1>1, <1>9, <1>13, <2>1
<1>21. ValidateVersion(d, vld, k) = found
  <2> DEFINE E == VersionInventoryErrors(d, seen, k)
             A == AddedDigests(seen, i)
  <2>1. ValidateVersion(d, vld, k) = [found EXCEPT !.errs = @ \cup E, !.known = IF i = s THEN @ ELSE A]
        /\ E = {} /\ A = S
    BY <1>15, <1>17, <1>20
  <2> HIDE DEF E, A
  <2> QED BY <2>1 DEF found
<1> QED BY <1>5, <1>21 DEF found, vld

\* The loop over the versions finds nothing.
LEMMA VersionsAreFine ==
    ASSUME NEW d, Settled(d), NEW n \in 0..d.side.head.num
    PROVE  ValidateVersions(d, n) = Gathered(d, n)
<1> DEFINE start == [errs |-> {}, exists |-> {}, prev |-> Nil,
                     known |-> [p \in PathSet(d.inv.manifest) |-> DigestFor(d.inv.manifest, p)[1]]]
           Turn(f, k) == IF k = 0 THEN start ELSE ValidateVersion(d, f[k - 1], k)
           F == CHOOSE f : f = [k \in 0..n |-> Turn(f, k)]
           g == [k \in 0..n |-> Gathered(d, k)]
<1>1. ValidateVersions(d, n) = F[n]
  BY DEF ValidateVersions
<1>2. d.side.head.num \in Nat /\ n \in Nat
  <2>1. d.side.head.num \in Nat
    BY SettledFacts
  <2> QED BY <2>1
<1>3. Gathered(d, 0) = start
  <2>1. FilesUpTo(d, 0) = {}
    BY DEF FilesUpTo
  <2> QED BY <2>1 DEF Gathered
<1>4. \A k \in 1..n : k \in 1..d.side.head.num /\ k - 1 \in 0..n
  BY <1>2
<1>5. \A k \in 1..n : ValidateVersion(d, Gathered(d, k - 1), k) = Gathered(d, k)
  BY <1>4, TurnIsFine
<1> HIDE DEF start
<1>6. \A k \in 0..n : k = 0 \/ k \in 1..n
  BY <1>2
<1>7. ASSUME NEW k \in 0..n PROVE Turn(g, k) = Gathered(d, k)
  <2>1. CASE k = 0
    BY <1>3, <2>1
  <2>2. CASE k # 0
    <3>1. k \in 1..n /\ k - 1 \in 0..n
      BY <1>4, <1>6, <2>2
    <3>2. g[k - 1] = Gathered(d, k - 1)
      BY <3>1
    <3> QED BY <1>5, <2>2, <3>1, <3>2
  <2> QED BY <2>1, <2>2
<1> HIDE DEF Turn
<1>8. g = [k \in 0..n |-> Turn(g, k)]
  BY <1>7
<1>9. F = [k \in 0..n |-> Turn(F, k)]
  <2> DEFINE G(f) == [k \in 0..n |-> Turn(f, k)]
  <2>1. g = G(g) /\ F = CHOOSE f : f = G(f)
    BY <1>8
  <2> HIDE DEF G, g, F
  <2>2. F = G(F)
    BY <2>1
  <2> QED BY <2>2 DEF G
<1> HIDE DEF F
<1> DEFINE T == {k \in 0..n : F[k] = Gathered(d, k)}
<1>10. 0 \in T
  <2>1. 0 \in 0..n
    BY <1>2
  <2>2. F[0] = Turn(F, 0)
    BY <1>9, <2>1
  <2> QED BY <1>3, <2>1, <2>2 DEF Turn
<1>11. ASSUME NEW k \in 1..n, k - 1 \in T PROVE k \in T
  <2>1. k \in 0..n /\ k # 0
    BY <1>2
  <2>2. F[k] = Turn(F, k)
    BY <1>9, <2>1
  <2>3. Turn(F, k) = ValidateVersion(d, F[k - 1], k) /\ F[k - 1] = Gathered(d, k - 1)
    BY <1>11, <2>1 DEF Turn
  <2> QED BY <1>5, <1>11, <2>1, <2>2, <2>3
<1>12. \A k \in 0..n : k \in T
  <2> HIDE DEF T
  <2> QED BY <1>2, <1>10, <1>11, IntervalInduction
<1>13. n \in 0..n
  BY <1>2
<1> QED BY <1>1, <1>12, <1>13

\* ValidateObject has nothing to report on an object that is settled.
LEMMA SettledIsValid ==
    ASSUME NEW d, Settled(d)
    PROVE  ValidateObject(d) = {}
<1> DEFINE n == d.side.head.num
           vld == Gathered(d, n)
           S == Sums(d.side.manifest)
<1>1. /\ RootErrors(d, ParseObjectDir(d)) = {} /\ HeadOf(ParseObjectDir(d).versionDirs).num = n
  BY RootIsFine
<1>2. /\ d.inv = d.side /\ Good(d.side) /\ n \in Nat /\ HasContentOf(d, d.side)
      /\ DOMAIN d.content = PathSet(d.side.manifest)
  BY SettledFacts
<1>3. ValidateVersions(d, n) = vld
  <2>1. n \in 0..n
    BY <1>2
  <2> HIDE DEF vld
  <2> QED BY <2>1, VersionsAreFine DEF vld
<1>4. vld.errs = {} /\ vld.exists = FilesUpTo(d, n) /\ vld.known = S
  BY <1>2, GatheredFields
<1>5. FilesUpTo(d, n) = PathSet(d.side.manifest)
  BY <1>2 DEF FilesUpTo, Good, InVersionDirs
<1>6. DOMAIN S = PathSet(d.side.manifest) /\ \A p \in PathSet(d.side.manifest) : d.content[p] = S[p]
  BY <1>2, SumsIs DEF HasContentOf, Sums
<1> HIDE DEF vld, S
<1>7. MissingContent(vld) = {} /\ UnexpectedContent(vld) = {} /\ ValidateFilesBatch(d, vld) = {}
  BY <1>4, <1>5, <1>6 DEF MissingContent, UnexpectedContent, ValidateFilesBatch, ExistingContent
<1>8. ContentErrors(d, vld) = {}
  BY <1>7 DEF ContentErrors, Err
<1>9. ValidateObject(d) = IF "panic" \in vld.errs THEN {"panic"} ELSE vld.errs \cup ContentErrors(d, vld)
  BY <1>1, <1>3 DEF ValidateObject
<1> QED BY <1>4, <1>8, <1>9

\* A directory without an object, in which nothing is pending, is empty.
LEMMA SettledIsEmpty ==
    ASSUME NEW d, DirOk(d, Nil), NothingBut(d, Nil), d.side = Nil
    PROVE  d = EmptyDir(MaxHead)
<1> DEFINE none == [m \in 1..MaxHead |-> Nil]
<1>1. IsDir(d) /\ d.inv = Nil
  BY DEF DirOk
<1>2. d.strays = {} /\ d.exts = {}
  BY DEF NothingBut
<1>3. InventoriesOf(d.vinv, Nil, Nil) /\ InventoriesOf(d.vside, Nil, Nil) /\ ContentOf(d.content, Nil, Nil)
      /\ DeclarationsOf(d.decls, Nil, Nil)
  BY DEF NothingBut
<1>4. \A m \in 1..MaxHead : m > Nil.head.num
  BY NilIsGood, ObjectAssumption
<1>5. d.vinv = none /\ d.vside = none
  BY <1>3, <1>4 DEF InventoriesOf, Total
<1>6. d.content = <<>>
  <2>1. DOMAIN d.content = {}
    BY <1>3, NilIsGood DEF ContentOf, NewContent
  <2> QED BY <1>3, <2>1 DEF ContentOf
<1>7. d.decls = <<>>
  <2>1. DOMAIN d.decls = {}
    BY <1>3, NilIsGood, SpecFacts DEF DeclarationsOf
  <2> QED BY <1>3, <2>1 DEF DeclarationsOf
<1>8. EmptyDir(MaxHead) = [decls |-> <<>>, inv |-> Nil, side |-> Nil, vinv |-> none, vside |-> none,
                           content |-> <<>>, strays |-> {}, exts |-> {}]
  BY DEF EmptyDir
<1> HIDE DEF none
<1> QED BY <1>1, <1>2, <1>5, <1>6, <1>7, <1>8 DEF IsDir

\* What the invariant says of an object that nobody works on.
LEMMA TidyIsEnough == TidyInv => ResolvedIsValid
<1> SUFFICES ASSUME TidyInv, ~ rotted, inflight = Nil
             PROVE  dir = EmptyDir(MaxHead) \/ ValidateObject(dir) = {}
  BY DEF ResolvedIsValid
<1>1. DirOk(dir, Nil) /\ VersionsOk(dir) /\ NothingBut(dir, Nil)
  BY NothingPending DEF TidyInv, ObjectOk, Tidy
<1>2. CASE dir.side = Nil
  BY <1>1, <1>2, SettledIsEmpty
<1>3. CASE dir.side # Nil
  BY <1>1, <1>3, SettledIsValid DEF Settled
<1> QED BY <1>2, <1>3

\* object.go, update-plan.go: once every update was finished or reverted, through whatever
\* crashes, resumptions and failed steps, ValidateObject has nothing to report on the
\* object, or the directory is empty again.
THEOREM ResolvedValid == Spec => []ResolvedIsValid
<1>1. Init => TidyInv
  BY ObjectInit, TidyInit DEF TidyInv
<1> QED BY <1>1, TidyNext, TidyIsEnough, PTL DEF Spec
=============================================================================
