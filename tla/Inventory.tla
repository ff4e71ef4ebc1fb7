------------------------------ MODULE Inventory ------------------------------
(***************************************************************************)
(* The inventory of an OCFL object (inventory.go, vnum.go) as a value: how *)
(* InventoryBuilder makes the next inventory from the previous one, and    *)
(* what ValidateInventory (ocflv1.go) accepts.                             *)
(*                                                                         *)
(* An inventory is a record; nil is the record Nil, whose head is zero.    *)
(* The digest of inventory.json stands for its bytes, so an inventory is   *)
(* its own digest and a sidecar holds the inventory it was made for.       *)
(* Messages, users, timestamps and the name of the content directory are   *)
(* left out; there is one fixity algorithm.  The names of a version        *)
(* directory and of the content directory are one character each.          *)
(***************************************************************************)
EXTENDS DigestMap

\* Specs "1.0" and "1.1"; 0 is the empty spec.
Spec1_0 == 10
Spec1_1 == 11
Supported == {Spec1_0, Spec1_1}

VNum == [num : Nat, padding : Nat]
V(num, padding) == [num |-> num, padding |-> padding]

\* VNum.paddingOverflow
PaddingOverflow(v) == v.padding > 0 /\ v.num >= 10 ^ (v.padding - 1)

\* VNum.Valid
ValidVNum(v) == v.num > 0 /\ ~PaddingOverflow(v)

\* VNum.Next returns no error; what it returns is NextVNum.
NextOk(v) == ~PaddingOverflow([v EXCEPT !.num = @ + 1])

NextVNum(v) == [v EXCEPT !.num = @ + 1]

\* VNum.Lineage, in order.
Lineage(v) == [n \in 1 .. v.num |-> V(n, v.padding)]

\* VNums.Head, after VNums.Valid has sorted them.
HeadOf(vnums) ==
    IF vnums = {} THEN V(0, 0)
    ELSE CHOOSE v \in vnums : \A w \in vnums : w.num <= v.num

\* VNums.Valid with its kind of error; a scheme with a gap and mixed padding
\* may be reported for either.
VNumsErr(vnums) ==
    IF vnums = {} THEN "empty"
    ELSE IF {v.num : v \in vnums} # 1 .. Cardinality(vnums) THEN "missing"
    ELSE IF Cardinality({v.padding : v \in vnums}) > 1 THEN "padding"
    ELSE IF ~ValidVNum(HeadOf(vnums)) THEN "invalid"
    ELSE "ok"

Nil == [id |-> "", spec |-> 0, alg |-> "", head |-> V(0, 0),
        manifest |-> <<>>, versions |-> <<>>, fixity |-> <<>>]

Exists(inv) == inv # Nil

\* The type Inventory.
IsInventory(inv) ==
    /\ DOMAIN inv = DOMAIN Nil
    /\ inv.head \in VNum
    /\ IsDigestMap(inv.manifest)
    /\ DOMAIN inv.versions \subseteq VNum
    /\ IsFiniteSet(DOMAIN inv.versions)
    /\ \A v \in DOMAIN inv.versions : IsDigestMap(inv.versions[v])

VersionDirChar(num) == 200 + num
ContentDirChar == 99

\* Content path of logical path p in version v.  The path is cleaned, so a p with ".."
\* may leave the content directory and the version directory.
ContentPath(v, p) == Join(<<VersionDirChar(v.num), Slash, ContentDirChar>>, p)

InVersionDir(path, num) == SE!IsPrefix(<<VersionDirChar(num), Slash>>, path)

\* All content is in directories of versions of the inventory.
InVersionDirs(inv) ==
    \A p \in PathSet(inv.manifest) : \E n \in 1 .. inv.head.num : InVersionDir(p, n)

\* Inventory.versionContent
VersionContent(inv, vnum) ==
    LET pm == PathMap(inv.manifest)
    IN  [p \in {q \in DOMAIN pm : InVersionDir(q, vnum.num)} |-> pm[p]]

\* Inventory.GetFixity for every digest of the manifest that has one.  When the
\* fixity block disagrees for files of one digest the code takes any of them.
FixityOf(inv) ==
    LET fixes(d) == {f \in DOMAIN inv.fixity :
                        SE!ToSet(inv.fixity[f]) \cap SE!ToSet(inv.manifest[d]) # {}}
    IN  [d \in {d \in DOMAIN inv.manifest : fixes(d) # {}} |->
            CHOOSE f \in fixes(d) : TRUE]

-----------------------------------------------------------------------------
(* Inventory.Validate, as the set of the error codes it reports. *)

Err(code, cond) == IF cond THEN {code} ELSE {}

\* The codes for the three kinds of error of a DigestMap.
MapErrors(m, digestCode, pathCode, conflictCode) ==
    LET err == MapErr(m)
    IN       Err(digestCode, err = "digestConflict")
        \cup Err("noPaths", err = "noPaths")
        \cup Err(pathCode, err = "pathInvalid")
        \cup Err(conflictCode, err = "pathConflict")

HeaderErrors(inv) ==
       Err("type", inv.spec \notin Supported)
  \cup Err("E036", inv.id = "" \/ inv.head = V(0, 0))
  \cup Err("E025", inv.alg \notin {"sha512", "sha256"})
  \cup Err("E011", ~ValidVNum(inv.head))

ManifestErrors(inv) ==
       MapErrors(inv.manifest, "E096", "E099", "E101")
  \cup Err("E107", \E d \in DOMAIN inv.manifest : \A v \in DOMAIN inv.versions :
                      d \in DOMAIN inv.versions[v] => inv.versions[v][d] = <<>>)

VersionNameErrors(inv) ==
    LET err == VNumsErr(DOMAIN inv.versions)
    IN       Err("E008", err = "empty")
        \cup Err("E010", err = "missing")
        \cup Err("E013", err = "padding")
        \cup Err("vnum", err = "invalid")
        \cup Err("E040", HeadOf(DOMAIN inv.versions) # inv.head)

StateErrors(inv) ==
    UNION {MapErrors(inv.versions[v], "E050", "E052", "E095")
           \cup Err("E050", \E d \in DOMAIN inv.versions[v] :
                               \/ d \notin DOMAIN inv.manifest
                               \/ inv.manifest[d] = <<>>)
           : v \in DOMAIN inv.versions}

FixityErrors(inv) == MapErrors(inv.fixity, "E097", "E099", "E101")

ValidateInventory(inv) ==
    HeaderErrors(inv) \cup ManifestErrors(inv) \cup VersionNameErrors(inv)
    \cup StateErrors(inv) \cup FixityErrors(inv)

ValidInventory(inv) == ValidateInventory(inv) = {}

-----------------------------------------------------------------------------
(* InventoryBuilder.  A builder is a record [prev, id, spec, padding, added, *)
(* contentPath, fixity]: added is the sequence of [state, alg] of its        *)
(* AddVersion calls, contentPath the caller's mutation of paths, and fixity  *)
(* what its FixitySource knows.                                              *)

Identity == [op |-> "identity"]
RenameOp(src, dst) == [op |-> "rename", src |-> src, dst |-> dst]
RemoveOp(name) == [op |-> "remove", src |-> name]

\* The type PathMutation.
IsMutation(mutation) ==
    /\ mutation.op \in {"identity", "rename", "remove"}
    /\ mutation.op # "identity" => mutation.src \in Path
    /\ mutation.op = "rename" => mutation.dst \in Path

\* A PathMutation applied to a list of paths.
Apply(mutation, paths) ==
    IF mutation.op = "rename" THEN RenamePaths(mutation.src, mutation.dst, paths)
    ELSE IF mutation.op = "remove" THEN RemovePath(mutation.src, paths)
    ELSE paths

\* DigestMap.Mutate with one mutation.
Mutate(m, mutation) ==
    [d \in {e \in DOMAIN m : Apply(mutation, m[e]) # <<>>} |-> Apply(mutation, m[d])]

\* The paths that a content path mutation makes of those of a state are valid: none of
\* them leads out of the directory it is joined to.
PathsInside(mutation, state) ==
    LET norm == Normalize(state)
    IN  \A d \in DOMAIN norm : \A p \in SE!ToSet(Apply(mutation, norm[d])) : ValidPath(p)

\* NewInventoryBuilder and its setters: the spec, padding and head of an
\* existing inventory; a spec is only set when it is not empty, the padding only
\* without a previous inventory.
NewInventoryBuilder(prev, id, spec, padding, contentPath, fixity) ==
    [prev |-> prev, id |-> id,
     spec |-> IF spec # 0 THEN spec
              ELSE IF Exists(prev) THEN prev.spec ELSE Spec1_1,
     head |-> IF Exists(prev) THEN prev.head ELSE V(0, padding),
     added |-> <<>>, contentPath |-> contentPath, fixity |-> fixity]

AddVersion(b, state, alg) ==
    [b EXCEPT !.added = Append(@, [state |-> state, alg |-> alg])]

InitialOk(b) ==
    /\ Valid(b.prev.manifest)
    /\ Valid(b.prev.fixity)
    /\ \A v \in DOMAIN b.prev.versions : Valid(b.prev.versions[v])

\* Mutant: every version gets the state of the head.
InitialInventoryShared(b) ==
    [id |-> b.id, spec |-> b.spec, alg |-> b.prev.alg, head |-> b.head,
     manifest |-> Normalize(b.prev.manifest),
     versions |-> [v \in DOMAIN b.prev.versions |-> Normalize(b.prev.versions[b.prev.head])],
     fixity |-> Normalize(b.prev.fixity)]

\* initialInventory: a normalized copy of the previous inventory.
InitialInventory(b) ==
    [id |-> b.id, spec |-> b.spec, alg |-> b.prev.alg, head |-> b.head,
     manifest |-> Normalize(b.prev.manifest),
     versions |-> [v \in DOMAIN b.prev.versions |-> Normalize(b.prev.versions[v])],
     fixity |-> Normalize(b.prev.fixity)]

\* Mutant: content that the manifest has already is entered again, in place of the old.
WithVersionNoReuse(b, inv, added) ==
    LET state == Normalize(added.state)
        head == NextVNum(inv.head)
        content(d) == LET paths == Apply(b.contentPath, state[d])
                      IN  [i \in DOMAIN paths |-> ContentPath(head, paths[i])]
    IN  [inv EXCEPT !.alg = added.alg, !.head = head,
           !.versions = [v \in DOMAIN @ \cup {head} |-> IF v = head THEN state ELSE @[v]],
           !.manifest = [d \in DOMAIN @ \cup DOMAIN state |->
                            IF d \in DOMAIN state THEN content(d) ELSE @[d]]]

\* buildVersions, one added version: the state under the next version number, and
\* manifest entries for the digests that the manifest does not have yet.
WithVersion(b, inv, added) ==
    LET state == Normalize(added.state)
        head == NextVNum(inv.head)
        new == {d \in DOMAIN state :
                   d \notin DOMAIN inv.manifest \/ inv.manifest[d] = <<>>}
        content(d) == LET paths == Apply(b.contentPath, state[d])
                      IN  [i \in DOMAIN paths |-> ContentPath(head, paths[i])]
    IN  [inv EXCEPT
           !.alg = added.alg,
           !.head = head,
           !.versions = [v \in DOMAIN @ \cup {head} |-> IF v = head THEN state ELSE @[v]],
           !.manifest = [d \in DOMAIN @ \cup new |-> IF d \in new THEN content(d) ELSE @[d]]]

WithVersionOk(inv, added) ==
    /\ NextOk(inv.head)
    /\ Valid(added.state)
    /\ inv.alg \in {"", added.alg}

\* buildVersions: a pair of the inventory and whether no version was refused.
BuildVersions(b) ==
    LET add(acc, added) ==
            IF acc.ok /\ WithVersionOk(acc.inv, added)
            THEN [ok |-> TRUE, inv |-> WithVersion(b, acc.inv, added)]
            ELSE [acc EXCEPT !.ok = FALSE]
        built[n \in 0 .. Len(b.added)] ==
            IF n = 0 THEN [ok |-> TRUE, inv |-> InitialInventory(b)]
                     ELSE add(built[n - 1], b.added[n])
    IN  built[Len(b.added)]

\* fillFixity
FillFixity(b, inv) ==
    LET known == DOMAIN b.fixity \cap DOMAIN inv.manifest
        old(f) == IF f \in DOMAIN inv.fixity THEN inv.fixity[f] ELSE <<>>
        new(f) == UNION {SE!ToSet(inv.manifest[d]) : d \in {e \in known : b.fixity[e] = f}}
    IN  [inv EXCEPT !.fixity =
            [f \in DOMAIN @ \cup {b.fixity[d] : d \in known} |->
                old(f) \o SortedSet(new(f) \ SE!ToSet(old(f)))]]

\* Finalize: the new inventory, or Nil for an error.
Finalize(b) ==
    IF ~InitialOk(b) THEN Nil
    ELSE LET built == BuildVersions(b)
             inv == FillFixity(b, built.inv)
         IN  IF built.ok /\ ValidInventory(inv) THEN inv ELSE Nil
=============================================================================
