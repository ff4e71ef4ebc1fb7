----------------------------- MODULE Validation -----------------------------
(***************************************************************************)
(* ValidateObject (object.go, ocflv1.go, validation.go) as a function of   *)
(* what an object directory holds: the set of codes of its fatal errors,   *)
(* or {"panic"}.                                                           *)
(*                                                                         *)
(* A directory is a record:                                                *)
(*   decls    declaration file -> its contents are right, by spec          *)
(*   inv      the root inventory.json; Nil when there is none, Garbled     *)
(*            when it cannot be parsed or ValidateInventory refuses it     *)
(*   side     the inventory whose digest the root sidecar holds, or Nil    *)
(*   vinv, vside   the same in the version directories, by number          *)
(*   content  content path -> content                                      *)
(*   strays   directories with a file that does not belong there: 0 is the *)
(*            object root, n the directory of version n                    *)
(*   exts     what is in the extensions directory                          *)
(* Directories exist when something is in them, as in an object store.     *)
(* Version numbers are not padded and there is one digest algorithm; fixity *)
(* digests, which are compared like the digests of the manifest, are left  *)
(* out, and so are warnings.                                               *)
(***************************************************************************)
EXTENDS Inventory

Garbled == [Nil EXCEPT !.id = "garbled"]

EmptyDir(maxHead) ==
    [decls |-> <<>>, inv |-> Nil, side |-> Nil,
     vinv |-> [n \in 1 .. maxHead |-> Nil], vside |-> [n \in 1 .. maxHead |-> Nil],
     content |-> <<>>, strays |-> {}, exts |-> {}]

\* Content files in the directory of version n.
ContentIn(dir, n) == {p \in DOMAIN dir.content : InVersionDir(p, n)}

VersionDirs(dir) ==
    {V(n, 0) : n \in {m \in DOMAIN dir.vinv :
        dir.vinv[m] # Nil \/ dir.vside[m] # Nil \/ m \in dir.strays \/ ContentIn(dir, m) # {}}}

\* ParseObjectDir: a second declaration is one of the invalid entries; the first
\* is the one that is listed first.
ParseObjectDir(dir) ==
    [hasNamaste |-> DOMAIN dir.decls # {},
     spec |-> IF DOMAIN dir.decls = {} THEN 0 ELSE SE!Min(DOMAIN dir.decls),
     versionDirs |-> VersionDirs(dir),
     hasInventory |-> dir.inv # Nil,
     hasSidecar |-> dir.side # Nil,
     hasExtensions |-> dir.exts # {},
     invalid |-> 0 \in dir.strays \/ Cardinality(DOMAIN dir.decls) > 1]

\* ObjectState.Empty
EmptyState(state) ==
    ~ (state.hasNamaste \/ state.hasInventory \/ state.hasSidecar
       \/ state.hasExtensions \/ state.invalid \/ state.versionDirs # {})

\* ReadInventory fails although there is a file.
Unreadable(inv) == inv = Garbled

\* StoredInventory.ValidateSidecar returns no error.
SidecarOk(inv, side) == side = inv

-----------------------------------------------------------------------------
\* validateRootState
RootStateErrors(state) ==
    LET err == VNumsErr(state.versionDirs)
    IN       Err("E001", state.invalid)
        \cup Err("E003", ~state.hasNamaste)
        \cup Err("E063", ~state.hasInventory)
        \cup Err("E058", ~state.hasSidecar)
        \cup Err("E008", err = "empty")
        \cup Err("E011", err = "padding")
        \cup Err("E010", err = "missing")

\* validateExtensionsDir
ExtensionErrors(dir) == Err("E067", "file" \in dir.exts)

\* ValidateObjectRoot: the errors that end it early, then all the others.
RootErrors(dir, state) ==
    LET spec == IF state.hasNamaste THEN state.spec ELSE Spec1_1
    IN  IF spec \notin DOMAIN dir.decls THEN {"E003"}
        ELSE IF ~dir.decls[spec] THEN {"E007"}
        ELSE IF dir.inv = Nil THEN {"E063"}
        ELSE IF Unreadable(dir.inv) THEN {"E033"}
        ELSE IF dir.inv.spec # spec THEN {"E038"}
        ELSE Err("E060", ~SidecarOk(dir.inv, dir.side))
             \cup ExtensionErrors(dir) \cup RootStateErrors(state)

-----------------------------------------------------------------------------
(* The validation of the versions keeps a record [errs, known, exists, prev] *)
(* of the errors so far, the digests that manifests give for files, the      *)
(* files found (v.files) and the inventory of the version before (prevInv).  *)

\* addInventory would store digests in the nil set of a file that was found before
\* any manifest named it.
AddInventoryPanics(vld, inv) ==
    PathSet(inv.manifest) \cap (vld.exists \ DOMAIN vld.known) # {}

\* addInventory: digests of files not known before, and whether one conflicts.
AddedDigests(vld, inv) ==
    [p \in DOMAIN vld.known \cup PathSet(inv.manifest) |->
        IF p \in DOMAIN vld.known THEN vld.known[p] ELSE DigestFor(inv.manifest, p)[1]]

DigestsDisagree(vld, inv) ==
    \E p \in DOMAIN vld.known \cap PathSet(inv.manifest) :
        vld.known[p] # DigestFor(inv.manifest, p)[1]

\* logicalState.forwardMatch of version v in inventories a and b.
ForwardMatch(a, b, v) ==
    LET from == a.versions[v]
        to == b.versions[v]
    IN  /\ Cardinality(DOMAIN from) = Cardinality(DOMAIN to)
        /\ PathSet(from) = PathSet(to)
        /\ \A p \in PathSet(from) :
              SE!ToSet(a.manifest[DigestFor(from, p)]) \subseteq SE!ToSet(b.manifest[DigestFor(to, p)])

\* compareVersionInventory, for inventories that differ.
CompareErrors(verInv, root) ==
    LET lineage == SE!ToSet(Lineage(verInv.head))
    IN       Err("E064", verInv.head = root.head)
        \cup Err("E037", verInv.id # root.id)
        \cup Err("E046", ~ lineage \subseteq DOMAIN root.versions)
        \cup Err("E066", \E v \in lineage \cap DOMAIN root.versions :
                            ~ForwardMatch(verInv, root, v))

\* What ValidateObjectVersion reports about the inventory of version n, once the
\* files of the version are among those that exist.
VersionInventoryErrors(dir, vld, n) ==
    LET verInv == dir.vinv[n]
        differs == verInv # dir.inv
    IN       Err("E060", ~SidecarOk(verInv, dir.vside[n]))
        \cup Err("E103", Exists(vld.prev) /\ verInv.spec < vld.prev.spec)
        \cup Err("E040", verInv.head # V(n, 0))
        \cup (IF differs THEN CompareErrors(verInv, dir.inv) ELSE {})
        \cup Err("E066", differs /\ DigestsDisagree(vld, verInv))
        \cup Err("E023", ~ vld.exists \subseteq PathSet(verInv.manifest))

\* parseVersionDirState finds files other than the inventory and its sidecar.
ExtraFiles(dir, n) == n \in dir.strays

\* One turn of the loop over the versions.
ValidateVersion(dir, vld, n) ==
    LET verInv == dir.vinv[n]
        found == [vld EXCEPT !.exists = @ \cup ContentIn(dir, n),
                             !.errs = @ \cup Err("E015", ExtraFiles(dir, n)),
                             !.prev = verInv]
        seen == [found EXCEPT !.prev = vld.prev]
    IN  IF Unreadable(verInv) THEN [vld EXCEPT !.errs = @ \cup {"unreadable"}]
        ELSE IF verInv = Nil THEN found
        ELSE IF verInv # dir.inv /\ AddInventoryPanics(seen, verInv)
        THEN [found EXCEPT !.errs = @ \cup {"panic"}]
        ELSE [found EXCEPT !.errs = @ \cup VersionInventoryErrors(dir, seen, n),
                           !.known = IF verInv = dir.inv THEN @ ELSE AddedDigests(seen, verInv)]

\* missingContent, unexpectedContent, existingContentDigests
MissingContent(vld) == DOMAIN vld.known \ vld.exists
UnexpectedContent(vld) == vld.exists \ DOMAIN vld.known
ExistingContent(vld) == vld.exists \cap DOMAIN vld.known

\* digest.ValidateFilesBatch: the files whose digest is another one.
ValidateFilesBatch(dir, vld) == {p \in ExistingContent(vld) : dir.content[p] # vld.known[p]}

\* Mutant: files that no manifest names are not reported.
ContentErrorsExpected(dir, vld) ==
       Err("E092", MissingContent(vld) # {})
  \cup Err("E092", ValidateFilesBatch(dir, vld) # {})

\* ValidateObjectContent
ContentErrors(dir, vld) ==
       Err("E092", MissingContent(vld) # {})
  \cup Err("E023", UnexpectedContent(vld) # {})
  \cup Err("E092", ValidateFilesBatch(dir, vld) # {})

\* The loop over the versions, up to version last.
ValidateVersions(dir, last) ==
    LET start == [errs |-> {}, exists |-> {}, prev |-> Nil,
                  known |-> [p \in PathSet(dir.inv.manifest) |-> DigestFor(dir.inv.manifest, p)[1]]]
        after[n \in 0 .. last] ==
            IF n = 0 THEN start ELSE ValidateVersion(dir, after[n - 1], n)
    IN  after[last]

ValidateObject(dir) ==
    LET state == ParseObjectDir(dir)
        rootErrs == RootErrors(dir, state)
        vld == ValidateVersions(dir, HeadOf(state.versionDirs).num)
    IN  IF rootErrs # {} THEN rootErrs
        ELSE IF "panic" \in vld.errs THEN {"panic"}
        ELSE vld.errs \cup ContentErrors(dir, vld)

-----------------------------------------------------------------------------
(* What a valid object directory is, stated without the order of the checks. *)

\* The inventory of version n agrees with the root inventory and with the files
\* of the versions up to n.
VersionWellFormed(dir, n) ==
    LET inv == dir.vinv[n]
        sums == [p \in PathSet(inv.manifest) |-> DigestFor(inv.manifest, p)[1]]
    IN  /\ inv # Garbled
        /\ dir.vside[n] = inv
        /\ inv.id = dir.inv.id
        /\ inv.head = V(n, 0)
        /\ n = dir.inv.head.num => inv = dir.inv
        /\ \A p \in DOMAIN sums : p \in DOMAIN dir.content /\ dir.content[p] = sums[p]
        /\ \A m \in 1 .. n : ContentIn(dir, m) \subseteq DOMAIN sums
        /\ \A v \in DOMAIN inv.versions :
              /\ v \in DOMAIN dir.inv.versions
              /\ [p \in PathSet(inv.versions[v]) |-> DigestFor(inv.versions[v], p)[1]]
                 = [p \in PathSet(dir.inv.versions[v]) |-> DigestFor(dir.inv.versions[v], p)[1]]
        /\ n > 1 /\ Exists(dir.vinv[n - 1]) => dir.vinv[n - 1].spec <= inv.spec

\* The version directories are compared with each other and not with the head of
\* the root inventory: a directory above the head, or none for the head, is accepted
\* as long as no content is involved.
WellFormed(dir) ==
    LET sums == [p \in PathSet(dir.inv.manifest) |-> DigestFor(dir.inv.manifest, p)[1]]
    IN  /\ dir.strays = {} /\ "file" \notin dir.exts
        /\ Exists(dir.inv) /\ dir.inv # Garbled /\ dir.side = dir.inv
        /\ dir.decls = [s \in {dir.inv.spec} |-> TRUE]
        /\ dir.content = sums
        /\ {v.num : v \in VersionDirs(dir)} = 1 .. Cardinality(VersionDirs(dir))
        /\ VersionDirs(dir) # {}
        /\ \A v \in VersionDirs(dir) : Exists(dir.vinv[v.num]) => VersionWellFormed(dir, v.num)
=============================================================================
