------------------------------- MODULE Staging -------------------------------
(***************************************************************************)
(* A caller prepares a Stage (stage.go) and updates an object with it      *)
(* (object.go: NewUpdatePlan and a plan that runs without interruption).   *)
(* The stage is built from directories, from versions of this object and   *)
(* of another one, by overlaying stages, and by mutating its state.        *)
(*                                                                         *)
(* How an update fails halfway is the subject of UpdatePlan and            *)
(* ObjectUpdate; here it either finds all content it has to copy or stops. *)
(***************************************************************************)
EXTENDS Inventory

CONSTANTS
    Dirs,          \* directories to stage: [tree, alg, fixity], where tree maps
                   \* paths to content and fixity asks for a second digest
    Mutations,     \* path mutations the caller applies to a stage (bound:
                   \* none that lengthens paths)
    Options,       \* options of an update: [spec, allowUnchanged, contentPath],
                   \* the last one a path mutation
    Initial,       \* inventories the object may be opened with
    Others,        \* inventories of other objects to stage from
    MaxSources     \* bound: sources of a stage

ASSUME StagingAssumption ==
    /\ \A dir \in Dirs :
          /\ DOMAIN dir.tree \subseteq Path /\ IsFiniteSet(DOMAIN dir.tree)
          /\ \A p \in DOMAIN dir.tree : ValidPath(p)
          /\ dir.alg \in {"sha512", "sha256"} /\ dir.fixity \in BOOLEAN
    /\ \A m \in Mutations \cup {opts.contentPath : opts \in Options} : IsMutation(m)
    /\ \A i \in Initial \cup Others : IsInventory(i) /\ (i = Nil \/ ValidInventory(i))
    /\ \A i \in Initial : InVersionDirs(i)
    /\ MaxSources \in Nat

VARIABLES
    inv,      \* the inventory of the object handle
    files,    \* content files of the object: content path -> content
    stage,    \* the caller's *Stage
    result,   \* what the last call returned
    view,     \* history: what the caller means the stage to hold
    stored,   \* history: the versions as they were stored
    misused   \* history: calls that made, or may make, a stage or an update other than
              \* what was meant

vars == <<inv, files, stage, result, view, stored, misused>>

\* The logical files of a DigestMap: path -> content.
Files(m) == [p \in PathSet(m) |-> DigestFor(m, p)[1]]

-----------------------------------------------------------------------------
\* Content and fixity sources: lists of paths by digest, the files they are paths of,
\* and fixity by digest.  The lists of a directory source are those of the stage it
\* was made with; an object source looks into the manifest its inventory has at that
\* moment.  Another object is read through a handle of its own.
DirSource(dir, lists) ==
    [kind |-> "dir", paths |-> lists, files |-> dir.tree,
     fix |-> [d \in IF dir.fixity THEN DOMAIN lists ELSE {} |-> d]]

ObjectSource == [kind |-> "object", paths |-> <<>>, files |-> <<>>, fix |-> <<>>]

OtherSource(other) ==
    [kind |-> "other", paths |-> other.manifest, files |-> Files(other.manifest),
     fix |-> FixityOf(other)]

PathsOf(source) == IF source.kind = "object" THEN inv.manifest ELSE source.paths
FilesOf(source) == IF source.kind = "object" THEN files ELSE source.files

\* dirManifest.GetContent, Object.GetContent: the source provides digest d.
Provides(source, d) == d \in DOMAIN PathsOf(source) /\ PathsOf(source)[d] # <<>>

\* The file it is then said to have that content: the first of the list.  An empty
\* path is the directory itself.
SourcePath(source, d) == Clean(Head(PathsOf(source)[d]))

\* contentSources.GetContent: the first source that provides d; 0 when none does.
Provider(sources, d) ==
    LET providers == {i \in DOMAIN sources : Provides(sources[i], d)}
    IN  IF providers = {} THEN 0 ELSE SE!Min(providers)

\* A copy of the content of d finds a provider and a file.
HasContent(sources, d) ==
    LET i == Provider(sources, d)
    IN  i # 0 /\ SourcePath(sources[i], d) \in DOMAIN FilesOf(sources[i])

\* What it copies.
GetContent(sources, d) ==
    LET source == sources[Provider(sources, d)]
    IN  FilesOf(source)[SourcePath(source, d)]

\* fixitySources.GetFixity: the last source that knows a digest wins.
GetFixity(sources) ==
    LET fix(i) == IF sources[i].kind = "object" THEN FixityOf(inv) ELSE sources[i].fix
        knows(d) == {i \in DOMAIN sources : d \in DOMAIN fix(i)}
        known == UNION {DOMAIN fix(i) : i \in DOMAIN sources}
    IN  [d \in known |-> fix(CHOOSE i \in knows(d) : \A j \in knows(d) : j <= i)[d]]

-----------------------------------------------------------------------------
\* A stage; alias is the version whose map its state is, and tied says that the lists
\* of its state are the slices that its source has.
NoStage == [state |-> <<>>, alg |-> "", sources |-> <<>>, alias |-> V(0, 0), tied |-> FALSE]

\* IsNotHidden
Visible(p) == \A e \in Elements(p) : Head(e) # Dot

VisibleTree(tree) == [p \in {q \in DOMAIN tree : Visible(q)} |-> tree[p]]

\* newStage, over the files that were digested: each list is one slice, in the state
\* and in the source.
DirStage(dir, read) ==
    LET state == DigestMapOf([p \in read |-> Digest(dir.tree[p], "lower")])
    IN  [state |-> state, alg |-> dir.alg, sources |-> <<DirSource(dir, state)>>,
         alias |-> V(0, 0), tied |-> TRUE]

\* Object.VersionStage: the state is the map of the inventory, not a copy.
VersionStage(v) ==
    [state |-> inv.versions[v], alg |-> inv.alg,
     sources |-> <<ObjectSource>>, alias |-> v, tied |-> FALSE]

OtherStage(other, v) ==
    [state |-> other.versions[v], alg |-> other.alg,
     sources |-> <<OtherSource(other)>>, alias |-> V(0, 0), tied |-> FALSE]

\* Stages that a call returns, with what they are meant to hold.
Available ==
         {<<DirStage(dir, DOMAIN VisibleTree(dir.tree)), VisibleTree(dir.tree)>> : dir \in Dirs}
    \cup {<<VersionStage(v), Files(inv.versions[v])>> :
              v \in DOMAIN inv.versions \cap {V(1, inv.head.padding), inv.head}}
    \cup UNION {{<<OtherStage(other, v), Files(other.versions[v])>> :
                    v \in DOMAIN other.versions} : other \in Others}

Init ==
    /\ inv \in Initial
    /\ files = [p \in PathSet(inv.manifest) |-> DigestFor(inv.manifest, p)[1]]
    /\ stage = NoStage
    /\ result = "ok"
    /\ view = <<>>
    /\ stored = [v \in DOMAIN inv.versions |-> Files(inv.versions[v])]
    /\ misused = {}

\* Bound: the object is updated once.  An update of what another update made adds
\* nothing to the inventories of Initial; nor is it explored what follows from a
\* mutation of a map that is shared with the inventory.
Bound == result \notin {"updated", "updatedAnyway"} /\ "shared" \notin misused

\* StageDir, StageBytes, VersionStage: the caller gets a stage.
NewStage ==
    /\ Bound
    /\ \E s \in Available : stage' = s[1] /\ view' = s[2]
    /\ result' = "ok"
    /\ misused' = misused \ {"overlay", "collision", "written"}
    /\ UNCHANGED <<inv, files, stored>>

\* Mutant: the errors behind the iterators are not asked for.
StageDirFailsUnchecked(dir, read) ==
    /\ Bound
    /\ read # DOMAIN VisibleTree(dir.tree)
    /\ stage' = DirStage(dir, read)
    /\ view' = VisibleTree(dir.tree)
    /\ result' = "ok"
    /\ misused' = misused \ {"overlay", "collision", "written"}
    /\ UNCHANGED <<inv, files, stored>>

\* A file cannot be walked, digested or is not a regular file: the iterators end
\* early, after the files in read, and StageFiles or StageDir returns the error.
StageDirFails(dir, read) ==
    /\ Bound
    /\ read # DOMAIN VisibleTree(dir.tree)
    /\ result' = "err"
    /\ UNCHANGED <<inv, files, stage, view, stored, misused>>

\* Mutant: the overlay's source takes the place of the sources.
OverlaySourcesReplaced(over) == over.sources

\* addContentSource, addFixitySource
OverlaySources(over) == stage.sources \o over.sources

\* Stage.Overlay of one stage.
Overlay(over, overView) ==
    /\ Bound
    /\ stage.alg = over.alg
    /\ Len(stage.sources) < MaxSources
    /\ MergeOk(stage.state, over.state, TRUE)
    /\ stage' = [stage EXCEPT !.state = Merged(@, over.state),
                              !.sources = OverlaySources(over),
                              !.alias = V(0, 0),
                              !.tied = FALSE]
    /\ view' = [p \in DOMAIN view \cup DOMAIN overView |->
                   IF p \in DOMAIN overView THEN overView[p] ELSE view[p]]
    /\ result' = "ok"
    /\ UNCHANGED <<inv, files, stored, misused>>

\* Stage.Overlay returns an error; a failed merge has already replaced the state
\* of the stage by nil.
OverlayFails(over) ==
    /\ Bound
    /\ stage # NoStage
    /\ \/ /\ stage.alg # over.alg
          /\ UNCHANGED <<stage, misused>>
       \/ /\ stage.alg = over.alg
          /\ ~MergeOk(stage.state, over.state, TRUE)
          /\ stage' = [stage EXCEPT !.state = <<>>, !.alias = V(0, 0), !.tied = FALSE]
          /\ misused' = misused \cup {"overlay"}
    /\ result' = "err"
    /\ UNCHANGED <<inv, files, view, stored>>

\* Where a mutation moves a single path; <<>> when it removes it.
Moved(mutation, p) ==
    IF mutation.op = "remove" THEN (IF p = mutation.src THEN <<>> ELSE p)
    ELSE IF mutation.src = <<Dot>> THEN Join(mutation.dst, p)
    ELSE IF p = mutation.src THEN mutation.dst
    ELSE IF SE!IsPrefix(Append(mutation.src, Slash), p)
         THEN Join(mutation.dst, SubSeq(p, Len(mutation.src) + 2, Len(p)))
         ELSE p

MovedView(mutation) ==
    [q \in {Moved(mutation, p) : p \in DOMAIN view} \ {<<>>} |->
        view[CHOOSE p \in DOMAIN view : Moved(mutation, p) = q]]

\* The lists of the source after a mutation of those of the state, which are written in
\* place: a removal moves the rest of a list up and leaves empty paths behind.
WrittenLists(lists, mutation) ==
    [d \in DOMAIN lists |->
        IF d \notin DOMAIN stage.state THEN lists[d]
        ELSE LET new == Apply(mutation, stage.state[d])
             IN  [i \in DOMAIN lists[d] |-> IF i \in DOMAIN new THEN new[i] ELSE <<>>]]

MutatedSources(mutation) ==
    IF stage.tied THEN [stage.sources EXCEPT ![1].paths = WrittenLists(@, mutation)]
    ELSE stage.sources

\* stage.State.Mutate: a map shared with the inventory changes there as well, and lists
\* shared with the source change in the source.
MutateStage(mutation) ==
    LET mutated == Mutate(stage.state, mutation)
        kept == {p \in DOMAIN view : Moved(mutation, p) # <<>>}
        collides == Cardinality(kept) # Cardinality({Moved(mutation, p) : p \in kept})
        shared == stage.alias.num > 0
    IN  /\ Bound
        /\ stage # NoStage
        /\ mutated # stage.state
        /\ stage' = [stage EXCEPT !.state = mutated, !.sources = MutatedSources(mutation)]
        /\ inv' = IF shared THEN [inv EXCEPT !.versions[stage.alias] = mutated] ELSE inv
        /\ view' = MovedView(mutation)
        /\ misused' = misused \cup Err("shared", shared) \cup Err("collision", collides)
                              \cup Err("written", stage.tied)
        /\ result' = "ok"
        /\ UNCHANGED <<files, stored>>

-----------------------------------------------------------------------------
\* The inventory that NewUpdatePlan builds, Nil when it cannot.
NewInventory(opts) ==
    Finalize(AddVersion(
        NewInventoryBuilder(inv, "obj", opts.spec, 0, opts.contentPath,
                            GetFixity(stage.sources)),
        stage.state, stage.alg))

\* NewUpdatePlan refuses the state of the head again.
Unchanged(opts) ==
    ~opts.allowUnchanged /\ Exists(inv) /\ Eq(inv.versions[inv.head], stage.state)

\* newPlanSteps accepts the pair of inventories.
PlanOk(next) ==
    /\ Exists(inv) => inv.id = next.id
    /\ next.spec >= inv.spec
    /\ next.head.num = inv.head.num + 1

\* The sources of the stage, but for the object, say of the digests of its state where
\* files with that content are.
SourcesAgree ==
    LET digests == {NormalizeDigest(d) : d \in DOMAIN stage.state}
        agrees(source, d) == LET p == Clean(Head(source.paths[d]))
                             IN  p \in DOMAIN source.files /\ source.files[p] = d[1]
    IN  \A i \in DOMAIN stage.sources : \A d \in digests \cap DOMAIN stage.sources[i].paths :
            stage.sources[i].paths[d] # <<>> => agrees(stage.sources[i], d)

\* The plan has run: the content of the new version is copied, and next is the
\* inventory.
Updated(next, content) ==
    /\ files' = [p \in DOMAIN files \cup DOMAIN content |->
                    IF p \in DOMAIN content THEN GetContent(stage.sources, content[p])
                                            ELSE files[p]]
    /\ inv' = next
    /\ stored' = [v \in DOMAIN next.versions |->
                     IF v = next.head THEN Files(stage.state) ELSE stored[v]]
    /\ stage' = [stage EXCEPT !.alias = V(0, 0)]

\* A plan for the inventory next is made and run: the content of the new version is
\* copied, or an error; when content is missing the plan stops before the object
\* changes for its readers.
UpdateTo(next, opts) ==
    LET content == VersionContent(next, next.head)
        provided == \A p \in DOMAIN content : HasContent(stage.sources, content[p])
        refused == UNCHANGED <<inv, files, stored, stage>>
    IN  /\ Bound
        /\ stage # NoStage
        /\ \/ ~Exists(next) /\ result' = "err" /\ refused
           \/ /\ Exists(next)
              /\ \/ Unchanged(opts) /\ result' = "unchanged" /\ refused
                 \/ /\ ~Unchanged(opts)
                    /\ \/ ~PlanOk(next) /\ result' = "err" /\ refused
                       \/ PlanOk(next) /\ ~provided /\ result' = "noContent" /\ refused
                       \/ /\ PlanOk(next) /\ provided
                          /\ Updated(next, content)
                          /\ result' = IF opts.allowUnchanged THEN "updatedAnyway"
                                                             ELSE "updated"
        /\ misused' = (misused \ {"source", "outside"})
                      \cup Err("source", "written" \in misused /\ ~SourcesAgree)
                      \cup Err("outside", ~PathsInside(opts.contentPath, stage.state))
        /\ UNCHANGED view

\* Object.Update
Update(opts) == UpdateTo(NewInventory(opts), opts)

-----------------------------------------------------------------------------
(* Reading a version (object.go: VersionFS, internal/logical-fs) *)

\* Mutant: the content of a file is looked for in the directory of the version.
VersionFSOwnDir(v) == [p \in PathSet(inv.versions[v]) |-> ContentPath(v, p)]

\* Object.VersionFS: the logical names, with the content file each stands for.
VersionFS(v) ==
    [p \in PathSet(inv.versions[v]) |-> Head(inv.manifest[DigestFor(inv.versions[v], p)])]

\* LogicalFS.openDir: the names in a directory, each with whether it is one; no
\* directory without names.
OpenDir(names, dir) ==
    LET prefix == IF dir = <<Dot>> THEN <<>> ELSE Append(dir, Slash)
        rest == {SubSeq(p, Len(prefix) + 1, Len(p)) : p \in {q \in DOMAIN names : SE!IsPrefix(prefix, q)}}
        cut(r) == SE!SelectInSeq(r, LAMBDA c : c = Slash)
    IN  {[name |-> IF cut(r) = 0 THEN r ELSE SubSeq(r, 1, cut(r) - 1),
          dir |-> cut(r) > 0] : r \in rest}

\* LogicalFS.Open: what can be read under a name; a name that is no file is taken
\* for a directory.
Open(names, name) ==
    IF name \in DOMAIN names
    THEN [kind |-> IF names[name] \in DOMAIN files THEN "file" ELSE "error",
          data |-> IF names[name] \in DOMAIN files THEN files[names[name]] ELSE ""]
    ELSE [kind |-> IF name = <<Dot>> \/ OpenDir(names, name) # {} THEN "dir" ELSE "error",
          data |-> ""]

-----------------------------------------------------------------------------
Next ==
    \/ NewStage
    \/ \E dir \in Dirs : \E read \in SUBSET DOMAIN VisibleTree(dir.tree) :
          StageDirFails(dir, read)
    \/ \E s \in Available : Overlay(s[1], s[2]) \/ OverlayFails(s[1])
    \/ \E m \in Mutations : MutateStage(m)
    \/ \E opts \in Options : Update(opts)

Spec == Init /\ [][Next]_vars

-----------------------------------------------------------------------------
(* Properties *)

\* However stages are overlaid and their paths moved, the stage holds the files
\* the caller put there (StageDir, Overlay, Merge, Mutate).  Two calls break it: an
\* Overlay that fails, and a mutation that moves two files to one path.
StageHoldsWhatWasMeant ==
    (stage # NoStage /\ misused \cap {"overlay", "collision"} = {})
        => Files(stage.state) = view

\* No update loses or changes the logical state of a version stored before, unless
\* the caller mutated a stage that VersionStage returned (buildVersions).
HistoryKept ==
    "shared" \notin misused =>
        /\ DOMAIN inv.versions = DOMAIN stored
        /\ \A v \in DOMAIN stored :
              Files(inv.versions[v]) = stored[v]

\* The object directory holds exactly the content that the manifest names, each
\* file with the content of its digest: reused digests point to files of earlier
\* versions, new ones to files the update copied (versionContent).  Two calls break it:
\* a Mutate of a staged directory that makes its source name other files than those
\* that were digested, and a content path that leads out of the version directory.
ContentInPlace ==
    misused \cap {"source", "outside"} = {} =>
        files = [p \in PathSet(inv.manifest) |-> DigestFor(inv.manifest, p)[1]]

\* Every version can be read back as it was stored, whichever version's directory its
\* content is in: each of its files opens with its content, and whatever a directory
\* of the version lists can be opened as what it is listed as (VersionFS, LogicalFS).
VersionReadsBack ==
    misused \cap {"shared", "source", "outside"} = {} =>
        \A v \in DOMAIN stored :
            LET names == VersionFS(v)
                dirs == {<<Dot>>} \cup UNION {{SubSeq(p, 1, i - 1) :
                            i \in {j \in DOMAIN p : p[j] = Slash}} : p \in DOMAIN names}
            IN  /\ \A p \in DOMAIN stored[v] :
                       Open(names, p) = [kind |-> "file", data |-> stored[v][p]]
                /\ \A d \in dirs : \A e \in OpenDir(names, d) :
                       Open(names, Join(d, e.name)).kind = IF e.dir THEN "dir" ELSE "file"

\* A stage provides all content an update has to copy.  The sources look digests
\* up as they are spelled, so this takes lower-case digests in other objects; and it
\* takes sources that still name the files that were digested.
ContentProvided ==
    (result = "noContent" /\ "source" \notin misused) =>
        \E i \in DOMAIN stage.sources : \E d \in DOMAIN stage.sources[i].paths : d[2] = "upper"

\* An update is refused as unchanged exactly when it would repeat the head, also
\* when the digests of the two states are spelled differently (DigestMap.Eq).
UnchangedExact ==
    misused \cap {"shared", "overlay", "collision"} = {} =>
        /\ result = "unchanged" => view = stored[inv.head]
        /\ (result = "updated" /\ inv.head.num > 1) =>
              stored[inv.head] # stored[[inv.head EXCEPT !.num = @ - 1]]

\* No inventory uses a path both as a file and as a directory
\* ("validPaths checks paths are valid and consistent").
NoPathConflict ==
    "shared" \notin misused =>
        \A m \in {inv.manifest} \cup {inv.versions[v] : v \in DOMAIN inv.versions} :
            ~ \E p, q \in PathSet(m) : SE!IsPrefix(Append(p, Slash), q)
=============================================================================
