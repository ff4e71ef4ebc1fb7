# A TLA+ model of ocfl-go

ocfl-go reads, updates and validates OCFL objects: directories that hold every
version of a digital object, described by an inventory (`inventory.json`) and its
digest in a sidecar file. Objects live in storage roots on a local disk, in S3 or
behind HTTP. Nothing in this design has a lock, a journal or a transaction: what
keeps an object whole is the order in which files are written and the order in which
they are checked. This project models the library from the storage backend up to the
program that updates and validates objects.

## The system

| part | state it keeps | operations | what is hard |
|---|---|---|---|
| `UpdatePlan` (update-plan.go) | steps, each with `Completed`, `Err`, `RevertErr`; both inventories | `Apply`, `Revert`, `MarshalBinary`, `UnmarshalBinary` | copies run in goroutines; any storage operation can fail, halfway or after it took effect; calls follow each other in any order |
| `Object` (object.go) | inventory read when the handle was opened | `NewObject`, `NewUpdatePlan`, `ApplyUpdatePlan`, `Update`, `VersionStage`, `VersionFS` | a handle never looks at storage again; a process that dies in the middle |
| inventory, builder (inventory.go), `DigestMap` (digestmap.go) | values | `AddVersion`, `Finalize`, `Merge`, `Normalize`, `Valid`, `Eq` | reuse of content, path conflicts, digests spelled in two ways |
| `Stage` (stage.go) | state, content and fixity sources | `StageDir`, `StageBytes`, `StageFiles`, `Overlay`, mutation of the state | errors behind iterators, a map shared with the inventory, content from several sources |
| validation (validation.go, ocflv1.go, objectstate.go) | files seen, digests expected, errors | `ValidateObject` and what it calls | what an interrupted update leaves; the order of the calls |
| storage root (root.go), layouts (extension/) | layout and its config | `NewRoot` with initialization, `ResolveID` | several files written one after the other; ids that resolve to one path |
| `internal/pipeline` | two channels, goroutines | `Results` | early exit of the consumer, full channels |
| `fs/s3` | bucket, multipart upload, open file | `Write`, `Copy`, `Remove`, `RemoveAll`, `DirEntries`, `WalkFiles`, file reads | concurrent parts, lost answers, pages of a listing, another client, cancellation |
| `fs/local` | storage | `Write`, `Remove`, `RemoveAll`, reads | a write truncates first |

`Object.Update` builds an inventory from a stage and the handle's inventory, turns
both inventories into a plan, and applies the plan to the storage backend.
`Root.Objects` and the validation of content run the pipeline. A caller who gets
an error from `ApplyUpdatePlan` holds the plan and may apply it again, revert it,
or save it and do either in another process.

What makes each part correct: an update plan must make a version visible only when
all of it is there, must undo what it did, and must tell the truth about both; a
handle must not update an object it no longer knows; a builder must give every
file of a state a manifest entry and keep earlier versions as they are; a digest
map accepted as valid must be a possible set of files; a validation must not depend
on the order in which it meets files; a pipeline must deliver everything and leave
nothing running; a root must resolve an id alike in every program and never put one
object into another; a multipart copy must cover every byte once and either complete or
abort; a listing or a removal in pages must miss nothing.

`PROJECT.json` lists all components, modelled or not, and under `hazards` the
places where the code is exposed to something a test would hardly reach.

## Modules

| module | models | uses |
|---|---|---|
| `UpdatePlan` | update-plan.go, with `Write` and `RemoveAll` of fs/local and `NewObject`'s verdict on a directory | `AtomicUpdate` |
| `AtomicUpdate` | what a plan promises a caller who only opens the object | |
| `MCUpdatePlan` | small instances of `UpdatePlan` | |
| `UpdatePlanProofs` | invariants of `UpdatePlan`, and that it implements `AtomicUpdate`, proved | |
| `Pipeline` | internal/pipeline/pipeline.go | |
| `PipelineProofs` | invariants of `Pipeline`, proved | |
| `DigestMap` | digestmap.go: operators on maps from digests to paths | |
| `Inventory` | inventory.go, vnum.go, `ValidateInventory` of ocflv1.go: operators on inventories | `DigestMap` |
| `InventoryProofs` | what holds of every digest map and inventory, proved | `SequenceLemmas` |
| `Staging` | stage.go, `Object.Update` as one step, `VersionFS` with internal/logical-fs | `Inventory` |
| `MCStaging` | instances of `Staging` | |
| `StagingProofs` | invariants of `Staging`, proved | `InventoryProofs` |
| `Validation` | `ValidateObject`: ocflv1.go, validation.go, objectstate.go | `Inventory` |
| `ObjectUpdate` | object.go and update-plan.go over a sequence of plans, crashes and damage | `Validation` |
| `MCObject` | instances of `ObjectUpdate` | |
| `ObjectUpdateProofs` | invariants of `ObjectUpdate`, proved | `InventoryProofs` |
| `Layouts` | the layouts of extension/ | |
| `StorageRoot` | `NewRoot` and `ResolveID` of root.go | `Layouts` |
| `MCStorageRoot` | an instance of `StorageRoot` | |
| `StorageRootProofs` | all roots resolve alike, proved | `SequenceLemmas` |
| `S3` | fs/s3, with the service and another client | |
| `MCS3` | an instance of `S3` | |
| `S3Proofs` | the safety properties of `S3`, proved | `SequenceLemmas` |
| `SequenceLemmas` | facts about numbers and sequences that the proofs share | |

The update of an object appears three times, each time with what the other two leave
out: `UpdatePlan` has the goroutines and partial failures of one plan over symbolic
files; `ObjectUpdate` has several plans, handles, crashes and the validator over real
inventories, with steps that happen whole; `Staging` has everything that goes into the
new inventory, with the plan as one step.

### UpdatePlan

A step is named after what it does: `objectRoot`, `writeDecl`, `removeDecl`,
`versionDir`, one copy for each element of `Content`, `verInventory`, `verSidecar`,
`rootInventory`, `rootSidecar`. `Rank` is the order of the plan. Copies share a
rank: the code sorts them by path, and the model lets the loop take them in any
order, which includes the sorted one.

| variable | in the code |
|---|---|
| `files` | the file each step writes or removes: `absent`, `old`, `new`, or `partial` |
| `completed`, `errs` | `state.Completed` and a non-empty `state.Err` of each step |
| `async` | the `async` flag of the copy steps, which `prepareSteps` does not restore |
| `call`, `yielded` | the running call of `runSteps` and how far its iterator got |
| `phase` | the operation of a step: not running, begun, or begun with something already changed on storage |
| `groupErr` | the error kept by the errgroup of the current run of async steps |
| `result` | what the last call returned |

| action | in the code |
|---|---|
| `Apply`, `Revert`, `RevertRefused` | the methods of the same name, up to `runSteps`; `Revert` of a completed plan |
| `Reload` | `MarshalBinary` and `UnmarshalBinary`, in between two calls |
| `Yield` | the loop takes a step: `group.Go` at its limit blocks, a sync step waits for the group |
| `Truncate`, `RemoveOne` | a `Write` that opened its file and has not filled it, a `RemoveAll` at work |
| `StepOk`, `StepFail` | the end of `PlanStep.Run` or `PlanStep.Revert` |
| `ReturnGroupErr`, `ReturnOk` | `group.Wait` with an error; the end of the loop |

`FailLeaves` says what a failing operation can leave on storage, for each direction:
nothing (always possible while it has changed nothing), a broken-off effect
(`partial`), or the whole effect (`done`). The regimes are constants because what
holds depends on them, and the theorems say exactly on which.

Left out: sizes, names and log lines; `RevertErr`, which nothing in the library
reads; the branch of the root sidecar step for a changed digest algorithm, which
`InventoryBuilder` refuses to build; a context cancelled by the caller, which is a
failing operation like any other.

`Opened` is what `NewObject` makes of the directory: with a root inventory that
parses and matches its sidecar the object is at that version, an empty directory is
an object to be created, everything else is an error.

### Pipeline

The channels are represented by where each task is. `taskQ` is unbuffered, so at
most one task is offered at a time; `resultQ` has one slot per worker. A worker's look at
`cancel` (`Check`) and its call of `workFn` (`Work`) are two steps, and so are a refused
`yield` and the closing of `cancel` (`Cancel`): `cancel` may close between the two steps
of a worker, which then finishes the task it holds. `NoNewWork` is about the tasks that no
worker had taken by then. `workFn` is opaque and always returns.

### DigestMap and Inventory

A path is a sequence of character codes because the conflict check depends on how
paths sort. A digest is a pair of a sum and a spelling; the sum stands for the content.
`Valid`, `Eq`, `Merged`, `Normalize`, `RenamePaths`, `RemovePath` follow the functions
of the same names. Sorting is stated by what it gives (`Ordered`: each position holds the
path with so many occurrences before it), not by an algorithm. `Clean` and `Join` are
`path.Clean` and `path.Join`: which elements of a path are left is stated by matching
pairs of dots with the elements they take away. `ContentPath` joins version directory,
content directory and path in this way, so that a content path with `..` can lead out of
the directory of its version, as it can in the code. `IsDigestMap`,
`IsInventory` and `IsMutation` are the Go types of those names. An inventory is a record and stands for its own bytes and digest, so
a sidecar holds the inventory it was written for. `ValidateInventory` gives the set of
codes the function of that name reports. `Finalize` is the builder, one operator for each
function: `InitialInventory`, `BuildVersions` with `WithVersion`, `FillFixity`.

### Staging

| variable | in the code |
|---|---|
| `inv`, `files` | the inventory of the handle and the content files of the object |
| `stage` | state, algorithm and sources of the `*Stage`, the version whose map it shares (`alias`), and whether its lists are those of its source (`tied`) |
| `view`, `stored`, `misused` | history: what the caller put into the stage, the versions as they were stored, the calls after which the stage is not what was meant |

`NewStage`, `StageDirFails`, `Overlay`, `OverlayFails`, `MutateStage` and `Update` are
the calls. A stage from `VersionStage` shares its map with the inventory, so a mutation
changes both. `VersionFS`, `OpenDir` and `Open` are what a reader of a version gets.

A source is a map from digests to lists of paths with the files they are paths of; it
gives the first path of a list (`SourcePath`). `newStage` puts the same slices into the
state and into the source, and the two path mutations write into the slices they are
given, so that `MutateStage` changes the lists of the source as well while the stage is
`tied` (`WrittenLists`); `Merge` copies, so an overlaid stage no longer is. After that
`GetContent` opens a file by its new name. Two flags in `misused` record what follows from
this and from a content path that leaves its directory, and the properties about content
except them:

* `source`: an update after such a mutation (`written`) with a source that does not name a
  file with the content of its digest. Without the exception TLC finds, for `{A: y, B: x}`,
  that removing `B`, renaming `A` to `B` and updating stores `x` under the digest of `y`;
  and for `{A: x}` that renaming `A` to `B` makes the update fail for want of content.
* `outside`: an update with a content path that leads out of the version's content
  directory. The inventory is accepted, the new file is not among those of the version, and
  it is never copied.

An update after a mutation that left the first path of every list a file with the right
content is not excepted.

### Validation and ObjectUpdate

`ValidateObject(dir)` is the set of codes of the fatal errors for a directory, or
`{"panic"}`; it keeps the order of the checks and the bookkeeping of known digests and
existing files, which `ValidateVersions` carries from one version to the next. `WellFormed` says without any order what a valid directory is.

`ObjectUpdate` is one object directory and the program around it. The library does not
lock, and some of its calls are unsafe in some orders, so the program follows rules,
stated at the head of the module and visible as guards: one handle at a time; a plan is
finished or reverted before the next one is made; after a crash the saved plan is
resumed, without a handle if the object does not open; a saved plan is thrown away
before its revert; plans are made with a handle whose sidecar was checked. What the
rules are for is listed under `hazards`.

| action | in the code |
|---|---|
| `NewObject(cached, skip)`, `CloseObject` | `NewObject`, with `ObjectWithInventory` and `ObjectSkipRootSidecarValidation` |
| `NewUpdatePlan` | `Object.NewUpdatePlan` and `newPlanSteps` |
| `SavePlan`, `LoadPlan` | `MarshalBinary`, `UnmarshalBinary` |
| `ApplyUpdatePlan`, `ApplyRefused`, `ApplyStep`, `ApplyReturns` | `Object.ApplyUpdatePlan` and the plan's `Apply` |
| `ResumeDirectly` | `UpdatePlan.Apply` without a handle |
| `Revert`, `UndoStep`, `RevertReturns`, `StepFails` | `UpdatePlan.Revert`; a step that fails in either direction |
| `Crash`, `Damage` | the process dies; storage loses or changes a file |

### StorageRoot and Layouts

Each read and write of `NewRoot` is a step, so a program can die between any two. An
extension is a name with a configuration; a root that is opened takes the configuration
file of its layout or the defaults. A call that runs while a root is being initialized is
marked (`overlaps`): what it returns may be half of the initialization, and `seen` leaves
it out. `Layouts` has `Valid` and `Resolve` of the five
layouts on ids that are sequences of characters. 0006 looks for its delimiter in either
case (`ToLower`). 0007 joins its tuples with `path.Join`, which keeps a slash in front: an
id that starts with one resolves to a rooted path, which `ResolveID` refuses.

### S3

One call of the backend for each behaviour, each request a step. A request succeeds,
fails, or is carried out while its answer is lost; under a cancelled context it fails.
Another client writes and removes files between any two requests. A byte records the
version and the position it was written at, so that a file put together wrongly shows.
The service is modelled from how the code uses it: a listing continues behind the last
entry of the page before, a copy of a part names a range, which is refused if the source is
not larger than `MinRange` (5 MB, s3.go:456), `CompleteMultipartUpload` wants all parts and
none but the last smaller than `MinPartSize`, `GetObject` takes an etag as a condition.
`BucketFS.Copy` copies a source in parts only above the much larger limit of `CopyObject`;
`MultiCopier.Copy`, called on its own (`MultiCopy`), does not look at the size, and
`CopiesWhatItCan` excepts it for sources of at most `MinRange`.

## Runs

| run | instance | expected | shows |
|---|---|---|---|
| `update_existing` | 3 copies, 2 goroutines, spec change, broken-off writes of `Apply` | pass | `PrefixCompleted`, `CommitPoint`, `ApplyOkIsComplete`, `ErrTellsFailure`, `CompletionFinal` |
| `update_first` | first version, 2 copies, broken-off operations in both directions | pass | `TypeOK`, `RevertOkRestores`, `CallsReturn` |
| `update_clean` | 2 copies, spec change, failures leave nothing | pass | `RevertOkRestores`, `AtomicallyUpdates` |
| `pipeline` | 5 tasks, 2 workers | pass | `NoGoroutineLeft`, `EveryResultYielded`, `NoNewWork`, `Terminates` |
| `inventory` | 4 directories, 2 other objects, 3 objects to update, 2 mutations, 3 options, stages of 2 sources | pass | `StageHoldsWhatWasMeant`, `HistoryKept`, `ContentInPlace`, `VersionReadsBack`, `ContentProvided`, `UnchangedExact` |
| `object` | up to 3 versions, 2 stages, spec changes, 1 crash, damage to one file | pass | `OpenedObjectIsWhole`, `AckedKept`, `ResolvedIsValid`, `ValidatorExact` |
| `root` | 2 programs, all layouts, ids chosen to collide | pass | `ObjectsStayFound`, `ObjectsApart` |
| `s3` | pages of 2, parts of 2 bytes or more, ranges of sources of 3 or more, at most 3 parts, files of up to 7 bytes, 2 writes of another client | pass | `FilesWhole`, `UploadsEnded`, `CopiesWhatItCan`, `RemovedAll`, `ListsAll`, `ReadsWhatWasOpened`, `CallsReturn` |
| `revert_partial` | as `update_existing`, 2 copies | violation | `RevertOkReopens` |
| `execution_stops` | 1 goroutine, 2 copies | violation | `ExecutionStops` |
| `path_conflict` | a file laid over a directory of the same name | violation | `NoPathConflict` |
| `validate_panic` | as `object` | violation | `ValidationReturns` |

Bounds. Three copies and two goroutines are enough for one copy to fail while a
second is under way and a third waits at the limit; two copies are used where the
question is about the order of calls. The plan's other steps are all there, in both
forms (first version, later version; with and without a spec change). The number of
calls is not bounded. Five tasks and two workers let the result channel fill while
both workers hold a result and the feeder offers another task. Copies are
interchangeable, so `update_existing` uses symmetry; the runs that check liveness do
not.

In `inventory` the object is updated once, from each kind of previous inventory: none,
one in upper case with reused content, one at the last number its padding allows. What
follows a second update is what follows the first from another of these. Two sources in
a stage are enough for one to hide the other. One rename and one removal are enough to
make a list of a staged directory name a missing file and another file; one of the options
has a content path that leads out of the version directory. In `object` three versions let a
plan be stale by more than one and a version inventory differ from the root's; one crash
leaves a saved plan of any age, and the process that resumes it may fail again. In `root`
two programs are enough for one to find what another left. In `s3` several pages, three
parts, two of them at a time, and the first size that does not fit into three parts of the first part
size all occur; two writes of another client empty a page or replace a file that is being
read. A second call on the same bucket would start from a bucket like the first.

Deadlock is checked except where the system ends or the bounds end it: `pipeline`,
`inventory`, `s3`, `object` and `root`.

### What the violations show

* `execution_stops`: `runSteps` throws away the errgroup that would cancel the
  context, so a failed copy does not stop the others, against the comment above it
  and the documentation of `Apply`.
* `revert_partial`: `Revert` skips the step that failed. If that step had already
  truncated the root inventory, `Revert` returns nil and the object cannot be opened.
* `path_conflict`: `validPaths` compares neighbours in sorted order only, and `a-b`
  sorts between `a` and `a/c`. An update stores a version in which `a` is a file and a
  directory.
* `validate_panic`: an update that stops between the inventory of the version directory
  and the root inventory leaves files that no inventory named before; `addInventory`
  then writes to a nil map and `ValidateObject` panics.

The first two need a storage error at a particular moment; the third needs nothing but
the three names, and the last only a crash.

## Fairness

`UpdatePlan!FairSpec` assumes only that a call that can take a step does
(`WF_vars(CallStep)`): storage operations return and goroutines are scheduled.
Nothing obliges a caller to call, and nothing obliges a write to stop in the
middle. `S3!Spec` assumes the same of requests (`WF_vars(CallStep)`): each ends, as the
HTTP client's timeouts and the context see to; the other client and the caller's
cancellation are not obliged to anything. `Pipeline!FairSpec` is weak fairness of the whole next-state relation: the Go
scheduler runs some goroutine while one can run. This is enough because every step
brings some task or goroutine closer to its end. The consumer calls the iterator to
its end or stops it; both are part of the model.

## Proofs

Checked by TLAPS for every value of the constants: every set of content paths and limit of
goroutines; any tasks and workers; every bucket, size, page size, part size and limit of
parts; every list of extensions and any number of programs; every set of staged
directories, of path mutations and of objects to start from; every set of stages for an
object, any number of versions, crashes and plans.

The plan (`UpdatePlanProofs`):

* `TypeCorrect`, `PrefixAlways`, `CompletionIsFinal`, `ErrTells`: for every `FailLeaves`.
* `CommitPointHolds`, `ApplyCompletes`: if a failing operation of `Apply` leaves at
  most a broken-off file and a failing operation of `Revert` leaves nothing. Neither
  assumption can be dropped: a step whose revert failed halfway is still marked
  completed and the next `Apply` skips it, and a write that took effect and reported an
  error is not among the steps that `Revert` undoes.
* `RevertRestores`: for a first version whatever fails, otherwise if failing
  operations leave nothing. `revert_partial` shows why a later version needs this.
* `ImplementsAtomicUpdate`: if failing operations leave nothing, `UpdatePlan` with
  `view <- Opened` implements `AtomicUpdate!Spec`.

`PrefixCompleted` is not inductive: a step of a call is
started from what the iterator has passed, not from what is completed. `ControlInv`
adds that a sync step runs alone (`Exclusive`), that nothing runs between calls
(`Quiet`), and an account of the call (`ApplyAccount`, `RevertAccount`): each step
the iterator has passed is completed, running, or an async step of a group that
failed, and all other steps lie on the far side of them in plan order. From this the loop
reaches a sync step only with everything before it completed. `DoneInv` then ties files to
steps: a completed step's file is in place (no running operation can reach it, as
`EffectSpares` shows from the order of the plan), and the new sidecar is the work of
a completed last step, whose predecessors are all completed. `FilesUndone` and
`NothingThere` are the same for the way back. The refinement maps the step that
writes the sidecar to `Publish`, the revert that brings the old files back to
`Withdraw`, and everything else on storage to `Blur` or to no step. `ErrTells` rests on
`ErrInv`: a completed step has no error, and while the group holds an error some step that
the iterator passed, and that no longer runs, has one.

The pipeline (`PipelineProofs`): `NoGoroutineLeftBehind`, `EveryResultIsYielded`,
`StopsTakingWork`. `PipelineInv` says that goroutines end in one order, that a worker
holds at most one task, and that without an early stop no task is lost. The third theorem
is `NoNewWork`, a property of behaviours: from the step that closes `cancel` on, a task
that no worker has taken stays where workFn does not reach it (`TooLate`: with the feeder,
dropped, or at a worker that has yet to look at `cancel`). That needs the invariant: a
worker that is past its look holds another task than this one.

S3 (`S3Proofs`): all six safety invariants of `S3`. The proofs share `BaseInv`: types
(`TypeOK`, one record type for each kind of call), `FileInv` (while its etag matches the
bucket holds what was opened, and the stream is at the offset of the file) and `Stored` (no
part counts as completed that the service has not). What a step does is stated once, in an
"effect" lemma for each action, and the proofs use those in place of the actions.

* `FileReads` follows from `FileInv`.
* `NoOpenUploads`: `PartsInv`, every part that was started is running or completed unless
  one failed, so that a copy without a failure has all parts when the loop ends.
* `CopiesAreMade`: `SourceInv`, the source stays as it was and no part fails by itself
  unless the source is too small for ranges, which a copy that `BucketFS.Copy` makes in
  parts is not; that `adjustPartSize` never makes more parts than allowed nor any but the
  last too small, and that they are enough, is `PartSizes`, for every size, part size,
  increment and limit.
* `FilesAreWhole`: `StoredInv`, each stored part is its range of the source. The ranges of
  the parts, one behind the other, are the whole source (`JoinedIsSource`): by induction
  over the parts.
* `RemovesAll`: `RemoveInv`, what is left to remove is on the page being deleted or behind
  the token of the next.
* `ListsEverything`: `YieldInv`, what was yielded is in order, and what stays and was not
  yielded is behind the token. Both need that keys are totally ordered as the service orders
  them, that a directory shown in place of its files keeps their place in the order, and
  that a page is the first so many of what is left.

The storage root (`StorageRootProofs`): `RootsAgree`, `ObjectsStayFound` for every list of
extensions that is `Unambiguous`. The hypothesis is needed. Nothing in `init` prevents a
caller from passing two configurations of one extension; they share a config file, the
second stays in it (root.go:239), and the root just initialized resolves with the first
while every one opened later resolves with the second. `RootInv` says that what an
initialization has written and what it has yet to write are together what its layout is
read from (`Progress`), that readers are outside of it or marked, that nothing was
returned for a directory without a declaration, and that whatever was returned has the
layout that would be read now (`Settled`). The declaration is written first, so an
initialization that failed anywhere is never begun again.

Inventories (`InventoryProofs`): `UpdateExtends`. The inventory that `NewUpdatePlan` gets
from the builder has every version of the one it starts from with the same files, its new
head has the files of the stage, its manifest names every earlier file under the same
digest. If no content path leads out of the directory of the version (`PathsInside`), new
content is in the directory of the new version only; `path.Join` cleans `..`, so this cannot
be left out. The theorem holds for every previous inventory and valid stage, with digests in either
spelling, reused content and any path mutation of the content. It rests on what `Valid` rules out (a digest in two
spellings, a path twice), on `Normalize` keeping every file, and on the arithmetic of
version numbers and their padding. Sorting is a count of occurrences, so what it keeps
follows from the theorems about cardinality.

Stages (`StagingProofs`):

* `VersionsAreKept`, `ContentIsInPlace`, `ContentIsProvided`: the invariants `HistoryKept`,
  `ContentInPlace` and `ContentProvided`. They share the inductive invariant `Kept`. The three
  properties alone are not inductive. `StagingInv` adds that the handle's inventory is sound
  (its maps are valid, its states in its manifest) unless the caller mutated a map shared
  with it; and, up to the update, that content is in version directories, with the content
  of its digests, that some source of the stage provides each digest of its state, perhaps
  in another spelling (`Supplied`), and that each source names files with the content of its
  digests unless a mutation wrote into its lists (`AllTruthful`). The spelling and such a
  mutation are the two gaps through which `ContentProvided` lets an update fail. A behaviour of `Staging`
  updates its object once (`Bound`), from any inventory of `Initial`; the theorems hold for
  every such set of sound inventories, those made by earlier updates among them.
* `VersionFilesReadBack`: every stored version opens through `VersionFS` with exactly the
  files it was stored with, but for the exceptions `source` and `outside`. This is the half of `VersionReadsBack` that is about files.
* `EqIsSameFiles`: `DigestMap.Eq`, which compares the number of digests and then looks up
  those of one side, is right for valid maps: it holds exactly if both hold the same files.
* `RefusedExactly`: an update is refused as unchanged exactly if it would store the files of
  the head again. `UnchangedIsExact` brings this to the property `UnchangedExact` of the run,
  which speaks of what the caller meant; its hypothesis is `StageHoldsWhatWasMeant`.

The object (`ObjectUpdateProofs`):

* `OpenedIsWhole` and `AcknowledgedIsKept`: the invariants `OpenedObjectIsWhole` and
  `AckedKept`. Neither is inductive. `ObjectInv` says that the inventory of the sidecar is
  the one the object has, with all its files in place, and that `inventory.json` is at most
  one update ahead of it (`DirOk`); that a plan, in memory or saved, is for the object as
  it is or as it was, and that the copies of its completed steps are there if it is the one
  begun (`PlanOk`, `Effects`); what a running call can rely on (`CallOk`); and that a
  handle that may update has the inventory of the sidecar (`HandleOk`). A stale plan
  does nothing because its base is behind the sidecar; a plan that was begun may be resumed
  because what it finds is what its own steps made. `UpdateExtends` is used where a plan is
  made: its inventory `Follows` that of the object.
* `ResolvedValid`: the invariant `ResolvedIsValid`. Once every update is finished or
  reverted, `ValidateObject` reports nothing, or the directory is empty again. `TidyInv` adds
  to `ObjectInv` what else is in the directory: each version directory has the inventory
  the object had at that version (`VersionsOk`); declarations, version inventories and
  content belong to the object or to the update that is pending and to nothing else
  (`NothingBut`); the completed steps of a plan have left their traces and, for the process
  that made the plan, the others have left none (`Traces`, `Untouched`). The last is what
  makes `Revert` clean: the process knows all that was done, which a process that loaded
  an older saved plan does not, and why the rules of the program let it revert only its own.
  Of such a directory with nothing pending, the proof follows `ValidateObject` check by check:
  the root (`RootIsFine`), the turns of the loop over the versions, by uniqueness of the
  recursive function (`TurnIsFine`, `VersionsAreFine`), the comparison of version inventories
  with the root's (`ComparesWell`), and the content (`SettledIsValid`).

These theorems leave out storage that loses or changes files by itself (`rotted`), of which
nothing but `ValidatorExact` can hold. The assumptions are those of the modules:
`StagingAssumption` and `ObjectAssumption`, types of the inputs, valid maps and
inventories, supported specs. In `Staging` the objects to start from have their content
in version directories, as every object made by the library has.

Induction. The provers cannot use the induction theorems of the library, which take a
predicate as a parameter. Where a proof needs one (the parts of a copy, the pages, the
flattening of a sequence), `SequenceLemmas` gives it for a set: a set of naturals has a
least element (from `WFMin`), so one that has zero and with each number the next has all of
an interval (`IntervalInduction`). `FlattenSeq` is defined by a recursive function;
`FlattenSteps` shows that the function exists and what it is.

Only model-checked:

* Liveness (`CallsReturn`, `Terminates`, the fairness part of `AtomicallyUpdates`): out of
  reach of the prover.
* `ObjectsApart`: it is about how five layouts encode ids character by character, with
  folds over sequences; false for ids the layouts do not tell apart, which `Promised` lists.
* `StageHoldsWhatWasMeant`: it does not hold for every set of directories and mutations. The
  check for conflicts of `path_conflict` lets a list with both `a` and `a/c` through, and
  renaming `a` then moves one of the two only; a rename to an empty path is no path. The run
  checks it on directories and mutations where neither happens.
* `VersionReadsBack`: the half about directories fails for the versions of `path_conflict`;
  the other half is `VersionFilesReadBack`.
* `ValidatorExact`: the verdict of `ValidateObject` against `WellFormed` over directories that
  storage has damaged in any of its parts, where no invariant is left to argue from. That a
  directory the library made is found valid is `ResolvedValid`.

## Further work

The hazards without a property (see their notes in `PROJECT.json`); the
listing of a storage root as one system of walk and pipeline; several handles at a time,
if the library gets a lock.

## Not modelled

* Hash functions, JSON and the text forms of version numbers and declarations: without
  state, and what can be wrong in them is in the characters. `ValidateInventoryBytes` is a
  verdict on a file.
* `fs/http` (one GET per file), the delegation in `fs/fs.go` and `fs/wrapfs.go`, path
  syntax checks, logging, the generated table of validation codes, examples, test support.
* `Root.Objects`: a walk that feeds the pipeline; both parts are modelled.
* Two handles, two initializations or two plans for one object at the same time. The
  library has no lock and no check that would exclude them; what they break is listed
  under `hazards`.
* Plans from a handle opened without the sidecar check: `sync` (object.go:405) marks an
  inventory read that way as the root inventory, and the program modelled does not use it
  for updates. `UpdateWithNewHead` (object.go:612) stores a number that nothing reads, so
  an update expected to fail on a concurrent change goes through.
* Warnings of the validator, fixity digests in its bookkeeping, changes of the digest
  algorithm between versions, padded version directories in `ValidateObject`.
