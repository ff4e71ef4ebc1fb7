----------------------------- MODULE UpdatePlan -----------------------------
(***************************************************************************)
(* An UpdatePlan (update-plan.go): the ordered list of steps that takes an *)
(* OCFL object from its current inventory to the next version, the state   *)
(* each step keeps, and runSteps, which runs the incomplete steps forward  *)
(* (Apply) or the completed ones backward (Revert).                        *)
(*                                                                         *)
(* A step touches at most one file, so files are named after their step;   *)
(* only the two directory steps have no file of their own.  What is in a   *)
(* file is abstracted to what a reader can tell apart: nothing, the bytes  *)
(* of the previous version, the bytes of the new version, or a write that  *)
(* was broken off ("partial").  The copy steps of the plan are the         *)
(* elements of Content, the content paths of the new version.              *)
(***************************************************************************)
EXTENDS Naturals, FiniteSets

CONSTANTS
    Content,       \* content paths new in this version
    FirstVersion,  \* the plan creates the object (newHead is 1)
    SpecChange,    \* the new version declares another OCFL spec
    GoLimit,       \* goroutines of an async group
    AtomicWrites,  \* the backend replaces a file in one step (S3, not local)
    FailLeaves     \* what a failed operation may leave behind

FixedSteps == {"objectRoot", "writeDecl", "removeDecl", "versionDir",
               "verInventory", "verSidecar", "rootInventory", "rootSidecar"}

(***************************************************************************)
(* <<"apply", "partial">> is in FailLeaves when a write of Apply can fail  *)
(* after it truncated the file, <<"apply", "done">> when it can report an  *)
(* error although it took effect (a failed Close, a lost response); the    *)
(* same for the compensating operations of "revert".                       *)
(***************************************************************************)
ASSUME PlanAssumption ==
    /\ IsFiniteSet(Content)
    /\ Content \cap FixedSteps = {}
    /\ FirstVersion \in BOOLEAN
    /\ SpecChange \in BOOLEAN
    /\ FirstVersion => SpecChange
    /\ GoLimit \in Nat \ {0}
    /\ AtomicWrites \in BOOLEAN
    /\ FailLeaves \subseteq {"apply", "revert"} \X {"partial", "done"}

VARIABLES
    files,      \* what the object directory holds, by the step that writes it
    completed,  \* steps whose state.Completed is set
    errs,       \* steps whose state.Err is not empty
    async,      \* copy steps carry the async flag
    call,       \* the call in progress: "none", "apply" or "revert"
    yielded,    \* steps the iterator has handed to the loop of this call
    phase,      \* progress of each step's operation within the call
    groupErr,   \* a step of the async group returned an error
    result      \* what the last call returned

vars == <<files, completed, errs, async, call, yielded, phase, groupErr, result>>

-----------------------------------------------------------------------------
\* The plan (newPlanSteps and the functions it appends steps from).

DeclSteps ==
    {s \in {"writeDecl", "removeDecl"} :
        SpecChange /\ (s = "removeDecl" => ~FirstVersion)}

VersionDir == Content \cup {"verInventory", "verSidecar"}

FileSteps == DeclSteps \cup VersionDir \cup {"rootInventory", "rootSidecar"}

Steps == FileSteps \cup {"objectRoot", "versionDir"}

\* Mutant: the root inventory is written before the version directory is.
RankRootFirst(s) ==
    IF s \in Content THEN 6
    ELSE [objectRoot |-> 0, writeDecl |-> 1, removeDecl |-> 2, versionDir |-> 3,
          rootInventory |-> 4, rootSidecar |-> 5,
          verInventory |-> 7, verSidecar |-> 8][s]

\* Position of a step in the plan.  The copies share one: they are sorted by
\* path, and nothing depends on which path comes first.
Rank(s) ==
    IF s \in Content THEN 4
    ELSE [objectRoot |-> 0, writeDecl |-> 1, removeDecl |-> 2, versionDir |-> 3,
          verInventory |-> 5, verSidecar |-> 6,
          rootInventory |-> 7, rootSidecar |-> 8][s]

\* The file of each step before the update.
Before(s) ==
    IF s = "removeDecl" \/ (s \in {"rootInventory", "rootSidecar"} /\ ~FirstVersion)
    THEN "old" ELSE "absent"

\* The file of each step once the step has run.
RunTarget(s) == IF s = "removeDecl" THEN "absent" ELSE "new"

\* Mutant: the root files are always rewritten from the old inventory.
RevertTargetNoV1(s) ==
    IF s \in {"removeDecl", "rootInventory", "rootSidecar"} THEN "old" ELSE "absent"

\* Mutant: the old root files are removed instead of rewritten.
RevertTargetRemove(s) == IF s = "removeDecl" THEN "old" ELSE "absent"

\* The file of each step once the step has been reverted.
RevertTarget(s) ==
    IF s \in {"rootInventory", "rootSidecar"}
    THEN IF FirstVersion THEN "absent" ELSE "old"
    ELSE IF s = "removeDecl" THEN "old" ELSE "absent"

\* Mutant: reverting a first version leaves the object root in place.
RemovedOnRevertNoRoot(s) == IF s = "versionDir" THEN VersionDir ELSE {}

\* The files that reverting a directory step removes.
RemovedOnRevert(s) ==
    IF s = "versionDir" THEN VersionDir
    ELSE IF s = "objectRoot" /\ FirstVersion THEN FileSteps
    ELSE {}

-----------------------------------------------------------------------------
\* The loop of runSteps over IncompleteSteps or CompletedSteps.

Running == {s \in Steps : phase[s] # "idle"}

Async(s) == async /\ s \in Content

\* Steps the iterator has yet to consider and will not skip.
Pending == {s \in Steps \ yielded : (s \in completed) <=> (call = "revert")}

\* Mutant: Revert runs the completed steps in plan order.
NextStepsForward ==
    {s \in Pending : \A t \in Pending : Rank(s) <= Rank(t)}

\* What the iterator yields next: forward for Apply, backward for Revert.
NextSteps ==
    {s \in Pending : \A t \in Pending :
        IF call = "revert" THEN Rank(s) >= Rank(t) ELSE Rank(s) <= Rank(t)}

\* group.Go blocks while the group is at its limit; a sync step blocks the loop.
MayGo == /\ \A t \in Running : Async(t)
         /\ Cardinality(Running) < GoLimit

\* Mutant: the error of the group is not looked at before the next sync step.
MayRunSyncNoErr == Running = {}

\* A sync step waits for the group and needs it to have succeeded.
MayRunSync == Running = {} /\ ~groupErr

\* The operation step s performs in the current call writes a file.
Writes(s) ==
    /\ s \in FileSteps
    /\ IF call = "revert" THEN RevertTarget(s) # "absent"
                          ELSE RunTarget(s) # "absent"

\* The object directory after the operation of step s in the current call.
Effect(s) ==
    IF s \in FileSteps
    THEN [files EXCEPT ![s] = IF call = "revert" THEN RevertTarget(s)
                                                 ELSE RunTarget(s)]
    ELSE [f \in FileSteps |->
            IF call = "revert" /\ f \in RemovedOnRevert(s) THEN "absent"
                                                           ELSE files[f]]

\* The no-op run functions, and the no-op revert of the object root, cannot fail.
CanFail(s) ==
    s \in FileSteps \/ (call = "revert" /\ RemovedOnRevert(s) # {})

\* runSteps returns to Apply or Revert, which return to the caller.
ReturnWith(ok) ==
    /\ call' = "none"
    /\ result' = IF call = "apply" THEN (IF ok THEN "applied" ELSE "applyFailed")
                                   ELSE (IF ok THEN "reverted" ELSE "revertFailed")
    /\ yielded' = {}
    /\ groupErr' = FALSE

-----------------------------------------------------------------------------
Init ==
    /\ files = [f \in FileSteps |-> Before(f)]
    /\ completed = {}
    /\ errs = {}
    /\ async = TRUE
    /\ call = "none"
    /\ yielded = {}
    /\ phase = [s \in Steps |-> "idle"]
    /\ groupErr = FALSE
    /\ result = "none"

\* UpdatePlan.Apply is called.
Apply ==
    /\ call = "none"
    /\ call' = "apply"
    /\ result' = "none"
    /\ UNCHANGED <<files, completed, errs, async, yielded, phase, groupErr>>

\* Mutant: Revert does not refuse a plan that ran to completion.
RevertAlways ==
    /\ call = "none"
    /\ call' = "revert"
    /\ result' = "none"
    /\ UNCHANGED <<files, completed, errs, async, yielded, phase, groupErr>>

\* UpdatePlan.Revert is called on a plan with incomplete steps ...
Revert ==
    /\ call = "none"
    /\ completed # Steps
    /\ call' = "revert"
    /\ result' = "none"
    /\ UNCHANGED <<files, completed, errs, async, yielded, phase, groupErr>>

\* ... and on a completed one, where it returns ErrRevertUpdate.
RevertRefused ==
    /\ call = "none"
    /\ completed = Steps
    /\ result' = "refused"
    /\ UNCHANGED <<files, completed, errs, async, call, yielded, phase, groupErr>>

\* MarshalBinary in one process and UnmarshalBinary in the next: prepareSteps
\* restores run and revert of each step but not its async flag.
Reload ==
    /\ call = "none"
    /\ async' = FALSE
    /\ UNCHANGED <<files, completed, errs, call, yielded, phase, groupErr, result>>

\* The loop takes step s from the iterator and starts its operation.
Yield(s) ==
    /\ call # "none"
    /\ s \in NextSteps
    /\ IF Async(s) THEN MayGo ELSE MayRunSync
    /\ yielded' = yielded \cup {s}
    /\ phase' = [phase EXCEPT ![s] = "begun"]
    /\ UNCHANGED <<files, completed, errs, async, call, groupErr, result>>

\* A write in progress: the file is truncated and not yet rewritten.
Truncate(s) ==
    /\ phase[s] = "begun"
    /\ ~AtomicWrites
    /\ Writes(s)
    /\ files' = [files EXCEPT ![s] = "partial"]
    /\ phase' = [phase EXCEPT ![s] = "touched"]
    /\ UNCHANGED <<completed, errs, async, call, yielded, groupErr, result>>

\* RemoveAll in progress: one of the files is gone.
RemoveOne(s, f) ==
    /\ phase[s] # "idle"
    /\ call = "revert"
    /\ f \in RemovedOnRevert(s)
    /\ files[f] # "absent"
    /\ files' = [files EXCEPT ![f] = "absent"]
    /\ phase' = [phase EXCEPT ![s] = "touched"]
    /\ UNCHANGED <<completed, errs, async, call, yielded, groupErr, result>>

\* Mutant: the step is marked completed before its file is in place.
StepOkEarly(s) ==
    /\ phase[s] # "idle"
    /\ IF call = "revert"
       THEN /\ files' = Effect(s)
            /\ completed' = completed \ {s}
            /\ errs' = errs
       ELSE /\ files' = IF phase[s] = "touched" THEN files ELSE Effect(s)
            /\ completed' = completed \cup {s}
            /\ errs' = errs \ {s}
    /\ phase' = [phase EXCEPT ![s] = "idle"]
    /\ UNCHANGED <<async, call, yielded, groupErr, result>>

\* Mutant: Run does not clear the error of an earlier attempt.
StepOkKeepsErr(s) ==
    /\ phase[s] # "idle"
    /\ files' = Effect(s)
    /\ completed' = IF call = "revert" THEN completed \ {s} ELSE completed \cup {s}
    /\ phase' = [phase EXCEPT ![s] = "idle"]
    /\ UNCHANGED <<errs, async, call, yielded, groupErr, result>>

\* The operation of step s succeeds (the end of PlanStep.Run or .Revert).
StepOk(s) ==
    /\ phase[s] # "idle"
    /\ files' = Effect(s)
    /\ IF call = "revert"
       THEN completed' = completed \ {s} /\ errs' = errs
       ELSE completed' = completed \cup {s} /\ errs' = errs \ {s}
    /\ phase' = [phase EXCEPT ![s] = "idle"]
    /\ UNCHANGED <<async, call, yielded, groupErr, result>>

\* What a failing operation of step s can leave of the object directory.
FailOutcomes(s) ==
    (IF phase[s] = "begun" \/ <<call, "partial">> \in FailLeaves
     THEN {files} ELSE {})
    \cup (IF <<call, "done">> \in FailLeaves THEN {Effect(s)} ELSE {})

\* Mutant: a failed copy is handed out again in the same call.
StepFailAgain(s) ==
    /\ phase[s] # "idle"
    /\ CanFail(s)
    /\ files' \in FailOutcomes(s)
    /\ errs' = IF call = "apply" THEN errs \cup {s} ELSE errs
    /\ phase' = [phase EXCEPT ![s] = "idle"]
    /\ IF Async(s)
       THEN groupErr' = TRUE /\ yielded' = yielded \ {s} /\ UNCHANGED <<call, result>>
       ELSE ReturnWith(FALSE)
    /\ UNCHANGED <<completed, async>>

\* The operation of step s fails.  Run records the error; a sync step makes the
\* call return, an async one only marks the group.
StepFail(s) ==
    /\ phase[s] # "idle"
    /\ CanFail(s)
    /\ files' \in FailOutcomes(s)
    /\ errs' = IF call = "apply" THEN errs \cup {s} ELSE errs
    /\ phase' = [phase EXCEPT ![s] = "idle"]
    /\ IF Async(s)
       THEN groupErr' = TRUE /\ UNCHANGED <<call, yielded, result>>
       ELSE ReturnWith(FALSE)
    /\ UNCHANGED <<completed, async>>

\* group.Wait returns the error of the group: before the next sync step, or
\* after the last step.
ReturnGroupErr ==
    /\ call # "none"
    /\ Running = {}
    /\ groupErr
    /\ \A s \in NextSteps : ~Async(s)
    /\ ReturnWith(FALSE)
    /\ UNCHANGED <<files, completed, errs, async, phase>>

\* The iterator is exhausted and nothing failed.
ReturnOk ==
    /\ call # "none"
    /\ Running = {}
    /\ ~groupErr
    /\ Pending = {}
    /\ ReturnWith(TRUE)
    /\ UNCHANGED <<files, completed, errs, async, phase>>

CallStep ==
    \/ \E s \in Steps : Yield(s) \/ StepOk(s) \/ StepFail(s)
    \/ ReturnGroupErr
    \/ ReturnOk

Next ==
    \/ Apply
    \/ Revert
    \/ RevertRefused
    \/ Reload
    \/ CallStep
    \/ \E s \in Steps : Truncate(s)
    \/ \E s \in Steps, f \in FileSteps : RemoveOne(s, f)

Spec == Init /\ [][Next]_vars

\* Storage operations return and goroutines are scheduled, so a call that can
\* proceed does.  Nothing obliges the caller to call.
FairSpec == Spec /\ WF_vars(CallStep)

-----------------------------------------------------------------------------
\* What NewObject finds in the object directory: it parses the root inventory,
\* compares its digest with the sidecar, and without an inventory accepts only an
\* empty directory.
Opened ==
    LET inventory == files["rootInventory"]
        sidecar == files["rootSidecar"]
    IN  IF inventory = "new" /\ sidecar = "new" THEN "next"
        ELSE IF \/ inventory = "old" /\ sidecar = "old"
                \/ \A f \in FileSteps : files[f] = "absent"
             THEN "base"
             ELSE "broken"

-----------------------------------------------------------------------------
(* Properties *)

\* The variables have their types, and the storage never holds bytes of a
\* previous version when there is none.
TypeOK ==
    /\ files \in [FileSteps -> {"absent", "partial", "new"}
                                 \cup (IF FirstVersion THEN {} ELSE {"old"})]
    /\ completed \subseteq Steps
    /\ errs \subseteq Steps
    /\ async \in BOOLEAN
    /\ call \in {"none", "apply", "revert"}
    /\ yielded \subseteq Steps
    /\ phase \in [Steps -> {"idle", "begun", "touched"}]
    /\ groupErr \in BOOLEAN
    /\ result \in {"none", "applied", "reverted", "refused",
                   "applyFailed", "revertFailed"}

\* Steps complete and revert in plan order, whatever fails and however calls of
\* Apply and Revert follow each other: every step before a completed or running
\* one is completed.  Resuming and reverting a plan both rely on it.
PrefixCompleted ==
    \A s \in completed \cup Running, t \in Steps :
        Rank(t) < Rank(s) => t \in completed

\* The root sidecar is the commit point: NewObject accepts the new root
\* inventory only together with its sidecar, and whenever the sidecar is the new
\* one, every file of the new version is in place.
CommitPoint ==
    files["rootSidecar"] = "new" => \A f \in FileSteps : files[f] = RunTarget(f)

\* When Apply returns no error the object is exactly the new version.
ApplyOkIsComplete ==
    result = "applied" => \A f \in FileSteps : files[f] = RunTarget(f)

\* When Revert returns no error the object is exactly what it was before.
RevertOkRestores ==
    result = "reverted" => \A f \in FileSteps : files[f] = Before(f)

\* When Revert returns no error the object opens at its previous version (or as
\* the empty directory of an object that does not exist).
RevertOkReopens == result = "reverted" => Opened = "base"

\* Plan.Err is nil after an Apply that returned no error and is not nil after
\* one that did: callers decide between retry and revert with it.
ErrTellsFailure ==
    /\ result = "applied" => errs = {}
    /\ result = "applyFailed" => errs # {}

\* A completed update is final: no call changes the object or the plan again.
CompletionFinal ==
    [][completed = Steps => UNCHANGED <<files, completed>>]_vars

\* Every call of Apply and of Revert returns.
CallsReturn == (call # "none") ~> (call = "none")

\* "If any step in the UpdatePlan results in an error, execution stops": no
\* step starts after another one failed.
ExecutionStops ==
    [][groupErr => \A s \in Steps : phase[s] = "idle" => phase'[s] = "idle"]_vars

\* Seen through NewObject, a plan whose failed operations leave nothing behind is
\* an atomic update: all of the new version or none of it, reported as such.
Abstract == INSTANCE AtomicUpdate WITH view <- Opened
AtomicallyUpdates == Abstract!FairSpec
=============================================================================
