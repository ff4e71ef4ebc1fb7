---------------------------- MODULE ObjectUpdate ----------------------------
(***************************************************************************)
(* An object directory and a program that updates it: NewObject,           *)
(* NewUpdatePlan, ApplyUpdatePlan, Revert, plans that are saved and loaded *)
(* (object.go, update-plan.go), processes that die at any point, and       *)
(* ValidateObject on what they leave.                                      *)
(*                                                                         *)
(* UpdatePlan has the concurrency and the partial failures of one plan;    *)
(* here the steps run one after the other, a step that fails leaves        *)
(* nothing, and a sequence of plans shares one directory.                  *)
(*                                                                         *)
(* The library does not lock.  The program modelled here keeps the rules   *)
(* it needs for that: it uses one handle at a time; it finishes or reverts *)
(* a plan before it makes the next one; after a crash it resumes the saved *)
(* plan, through a handle if the object can be opened and directly if not; *)
(* it throws a saved plan away before it reverts; it makes plans only with *)
(* a handle whose inventory was compared with the sidecar.                 *)
(***************************************************************************)
EXTENDS Validation

CONSTANTS
    Stages,     \* states of the stages the program commits
    Specs,      \* specs it asks for; 0 keeps the one of the object
    MaxHead,    \* bound: versions of the object
    MaxCrashes, \* bound: crashes
    Rot         \* whether storage may lose or change one file

ASSUME ObjectAssumption ==
    /\ \A s \in Stages : IsDigestMap(s) /\ Valid(s)
    /\ Specs \subseteq {0} \cup Supported
    /\ MaxHead \in Nat \ {0}
    /\ MaxCrashes \in Nat
    /\ Rot \in BOOLEAN

VARIABLES
    dir,       \* the object directory
    handle,    \* the *Object: [open, inv, isRoot, checked]
    plan,      \* the *UpdatePlan: [base, next, steps, done, call, own]
    saved,     \* the plan in its binary form, or NoPlan
    inflight,  \* history: inventory of the update begun and not resolved, or Nil
    acked,     \* history: inventories of the updates that were acknowledged
    crashes,   \* crashes so far
    rotted     \* storage has lost or changed a file

vars == <<dir, handle, plan, saved, inflight, acked, crashes, rotted>>

Closed == [open |-> FALSE, inv |-> Nil, isRoot |-> FALSE, checked |-> FALSE]
NoPlan == [base |-> Nil, next |-> Nil, steps |-> <<>>, done |-> 0, call |-> "none",
           own |-> FALSE]

Init ==
    /\ dir = EmptyDir(MaxHead)
    /\ handle = Closed
    /\ plan = NoPlan
    /\ saved = NoPlan
    /\ inflight = Nil
    /\ acked = {}
    /\ crashes = 0
    /\ rotted = FALSE

-----------------------------------------------------------------------------
(* Opening an object *)

\* The inventory of the new handle: the one given, or else read by sync.
OpenedInventory(cached) == IF Exists(cached) THEN cached ELSE dir.inv

\* NewObject returns no error.
OpenOk(cached, skipSidecar) ==
    LET inv == OpenedInventory(cached)
    IN  /\ ~Unreadable(inv)
        /\ IF Exists(inv) THEN skipSidecar \/ SidecarOk(inv, dir.side)
                          ELSE EmptyState(ParseObjectDir(dir))

\* NewObject.  sync marks what it read as the root inventory, checked or not.
NewObject(cached, skipSidecar) ==
    /\ ~handle.open
    /\ ~rotted
    /\ plan.call = "none"
    /\ OpenOk(cached, skipSidecar)
    /\ handle' = [open |-> TRUE, inv |-> OpenedInventory(cached),
                  isRoot |-> Exists(OpenedInventory(cached)) /\ (~skipSidecar \/ ~Exists(cached)),
                  checked |-> ~skipSidecar]
    /\ UNCHANGED <<dir, plan, saved, inflight, acked, crashes, rotted>>

CloseObject ==
    /\ handle.open
    /\ plan.call = "none"
    /\ handle' = Closed
    /\ UNCHANGED <<dir, plan, saved, inflight, acked, crashes, rotted>>

\* Object.ReadOnly
ReadOnly == Exists(handle.inv) /\ ~handle.isRoot

-----------------------------------------------------------------------------
(* Plans *)

Step(op, arg) == [op |-> op, arg |-> arg]

\* updateDeclarationSteps
DeclarationSteps(base, next) ==
    IF base.spec = next.spec THEN <<>>
    ELSE <<Step("writeDecl", next.spec)>>
         \o (IF base.spec = 0 THEN <<>> ELSE <<Step("removeDecl", base.spec)>>)

\* updateVersionContentsSteps
ContentSteps(next) ==
    LET paths == SortedSet(DOMAIN VersionContent(next, next.head))
    IN  [i \in DOMAIN paths |-> Step("copy", paths[i])]

\* updateInventorySteps
InventorySteps == <<Step("verInventory", 0), Step("verSidecar", 0),
                    Step("rootInventory", 0), Step("rootSidecar", 0)>>

\* Mutant: the inventories are written before the content.
NewPlanStepsInventoryFirst(base, next) ==
    <<Step("objectRoot", 0)>> \o DeclarationSteps(base, next)
    \o <<Step("versionDir", 0)>> \o InventorySteps \o ContentSteps(next)

\* newPlanSteps
NewPlanSteps(base, next) ==
    <<Step("objectRoot", 0)>> \o DeclarationSteps(base, next)
    \o <<Step("versionDir", 0)>> \o ContentSteps(next) \o InventorySteps

With(f, x, y) == [z \in DOMAIN f \cup {x} |-> IF z = x THEN y ELSE f[z]]

\* The directory after the run function of step s.
RunStep(d, p, s) ==
    LET n == p.next.head.num
    IN  IF s.op = "writeDecl" THEN [d EXCEPT !.decls = With(@, s.arg, TRUE)]
        ELSE IF s.op = "removeDecl" THEN [d EXCEPT !.decls = SE!Restrict(@, DOMAIN @ \ {s.arg})]
        ELSE IF s.op = "copy"
             THEN [d EXCEPT !.content = With(@, s.arg, DigestFor(p.next.manifest, s.arg)[1])]
        ELSE IF s.op = "verInventory" THEN [d EXCEPT !.vinv[n] = p.next]
        ELSE IF s.op = "verSidecar" THEN [d EXCEPT !.vside[n] = p.next]
        ELSE IF s.op = "rootInventory" THEN [d EXCEPT !.inv = p.next]
        ELSE IF s.op = "rootSidecar" THEN [d EXCEPT !.side = p.next]
        ELSE d

\* Mutant: the old declaration is not written again.
RevertStepNoDecl(d, p, s) ==
    LET n == p.next.head.num
    IN  IF s.op = "objectRoot" THEN (IF n = 1 THEN EmptyDir(MaxHead) ELSE d)
        ELSE IF s.op = "writeDecl" THEN [d EXCEPT !.decls = SE!Restrict(@, DOMAIN @ \ {s.arg})]
        ELSE IF s.op = "versionDir"
             THEN [d EXCEPT !.content = SE!Restrict(@, DOMAIN @ \ ContentIn(d, n)),
                            !.vinv[n] = Nil, !.vside[n] = Nil]
        ELSE IF s.op = "copy" THEN [d EXCEPT !.content = SE!Restrict(@, DOMAIN @ \ {s.arg})]
        ELSE IF s.op = "verInventory" THEN [d EXCEPT !.vinv[n] = Nil]
        ELSE IF s.op = "verSidecar" THEN [d EXCEPT !.vside[n] = Nil]
        ELSE IF s.op = "rootInventory" THEN [d EXCEPT !.inv = p.base]
        ELSE d

\* The directory after the revert function of step s.
RevertStep(d, p, s) ==
    LET n == p.next.head.num
    IN  IF s.op = "objectRoot" THEN (IF n = 1 THEN EmptyDir(MaxHead) ELSE d)
        ELSE IF s.op = "writeDecl" THEN [d EXCEPT !.decls = SE!Restrict(@, DOMAIN @ \ {s.arg})]
        ELSE IF s.op = "removeDecl" THEN [d EXCEPT !.decls = With(@, s.arg, TRUE)]
        ELSE IF s.op = "versionDir"
             THEN [d EXCEPT !.content = SE!Restrict(@, DOMAIN @ \ ContentIn(d, n)),
                            !.vinv[n] = Nil, !.vside[n] = Nil, !.strays = @ \ {n}]
        ELSE IF s.op = "copy" THEN [d EXCEPT !.content = SE!Restrict(@, DOMAIN @ \ {s.arg})]
        ELSE IF s.op = "verInventory" THEN [d EXCEPT !.vinv[n] = Nil]
        ELSE IF s.op = "verSidecar" THEN [d EXCEPT !.vside[n] = Nil]
        ELSE IF s.op = "rootInventory" THEN [d EXCEPT !.inv = p.base]
        ELSE [d EXCEPT !.side = p.base]

\* The inventory NewUpdatePlan builds for the handle.
NextInventory(stage, spec) ==
    Finalize(AddVersion(NewInventoryBuilder(handle.inv, "obj", spec, 0, Identity, <<>>),
                        stage, "sha512"))

\* Object.NewUpdatePlan
NewUpdatePlan(stage, spec) ==
    LET next == NextInventory(stage, spec)
    IN  /\ handle.open /\ handle.checked
        /\ plan = NoPlan
        /\ inflight = Nil
        /\ handle.inv.head.num < MaxHead
        /\ Exists(next)
        /\ ~ (Exists(handle.inv) /\ Eq(handle.inv.versions[handle.inv.head], stage))
        /\ next.spec >= handle.inv.spec
        /\ plan' = [base |-> handle.inv, next |-> next,
                    steps |-> NewPlanSteps(handle.inv, next), done |-> 0, call |-> "none",
                    own |-> TRUE]
        /\ UNCHANGED <<dir, handle, saved, inflight, acked, crashes, rotted>>

\* UpdatePlan.MarshalBinary: the program saves a plan between two calls.
SavePlan ==
    /\ plan # NoPlan
    /\ plan.call = "none"
    /\ saved' = plan
    /\ UNCHANGED <<dir, handle, plan, inflight, acked, crashes, rotted>>

\* UpdatePlan.UnmarshalBinary, by a program that has no plan in memory.
LoadPlan ==
    /\ plan = NoPlan
    /\ ~rotted
    /\ saved # NoPlan
    /\ plan' = [saved EXCEPT !.own = FALSE]
    /\ UNCHANGED <<dir, handle, saved, inflight, acked, crashes, rotted>>

\* Mutant: the plan is not compared with the inventory of the handle.
PlanIsCurrentAlways == TRUE

\* ApplyUpdatePlan compares the base of the plan with the inventory in memory.
PlanIsCurrent == plan.base = handle.inv

\* The plan is the update that was begun, or none was.
OwnPlan == inflight \in {Nil, plan.next}

\* ApplyUpdatePlan starts to run the steps.
ApplyUpdatePlan ==
    /\ handle.open
    /\ plan # NoPlan /\ plan.call = "none"
    /\ OwnPlan
    /\ ~ReadOnly
    /\ PlanIsCurrent
    /\ plan' = [plan EXCEPT !.call = "apply"]
    /\ inflight' = plan.next
    /\ UNCHANGED <<dir, handle, saved, acked, crashes, rotted>>

\* ApplyUpdatePlan refuses the plan.  If the program sees that the object is at the
\* new version already, the update counts as done.
ApplyRefused ==
    /\ handle.open
    /\ plan # NoPlan /\ plan.call = "none"
    /\ ReadOnly \/ ~PlanIsCurrent
    /\ LET found == ~ReadOnly /\ handle.checked /\ handle.inv = plan.next
       IN  /\ inflight' = IF found /\ inflight = plan.next THEN Nil ELSE inflight
           /\ acked' = IF found THEN acked \cup {plan.next} ELSE acked
    /\ plan' = NoPlan
    /\ UNCHANGED <<dir, handle, saved, crashes, rotted>>

\* UpdatePlan.Apply without a handle, for an object that cannot be opened.
ResumeDirectly ==
    /\ ~handle.open
    /\ plan # NoPlan /\ plan.call = "none"
    /\ inflight = plan.next
    /\ ~OpenOk(Nil, FALSE)
    /\ plan' = [plan EXCEPT !.call = "apply"]
    /\ UNCHANGED <<dir, handle, saved, inflight, acked, crashes, rotted>>

\* A step of Apply runs.
ApplyStep ==
    /\ plan.call = "apply"
    /\ plan.done < Len(plan.steps)
    /\ dir' = RunStep(dir, plan, plan.steps[plan.done + 1])
    /\ plan' = [plan EXCEPT !.done = @ + 1]
    /\ UNCHANGED <<handle, saved, inflight, acked, crashes, rotted>>

\* A step fails, in Apply or in Revert, and the call returns its error.
StepFails ==
    /\ \/ plan.call = "apply" /\ plan.done < Len(plan.steps)
       \/ plan.call = "revert" /\ plan.done > 0
    /\ plan' = [plan EXCEPT !.call = "none"]
    /\ UNCHANGED <<dir, handle, saved, inflight, acked, crashes, rotted>>

\* Apply returns, and ApplyUpdatePlan sets the inventory of the handle.
ApplyReturns ==
    /\ plan.call = "apply"
    /\ plan.done = Len(plan.steps)
    /\ handle' = IF handle.open
                 THEN [handle EXCEPT !.inv = plan.next, !.isRoot = TRUE, !.checked = TRUE]
                 ELSE handle
    /\ plan' = NoPlan
    /\ inflight' = Nil
    /\ acked' = acked \cup {plan.next}
    /\ UNCHANGED <<dir, saved, crashes, rotted>>

\* UpdatePlan.Revert of a plan that this process made and not all of whose steps are
\* completed; the program throws its saved plan away first.
Revert ==
    /\ plan # NoPlan /\ plan.call = "none"
    /\ plan.own
    /\ plan.done < Len(plan.steps)
    /\ plan' = [plan EXCEPT !.call = "revert"]
    /\ saved' = NoPlan
    /\ UNCHANGED <<dir, handle, inflight, acked, crashes, rotted>>

\* A step of Revert runs.
UndoStep ==
    /\ plan.call = "revert"
    /\ plan.done > 0
    /\ dir' = RevertStep(dir, plan, plan.steps[plan.done])
    /\ plan' = [plan EXCEPT !.done = @ - 1]
    /\ UNCHANGED <<handle, saved, inflight, acked, crashes, rotted>>

\* Revert returns nil.
RevertReturns ==
    /\ plan.call = "revert"
    /\ plan.done = 0
    /\ plan' = NoPlan
    /\ inflight' = Nil
    /\ UNCHANGED <<dir, handle, saved, acked, crashes, rotted>>

\* The process dies; the saved plan and the directory remain.
Crash ==
    /\ crashes < MaxCrashes
    /\ ~rotted
    /\ handle' = Closed
    /\ plan' = NoPlan
    /\ crashes' = crashes + 1
    /\ UNCHANGED <<dir, saved, inflight, acked, rotted>>

-----------------------------------------------------------------------------
\* What storage may do to one file of the directory.
Damages ==
    LET nums == {n \in DOMAIN dir.vinv : Exists(dir.vinv[n])}
        others == {dir.vinv[n] : n \in nums}
    IN       {[dir EXCEPT !.content = SE!Restrict(@, DOMAIN @ \ {p})] : p \in DOMAIN dir.content}
        \cup {[dir EXCEPT !.content[p] = "rot"] : p \in DOMAIN dir.content}
        \cup {[dir EXCEPT !.content = With(@, ContentPath(V(n, 0), <<Dash>>), "x")] : n \in nums}
        \cup {[dir EXCEPT !.inv = i] : i \in {Nil, Garbled} \cup others}
        \cup {[dir EXCEPT !.side = i] : i \in {Nil, Garbled} \cup others}
        \cup {[dir EXCEPT !.inv = i, !.side = i] : i \in others}
        \cup {[dir EXCEPT !.vinv[n] = i] : n \in nums, i \in {Nil, Garbled} \cup others}
        \cup {[dir EXCEPT !.vside[n] = i] : n \in nums, i \in {Nil, Garbled} \cup others}
        \cup {[dir EXCEPT !.vinv[n] = i, !.vside[n] = i] : n \in nums, i \in {Nil} \cup others}
        \cup {[dir EXCEPT !.decls = d] : d \in {<<>>, With(dir.decls, Spec1_0, TRUE),
                                               [s \in DOMAIN dir.decls |-> FALSE]}}
        \cup {[dir EXCEPT !.strays = {n}] : n \in {0} \cup nums}
        \cup {[dir EXCEPT !.exts = e] : e \in {{"known"}, {"file"}}}

\* Bound: one damage, to an object nobody works on, and nothing after it.
Damage ==
    /\ Rot
    /\ ~rotted
    /\ plan = NoPlan
    /\ inflight = Nil
    /\ ~handle.open
    /\ Exists(dir.inv)
    /\ crashes = 0
    /\ \E d \in Damages \ {dir} : dir' = d
    /\ rotted' = TRUE
    /\ UNCHANGED <<handle, plan, saved, inflight, acked, crashes>>

Next ==
    \/ \E cached \in {Nil} \cup acked, skip \in BOOLEAN : NewObject(cached, skip)
    \/ CloseObject
    \/ \E stage \in Stages, spec \in Specs : NewUpdatePlan(stage, spec)
    \/ SavePlan \/ LoadPlan
    \/ ApplyUpdatePlan \/ ApplyRefused \/ ResumeDirectly
    \/ ApplyStep \/ StepFails \/ ApplyReturns
    \/ Revert \/ UndoStep \/ RevertReturns
    \/ Crash
    \/ Damage

Spec == Init /\ [][Next]_vars

-----------------------------------------------------------------------------
(* Properties *)

\* d holds the file of every content path of the inventory.
HasContentOf(d, inv) ==
    \A p \in PathSet(inv.manifest) :
        p \in DOMAIN d.content /\ d.content[p] = DigestFor(inv.manifest, p)[1]

\* Whatever was begun, resumed or reverted, and wherever a process died: an object
\* that NewObject opens has every file its inventory names.
OpenedObjectIsWhole ==
    (~rotted /\ OpenOk(Nil, FALSE)) => HasContentOf(dir, dir.inv)

\* The version of an acknowledged update stays in the object, with its files: no
\* plan made for an older state of the object is applied over it.
AckedKept ==
    ~rotted => \A a \in acked :
        /\ a.head \in DOMAIN dir.inv.versions
        /\ dir.inv.versions[a.head] = a.versions[a.head]
        /\ HasContentOf(dir, a)

\* When every update was finished or reverted, ValidateObject has nothing to report,
\* or the directory is empty again.
ResolvedIsValid ==
    (~rotted /\ plan.call = "none" /\ inflight = Nil) =>
        \/ dir = EmptyDir(MaxHead)
        \/ ValidateObject(dir) = {}

\* ValidateObject accepts a directory exactly if it is well formed: at every point
\* of an update and after damage to any one of its files.
ValidatorExact == ValidateObject(dir) = {} <=> WellFormed(dir)

\* "ValidateObject fully validates the OCFL Object at dir in fsys": it returns, on
\* whatever an update that was broken off leaves.
ValidationReturns == ValidateObject(dir) # {"panic"}
=============================================================================
