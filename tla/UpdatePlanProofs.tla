-------------------------- MODULE UpdatePlanProofs --------------------------
(***************************************************************************)
(* Theorems about UpdatePlan, for every set of content paths, group limit, *)
(* kind of update and backend.  ControlInv is the part that holds whatever *)
(* a failed operation leaves in the storage; the two invariants about file *)
(* contents each name the failures they exclude.                           *)
(***************************************************************************)
EXTENDS UpdatePlan, TLAPS

-----------------------------------------------------------------------------
\* Facts about the plan.

\* The place of each kind of step in the order of the plan.
LEMMA RankOf ==
    /\ \A s \in Content : Rank(s) = 4
    /\ Rank("objectRoot") = 0
    /\ Rank("writeDecl") = 1
    /\ Rank("removeDecl") = 2
    /\ Rank("versionDir") = 3
    /\ Rank("verInventory") = 5
    /\ Rank("verSidecar") = 6
    /\ Rank("rootInventory") = 7
    /\ Rank("rootSidecar") = 8
BY PlanAssumption DEF Rank, FixedSteps

\* A step is one of the fixed ones or the copy of a file.
LEMMA StepCases ==
    \A s \in Steps : s \in Content \/ s \in FixedSteps
BY DEF Steps, FileSteps, DeclSteps, VersionDir, FixedSteps

\* Ranks order the steps, up to the copies, and end with the root sidecar.
LEMMA RankOrder ==
    /\ \A s \in Steps : Rank(s) \in Nat
    /\ \A s \in Steps \ {"rootSidecar"} : Rank(s) < Rank("rootSidecar")
    /\ "rootSidecar" \in FileSteps
    /\ FileSteps \subseteq Steps
<1>1. \A s \in Steps : Rank(s) \in Nat
  BY RankOf, StepCases DEF FixedSteps
<1>2. \A s \in Steps \ {"rootSidecar"} : Rank(s) < Rank("rootSidecar")
  BY RankOf, StepCases DEF FixedSteps
<1> QED BY <1>1, <1>2 DEF Steps, FileSteps

\* RemoveAll only reaches files of later steps, which did not exist before.
LEMMA RemovedLater ==
    \A s \in Steps : \A f \in RemovedOnRevert(s) :
        /\ f \in FileSteps
        /\ Rank(s) < Rank(f)
        /\ Before(f) = "absent"
<1> SUFFICES ASSUME NEW s \in Steps, NEW f \in RemovedOnRevert(s)
             PROVE  f \in FileSteps /\ Rank(s) < Rank(f) /\ Before(f) = "absent"
  OBVIOUS
<1>1. CASE s = "versionDir"
  <2>1. f \in Content \cup {"verInventory", "verSidecar"}
    BY <1>1 DEF RemovedOnRevert, VersionDir
  <2> QED BY <2>1, <1>1, RankOf, PlanAssumption
          DEF FileSteps, VersionDir, Before, FixedSteps
<1>2. CASE s = "objectRoot" /\ FirstVersion
  <2>1. f \in FileSteps
    BY <1>2 DEF RemovedOnRevert
  <2>2. f # "removeDecl"
    BY <2>1, <1>2, PlanAssumption DEF FileSteps, DeclSteps, VersionDir, FixedSteps
  <2>3. f \in Content \cup (FixedSteps \ {"objectRoot", "versionDir"})
    BY <2>1 DEF FileSteps, DeclSteps, VersionDir, FixedSteps
  <2>4. Rank(s) < Rank(f)
    BY <2>3, <1>2, RankOf DEF FixedSteps
  <2> QED BY <2>1, <2>2, <2>4, <1>2 DEF Before
<1>3. CASE s # "versionDir" /\ ~(s = "objectRoot" /\ FirstVersion)
  BY <1>3 DEF RemovedOnRevert
<1> QED BY <1>1, <1>2, <1>3

\* A file is reverted to what it was.
LEMMA RevertTargetIsBefore ==
    \A s \in FileSteps : RevertTarget(s) = Before(s)
BY DEF RevertTarget, Before

FileVals == {"absent", "partial", "new"} \cup (IF FirstVersion THEN {} ELSE {"old"})

\* What a step writes, what its revert leaves and what was there are states of a file.
LEMMA TargetTypes ==
    \A s \in FileSteps :
        RunTarget(s) \in FileVals /\ RevertTarget(s) \in FileVals /\ Before(s) \in FileVals
<1> SUFFICES ASSUME NEW s \in FileSteps
             PROVE  RunTarget(s) \in FileVals /\ Before(s) \in FileVals
  BY RevertTargetIsBefore
<1>1. RunTarget(s) \in FileVals
  BY DEF RunTarget, FileVals
<1>2. s = "removeDecl" => ~FirstVersion
  BY PlanAssumption DEF FileSteps, DeclSteps, VersionDir, FixedSteps
<1>3. Before(s) \in FileVals
  BY <1>2 DEF Before, FileVals
<1> QED BY <1>1, <1>3

-----------------------------------------------------------------------------
\* Type correctness.

\* What a step leaves is again a state of the files.
LEMMA EffectType ==
    ASSUME TypeOK, NEW s \in Steps
    PROVE  Effect(s) \in [FileSteps -> FileVals]
<1>1. files \in [FileSteps -> FileVals]
  BY DEF TypeOK, FileVals
<1>2. CASE s \in FileSteps
  BY <1>1, <1>2, TargetTypes DEF Effect
<1>3. CASE s \notin FileSteps
  <2>1. Effect(s) = [f \in FileSteps |->
            IF call = "revert" /\ f \in RemovedOnRevert(s) THEN "absent" ELSE files[f]]
    BY <1>3 DEF Effect
  <2>2. "absent" \in FileVals
    BY DEF FileVals
  <2> QED BY <1>1, <2>1, <2>2
<1> QED BY <1>2, <1>3

\* The variables keep their types in every behaviour.
THEOREM TypeCorrect == Spec => []TypeOK
<1>1. Init => TypeOK
  <2> SUFFICES ASSUME Init PROVE TypeOK
    OBVIOUS
  <2>1. files \in [FileSteps -> FileVals]
    BY TargetTypes DEF Init
  <2> QED BY <2>1 DEF Init, TypeOK, FileVals
<1>2. TypeOK /\ [Next]_vars => TypeOK'
  <2> SUFFICES ASSUME TypeOK, [Next]_vars PROVE TypeOK'
    OBVIOUS
  <2>0. files \in [FileSteps -> FileVals]
    BY DEF TypeOK, FileVals
  <2>1. CASE Apply
    BY <2>1 DEF Apply, TypeOK
  <2>2. CASE Revert
    BY <2>2 DEF Revert, TypeOK
  <2>3. CASE RevertRefused
    BY <2>3 DEF RevertRefused, TypeOK
  <2>4. CASE Reload
    BY <2>4 DEF Reload, TypeOK
  <2>5. ASSUME NEW s \in Steps, Yield(s) PROVE TypeOK'
    BY <2>5 DEF Yield, TypeOK
  <2>6. ASSUME NEW s \in Steps, StepOk(s) PROVE TypeOK'
    <3>1. files' \in [FileSteps -> FileVals]
      BY <2>6, EffectType DEF StepOk
    <3> QED BY <2>6, <3>1 DEF StepOk, TypeOK, FileVals
  <2>7. ASSUME NEW s \in Steps, StepFail(s) PROVE TypeOK'
    <3>1. files' \in [FileSteps -> FileVals]
      BY <2>0, <2>7, EffectType DEF StepFail, FailOutcomes
    <3>2. /\ errs' \subseteq Steps
          /\ phase' \in [Steps -> {"idle", "begun", "touched"}]
          /\ completed' = completed /\ async' = async
      BY <2>7 DEF StepFail, TypeOK
    <3>3. /\ call' \in {"none", "apply", "revert"}
          /\ yielded' \subseteq Steps
          /\ groupErr' \in BOOLEAN
          /\ result' \in {"none", "applied", "reverted", "refused",
                         "applyFailed", "revertFailed"}
      BY <2>7 DEF StepFail, ReturnWith, TypeOK
    <3> QED BY <3>1, <3>2, <3>3 DEF TypeOK, FileVals
  <2>8. CASE ReturnGroupErr
    BY <2>8 DEF ReturnGroupErr, ReturnWith, TypeOK
  <2>9. CASE ReturnOk
    BY <2>9 DEF ReturnOk, ReturnWith, TypeOK
  <2>10. ASSUME NEW s \in Steps, Truncate(s) PROVE TypeOK'
    BY <2>10 DEF Truncate, TypeOK
  <2>11. ASSUME NEW s \in Steps, NEW f \in FileSteps, RemoveOne(s, f) PROVE TypeOK'
    BY <2>11 DEF RemoveOne, TypeOK
  <2>12. CASE UNCHANGED vars
    BY <2>12 DEF vars, TypeOK
  <2> QED BY <2>1, <2>2, <2>3, <2>4, <2>5, <2>6, <2>7, <2>8, <2>9, <2>10, <2>11, <2>12
          DEF Next, CallStep
<1> QED BY <1>1, <1>2, PTL DEF Spec

-----------------------------------------------------------------------------
(***************************************************************************)
(* The control invariant.  PrefixCompleted is not inductive: that a step   *)
(* may start needs every earlier step to be accounted for, either done, in *)
(* flight, or a failed copy of a group whose error stops the loop; that a  *)
(* step may be reverted needs every completed step to be no later.         *)
(***************************************************************************)
\* Only copies run side by side.
Exclusive == \A s \in Running : ~Async(s) => Running = {s}

\* Between calls nothing runs and the loop's state is clear.
Quiet == call = "none" => Running = {} /\ yielded = {} /\ ~groupErr

\* The step is done with, in flight, or a failed copy the group remembers.
Settled(s) == s \in Running \/ (Async(s) /\ groupErr)

\* Apply has settled every step it took from the iterator, ...
ApplyAccount ==
    call = "apply" => /\ Running \subseteq yielded \ completed
                      /\ \A s \in yielded : s \in completed \/ Settled(s)

\* ... and so has Revert, which leaves no completed step behind itself.
RevertAccount ==
    call = "revert" => /\ Running \subseteq completed \cap yielded
                       /\ \A s \in yielded : s \notin completed \/ Settled(s)
                       /\ \A s \in yielded, t \in completed : Rank(t) <= Rank(s)

\* A plan whose last step is completed is not being reverted.
NotReverting == call = "revert" => "rootSidecar" \notin completed

ControlInv ==
    /\ TypeOK
    /\ PrefixCompleted
    /\ Exclusive
    /\ Quiet
    /\ ApplyAccount
    /\ RevertAccount
    /\ NotReverting

\* How the actions change the set of running steps.
LEMMA RunningMoves ==
    ASSUME TypeOK, NEW s \in Steps
    PROVE  /\ phase' = [phase EXCEPT ![s] = "begun"] => Running' = Running \cup {s}
           /\ phase' = [phase EXCEPT ![s] = "idle"] => Running' = Running \ {s}
           /\ phase[s] # "idle" /\ phase' = [phase EXCEPT ![s] = "touched"]
                => Running' = Running
           /\ phase' = phase => Running' = Running
BY DEF TypeOK, Running

\* The invariant of the control holds at the start.
LEMMA ControlInit == Init => ControlInv
<1> SUFFICES ASSUME Init PROVE ControlInv
  OBVIOUS
<1>1. TypeOK
  BY TargetTypes DEF Init, TypeOK, FileVals
<1>2. Running = {}
  BY DEF Init, Running
<1> QED BY <1>1, <1>2 DEF Init, ControlInv, PrefixCompleted, Exclusive, Quiet,
                          ApplyAccount, RevertAccount, NotReverting

\* A call begins.
LEMMA ControlCalls ==
    ASSUME ControlInv, TypeOK', Apply \/ Revert \/ RevertRefused \/ Reload
    PROVE  ControlInv'
<1>1. /\ call = "none" /\ phase' = phase /\ completed' = completed
      /\ yielded' = yielded /\ groupErr' = groupErr
  BY DEF Apply, Revert, RevertRefused, Reload
<1>2. Running = {} /\ yielded = {} /\ ~groupErr
  BY <1>1 DEF ControlInv, Quiet
<1>3. Running' = {}
  BY <1>1, <1>2 DEF Running
<1>4. PrefixCompleted'
  BY <1>1, <1>2, <1>3 DEF ControlInv, PrefixCompleted
<1>5. NotReverting'
  <2>1. CASE Revert
    <3>1. completed # Steps /\ completed \subseteq Steps
      BY <2>1 DEF Revert, ControlInv, TypeOK
    <3>2. "rootSidecar" \in completed => \A t \in Steps : t \in completed
      BY RankOrder DEF ControlInv, PrefixCompleted
    <3> QED BY <1>1, <3>1, <3>2 DEF NotReverting
  <2>2. CASE ~Revert
    BY <2>2, <1>1 DEF Apply, RevertRefused, Reload, NotReverting
  <2> QED BY <2>1, <2>2
<1> QED BY <1>1, <1>2, <1>3, <1>4, <1>5 DEF ControlInv, Exclusive, Quiet,
                                            ApplyAccount, RevertAccount

\* The loop takes a step from the iterator.
LEMMA ControlYield ==
    ASSUME ControlInv, TypeOK', NEW s \in Steps, Yield(s)
    PROVE  ControlInv'
<1>1. /\ call' = call /\ completed' = completed /\ groupErr' = groupErr
      /\ async' = async /\ yielded' = yielded \cup {s} /\ call # "none"
      /\ s \in Steps \ yielded
      /\ call \in {"apply", "revert"}
  BY DEF Yield, NextSteps, Pending, ControlInv, TypeOK
<1>2. Running' = Running \cup {s}
  BY RunningMoves DEF Yield, ControlInv
<1>4. ~Async(s) => Running = {} /\ ~groupErr
  BY DEF Yield, MayRunSync
<1>5. Async(s) => \A t \in Running : Async(t)
  BY DEF Yield, MayGo
<1>6. \A t \in Steps : Async(t) => Rank(t) = 4
  BY RankOf DEF Async
<1>7. \A t \in Steps : Async(t)' = Async(t)
  BY <1>1 DEF Async
<1>8. call = "apply" => s \notin completed /\ \A t \in Steps \ yielded :
                            t \notin completed => Rank(s) <= Rank(t)
  BY DEF Yield, NextSteps, Pending
<1>9. call = "revert" => s \in completed /\ \A t \in Steps \ yielded :
                            t \in completed => Rank(t) <= Rank(s)
  BY DEF Yield, NextSteps, Pending
<1>10. completed \subseteq Steps /\ Running \subseteq Steps
  BY DEF ControlInv, TypeOK, Running
<1>11. PrefixCompleted'
  <2>1. CASE call = "apply"
    <3> SUFFICES ASSUME NEW t \in Steps, Rank(t) < Rank(s), t \notin completed
                 PROVE  FALSE
      BY <1>1, <1>2 DEF ControlInv, PrefixCompleted
    <3>1. t \in yielded
      BY <1>8, <2>1, RankOrder
    <3>2. Settled(t)
      BY <3>1, <2>1 DEF ControlInv, ApplyAccount
    <3>3. CASE Async(s)
      <4>1. Async(t)
        BY <3>2, <3>3, <1>5 DEF Settled
      <4> QED BY <4>1, <3>3, <1>6
    <3>4. CASE ~Async(s)
      BY <3>2, <3>4, <1>4 DEF Settled
    <3> QED BY <3>3, <3>4
  <2>2. CASE call = "revert"
    BY <1>1, <1>2, <1>9, <2>2 DEF ControlInv, PrefixCompleted
  <2> QED BY <1>1, <2>1, <2>2
<1>12. Exclusive'
  BY <1>2, <1>4, <1>5, <1>7, <1>10 DEF Exclusive
<1>13. Quiet' /\ NotReverting'
  BY <1>1 DEF Quiet, NotReverting, ControlInv
<1>14. \A t \in Steps : Settled(t) => Settled(t)'
  BY <1>1, <1>2, <1>7 DEF Settled
<1>15. Settled(s)'
  BY <1>2 DEF Settled
<1>16. ApplyAccount'
  <2> SUFFICES ASSUME call = "apply"
               PROVE  /\ Running \cup {s} \subseteq (yielded \cup {s}) \ completed
                      /\ \A t \in yielded \cup {s} : t \in completed \/ Settled(t)'
    BY <1>1, <1>2 DEF ApplyAccount
  <2>1. yielded \subseteq Steps
    BY DEF ControlInv, TypeOK
  <2> QED BY <1>8, <1>14, <1>15, <2>1 DEF ControlInv, ApplyAccount
<1>17. RevertAccount'
  <2> SUFFICES ASSUME call = "revert"
               PROVE  /\ Running \cup {s} \subseteq completed \cap (yielded \cup {s})
                      /\ \A t \in yielded \cup {s} : t \notin completed \/ Settled(t)'
                      /\ \A r \in yielded \cup {s}, t \in completed : Rank(t) <= Rank(r)
    BY <1>1, <1>2 DEF RevertAccount
  <2>1. yielded \subseteq Steps
    BY DEF ControlInv, TypeOK
  <2>2. \A t \in completed : Rank(t) <= Rank(s)
    <3> SUFFICES ASSUME NEW t \in completed, t \in yielded PROVE Rank(t) <= Rank(s)
      BY <1>9, <1>10
    <3>1. Settled(t)
      BY DEF ControlInv, RevertAccount
    <3>2. CASE Async(s)
      BY <3>1, <3>2, <1>5, <1>6, <1>10 DEF Settled
    <3>3. CASE ~Async(s)
      BY <3>1, <3>3, <1>4 DEF Settled
    <3> QED BY <3>2, <3>3
  <2> QED BY <1>9, <1>14, <1>15, <2>1, <2>2 DEF ControlInv, RevertAccount
<1> QED BY <1>11, <1>12, <1>13, <1>16, <1>17 DEF ControlInv

\* A step's operation succeeds.
LEMMA ControlStepOk ==
    ASSUME ControlInv, TypeOK', NEW s \in Steps, StepOk(s)
    PROVE  ControlInv'
<1>1. /\ call' = call /\ groupErr' = groupErr /\ async' = async
      /\ yielded' = yielded /\ s \in Running
      /\ completed' = IF call = "revert" THEN completed \ {s} ELSE completed \cup {s}
  BY DEF StepOk, Running
<1>2. Running' = Running \ {s}
  BY RunningMoves DEF StepOk, ControlInv
<1>3. call \in {"apply", "revert"} /\ completed \subseteq Steps /\ Running \subseteq Steps
  BY <1>1 DEF ControlInv, TypeOK, Quiet, Running
<1>4. \A t \in Steps : Async(t)' = Async(t)
  BY <1>1 DEF Async
<1>5. PrefixCompleted'
  <2>1. CASE call = "apply"
    BY <1>1, <1>2, <2>1 DEF ControlInv, PrefixCompleted
  <2>2. CASE call = "revert"
    <3>1. /\ Running \subseteq completed /\ s \in yielded
          /\ \A t \in completed : Rank(t) <= Rank(s)
      BY <1>1, <2>2 DEF ControlInv, RevertAccount
    <3> SUFFICES ASSUME NEW r \in completed \ {s}, NEW t \in Steps, Rank(t) < Rank(r)
                 PROVE  t \in completed \ {s}
      BY <1>1, <1>2, <2>2, <3>1 DEF PrefixCompleted
    <3>2. t \in completed
      BY DEF ControlInv, PrefixCompleted
    <3>3. t # s
      BY <3>1, <1>3, RankOrder
    <3> QED BY <3>2, <3>3
  <2> QED BY <1>3, <2>1, <2>2
<1>6. Exclusive'
  BY <1>2, <1>3, <1>4 DEF ControlInv, Exclusive
<1>7. Quiet'
  BY <1>1, <1>3 DEF Quiet
<1>8. NotReverting'
  BY <1>1 DEF ControlInv, NotReverting
<1>9. \A t \in Steps \ {s} : Settled(t) => Settled(t)'
  BY <1>1, <1>2, <1>4 DEF Settled
<1>10. yielded \subseteq Steps
  BY DEF ControlInv, TypeOK
<1>11. ApplyAccount'
  BY <1>1, <1>2, <1>9, <1>10 DEF ControlInv, ApplyAccount
<1>12. RevertAccount'
  BY <1>1, <1>2, <1>9, <1>10 DEF ControlInv, RevertAccount
<1> QED BY <1>5, <1>6, <1>7, <1>8, <1>11, <1>12 DEF ControlInv

\* A step's operation fails.
LEMMA ControlStepFail ==
    ASSUME ControlInv, TypeOK', NEW s \in Steps, StepFail(s)
    PROVE  ControlInv'
<1>1. async' = async /\ completed' = completed /\ s \in Running
  BY DEF StepFail, Running
<1>2. Running' = Running \ {s}
  BY RunningMoves DEF StepFail, ControlInv
<1>3. call \in {"apply", "revert"} /\ completed \subseteq Steps /\ Running \subseteq Steps
  BY <1>1 DEF ControlInv, TypeOK, Quiet, Running
<1>4. \A t \in Steps : Async(t)' = Async(t)
  BY <1>1 DEF Async
<1>5. PrefixCompleted' /\ Exclusive'
  BY <1>1, <1>2, <1>3, <1>4 DEF ControlInv, PrefixCompleted, Exclusive
<1>6. CASE Async(s)
  <2>1. groupErr' = TRUE /\ call' = call /\ yielded' = yielded
    BY <1>6 DEF StepFail
  <2>2. Quiet' /\ NotReverting'
    BY <2>1, <1>1, <1>3 DEF ControlInv, Quiet, NotReverting
  <2>3. \A t \in Steps : Settled(t) => Settled(t)'
    BY <2>1, <1>2, <1>4, <1>6 DEF Settled
  <2>4. yielded \subseteq Steps
    BY DEF ControlInv, TypeOK
  <2>5. ApplyAccount'
    BY <2>1, <2>3, <2>4, <1>1, <1>2 DEF ControlInv, ApplyAccount
  <2>6. RevertAccount'
    BY <2>1, <2>3, <2>4, <1>1, <1>2 DEF ControlInv, RevertAccount
  <2> QED BY <1>5, <2>2, <2>5, <2>6 DEF ControlInv
<1>7. CASE ~Async(s)
  <2>1. call' = "none" /\ yielded' = {} /\ groupErr' = FALSE
    BY <1>7 DEF StepFail, ReturnWith
  <2>2. Running' = {}
    BY <1>1, <1>2, <1>7 DEF ControlInv, Exclusive
  <2> QED BY <1>5, <2>1, <2>2 DEF ControlInv, Quiet, ApplyAccount, RevertAccount,
                                  NotReverting
<1> QED BY <1>6, <1>7

\* A call returns, or an operation is under way.
LEMMA ControlRest ==
    ASSUME ControlInv, TypeOK',
           \/ ReturnGroupErr
           \/ ReturnOk
           \/ \E s \in Steps : Truncate(s)
           \/ \E s \in Steps, f \in FileSteps : RemoveOne(s, f)
           \/ UNCHANGED vars
    PROVE  ControlInv'
<1>1. completed' = completed /\ async' = async
  BY DEF ReturnGroupErr, ReturnOk, Truncate, RemoveOne, vars
<1>2. Running' = Running
  <2>1. CASE phase' = phase
    BY <2>1 DEF Running
  <2>2. ASSUME NEW s \in Steps, phase[s] # "idle",
               phase' = [phase EXCEPT ![s] = "touched"]
        PROVE  Running' = Running
    BY <2>2, RunningMoves DEF ControlInv
  <2>3. \/ phase' = phase
        \/ \E s \in Steps : phase[s] # "idle" /\ phase' = [phase EXCEPT ![s] = "touched"]
    BY DEF ReturnGroupErr, ReturnOk, Truncate, RemoveOne, vars
  <2> QED BY <2>1, <2>2, <2>3
<1>3. \A t \in Steps : Async(t)' = Async(t)
  BY <1>1 DEF Async
<1>4. PrefixCompleted' /\ Exclusive'
  BY <1>1, <1>2, <1>3 DEF ControlInv, PrefixCompleted, Exclusive, Running
<1>5. CASE ReturnGroupErr \/ ReturnOk
  <2>1. call' = "none" /\ yielded' = {} /\ groupErr' = FALSE /\ Running = {}
    BY <1>5 DEF ReturnGroupErr, ReturnOk, ReturnWith
  <2> QED BY <1>2, <1>4, <2>1 DEF ControlInv, Quiet, ApplyAccount, RevertAccount,
                                  NotReverting
<1>6. CASE ~(ReturnGroupErr \/ ReturnOk)
  <2>1. call' = call /\ yielded' = yielded /\ groupErr' = groupErr
    BY <1>6 DEF Truncate, RemoveOne, vars
  <2>2. yielded \subseteq Steps
    BY DEF ControlInv, TypeOK
  <2>3. \A t \in Steps : Settled(t)' <=> Settled(t)
    BY <1>2, <1>3, <2>1 DEF Settled
  <2> QED BY <1>1, <1>2, <1>4, <2>1, <2>2, <2>3
          DEF ControlInv, Quiet, ApplyAccount, RevertAccount, NotReverting
<1> QED BY <1>5, <1>6

\* It holds throughout.
LEMMA ControlInvariant == Spec => []ControlInv
<1>1. ControlInv /\ TypeOK' /\ [Next]_vars => ControlInv'
  BY ControlCalls, ControlYield, ControlStepOk, ControlStepFail, ControlRest
     DEF Next, CallStep
<1> QED BY <1>1, ControlInit, TypeCorrect, PTL DEF Spec

\* Steps complete and revert in plan order in every behaviour of runSteps.
THEOREM PrefixAlways == Spec => []PrefixCompleted
<1>1. ControlInv => PrefixCompleted
  BY DEF ControlInv
<1> QED BY <1>1, ControlInvariant, PTL

\* Once every step is completed no call changes the plan or the object again:
\* Apply finds nothing to run and Revert refuses.
THEOREM CompletionIsFinal == Spec => CompletionFinal
<1>1. ControlInv /\ [Next]_vars =>
          [completed = Steps => UNCHANGED <<files, completed>>]_vars
  <2> SUFFICES ASSUME ControlInv, Next, completed = Steps
               PROVE  UNCHANGED <<files, completed>>
    BY DEF vars
  <2>1. Running = {}
    <3>1. call # "revert"
      BY RankOrder DEF ControlInv, NotReverting
    <3>2. call \in {"none", "apply"} /\ Running \subseteq Steps
      BY <3>1 DEF ControlInv, TypeOK, Running
    <3> QED BY <3>2 DEF ControlInv, Quiet, ApplyAccount
  <2>2. \A s \in Steps : phase[s] = "idle"
    BY <2>1 DEF Running
  <2> QED BY <2>2 DEF Next, CallStep, Apply, Revert, RevertRefused, Reload, Yield,
                      StepOk, StepFail, ReturnGroupErr, ReturnOk, Truncate, RemoveOne
<1> QED BY <1>1, ControlInvariant, PTL DEF Spec, CompletionFinal

-----------------------------------------------------------------------------
(***************************************************************************)
(* What completed steps leave in the storage.  This needs the failures of  *)
(* Apply to leave at most a broken-off write, and those of Revert to leave *)
(* nothing: a step whose compensation failed halfway still counts as       *)
(* completed, although its file is not what the step wrote.                *)
(***************************************************************************)
\* The file of a completed step is the one the step wrote.
FilesDone ==
    \A s \in completed \cap FileSteps : phase[s] # "touched" => files[s] = RunTarget(s)

\* The new root sidecar is the work of a completed last step.
Committed == files["rootSidecar"] = "new" => "rootSidecar" \in completed

\* Apply returns no error only when every step is completed.
AppliedAll == result = "applied" => call = "none" /\ completed = Steps

DoneInv == FilesDone /\ Committed /\ AppliedAll

\* The operation of a running step reaches no file of a completed other step.
LEMMA EffectSpares ==
    ASSUME ControlInv, NEW s \in Running, NEW f \in completed \cap FileSteps, f # s
    PROVE  /\ Effect(s)[f] = files[f]
           /\ call = "revert" => f \notin RemovedOnRevert(s)
<1>1. s \in Steps /\ f \in Steps
  BY RankOrder DEF Running
<1>2. call = "revert" => f \notin RemovedOnRevert(s)
  <2> SUFFICES ASSUME call = "revert" PROVE f \notin RemovedOnRevert(s)
    OBVIOUS
  <2>1. Rank(f) <= Rank(s)
    BY DEF ControlInv, RevertAccount
  <2> QED BY <2>1, <1>1, RemovedLater, RankOrder
<1>3. Effect(s)[f] = files[f]
  <2>1. files \in [FileSteps -> FileVals]
    BY DEF ControlInv, TypeOK, FileVals
  <2> QED BY <1>2, <2>1 DEF Effect
<1> QED BY <1>2, <1>3

\* A step that succeeds keeps what is known of the steps done.
LEMMA DoneStepOk ==
    ASSUME ControlInv, DoneInv, NEW s \in Steps, StepOk(s)
    PROVE  DoneInv'
<1>1. s \in Running /\ s \in Steps /\ files \in [FileSteps -> FileVals]
  BY DEF StepOk, Running, ControlInv, TypeOK, FileVals
<1>2. call \in {"apply", "revert"} /\ completed \subseteq Steps
  BY <1>1 DEF ControlInv, TypeOK, Quiet
<1>3. files' = Effect(s) /\ phase' = [phase EXCEPT ![s] = "idle"]
  BY DEF StepOk
<1>4. \A f \in (completed \cap FileSteps) \ {s} : files'[f] = files[f] /\ phase'[f] = phase[f]
  BY <1>1, <1>3, EffectSpares, RankOrder DEF ControlInv, TypeOK
<1>5. CASE call = "apply"
  <2>1. completed' = completed \cup {s}
    BY <1>5 DEF StepOk
  <2>2. s \in FileSteps => files'[s] = RunTarget(s)
    BY <1>1, <1>3, <1>5 DEF Effect
  <2>3. FilesDone'
    BY <1>4, <2>1, <2>2 DEF DoneInv, FilesDone
  <2>4. Committed'
    <3>1. "rootSidecar" = s \/ files'["rootSidecar"] = files["rootSidecar"]
      BY <1>1, <1>3, <1>5, RankOrder DEF Effect
    <3> QED BY <2>1, <3>1 DEF DoneInv, Committed
  <2>5. AppliedAll'
    BY <1>5 DEF StepOk, DoneInv, AppliedAll
  <2> QED BY <2>3, <2>4, <2>5 DEF DoneInv
<1>6. CASE call = "revert"
  <2>1. completed' = completed \ {s}
    BY <1>6 DEF StepOk
  <2>2. FilesDone'
    BY <1>4, <2>1 DEF DoneInv, FilesDone
  <2>3. Committed'
    <3>1. "rootSidecar" \notin completed
      BY <1>6 DEF ControlInv, NotReverting
    <3>2. s # "rootSidecar"
      BY <1>1, <1>6, <3>1 DEF ControlInv, RevertAccount
    <3>3. files'["rootSidecar"] \in {files["rootSidecar"], "absent"}
      BY <1>1, <1>3, <3>2, RankOrder DEF Effect
    <3> QED BY <3>1, <3>3 DEF DoneInv, Committed
  <2>4. AppliedAll'
    BY <1>6 DEF StepOk, DoneInv, AppliedAll
  <2> QED BY <2>2, <2>3, <2>4 DEF DoneInv
<1> QED BY <1>2, <1>5, <1>6

\* So does a step that fails.
LEMMA DoneStepFail ==
    ASSUME FailLeaves \subseteq {<<"apply", "partial">>},
           ControlInv, DoneInv, NEW s \in Steps, StepFail(s)
    PROVE  DoneInv'
<1>1. s \in Running /\ files' = files /\ completed' = completed
      /\ phase' = [phase EXCEPT ![s] = "idle"] /\ phase \in [Steps -> {"idle", "begun", "touched"}]
  BY DEF StepFail, FailOutcomes, Running, ControlInv, TypeOK
<1>2. call \in {"apply", "revert"}
  BY <1>1 DEF ControlInv, TypeOK, Quiet
<1>3. FilesDone'
  <2>1. s \in completed => phase[s] # "touched"
    <3>1. CASE call = "apply"
      BY <1>1, <3>1 DEF ControlInv, ApplyAccount
    <3>2. CASE call = "revert"
      BY <3>2, <1>1 DEF StepFail, FailOutcomes
    <3> QED BY <1>2, <3>1, <3>2
  <2> QED BY <1>1, <2>1, RankOrder DEF DoneInv, FilesDone
<1>4. Committed'
  BY <1>1 DEF DoneInv, Committed
<1>5. AppliedAll'
  BY <1>1, <1>2 DEF StepFail, ReturnWith, DoneInv, AppliedAll
<1> QED BY <1>3, <1>4, <1>5 DEF DoneInv

\* An operation is under way.
LEMMA DoneProgress ==
    ASSUME ControlInv, DoneInv, NEW s \in Steps,
           Truncate(s) \/ \E f \in FileSteps : RemoveOne(s, f)
    PROVE  DoneInv'
<1>1. /\ s \in Running /\ files \in [FileSteps -> FileVals]
      /\ phase \in [Steps -> {"idle", "begun", "touched"}]
  BY DEF Truncate, RemoveOne, Running, ControlInv, TypeOK, FileVals
<1>2. /\ completed' = completed /\ call' = call /\ result' = result
      /\ phase' = [phase EXCEPT ![s] = "touched"]
  BY DEF Truncate, RemoveOne
<1>3. PICK f \in FileSteps :
          /\ files' = [files EXCEPT ![f] = IF f = s THEN "partial" ELSE "absent"]
          /\ f # s => call = "revert" /\ f \in RemovedOnRevert(s)
  <2>1. CASE Truncate(s)
    BY <2>1 DEF Truncate, Writes
  <2>2. CASE \E f \in FileSteps : RemoveOne(s, f)
    <3>1. PICK f \in FileSteps : RemoveOne(s, f)
      BY <2>2
    <3>2. f # s
      BY <3>1, RemovedLater, RankOrder DEF RemoveOne
    <3> QED BY <3>1, <3>2 DEF RemoveOne
  <2> QED BY <2>1, <2>2
<1>4. FilesDone'
  <2> SUFFICES ASSUME NEW t \in completed \cap FileSteps, t # s
               PROVE  files'[t] = files[t] /\ phase'[t] = phase[t]
    BY <1>1, <1>2, RankOrder DEF DoneInv, FilesDone
  <2> QED BY <1>1, <1>2, <1>3, EffectSpares, RankOrder
<1>5. Committed'
  BY <1>1, <1>2, <1>3, RankOrder DEF DoneInv, Committed
<1>6. AppliedAll'
  BY <1>2 DEF DoneInv, AppliedAll
<1> QED BY <1>4, <1>5, <1>6 DEF DoneInv

\* Calls begin and return.
LEMMA DoneCalls ==
    ASSUME ControlInv, DoneInv,
           \/ Apply \/ Revert \/ RevertRefused \/ Reload
           \/ \E s \in Steps : Yield(s)
           \/ ReturnGroupErr \/ ReturnOk \/ UNCHANGED vars
    PROVE  DoneInv'
<1>1. files' = files /\ completed' = completed
  BY DEF Apply, Revert, RevertRefused, Reload, Yield, ReturnGroupErr, ReturnOk, vars
<1>2. Committed'
  BY <1>1 DEF DoneInv, Committed
<1>3. FilesDone'
  <2>1. CASE \E s \in Steps : Yield(s)
    <3>1. PICK s \in Steps : Yield(s)
      BY <2>1
    <3>2. phase[s] = "idle" \/ s \notin completed
      <4>1. call \in {"apply", "revert"} /\ s \notin yielded
        BY <3>1 DEF Yield, NextSteps, Pending, ControlInv, TypeOK
      <4>2. CASE call = "apply"
        BY <3>1, <4>2 DEF Yield, NextSteps, Pending
      <4>3. CASE call = "revert"
        <5>1. s \notin Running
          BY <4>1, <4>3 DEF ControlInv, RevertAccount
        <5> QED BY <5>1 DEF Running
      <4> QED BY <4>1, <4>2, <4>3
    <3>3. phase' = [phase EXCEPT ![s] = "begun"]
      BY <3>1 DEF Yield
    <3> QED BY <1>1, <3>2, <3>3, RankOrder DEF DoneInv, FilesDone, ControlInv, TypeOK
  <2>2. CASE ~ \E s \in Steps : Yield(s)
    <3>1. phase' = phase
      BY <2>2 DEF Apply, Revert, RevertRefused, Reload, ReturnGroupErr, ReturnOk, vars
    <3> QED BY <1>1, <3>1 DEF DoneInv, FilesDone
  <2> QED BY <2>1, <2>2
<1>4. AppliedAll'
  <2>1. CASE ReturnOk
    <3>1. call' = "none" /\ call \in {"apply", "revert"}
      BY <2>1 DEF ReturnOk, ReturnWith, ControlInv, TypeOK
    <3>2. call = "apply" => completed = Steps
      <4> SUFFICES ASSUME call = "apply", NEW s \in Steps, s \notin completed PROVE FALSE
        BY DEF ControlInv, TypeOK
      <4>1. s \in yielded
        BY <2>1 DEF ReturnOk, Pending
      <4> QED BY <2>1, <4>1 DEF ReturnOk, ControlInv, ApplyAccount, Settled
    <3> QED BY <1>1, <2>1, <3>1, <3>2 DEF ReturnOk, ReturnWith, AppliedAll
  <2>2. CASE ~ReturnOk
    BY <1>1, <2>2 DEF Apply, Revert, RevertRefused, Reload, Yield, ReturnGroupErr,
                      ReturnWith, vars, DoneInv, AppliedAll
  <2> QED BY <2>1, <2>2
<1> QED BY <1>2, <1>3, <1>4 DEF DoneInv

\* What is known of the steps done holds throughout.
LEMMA DoneInvariant ==
    ASSUME FailLeaves \subseteq {<<"apply", "partial">>}
    PROVE  Spec => []DoneInv
<1>1. Init => DoneInv
  <2> SUFFICES ASSUME Init PROVE DoneInv
    OBVIOUS
  <2>1. Before("rootSidecar") # "new"
    BY DEF Before
  <2>2. "rootSidecar" \in FileSteps
    BY RankOrder
  <2> QED BY <2>1, <2>2 DEF Init, DoneInv, FilesDone, Committed, AppliedAll
<1>2. ControlInv /\ DoneInv /\ [Next]_vars => DoneInv'
  BY DoneCalls, DoneProgress, DoneStepOk, DoneStepFail DEF Next, CallStep
<1> QED BY <1>1, <1>2, ControlInvariant, PTL DEF Spec

\* The root sidecar is the commit point: while failed writes of Apply leave at
\* most broken-off files and failed compensations leave nothing, a directory with
\* the new root sidecar holds every file of the new version.
THEOREM CommitPointHolds ==
    ASSUME FailLeaves \subseteq {<<"apply", "partial">>}
    PROVE  Spec => []CommitPoint
<1>1. ControlInv /\ DoneInv => CommitPoint
  <2> SUFFICES ASSUME ControlInv, DoneInv, files["rootSidecar"] = "new",
                      NEW f \in FileSteps
               PROVE  files[f] = RunTarget(f)
    BY DEF CommitPoint
  <2>1. "rootSidecar" \in completed
    BY DEF DoneInv, Committed
  <2>2. f \in completed
    BY <2>1, RankOrder DEF ControlInv, PrefixCompleted
  <2>3. f \notin Running
    BY <2>1, <2>2 DEF ControlInv, TypeOK, NotReverting, ApplyAccount, Quiet
  <2>4. phase[f] # "touched"
    BY <2>3, RankOrder DEF Running
  <2> QED BY <2>2, <2>4 DEF DoneInv, FilesDone
<1> QED BY <1>1, ControlInvariant, DoneInvariant, PTL

\* Under the same failures, Apply returns no error only when the object holds
\* every file of the new version, however often it failed, was reverted or was
\* reloaded before.
THEOREM ApplyCompletes ==
    ASSUME FailLeaves \subseteq {<<"apply", "partial">>}
    PROVE  Spec => []ApplyOkIsComplete
<1>1. ControlInv /\ DoneInv => ApplyOkIsComplete
  <2> SUFFICES ASSUME ControlInv, DoneInv, result = "applied", NEW f \in FileSteps
               PROVE  files[f] = RunTarget(f)
    BY DEF ApplyOkIsComplete
  <2>1. f \in completed /\ Running = {}
    BY RankOrder DEF DoneInv, AppliedAll, ControlInv, Quiet
  <2>2. phase[f] # "touched"
    BY <2>1, RankOrder DEF Running
  <2> QED BY <2>1, <2>2 DEF DoneInv, FilesDone
<1> QED BY <1>1, ControlInvariant, DoneInvariant, PTL

-----------------------------------------------------------------------------
(***************************************************************************)
(* What Revert restores.  If failed operations leave nothing behind, the   *)
(* file of every incomplete step is the one from before the update.  If    *)
(* the plan creates the object, removing the object root clears whatever   *)
(* failed operations left.                                                 *)
(***************************************************************************)
\* The file of a step that is not completed is the one from before.
FilesUndone ==
    \A s \in FileSteps \ completed : phase[s] # "touched" => files[s] = Before(s)

\* Before the first step has run, and once it is reverted, there is no object.
NothingThere == "objectRoot" \notin completed => \A f \in FileSteps : files[f] = "absent"

\* Revert returns no error only when no step is completed.
RevertedAll == result = "reverted" => call = "none" /\ completed = {}

\* That holds throughout.
LEMMA RevertedAllInvariant == Spec => []RevertedAll
<1>1. Init => RevertedAll
  BY DEF Init, RevertedAll
<1>2. ControlInv /\ RevertedAll /\ [Next]_vars => RevertedAll'
  <2> SUFFICES ASSUME ControlInv, RevertedAll, [Next]_vars PROVE RevertedAll'
    OBVIOUS
  <2>1. CASE ReturnOk
    <3>1. call' = "none" /\ call \in {"apply", "revert"} /\ completed' = completed
      BY <2>1 DEF ReturnOk, ReturnWith, ControlInv, TypeOK
    <3>2. call = "revert" => completed = {}
      <4> SUFFICES ASSUME call = "revert", NEW s \in completed PROVE FALSE
        OBVIOUS
      <4>1. s \in yielded
        BY <2>1 DEF ReturnOk, Pending, ControlInv, TypeOK
      <4> QED BY <2>1, <4>1 DEF ReturnOk, ControlInv, RevertAccount, Settled
    <3> QED BY <2>1, <3>1, <3>2 DEF ReturnOk, ReturnWith, RevertedAll
  <2>2. CASE Apply \/ Revert \/ RevertRefused \/ Reload \/ ReturnGroupErr \/ UNCHANGED vars
    BY <2>2 DEF Apply, Revert, RevertRefused, Reload, ReturnGroupErr, ReturnWith, vars,
                RevertedAll
  <2>3. ASSUME NEW s \in Steps, Yield(s) \/ StepOk(s) \/ StepFail(s) \/ Truncate(s)
                                \/ \E f \in FileSteps : RemoveOne(s, f)
        PROVE  RevertedAll'
    <3>1. result # "reverted"
      <4>1. s \in Running \/ call # "none"
        BY <2>3 DEF Yield, StepOk, StepFail, Truncate, RemoveOne, Running
      <4> QED BY <4>1 DEF ControlInv, Quiet, RevertedAll
    <3>2. result' \in {result, "applyFailed", "revertFailed"}
      BY <2>3 DEF Yield, StepOk, StepFail, Truncate, RemoveOne, ReturnWith
    <3> QED BY <3>1, <3>2 DEF RevertedAll
  <2> QED BY <2>1, <2>2, <2>3 DEF Next, CallStep
<1> QED BY <1>1, <1>2, ControlInvariant, PTL DEF Spec

\* Where a failed step leaves nothing, files not written stay as they were, throughout.
LEMMA UndoneInvariant ==
    ASSUME FailLeaves = {}
    PROVE  Spec => []FilesUndone
<1>1. Init => FilesUndone
  BY DEF Init, FilesUndone
<1>2. ControlInv /\ FilesUndone /\ [Next]_vars => FilesUndone'
  <2> SUFFICES ASSUME ControlInv, FilesUndone, [Next]_vars PROVE FilesUndone'
    OBVIOUS
  <2>0. /\ files \in [FileSteps -> FileVals] /\ FileSteps \subseteq Steps
        /\ phase \in [Steps -> {"idle", "begun", "touched"}]
    BY RankOrder DEF ControlInv, TypeOK, FileVals
  <2>1. CASE \/ Apply \/ Revert \/ RevertRefused \/ Reload \/ ReturnGroupErr \/ ReturnOk
             \/ UNCHANGED vars
    BY <2>1 DEF Apply, Revert, RevertRefused, Reload, ReturnGroupErr, ReturnOk, vars,
                FilesUndone
  <2>2. ASSUME NEW s \in Steps, Yield(s) PROVE FilesUndone'
    <3>1. files' = files /\ completed' = completed /\ phase' = [phase EXCEPT ![s] = "begun"]
      BY <2>2 DEF Yield
    <3>2. s \notin completed => phase[s] # "touched"
      <4> SUFFICES ASSUME s \notin completed, s \in Running PROVE FALSE
        BY DEF Running
      <4>1. s \notin yielded /\ call = "apply"
        BY <2>2 DEF Yield, NextSteps, Pending, ControlInv, TypeOK
      <4> QED BY <4>1 DEF ControlInv, ApplyAccount
    <3> QED BY <2>0, <3>1, <3>2 DEF FilesUndone
  <2>3. ASSUME NEW s \in Steps, StepOk(s) PROVE FilesUndone'
    <3>1. /\ files' = Effect(s) /\ phase' = [phase EXCEPT ![s] = "idle"] /\ s \in Running
          /\ completed' = IF call = "revert" THEN completed \ {s} ELSE completed \cup {s}
      BY <2>3 DEF StepOk, Running
    <3>2. call \in {"apply", "revert"}
      BY <3>1 DEF ControlInv, TypeOK, Quiet
    <3>3. \A f \in FileSteps \ {s} :
              files'[f] = files[f] \/ (f \in RemovedOnRevert(s) /\ files'[f] = "absent")
      BY <2>0, <3>1 DEF Effect
    <3>4. \A f \in FileSteps \ {s} : files[f] = Before(f) => files'[f] = Before(f)
      BY <3>3, RemovedLater
    <3>5. call = "revert" /\ s \in FileSteps => files'[s] = Before(s)
      BY <2>0, <3>1, RevertTargetIsBefore DEF Effect
    <3>6. \A f \in FileSteps \ completed : f # s => phase'[f] = phase[f]
      BY <2>0, <3>1
    <3> QED BY <3>1, <3>2, <3>4, <3>5, <3>6 DEF FilesUndone
  <2>4. ASSUME NEW s \in Steps, StepFail(s) PROVE FilesUndone'
    <3>1. /\ files' = files /\ phase[s] = "begun" /\ completed' = completed
          /\ phase' = [phase EXCEPT ![s] = "idle"]
      BY <2>4 DEF StepFail, FailOutcomes
    <3> QED BY <2>0, <3>1 DEF FilesUndone
  <2>5. ASSUME NEW s \in Steps, Truncate(s) PROVE FilesUndone'
    BY <2>0, <2>5 DEF Truncate, FilesUndone
  <2>6. ASSUME NEW s \in Steps, NEW f \in FileSteps, RemoveOne(s, f) PROVE FilesUndone'
    <3>1. Before(f) = "absent"
      BY <2>6, RemovedLater DEF RemoveOne
    <3> QED BY <2>0, <2>6, <3>1 DEF RemoveOne, FilesUndone
  <2> QED BY <2>1, <2>2, <2>3, <2>4, <2>5, <2>6 DEF Next, CallStep
<1> QED BY <1>1, <1>2, ControlInvariant, PTL DEF Spec

\* In an update that creates the object, that holds throughout.
LEMMA NothingThereInvariant ==
    ASSUME FirstVersion
    PROVE  Spec => []NothingThere
<1>0. \A f \in FileSteps : Before(f) = "absent"
  BY PlanAssumption DEF Before, FileSteps, DeclSteps, VersionDir, FixedSteps
<1>1. Init => NothingThere
  BY <1>0 DEF Init, NothingThere
<1>2. ControlInv /\ NothingThere /\ [Next]_vars => NothingThere'
  <2> SUFFICES ASSUME ControlInv, NothingThere, [Next]_vars PROVE NothingThere'
    OBVIOUS
  <2>0. files \in [FileSteps -> FileVals]
    BY DEF ControlInv, TypeOK, FileVals
  <2>1. CASE \/ Apply \/ Revert \/ RevertRefused \/ Reload \/ ReturnGroupErr \/ ReturnOk
             \/ UNCHANGED vars
    BY <2>1 DEF Apply, Revert, RevertRefused, Reload, ReturnGroupErr, ReturnOk, vars,
                NothingThere
  <2>2. ASSUME NEW s \in Steps, Yield(s) PROVE NothingThere'
    BY <2>2 DEF Yield, NothingThere
  <2>3. ASSUME NEW s \in Steps, s \in Running, s # "objectRoot"
        PROVE  "objectRoot" \in completed
    <3>1. Rank("objectRoot") < Rank(s) /\ "objectRoot" \in Steps
      BY <2>3, RankOf, StepCases DEF FixedSteps, Steps
    <3> QED BY <2>3, <3>1 DEF ControlInv, PrefixCompleted
  <2>4. "objectRoot" \notin FileSteps
    BY PlanAssumption DEF FileSteps, DeclSteps, VersionDir, FixedSteps
  <2>5. ASSUME NEW s \in Steps, StepOk(s) PROVE NothingThere'
    <3>1. s \in Running /\ files' = Effect(s)
          /\ completed' = IF call = "revert" THEN completed \ {s} ELSE completed \cup {s}
      BY <2>5 DEF StepOk, Running
    <3>2. CASE s = "objectRoot"
      BY <3>1, <3>2, <2>0, <2>4 DEF Effect, RemovedOnRevert, NothingThere
    <3>3. CASE s # "objectRoot"
      BY <3>1, <3>3, <2>3 DEF NothingThere
    <3> QED BY <3>2, <3>3
  <2>6. ASSUME NEW s \in Steps, StepFail(s) PROVE NothingThere'
    <3>1. s \in Running /\ completed' = completed /\ files' \in {files, Effect(s)}
      BY <2>6 DEF StepFail, FailOutcomes, Running
    <3>2. CASE s = "objectRoot"
      BY <3>1, <3>2, <2>0, <2>4 DEF Effect, RemovedOnRevert, NothingThere
    <3>3. CASE s # "objectRoot"
      BY <3>1, <3>3, <2>3 DEF NothingThere
    <3> QED BY <3>2, <3>3
  <2>7. ASSUME NEW s \in Steps, Truncate(s) PROVE NothingThere'
    <3>1. s \in Running /\ s # "objectRoot" /\ completed' = completed
      BY <2>7, <2>4 DEF Truncate, Writes, Running
    <3> QED BY <3>1, <2>3 DEF NothingThere
  <2>8. ASSUME NEW s \in Steps, NEW f \in FileSteps, RemoveOne(s, f) PROVE NothingThere'
    BY <2>0, <2>8 DEF RemoveOne, NothingThere
  <2> QED BY <2>1, <2>2, <2>5, <2>6, <2>7, <2>8 DEF Next, CallStep
<1> QED BY <1>1, <1>2, ControlInvariant, PTL DEF Spec

\* Revert restores the object directory it found before the update when failed
\* operations leave nothing behind, and always when the plan creates the object.
THEOREM RevertRestores ==
    ASSUME FailLeaves = {} \/ FirstVersion
    PROVE  Spec => []RevertOkRestores
<1>1. CASE FailLeaves = {}
  <2>1. ControlInv /\ RevertedAll /\ FilesUndone => RevertOkRestores
    <3> SUFFICES ASSUME ControlInv, RevertedAll, FilesUndone, result = "reverted",
                        NEW f \in FileSteps
                 PROVE  files[f] = Before(f)
      BY DEF RevertOkRestores
    <3>1. f \notin completed /\ phase[f] = "idle"
      BY RankOrder DEF RevertedAll, ControlInv, Quiet, Running
    <3> QED BY <3>1 DEF FilesUndone
  <2> QED BY <1>1, <2>1, ControlInvariant, RevertedAllInvariant, UndoneInvariant, PTL
<1>2. CASE FirstVersion
  <2>1. \A f \in FileSteps : Before(f) = "absent"
    BY <1>2, PlanAssumption DEF Before, FileSteps, DeclSteps, VersionDir, FixedSteps
  <2>2. RevertedAll /\ NothingThere => RevertOkRestores
    BY <2>1 DEF RevertedAll, NothingThere, RevertOkRestores
  <2> QED BY <1>2, <2>2, RevertedAllInvariant, NothingThereInvariant, PTL
<1> QED BY <1>1, <1>2

-----------------------------------------------------------------------------
(***************************************************************************)
(* What Plan.Err tells.  A step keeps its error until a later run of it    *)
(* succeeds, so a completed step has none.  While a call of Apply has a    *)
(* failed copy in its group, that copy still has its error: it is neither  *)
(* running any more nor handed out a second time.                          *)
(***************************************************************************)
\* Completed steps have no error.
ErrsOpen == errs \cap completed = {}

\* The error of the group is the error of a step this call is done with.
GroupErrKept == call = "apply" /\ groupErr => \E s \in errs : s \in yielded \ Running

\* A result is that of the last call, and no call is under way.
ResultKept ==
    /\ result \in {"applied", "applyFailed"} => call = "none"
    /\ result = "applied" => completed = Steps
    /\ result = "applyFailed" => errs # {}

ErrInv == ErrsOpen /\ GroupErrKept /\ ResultKept

\* A step's operation ends.
LEMMA ErrStepEnds ==
    ASSUME ControlInv, ErrInv, NEW s \in Steps, StepOk(s) \/ StepFail(s)
    PROVE  ErrInv'
<1>1. s \in Running
  BY DEF StepOk, StepFail, Running
<1>2. Running' = Running \ {s}
  BY RunningMoves DEF StepOk, StepFail, ControlInv
<1>3. call \in {"apply", "revert"}
  BY <1>1 DEF ControlInv, TypeOK, Quiet
<1>4. call = "apply" => s \in yielded /\ s \notin completed
  BY <1>1 DEF ControlInv, ApplyAccount
<1>5. result \notin {"applied", "applyFailed"}
  BY <1>3 DEF ErrInv, ResultKept
<1>6. CASE StepOk(s)
  <2>1. call' = call /\ groupErr' = groupErr /\ yielded' = yielded /\ result' = result
    BY <1>6 DEF StepOk
  <2>2. CASE call = "apply"
    <3>1. completed' = completed \cup {s} /\ errs' = errs \ {s}
      BY <1>6, <2>2 DEF StepOk
    <3>2. GroupErrKept'
      BY <1>1, <1>2, <2>1, <3>1 DEF ErrInv, GroupErrKept
    <3> QED BY <1>5, <2>1, <3>1, <3>2 DEF ErrInv, ErrsOpen, ResultKept
  <2>3. CASE call = "revert"
    <3>1. completed' = completed \ {s} /\ errs' = errs
      BY <1>6, <2>3 DEF StepOk
    <3> QED BY <1>5, <2>1, <2>3, <3>1 DEF ErrInv, ErrsOpen, GroupErrKept, ResultKept
  <2> QED BY <1>3, <2>2, <2>3
<1>7. CASE StepFail(s)
  <2>1. /\ completed' = completed
        /\ errs' = IF call = "apply" THEN errs \cup {s} ELSE errs
    BY <1>7 DEF StepFail
  <2>2. ErrsOpen'
    BY <1>4, <2>1 DEF ErrInv, ErrsOpen
  <2>3. CASE Async(s)
    <3>1. call' = call /\ yielded' = yielded /\ result' = result
      BY <1>7, <2>3 DEF StepFail
    <3>2. GroupErrKept'
      BY <1>2, <1>4, <2>1, <3>1 DEF GroupErrKept
    <3> QED BY <1>5, <2>2, <3>1, <3>2 DEF ErrInv, ResultKept
  <2>4. CASE ~Async(s)
    <3>1. /\ call' = "none"
          /\ result' = IF call = "apply" THEN "applyFailed" ELSE "revertFailed"
      BY <1>3, <1>7, <2>4 DEF StepFail, ReturnWith
    <3> QED BY <1>3, <2>1, <2>2, <3>1 DEF ErrInv, GroupErrKept, ResultKept
  <2> QED BY <2>3, <2>4
<1> QED BY <1>6, <1>7

\* A call returns after its last step.
LEMMA ErrReturns ==
    ASSUME ControlInv, ErrInv, ReturnGroupErr \/ ReturnOk
    PROVE  ErrInv'
<1>1. /\ call \in {"apply", "revert"} /\ Running = {} /\ call' = "none"
      /\ completed' = completed /\ errs' = errs
  BY DEF ReturnGroupErr, ReturnOk, ReturnWith, ControlInv, TypeOK
<1>2. CASE ReturnGroupErr
  <2>1. result' = IF call = "apply" THEN "applyFailed" ELSE "revertFailed"
    BY <1>1, <1>2 DEF ReturnGroupErr, ReturnWith
  <2>2. call = "apply" => errs # {}
    BY <1>2 DEF ReturnGroupErr, ErrInv, GroupErrKept
  <2> QED BY <1>1, <2>1, <2>2 DEF ErrInv, ErrsOpen, GroupErrKept, ResultKept
<1>3. CASE ReturnOk
  <2>1. result' = IF call = "apply" THEN "applied" ELSE "reverted"
    BY <1>1, <1>3 DEF ReturnOk, ReturnWith
  <2>2. call = "apply" => completed = Steps
    <3> SUFFICES ASSUME call = "apply", NEW s \in Steps, s \notin completed PROVE FALSE
      BY DEF ControlInv, TypeOK
    <3>1. s \in yielded
      BY <1>3 DEF ReturnOk, Pending
    <3> QED BY <1>3, <3>1 DEF ReturnOk, ControlInv, ApplyAccount, Settled
  <2> QED BY <1>1, <2>1, <2>2 DEF ErrInv, ErrsOpen, GroupErrKept, ResultKept
<1> QED BY <1>2, <1>3

\* All other steps leave the errors and what is completed alone.
LEMMA ErrRest ==
    ASSUME ControlInv, ErrInv,
           \/ Apply \/ Revert \/ RevertRefused \/ Reload
           \/ \E s \in Steps : Yield(s) \/ Truncate(s)
           \/ \E s \in Steps, f \in FileSteps : RemoveOne(s, f)
           \/ UNCHANGED vars
    PROVE  ErrInv'
<1>1. completed' = completed /\ errs' = errs /\ groupErr' = groupErr
  BY DEF Apply, Revert, RevertRefused, Reload, Yield, Truncate, RemoveOne, vars
<1>2. ResultKept'
  BY <1>1 DEF ErrInv, ResultKept, Apply, Revert, RevertRefused, Reload, Yield, Truncate,
              RemoveOne, vars
<1>3. GroupErrKept'
  <2>1. CASE Apply \/ Revert \/ RevertRefused \/ Reload
    <3>1. ~groupErr
      BY <2>1 DEF Apply, Revert, RevertRefused, Reload, ControlInv, Quiet
    <3> QED BY <1>1, <3>1 DEF GroupErrKept
  <2>2. ASSUME NEW s \in Steps, Yield(s) PROVE GroupErrKept'
    <3>1. call' = call /\ yielded' = yielded \cup {s} /\ s \notin yielded
      BY <2>2 DEF Yield, NextSteps, Pending
    <3>2. Running' = Running \cup {s}
      BY <2>2, RunningMoves DEF Yield, ControlInv
    <3> QED BY <1>1, <3>1, <3>2 DEF ErrInv, GroupErrKept
  <2>3. ASSUME NEW s \in Steps, Truncate(s) \/ \E f \in FileSteps : RemoveOne(s, f)
        PROVE  GroupErrKept'
    <3>1. call' = call /\ yielded' = yielded
      BY <2>3 DEF Truncate, RemoveOne
    <3>2. Running' = Running
      BY <2>3, RunningMoves DEF Truncate, RemoveOne, ControlInv
    <3> QED BY <1>1, <3>1, <3>2 DEF ErrInv, GroupErrKept
  <2>4. CASE UNCHANGED vars
    BY <2>4 DEF vars, Running, ErrInv, GroupErrKept
  <2> QED BY <2>1, <2>2, <2>3, <2>4
<1> QED BY <1>1, <1>2, <1>3 DEF ErrInv, ErrsOpen

\* Plan.Err is nil after every Apply that returned no error, and not nil after every one
\* that returned an error, whatever failed in the calls before it.
THEOREM ErrTells == Spec => []ErrTellsFailure
<1>1. Init => ErrInv
  BY DEF Init, ErrInv, ErrsOpen, GroupErrKept, ResultKept
<1>2. ControlInv /\ ErrInv /\ [Next]_vars => ErrInv'
  BY ErrStepEnds, ErrReturns, ErrRest DEF Next, CallStep
<1>3. ControlInv /\ ErrInv => ErrTellsFailure
  BY DEF ErrInv, ErrsOpen, ResultKept, ErrTellsFailure, ControlInv, TypeOK
<1> QED BY <1>1, <1>2, <1>3, ControlInvariant, PTL DEF Spec

-----------------------------------------------------------------------------
(* UpdatePlan implements AtomicUpdate, as seen through NewObject, when failed
   operations leave nothing behind.  Fairness is left to TLC. *)

\* The group remembers an error of Apply for as long as its copy is missing.
GroupErrHasCause ==
    call = "apply" /\ groupErr => \E s \in yielded : s \notin completed \cup Running

\* An update of an existing object never leaves it without a root inventory.
InventoryStays == ~FirstVersion => files["rootInventory"] # "absent"

\* An error of the group of copies always has a cause.
LEMMA CauseInvariant == Spec => []GroupErrHasCause
<1>1. Init => GroupErrHasCause
  BY DEF Init, GroupErrHasCause
<1>2. ControlInv /\ GroupErrHasCause /\ [Next]_vars => GroupErrHasCause'
  <2> SUFFICES ASSUME ControlInv, GroupErrHasCause, [Next]_vars PROVE GroupErrHasCause'
    OBVIOUS
  <2>1. CASE Apply \/ Revert \/ RevertRefused \/ Reload
    BY <2>1 DEF Apply, Revert, RevertRefused, Reload, GroupErrHasCause, ControlInv, Quiet
  <2>2. CASE ReturnGroupErr \/ ReturnOk
    BY <2>2 DEF ReturnGroupErr, ReturnOk, ReturnWith, GroupErrHasCause
  <2>3. CASE UNCHANGED vars
    BY <2>3 DEF vars, GroupErrHasCause, Running
  <2>4. ASSUME NEW s \in Steps, Yield(s) PROVE GroupErrHasCause'
    <3>1. Running' = Running \cup {s}
      BY <2>4, RunningMoves DEF Yield, ControlInv
    <3> QED BY <2>4, <3>1 DEF Yield, NextSteps, Pending, GroupErrHasCause
  <2>5. ASSUME NEW s \in Steps, StepOk(s) PROVE GroupErrHasCause'
    <3>1. Running' = Running \ {s} /\ s \in Running
      BY <2>5, RunningMoves DEF StepOk, ControlInv, Running
    <3> QED BY <2>5, <3>1 DEF StepOk, GroupErrHasCause
  <2>6. ASSUME NEW s \in Steps, StepFail(s) PROVE GroupErrHasCause'
    <3>1. Running' = Running \ {s} /\ s \in Running
      BY <2>6, RunningMoves DEF StepFail, ControlInv, Running
    <3>2. CASE Async(s) /\ call = "apply"
      <4>1. s \in yielded \ completed
        BY <3>1, <3>2 DEF ControlInv, ApplyAccount
      <4> QED BY <2>6, <3>1, <3>2, <4>1 DEF StepFail, GroupErrHasCause
    <3>3. CASE ~Async(s) \/ call # "apply"
      BY <2>6, <3>3 DEF StepFail, ReturnWith, GroupErrHasCause
    <3> QED BY <3>2, <3>3
  <2>7. ASSUME NEW s \in Steps, Truncate(s) \/ \E f \in FileSteps : RemoveOne(s, f)
        PROVE  GroupErrHasCause'
    <3>1. phase[s] # "idle" /\ phase' = [phase EXCEPT ![s] = "touched"]
      BY <2>7 DEF Truncate, RemoveOne
    <3>2. Running' = Running
      BY <3>1, RunningMoves DEF ControlInv
    <3> QED BY <2>7, <3>2 DEF Truncate, RemoveOne, GroupErrHasCause
  <2> QED BY <2>1, <2>2, <2>3, <2>4, <2>5, <2>6, <2>7 DEF Next, CallStep
<1> QED BY <1>1, <1>2, ControlInvariant, PTL DEF Spec

\* The root inventory of an existing object stays, whatever fails.
LEMMA InventoryStaysInvariant == Spec => []InventoryStays
<1>0. "rootInventory" \in FileSteps /\ "rootInventory" \notin VersionDir
  BY PlanAssumption DEF FileSteps, VersionDir, FixedSteps
<1>1. Init => InventoryStays
  BY <1>0 DEF Init, Before, InventoryStays
<1>2. TypeOK /\ InventoryStays /\ [Next]_vars => InventoryStays'
  <2> SUFFICES ASSUME TypeOK, InventoryStays, [Next]_vars, ~FirstVersion
               PROVE  files'["rootInventory"] # "absent"
    BY DEF InventoryStays
  <2>0. files \in [FileSteps -> FileVals] /\ files["rootInventory"] # "absent"
    BY DEF TypeOK, FileVals, InventoryStays
  <2>1. ASSUME NEW s \in Steps PROVE Effect(s)["rootInventory"] # "absent"
    BY <1>0, <2>0 DEF Effect, RunTarget, RevertTarget, RemovedOnRevert
  <2>2. ASSUME NEW s \in Steps, StepOk(s) \/ StepFail(s)
        PROVE  files'["rootInventory"] # "absent"
    BY <2>0, <2>1, <2>2 DEF StepOk, StepFail, FailOutcomes
  <2>3. ASSUME NEW s \in Steps, Truncate(s) PROVE files'["rootInventory"] # "absent"
    BY <2>0, <2>3 DEF Truncate, Writes
  <2>4. ASSUME NEW s \in Steps, NEW f \in FileSteps, RemoveOne(s, f)
        PROVE  files'["rootInventory"] # "absent"
    BY <1>0, <2>0, <2>4 DEF RemoveOne, RemovedOnRevert
  <2>5. CASE \/ Apply \/ Revert \/ RevertRefused \/ Reload \/ (\E s \in Steps : Yield(s))
             \/ ReturnGroupErr \/ ReturnOk \/ UNCHANGED vars
    BY <2>0, <2>5 DEF Apply, Revert, RevertRefused, Reload, Yield, ReturnGroupErr,
                      ReturnOk, vars
  <2> QED BY <2>2, <2>3, <2>4, <2>5 DEF Next, CallStep
<1> QED BY <1>1, <1>2, TypeCorrect, PTL DEF Spec

-----------------------------------------------------------------------------
CleanInv == ControlInv /\ DoneInv /\ FilesUndone /\ RevertedAll
            /\ GroupErrHasCause /\ InventoryStays

\* Where a failed step leaves nothing half done, all of these hold throughout.
LEMMA CleanInvariant ==
    ASSUME FailLeaves = {}
    PROVE  Spec => []CleanInv
<1>1. FailLeaves \subseteq {<<"apply", "partial">>}
  OBVIOUS
<1> QED BY <1>1, ControlInvariant, DoneInvariant, UndoneInvariant, RevertedAllInvariant,
           CauseInvariant, InventoryStaysInvariant, PTL DEF CleanInv

\* The object opens at the new version exactly when the plan is complete.
LEMMA NextIsComplete ==
    ASSUME ControlInv, DoneInv
    PROVE  Opened = "next" <=> completed = Steps
<1>1. ASSUME Opened = "next" PROVE completed = Steps
  <2>1. "rootSidecar" \in completed
    BY <1>1 DEF Opened, DoneInv, Committed
  <2> QED BY <2>1, RankOrder DEF ControlInv, PrefixCompleted, TypeOK
<1>2. ASSUME completed = Steps PROVE Opened = "next"
  <2>1. "rootSidecar" \in Steps /\ FileSteps \subseteq Steps
    BY RankOrder
  <2>2. Running = {}
    BY <1>2, <2>1 DEF ControlInv, TypeOK, NotReverting, ApplyAccount, Quiet, Running
  <2>3. \A f \in FileSteps : files[f] = RunTarget(f)
    BY <1>2, <2>1, <2>2 DEF DoneInv, FilesDone, Running
  <2>4. {"rootInventory", "rootSidecar"} \subseteq FileSteps
    BY DEF FileSteps
  <2> QED BY <2>3, <2>4 DEF Opened, RunTarget
<1> QED BY <1>1, <1>2

\* A restored object opens at the base version.
LEMMA RestoredIsBase ==
    ASSUME \A f \in FileSteps : files[f] = Before(f)
    PROVE  Opened = "base"
<1>1. {"rootInventory", "rootSidecar"} \subseteq FileSteps
  BY DEF FileSteps
<1>2. CASE FirstVersion
  <2>1. \A f \in FileSteps : Before(f) = "absent"
    BY <1>2, PlanAssumption DEF Before, FileSteps, DeclSteps, VersionDir, FixedSteps
  <2> QED BY <1>1, <2>1 DEF Opened
<1>3. CASE ~FirstVersion
  BY <1>1, <1>3 DEF Opened, Before
<1> QED BY <1>2, <1>3

\* Apply never brings the base version back.
LEMMA ApplyKeepsBroken ==
    ASSUME CleanInv, NEW s \in Steps, call = "apply",
           s \in FileSteps => \E v \in {"partial", RunTarget(s)} :
                                  files' = [files EXCEPT ![s] = v],
           s \notin FileSteps => files' = files,
           Opened' = "base"
    PROVE  Opened = "base"
<1>1. files \in [FileSteps -> FileVals]
  BY DEF CleanInv, ControlInv, TypeOK, FileVals
<1>2. {"rootInventory", "rootSidecar"} \subseteq FileSteps
  BY DEF FileSteps
<1>3. CASE s \notin FileSteps
  BY <1>3 DEF Opened
<1>4. CASE s \in FileSteps
  <2>1. PICK v \in {"partial", RunTarget(s)} : files' = [files EXCEPT ![s] = v]
    BY <1>4
  <2>2. CASE files'["rootInventory"] = "old" /\ files'["rootSidecar"] = "old"
    <3>1. v # "old"
      BY DEF RunTarget
    <3>2. files["rootInventory"] = "old" /\ files["rootSidecar"] = "old"
      BY <1>1, <1>2, <1>4, <2>1, <2>2, <3>1
    <3> QED BY <3>2 DEF Opened
  <2>3. CASE \A f \in FileSteps : files'[f] = "absent"
    <3>1. v = "absent" /\ s = "removeDecl"
      BY <1>1, <1>4, <2>1, <2>3 DEF RunTarget
    <3>2. ~FirstVersion
      BY <1>4, <3>1, PlanAssumption DEF FileSteps, DeclSteps, VersionDir, FixedSteps
    <3>3. files["rootInventory"] = "absent"
      BY <1>1, <1>2, <2>1, <2>3, <3>1
    <3> QED BY <3>2, <3>3 DEF CleanInv, InventoryStays
  <2> QED BY <2>2, <2>3 DEF Opened
<1> QED BY <1>3, <1>4

-----------------------------------------------------------------------------
\* Seen through NewObject, a plan whose failed operations leave nothing behind
\* takes only steps of an atomic update: the new version appears once, complete,
\* through Apply; an error from Apply means it has not appeared, and Revert
\* without an error means the base version is back.
THEOREM ImplementsAtomicUpdate ==
    ASSUME FailLeaves = {}
    PROVE  Spec => Abstract!Spec
<1>1. Init => Abstract!Init
  <2> SUFFICES ASSUME Init PROVE Abstract!Init
    OBVIOUS
  <2>1. \A f \in FileSteps : files[f] = Before(f)
    BY DEF Init
  <2> QED BY <2>1, RestoredIsBase DEF Init, Abstract!Init
<1>2. CleanInv /\ CleanInv' /\ [Next]_vars => [Abstract!Next]_(Abstract!vars)
  <2> SUFFICES ASSUME CleanInv, CleanInv', [Next]_vars
               PROVE  Abstract!Next \/ UNCHANGED <<Opened, call, result>>
    BY DEF Abstract!vars
  <2>0. /\ Opened = "next" <=> completed = Steps
        /\ Opened \in {"base", "next", "broken"}
        /\ Opened' \in {"base", "next", "broken"}
    BY NextIsComplete DEF CleanInv, Opened
  <2>1. files' = files => Opened' = Opened
    BY DEF Opened
  <2>2. CASE Apply
    BY <2>1, <2>2 DEF Apply, Abstract!Next, Abstract!Start
  <2>3. CASE Revert
    BY <2>0, <2>1, <2>3 DEF Revert, Abstract!Next, Abstract!Start
  <2>4. CASE RevertRefused
    BY <2>0, <2>1, <2>4 DEF RevertRefused, Abstract!Next, Abstract!Refuse
  <2>5. CASE Reload \/ UNCHANGED vars \/ \E s \in Steps : Yield(s)
    BY <2>1, <2>5 DEF Reload, vars, Yield
  <2>6. ASSUME NEW s \in Running PROVE completed # Steps /\ call \in {"apply", "revert"}
    <3>1. s \in Steps /\ call \in {"apply", "revert"}
      BY DEF Running, CleanInv, ControlInv, TypeOK, Quiet
    <3>2. "rootSidecar" \in Steps
      BY RankOrder
    <3> QED BY <3>1, <3>2 DEF CleanInv, ControlInv, ApplyAccount, NotReverting
  <2>7. ASSUME NEW s \in Steps, StepFail(s)
        PROVE  Abstract!Next \/ UNCHANGED <<Opened, call, result>>
    <3>1. s \in Running /\ files' = files
      BY <2>7 DEF StepFail, FailOutcomes, Running
    <3>2. CASE Async(s)
      BY <2>1, <2>7, <3>1, <3>2 DEF StepFail
    <3>3. CASE ~Async(s)
      BY <2>0, <2>1, <2>6, <2>7, <3>1, <3>3
         DEF StepFail, ReturnWith, Abstract!Next, Abstract!ReturnFailed
    <3> QED BY <3>2, <3>3
  <2>8. CASE ReturnGroupErr
    <3>1. call \in {"apply", "revert"} /\ files' = files /\ groupErr
      BY <2>8 DEF ReturnGroupErr, CleanInv, ControlInv, TypeOK
    <3>2. completed # Steps
      <4>1. CASE call = "apply"
        BY <3>1, <4>1 DEF CleanInv, GroupErrHasCause, ControlInv, TypeOK
      <4>2. CASE call = "revert"
        BY <4>2, RankOrder DEF CleanInv, ControlInv, NotReverting
      <4> QED BY <3>1, <4>1, <4>2
    <3> QED BY <2>0, <2>1, <2>8, <3>1, <3>2
            DEF ReturnGroupErr, ReturnWith, Abstract!Next, Abstract!ReturnFailed
  <2>9. CASE ReturnOk
    <3>1. call \in {"apply", "revert"} /\ files' = files /\ completed' = completed
          /\ call' = "none"
      BY <2>9 DEF ReturnOk, ReturnWith, CleanInv, ControlInv, TypeOK
    <3>2. CASE call = "apply"
      <4>1. result' = "applied"
        BY <2>9, <3>2 DEF ReturnOk, ReturnWith
      <4>2. completed = Steps
        BY <3>1, <4>1 DEF CleanInv, DoneInv, AppliedAll
      <4> QED BY <2>0, <2>1, <3>1, <3>2, <4>1, <4>2 DEF Abstract!Next, Abstract!ReturnOk
    <3>3. CASE call = "revert"
      <4>1. result' = "reverted"
        BY <2>9, <3>3 DEF ReturnOk, ReturnWith
      <4>2. completed = {} /\ Running = {}
        BY <2>9, <3>1, <4>1 DEF CleanInv, RevertedAll, ReturnOk
      <4>3. \A f \in FileSteps : files[f] = Before(f)
        BY <4>2, RankOrder DEF CleanInv, FilesUndone, Running
      <4>4. Opened = "base"
        BY <4>3, RestoredIsBase
      <4> QED BY <2>1, <3>1, <3>3, <4>1, <4>4 DEF Abstract!Next, Abstract!ReturnOk
    <3> QED BY <3>1, <3>2, <3>3
  <2>10. ASSUME NEW s \in Running, call' = call, result' = result,
                call = "apply" /\ Opened' = "base" => Opened = "base"
         PROVE  Abstract!Next \/ UNCHANGED <<Opened, call, result>>
    <3>1. Opened # "next" /\ call \in {"apply", "revert"}
      BY <2>0, <2>6
    <3>2. CASE call = "apply"
      BY <2>0, <2>10, <3>1, <3>2 DEF Abstract!Next, Abstract!Blur, Abstract!Publish
    <3>3. CASE call = "revert"
      <4>1. Opened' # "next"
        <5>1. "rootSidecar" \notin completed'
          BY <2>10, <3>3 DEF CleanInv, ControlInv, NotReverting
        <5> QED BY <5>1 DEF CleanInv, DoneInv, Committed, Opened
      <4> QED BY <2>0, <2>10, <3>1, <3>3, <4>1
              DEF Abstract!Next, Abstract!Blur, Abstract!Withdraw
    <3> QED BY <3>1, <3>2, <3>3
  <2>11. ASSUME NEW s \in Steps, StepOk(s)
         PROVE  Abstract!Next \/ UNCHANGED <<Opened, call, result>>
    <3>1. s \in Running /\ call' = call /\ result' = result /\ files' = Effect(s)
      BY <2>11 DEF StepOk, Running
    <3>2. files \in [FileSteps -> FileVals]
      BY DEF CleanInv, ControlInv, TypeOK, FileVals
    <3>3. ASSUME call = "apply", Opened' = "base" PROVE Opened = "base"
      <4>1. s \in FileSteps => files' = [files EXCEPT ![s] = RunTarget(s)]
        BY <3>1, <3>3 DEF Effect
      <4>2. s \notin FileSteps => files' = files
        BY <3>1, <3>2, <3>3 DEF Effect
      <4> QED BY <3>3, <4>1, <4>2, ApplyKeepsBroken
    <3> QED BY <2>10, <3>1, <3>3
  <2>12. ASSUME NEW s \in Steps, Truncate(s)
         PROVE  Abstract!Next \/ UNCHANGED <<Opened, call, result>>
    <3>1. s \in Running /\ s \in FileSteps /\ call' = call /\ result' = result
          /\ files' = [files EXCEPT ![s] = "partial"]
      BY <2>12 DEF Truncate, Writes, Running
    <3>2. ASSUME call = "apply", Opened' = "base" PROVE Opened = "base"
      BY <3>1, <3>2, ApplyKeepsBroken
    <3> QED BY <2>10, <3>1, <3>2
  <2>13. ASSUME NEW s \in Steps, NEW f \in FileSteps, RemoveOne(s, f)
         PROVE  Abstract!Next \/ UNCHANGED <<Opened, call, result>>
    <3>1. s \in Running /\ call = "revert" /\ call' = call /\ result' = result
      BY <2>13 DEF RemoveOne, Running
    <3> QED BY <2>10, <3>1
  <2> QED BY <2>2, <2>3, <2>4, <2>5, <2>7, <2>8, <2>9, <2>11, <2>12, <2>13
          DEF Next, CallStep
<1> QED BY <1>1, <1>2, CleanInvariant, PTL DEF Spec, Abstract!Spec
=============================================================================
