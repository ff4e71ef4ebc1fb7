---------------------------- MODULE AtomicUpdate ----------------------------
(***************************************************************************)
(* What an update plan promises a caller who only ever opens the object:   *)
(* the object is at its base version, or at the next version, or cannot be *)
(* opened while a call is under way or after one failed.  The next version *)
(* appears only through Apply, once, and is never taken back; an error     *)
(* from Apply means it has not appeared.                                   *)
(***************************************************************************)
VARIABLES
    view,    \* what opening the object gives: "base", "next" or "broken"
    call,    \* the call in progress
    result   \* what the last call returned

vars == <<view, call, result>>

Init == view = "base" /\ call = "none" /\ result = "none"

\* A caller starts to apply the plan, or to revert it if it is not complete.
Start(c) ==
    /\ call = "none"
    /\ c = "revert" => view # "next"
    /\ call' = c
    /\ result' = "none"
    /\ UNCHANGED view

\* A complete plan cannot be reverted.
Refuse ==
    /\ call = "none"
    /\ view = "next"
    /\ result' = "refused"
    /\ UNCHANGED <<view, call>>

\* Files change under a reader's eyes.
Blur ==
    /\ call # "none"
    /\ view # "next"
    /\ view' = "broken"
    /\ UNCHANGED <<call, result>>

\* The commit point.
Publish ==
    /\ call = "apply"
    /\ view # "next"
    /\ view' = "next"
    /\ UNCHANGED <<call, result>>

\* The base version is back.
Withdraw ==
    /\ call = "revert"
    /\ view = "broken"
    /\ view' = "base"
    /\ UNCHANGED <<call, result>>

ReturnOk ==
    /\ \/ call = "apply" /\ view = "next" /\ result' = "applied"
       \/ call = "revert" /\ view = "base" /\ result' = "reverted"
    /\ call' = "none"
    /\ UNCHANGED view

ReturnFailed ==
    /\ view # "next"
    /\ \/ call = "apply" /\ result' = "applyFailed"
       \/ call = "revert" /\ result' = "revertFailed"
    /\ call' = "none"
    /\ UNCHANGED view

Next ==
    \/ \E c \in {"apply", "revert"} : Start(c)
    \/ Refuse
    \/ Blur
    \/ Publish
    \/ Withdraw
    \/ ReturnOk
    \/ ReturnFailed

Spec == Init /\ [][Next]_vars

\* Calls return.
FairSpec == Spec /\ WF_vars(ReturnOk \/ ReturnFailed)
=============================================================================
