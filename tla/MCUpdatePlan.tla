---------------------------- MODULE MCUpdatePlan ----------------------------
(***************************************************************************)
(* UpdatePlan on small instances: two or three content files, which are    *)
(* interchangeable except for the sorted order the model does not track.   *)
(***************************************************************************)
EXTENDS UpdatePlan, TLC

CONSTANTS f1, f2, f3

Files2 == {f1, f2}
Files3 == {f1, f2, f3}

\* Failed operations leave nothing, or broken-off writes of one or both
\* directions, or effects that were reported as errors.
Clean == {}
PartialApply == {<<"apply", "partial">>}
PartialBoth == {<<"apply", "partial">>, <<"revert", "partial">>}
PartialRevert == {<<"revert", "partial">>}
LostAck == {<<"apply", "done">>}

Perms == Permutations(Content)
=============================================================================
