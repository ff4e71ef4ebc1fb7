------------------------------ MODULE MCObject ------------------------------
(***************************************************************************)
(* Instances of ObjectUpdate for TLC.                                      *)
(***************************************************************************)
EXTENDS ObjectUpdate, TLC

A == <<97>>
B == <<98>>

State(files) == DigestMapOf([p \in DOMAIN files |-> Digest(files[p], "lower")])

\* One state after the other adds a file, or has no new content.
MCStages == {State(A :> "x"), State((A :> "x") @@ (B :> "y"))}
=============================================================================
