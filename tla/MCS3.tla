-------------------------------- MODULE MCS3 --------------------------------
(***************************************************************************)
(* An instance of S3 for TLC: a directory of four entries, one of them a   *)
(* directory, in pages of two; copies of up to seven bytes in at most      *)
(* three parts of two or more bytes.                                       *)
(***************************************************************************)
EXTENDS S3, TLC

Src == <<2>>
Dst == <<3>>

MCDirs == {<<>>, <<1>>}
MCTargets == {Src, Dst}
MCKeys == {<<1, 1>>, <<1, 2, 1>>, <<1, 2, 2>>, <<1, 3>>, Src, Dst}

\* Buckets for copies and reads, with sources of all sizes up to the one that no longer
\* fits into three parts of the first size, and buckets for listings.
MCBuckets ==
    {Src :> n : n \in 0..7}
    \cup {[k \in ks |-> 1] : ks \in {MCKeys \ MCTargets, {<<1, 1>>, <<1, 2, 1>>, <<1, 3>>, Dst}}}
=============================================================================
