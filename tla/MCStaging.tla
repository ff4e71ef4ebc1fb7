------------------------------ MODULE MCStaging ------------------------------
(***************************************************************************)
(* Instances of Staging for TLC.                                           *)
(***************************************************************************)
EXTENDS Staging, TLC

A == <<97>>
B == <<98>>
AC == <<97, Slash, 99>>
ADashB == <<97, Dash, 98>>
Hidden == <<Dot, 97>>

Dir(tree, alg, fixity) == [tree |-> tree, alg |-> alg, fixity |-> fixity]

\* Two contents; two files with the same; a file in a directory with the name of a file
\* of another tree; a hidden file; another digest algorithm.
MCDirs == {Dir(A :> "x", "sha512", TRUE),
           Dir((A :> "y") @@ (B :> "x") @@ (Hidden :> "y"), "sha512", FALSE),
           Dir((AC :> "y") @@ (B :> "y"), "sha512", FALSE),
           Dir(A :> "x", "sha256", FALSE)}

MCMutations == {RenameOp(A, B), RemoveOp(B)}

Opts(spec, allow, contentPath) ==
    [spec |-> spec, allowUnchanged |-> allow, contentPath |-> contentPath]

\* The last content path leads out of the version directory.
MCOptions == {Opts(0, FALSE, Identity), Opts(Spec1_1, FALSE, RenameOp(<<Dot>>, A)),
              Opts(Spec1_0, TRUE, RenameOp(<<Dot>>, <<Dot, Dot, Slash, Dot, Dot>>))}

\* The inventory of an object whose versions hold the given trees.
Built(trees, padding, fixity) ==
    LET digests == {Digest(s, "lower") : s \in {"x", "y"}}
        add(b, t) == AddVersion(b, DigestMapOf([p \in DOMAIN t |-> Digest(t[p], "lower")]),
                                "sha512")
        new == NewInventoryBuilder(Nil, "obj", Spec1_0, padding, Identity,
                                   [d \in IF fixity THEN digests ELSE {} |-> d])
        build[n \in 0 .. Len(trees)] ==
            IF n = 0 THEN new ELSE add(build[n - 1], trees[n])
    IN  Finalize(build[Len(trees)])

\* The same inventory as another program may have written it.
UpperCase(i) ==
    LET upper(m) == [d \in {Digest(e[1], "upper") : e \in DOMAIN m} |->
                        m[Digest(d[1], "lower")]]
    IN  [i EXCEPT !.spec = Spec1_1, !.manifest = upper(@),
                  !.versions = [v \in DOMAIN @ |-> upper(@[v])]]

\* No object; two versions spelled in upper case; a padded object at its last
\* possible version.
MCInitial == {Nil,
              UpperCase(Built(<<A :> "y", (A :> "y") @@ (B :> "x")>>, 0, TRUE)),
              Built([n \in 1 .. 9 |-> A :> "x"], 2, FALSE)}

MCOthers == {Built(<<A :> "y">>, 0, TRUE), UpperCase(Built(<<B :> "y">>, 0, TRUE))}

\* Directories of which one, laid over the other, uses the name of its file as a
\* directory, with a name that sorts between them.  The object has their content.
MCConflictDirs == {Dir(A :> "x", "sha512", FALSE),
                   Dir((ADashB :> "x") @@ (AC :> "x"), "sha512", FALSE)}

MCConflictInitial == {Built(<<B :> "x">>, 0, FALSE)}
=============================================================================
