----------------------------- MODULE StorageRoot -----------------------------
(***************************************************************************)
(* NewRoot (root.go): programs that initialize and open one storage root.  *)
(* Every read and write of the directory is a step of its own; a write may *)
(* fail, and a program may die, between any two of them.                   *)
(*                                                                         *)
(* A root handle keeps the layout it was opened with, and the layout       *)
(* decides where an object is: two handles with different layouts do not   *)
(* find each other's objects.                                              *)
(***************************************************************************)
EXTENDS Layouts, FiniteSets

CONSTANTS
    Procs,      \* programs
    InitArgs,   \* lists of extensions given to InitRoot
    Defaults,   \* configuration of an extension that has no config file, by name
    Junk        \* other files that may be in the directory

ASSUME RootAssumption ==
    \A args \in InitArgs :
        /\ args \in Seq({args[i] : i \in DOMAIN args})
        /\ \A i \in DOMAIN args : args[i].layout \in BOOLEAN /\ args[i].name \in DOMAIN Defaults

VARIABLES
    decl,      \* the directory has a storage root declaration
    junk,      \* other files in it
    layout,    \* extension named by ocfl_layout.json, or NoLayout
    configs,   \* extension config files: name -> extension
    call,      \* the NewRoot call of each program
    handle,    \* the *Root of each program
    seen       \* history: layouts of the roots that were returned outside of an
               \* initialization

vars == <<decl, junk, layout, configs, call, handle, seen>>

NoLayout == [name |-> "", config |-> <<>>, layout |-> FALSE]
Idle == [at |-> "idle", writes |-> <<>>, layout |-> NoLayout, overlaps |-> FALSE]
NoHandle == [open |-> FALSE, layout |-> NoLayout]

\* A program is initializing the root.
Initializing == \E p \in Procs : call[p].at = "init"

Entries == (IF decl THEN {"decl"} ELSE {}) \cup junk
           \cup (IF layout # NoLayout.name THEN {"layout"} ELSE {})
           \cup (IF configs # <<>> THEN {"extensions"} ELSE {})

Init ==
    /\ decl = FALSE
    /\ junk \in SUBSET Junk
    /\ layout = NoLayout.name
    /\ configs = <<>>
    /\ call = [p \in Procs |-> Idle]
    /\ handle = [p \in Procs |-> NoHandle]
    /\ seen = {}

-----------------------------------------------------------------------------
\* The first layout among the extensions of InitRoot, NoLayout without one.
FirstLayout(args) ==
    IF \E i \in DOMAIN args : args[i].layout
    THEN args[SE!SelectInSeq(args, LAMBDA e : e.layout)]
    ELSE NoLayout

\* init: the files in the order in which they are written; setLayout writes the
\* layout file and then the configuration of the layout.
InitWrites(args) ==
    LET first == SE!SelectInSeq(args, LAMBDA e : e.layout)
        config(e) == [file |-> "config", ext |-> e]
    IN  <<[file |-> "decl", ext |-> NoLayout]>>
        \o SE!FlattenSeq([i \in DOMAIN args |->
              IF i = first THEN <<[file |-> "layout", ext |-> args[i]], config(args[i])>>
                           ELSE <<config(args[i])>>])

\* Mutant: a root without a layout is initialized again.
MayInitNoLayout == layout = NoLayout.name

\* NewRoot initializes an empty directory only.
MayInit == Entries = {}

Start(p, at, writes, asked) ==
    call' = [q \in Procs |->
        IF q = p THEN [at |-> at, writes |-> writes, layout |-> asked,
                       overlaps |-> Initializing]
        ELSE [call[q] EXCEPT !.overlaps = @ \/ (at = "init" /\ call[q] # Idle)]]

\* NewRoot with InitRoot reads the directory.  Programs that may initialize the root
\* take turns: the library does not lock.
NewRootInit(p, args) ==
    /\ call[p] = Idle
    /\ ~Initializing
    /\ MayInit
    /\ Start(p, "init", InitWrites(args), FirstLayout(args))
    /\ handle' = [handle EXCEPT ![p] = NoHandle]
    /\ UNCHANGED <<decl, junk, layout, configs, seen>>

\* The next write of init.
InitWrite(p) ==
    /\ call[p].at = "init"
    /\ call[p].writes # <<>>
    /\ LET w == Head(call[p].writes)
       IN  /\ decl' = (decl \/ w.file = "decl")
           /\ layout' = IF w.file = "layout" THEN w.ext.name ELSE layout
           /\ configs' = IF w.file = "config"
                         THEN [n \in DOMAIN configs \cup {w.ext.name} |->
                                  IF n = w.ext.name THEN w.ext ELSE configs[n]]
                         ELSE configs
    /\ call' = [call EXCEPT ![p].writes = Tail(@)]
    /\ UNCHANGED <<junk, handle, seen>>

\* A read or a write of NewRoot fails, or its program dies.
NewRootFails(p) ==
    /\ call[p] # Idle
    /\ call' = [call EXCEPT ![p] = Idle]
    /\ UNCHANGED <<decl, junk, layout, configs, handle, seen>>

\* NewRoot returns a root with layout l.
Returns(p, l) ==
    /\ handle' = [handle EXCEPT ![p] = [open |-> TRUE, layout |-> l]]
    /\ call' = [call EXCEPT ![p] = Idle]
    /\ seen' = IF call[p].overlaps THEN seen ELSE seen \cup {l}

InitReturns(p) ==
    /\ call[p].at = "init"
    /\ call[p].writes = <<>>
    /\ Returns(p, call[p].layout)
    /\ UNCHANGED <<decl, junk, layout, configs>>

\* NewRoot reads a directory that it does not initialize; FindNamaste finds the
\* declaration.
NewRootOpen(p) ==
    /\ call[p] = Idle
    /\ decl
    /\ Start(p, "layout", <<>>, NoLayout)
    /\ handle' = [handle EXCEPT ![p] = NoHandle]
    /\ UNCHANGED <<decl, junk, layout, configs, seen>>

\* getLayout reads the layout file; without it the root has no layout.
ReadLayoutConfig(p) ==
    /\ call[p].at = "layout"
    /\ IF layout = NoLayout.name
       THEN Returns(p, NoLayout)
       ELSE /\ call' = [call EXCEPT ![p].at = "config",
                                    ![p].layout = [NoLayout EXCEPT !.name = layout]]
            /\ UNCHANGED <<handle, seen>>
    /\ UNCHANGED <<decl, junk, layout, configs>>

\* getLayout reads the config file of the layout, or takes the defaults; NewRoot fails
\* when the extension is not a layout or the configuration is not valid.
ReadExtensionConfig(p) ==
    /\ call[p].at = "config"
    /\ LET name == call[p].layout.name
           ext == IF name \in DOMAIN configs THEN configs[name] ELSE Defaults[name]
       IN  IF ext.layout /\ Valid(ext) THEN Returns(p, ext)
           ELSE call' = [call EXCEPT ![p] = Idle] /\ UNCHANGED <<handle, seen>>
    /\ UNCHANGED <<decl, junk, layout, configs>>

Next == \E p \in Procs :
    \/ \E args \in InitArgs : NewRootInit(p, args)
    \/ InitWrite(p)
    \/ InitReturns(p)
    \/ NewRootOpen(p)
    \/ ReadLayoutConfig(p)
    \/ ReadExtensionConfig(p)
    \/ NewRootFails(p)

Spec == Init /\ [][Next]_vars

-----------------------------------------------------------------------------
(* Properties *)

\* Root.ResolveID: ErrLayoutUndefined without a layout, and no path that is not valid.
ResolveID(l, id) ==
    IF l = NoLayout THEN Failed
    ELSE LET r == Resolve(l, id) IN IF r.ok /\ ValidPath(r.path) THEN r ELSE Failed

\* An object stored through one root is found through every other: all roots that
\* NewRoot returned resolve identifiers alike, after however many initializations that
\* failed halfway.  A call that overlaps an initialization may see half of it.
ObjectsStayFound == Cardinality({[i \in Ids |-> ResolveID(l, i)] : l \in seen}) <= 1

\* No object is stored inside of another one or in its place: a root resolves two
\* identifiers to paths of which neither contains the other, for all that its layout
\* can tell apart, identifiers that look encoded and ones that are cut off included.
ObjectsApart ==
    \A l \in seen : \A i, j \in Ids :
        LET p == ResolveID(l, i)
            q == ResolveID(l, j)
        IN  i # j /\ p.ok /\ q.ok /\ Promised(l, i, j) => Apart(p.path, q.path)
=============================================================================
