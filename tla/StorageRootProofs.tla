-------------------------- MODULE StorageRootProofs --------------------------
(***************************************************************************)
(* Proofs about NewRoot: all roots that it returns resolve identifiers     *)
(* alike, for every list of extensions, any number of programs, and        *)
(* initializations that fail or die between any two writes.                *)
(***************************************************************************)
EXTENDS StorageRoot, SequenceLemmas, FiniteSetTheorems

\* The extensions given to InitRoot have names, and no two of them are configurations of
\* one extension: they would share a config file, and the last one would be in it.
Unambiguous ==
    \A args \in InitArgs : \A i, j \in DOMAIN args :
        /\ args[i].name # NoLayout.name
        /\ args[i].name = args[j].name => args[i] = args[j]

Exts == {NoLayout} \cup UNION {Members(args) : args \in InitArgs}
Writes == [file : {"decl", "layout", "config"}, ext : Exts]

\* What InitWrites has, for the layout l.
Prepared(W, l) ==
    /\ W \in Seq(Writes) /\ W # <<>> /\ W[1].file = "decl"
    /\ \A w \in Members(W) : w.file = "layout" => w.ext = l /\ l # NoLayout
    /\ \A w \in Members(W) : w.file = "config" /\ w.ext.name = l.name => w.ext = l
    /\ l # NoLayout =>
          /\ l.name # NoLayout.name
          /\ \E w \in Members(W) : w.file = "layout"
          /\ \E w \in Members(W) : w.file = "config" /\ w.ext = l

\* The position of the first layout among the extensions.
LEMMA FirstIs ==
    ASSUME NEW args \in InitArgs, NEW first, first = SE!SelectInSeq(args, LAMBDA e : e.layout)
    PROVE  /\ (\E i \in DOMAIN args : args[i].layout) =>
                 first \in DOMAIN args /\ args[first].layout /\ FirstLayout(args) = args[first]
           /\ (\A i \in DOMAIN args : ~args[i].layout) =>
                 first \notin DOMAIN args /\ FirstLayout(args) = NoLayout
<1> DEFINE I == {i \in 1..Len(args) : args[i].layout}
<1>0. Len(args) \in Nat /\ DOMAIN args = 1..Len(args)
  BY RootAssumption, LenProperties
<1>1. first = IF I # {} THEN SE!Min(I) ELSE 0
  BY DEF SE!SelectInSeq
<1>2. CASE \E i \in DOMAIN args : args[i].layout
  <2>1. I # {} /\ I \subseteq Nat
    BY <1>0, <1>2
  <2> HIDE DEF I
  <2>2. \E m \in I : \A k \in I : m <= k
    BY <2>1, LeastNat
  <2>3. first \in I
    BY <1>1, <2>1, <2>2 DEF SE!Min
  <2>4. first \in DOMAIN args /\ args[first].layout
    BY <1>0, <2>3 DEF I
  <2> QED BY <1>2, <2>4 DEF FirstLayout
<1>3. CASE \A i \in DOMAIN args : ~args[i].layout
  <2>1. I = {}
    BY <1>0, <1>3
  <2>2. first = 0
    BY <1>1, <2>1
  <2> QED BY <1>0, <1>3, <2>2 DEF FirstLayout
<1> QED BY <1>2, <1>3

\* The writes of init are prepared for the first layout among the extensions.
LEMMA InitWritesPrepared ==
    ASSUME Unambiguous, NEW args \in InitArgs
    PROVE  Prepared(InitWrites(args), FirstLayout(args))
<1> DEFINE first == SE!SelectInSeq(args, LAMBDA e : e.layout)
           config(e) == [file |-> "config", ext |-> e]
           layoutw(e) == [file |-> "layout", ext |-> e]
           ws(i) == IF i = first THEN <<layoutw(args[i]), config(args[i])>> ELSE <<config(args[i])>>
           ss == [i \in DOMAIN args |-> ws(i)]
           d == [file |-> "decl", ext |-> NoLayout]
           n == Len(args)
           l == FirstLayout(args)
           W == InitWrites(args)
<1>0. n \in Nat /\ DOMAIN args = 1..n /\ args \in Seq({args[i] : i \in DOMAIN args})
  BY RootAssumption, LenProperties
<1>1. W = <<d>> \o SE!FlattenSeq(ss)
  BY DEF InitWrites
<1>2. \A i \in DOMAIN args : args[i] \in Exts
  BY DEF Exts, Members
<1>3. /\ (\E i \in DOMAIN args : args[i].layout) =>
            first \in DOMAIN args /\ args[first].layout /\ l = args[first]
      /\ (\A i \in DOMAIN args : ~args[i].layout) =>
            first \notin DOMAIN args /\ l = NoLayout
  BY FirstIs
<1>4. /\ d \in Writes
      /\ \A i \in DOMAIN args : layoutw(args[i]) \in Writes /\ config(args[i]) \in Writes
  BY <1>2 DEF Writes, Exts
<1>5. /\ SE!FlattenSeq(ss) \in Seq(Writes)
      /\ Members(SE!FlattenSeq(ss)) = UNION {Members(ss[i]) : i \in DOMAIN ss}
  <2>1. CASE n = 0
    <3>1. DOMAIN ss = {} /\ ss \in Seq(Seq(Writes)) /\ Len(ss) = 0
      BY <1>0, <2>1, FunctionIsSeq
    <3>2. ss = <<>>
      BY <3>1, EmptySeq
    <3> HIDE DEF ss
    <3>3. SE!FlattenSeq(ss) = <<>>
      BY <3>1, <3>2 DEF SE!FlattenSeq
    <3>4. Members(<<>>) = {}
      BY EmptySeq DEF Members
    <3> QED BY <3>1, <3>3, <3>4, EmptySeq
  <2>2. CASE n # 0
    <3>1. \A i \in 1..n : ws(i) \in Seq(Writes)
      BY <1>0, <1>4
    <3> HIDE DEF ws
    <3>2. ss \in Seq(Seq(Writes)) /\ Len(ss) = n
      BY <1>0, <3>1, FunctionIsSeq
    <3> HIDE DEF ss
    <3>3. ss # <<>>
      BY <2>2, <3>2
    <3>4. SE!FlattenSeq(ss) = Flattening(ss)[Len(ss)]
      BY <2>2, <3>2 DEF SE!FlattenSeq, Flattening
    <3> QED BY <3>2, <3>3, <3>4, FlattenMembers
  <2> QED BY <2>1, <2>2
<1>6. \A i \in DOMAIN args :
         Members(ss[i]) = IF i = first THEN {layoutw(args[i]), config(args[i])} ELSE {config(args[i])}
  <2> SUFFICES ASSUME NEW i \in DOMAIN args
      PROVE Members(ws(i)) =
               IF i = first THEN {layoutw(args[i]), config(args[i])} ELSE {config(args[i])}
    OBVIOUS
  <2>1. \A a, b : Members(<<a, b>>) = {a, b} /\ Members(<<b>>) = {b}
    BY DEF Members
  <2> HIDE DEF first, config, layoutw
  <2> QED BY <2>1
<1>7. /\ W \in Seq(Writes) /\ W # <<>> /\ W[1] = d
      /\ Members(W) = {d} \cup Members(SE!FlattenSeq(ss))
  <2>1. /\ <<d>> \in Seq(Writes) /\ Members(<<d>>) = {d} /\ Len(<<d>>) = 1
        /\ 1 \in DOMAIN <<d>> /\ <<d>>[1] = d
    BY <1>4 DEF Members
  <2> DEFINE t == SE!FlattenSeq(ss)
             D == <<d>>
  <2>2. t \in Seq(Writes)
    BY <1>5
  <2> HIDE DEF ss, d, W, t, D
  <2>3. W = D \o t
    BY <1>1 DEF t, D
  <2>4. D \in Seq(Writes) /\ Members(D) = {d} /\ 1 \in DOMAIN D /\ D[1] = d
    BY <2>1 DEF D
  <2>5. IsConcat(W, D, t) /\ Members(W) = Members(D) \cup Members(t) /\ W \in Seq(Writes)
    BY <2>2, <2>3, <2>4, ConcatPlaces, ConcatMembers, ConcatProperties
  <2>6. 1 \in DOMAIN W /\ W[1] = d
    BY <2>4, <2>5 DEF IsConcat
  <2>7. W # <<>>
    BY <2>6, EmptySeq
  <2> QED BY <2>4, <2>5, <2>6, <2>7 DEF t
<1>8. \A w \in Members(W) :
         \/ w = d
         \/ \E i \in DOMAIN args : w = config(args[i]) \/ (w = layoutw(args[i]) /\ i = first)
  <2> SUFFICES ASSUME NEW w \in Members(W), w # d
               PROVE  \E i \in DOMAIN args : w = config(args[i]) \/ (w = layoutw(args[i]) /\ i = first)
    OBVIOUS
  <2> HIDE DEF d, W
  <2>1. PICK i \in DOMAIN args : w \in Members(ss[i])
    BY <1>5, <1>7
  <2> HIDE DEF ss, config, layoutw, first
  <2> QED BY <1>6, <2>1
<1>9. first \in DOMAIN args => layoutw(args[first]) \in Members(W) /\ config(args[first]) \in Members(W)
  <2> SUFFICES ASSUME first \in DOMAIN args
               PROVE  layoutw(args[first]) \in Members(W) /\ config(args[first]) \in Members(W)
    OBVIOUS
  <2> DOMAIN ss = DOMAIN args
    OBVIOUS
  <2> HIDE DEF ss, config, layoutw, first, W, d
  <2> QED BY <1>5, <1>6, <1>7
<1>10. l # NoLayout =>
          l.name # NoLayout.name /\ layoutw(l) \in Members(W) /\ config(l) \in Members(W)
  <2> SUFFICES ASSUME l # NoLayout
               PROVE  l.name # NoLayout.name /\ layoutw(l) \in Members(W) /\ config(l) \in Members(W)
    OBVIOUS
  <2>1. first \in DOMAIN args /\ l = args[first]
    <3> HIDE DEF first, l
    <3> QED BY <1>3, RootAssumption
  <2> HIDE DEF first, l, W, layoutw, config
  <2> QED BY <1>9, <2>1 DEF Unambiguous
<1>11. ASSUME NEW w \in Members(W), w.file = "layout" PROVE w.ext = l /\ l # NoLayout
  <2>1. PICK i \in DOMAIN args : w = layoutw(args[i]) /\ i = first
    <3> HIDE DEF first, W
    <3> QED BY <1>8, <1>11
  <2>2. first \in DOMAIN args /\ l = args[first]
    <3> HIDE DEF first, l
    <3> QED BY <1>3, <2>1, RootAssumption
  <2>3. l.name # NoLayout.name
    <3> HIDE DEF first, l
    <3> QED BY <2>2 DEF Unambiguous
  <2> HIDE DEF first, l
  <2> QED BY <2>1, <2>2, <2>3
<1>12. ASSUME NEW w \in Members(W), w.file = "config", w.ext.name = l.name PROVE w.ext = l
  <2>1. PICK i \in DOMAIN args : w = config(args[i])
    <3> HIDE DEF first, W
    <3> QED BY <1>8, <1>12
  <2>2. w.ext = args[i]
    BY <2>1
  <2>3. l # NoLayout
    <3> HIDE DEF first, l
    <3> QED BY <1>12, <2>2 DEF Unambiguous
  <2>4. first \in DOMAIN args /\ l = args[first]
    <3> HIDE DEF first, l
    <3> QED BY <1>3, <2>3, RootAssumption
  <2> HIDE DEF first, l
  <2> QED BY <1>12, <2>2, <2>4 DEF Unambiguous
<1>13. W[1].file = "decl"
  BY <1>7
<1>14. l # NoLayout =>
          /\ l.name # NoLayout.name
          /\ \E w \in Members(W) : w.file = "layout"
          /\ \E w \in Members(W) : w.file = "config" /\ w.ext = l
  <2>1. layoutw(l).file = "layout" /\ config(l).file = "config" /\ config(l).ext = l
    OBVIOUS
  <2> HIDE DEF W, l, layoutw, config
  <2> QED BY <1>10, <2>1
<1> HIDE DEF W, l, d, ss
<1> QED BY <1>7, <1>11, <1>12, <1>13, <1>14 DEF Prepared, W, l

-----------------------------------------------------------------------------
\* The layout of a root that is opened now.
Loaded ==
    IF layout = NoLayout.name THEN NoLayout
    ELSE IF layout \in DOMAIN configs THEN configs[layout] ELSE Defaults[layout]

Names == {e.name : e \in Exts}
\* The layouts that a call has: one that it initializes, or the name of one that it read.
Asked == Exts \cup {[NoLayout EXCEPT !.name = n] : n \in Names}
Calls == [at : {"idle", "init", "layout", "config"}, writes : Seq(Writes),
          layout : Asked, overlaps : BOOLEAN]

TypeOK == decl \in BOOLEAN /\ layout \in Names /\ call \in [Procs -> Calls]

Reading(p) == call[p].at \in {"layout", "config"}

\* An initialization with the writes W to go, in a directory with the layout file name,
\* the config files cs and, if d, the declaration: what W and the directory have together
\* is what the layout l needs, and neither has anything else that l would be read from.
Progress(W, l, d, name, cs) ==
    /\ l \in Exts
    /\ d \/ (W # <<>> /\ W[1].file = "decl")
    /\ \A w \in Members(W) : w.file = "layout" => w.ext = l /\ l # NoLayout
    /\ \A w \in Members(W) : w.file = "config" /\ w.ext.name = l.name => w.ext = l
    /\ name \in {NoLayout.name, l.name}
    /\ l.name \in DOMAIN cs => cs[l.name] = l
    /\ l # NoLayout =>
          /\ l.name # NoLayout.name
          /\ name = l.name \/ \E w \in Members(W) : w.file = "layout"
          /\ l.name \in DOMAIN cs \/ \E w \in Members(W) : w.file = "config" /\ w.ext = l

Advances(p) ==
    call[p].at = "init" => Progress(call[p].writes, call[p].layout, decl, layout, configs)

\* One initialization at a time, which nobody who reads is outside of.
Exclusive ==
    /\ \A p, q \in Procs : call[p].at = "init" /\ call[q].at = "init" => p = q
    /\ Initializing => seen = {} /\ \A p \in Procs : Reading(p) => call[p].overlaps

\* Nothing is read from a directory without a declaration, which may be initialized.
Declared == ~decl => seen = {} /\ \A p \in Procs : ~Reading(p)

\* Every root that was returned has the layout that one opened now would have.
Settled == ~Initializing => seen \subseteq {Loaded}

\* The name of the layout that a call outside of an initialization read is still right.
NameRead ==
    \A p \in Procs : call[p].at = "config" /\ ~call[p].overlaps =>
        layout # NoLayout.name /\ call[p].layout.name = layout

RootInv ==
    /\ TypeOK
    /\ Exclusive
    /\ Declared
    /\ Settled
    /\ NameRead
    /\ \A p \in Procs : Advances(p)

\* Idle is a call, and not one that reads or initializes.
LEMMA IdleCall ==
    Idle \in Calls /\ Idle.at \notin {"init", "layout", "config"}
<1>1. <<>> \in Seq(Writes)
  BY EmptySeq
<1>2. NoLayout \in Exts
  BY DEF Exts
<1> QED BY <1>1, <1>2 DEF Idle, Calls, Asked

\* The root is as nobody left it.
LEMMA InitRootInv == Init => RootInv
<1> SUFFICES ASSUME Init PROVE RootInv
  OBVIOUS
<1>1. NoLayout.name \in Names
  BY DEF Names, Exts
<1>2. \A p \in Procs : call[p] = Idle
  BY DEF Init
<1>3. TypeOK
  BY <1>1, IdleCall DEF Init, TypeOK
<1>4. \A p \in Procs : call[p].at \notin {"init", "layout", "config"}
  BY <1>2, IdleCall
<1> QED BY <1>3, <1>4 DEF Init, RootInv, Exclusive, Declared, Settled, NameRead, Initializing, Reading, Advances

\* A call ends: it returns no root, or one with the layout that is in the directory while
\* no other call initializes it.
LEMMA CallEnds ==
    ASSUME RootInv, NEW p \in Procs, call' = [call EXCEPT ![p] = Idle],
           UNCHANGED <<decl, layout, configs>>,
           \/ seen' = seen
           \/ /\ seen' = seen \cup {Loaded} /\ decl
              /\ \A q \in Procs : call[q].at = "init" => q = p
    PROVE  RootInv'
<1>1. TypeOK'
  BY IdleCall DEF RootInv, TypeOK
<1>2. call'[p] = Idle /\ \A q \in Procs : q # p => call'[q] = call[q]
  BY DEF RootInv, TypeOK
<1>3. call'[p].at \notin {"init", "layout", "config"}
  BY <1>2, IdleCall
<1>4. Initializing' => Initializing /\ seen' = seen
  BY <1>2, <1>3 DEF Initializing
<1>5. Exclusive'
  BY <1>2, <1>3, <1>4 DEF RootInv, Exclusive, Initializing, Reading
<1>6. Declared'
  BY <1>2, <1>3 DEF RootInv, Declared, Reading
<1>7. Loaded' = Loaded
  BY DEF Loaded
<1>8. Settled'
  <2> SUFFICES ASSUME ~Initializing' PROVE seen' \subseteq {Loaded}
    BY <1>7 DEF Settled
  <2>1. seen \subseteq {Loaded}
    BY DEF RootInv, Settled, Exclusive
  <2> QED BY <2>1
<1>9. NameRead'
  BY <1>2, <1>3 DEF RootInv, NameRead
<1>10. \A q \in Procs : call'[q].at = "init" => Advances(q) /\ call'[q] = call[q]
  BY <1>2, <1>3 DEF RootInv
<1>11. \A q \in Procs : Advances(q)'
  BY <1>10 DEF Advances
<1> QED BY <1>1, <1>5, <1>6, <1>8, <1>9, <1>11 DEF RootInv

\* An initialization begins in an empty directory, for which nothing was returned.
LEMMA NewRootInitInv ==
    ASSUME Unambiguous, RootInv, NEW p \in Procs, NEW args \in InitArgs, NewRootInit(p, args)
    PROVE  RootInv'
<1> DEFINE W == InitWrites(args)
           l == FirstLayout(args)
<1>1. Prepared(W, l)
  BY InitWritesPrepared
<1>2. ~decl /\ layout = NoLayout.name /\ configs = <<>>
  BY DEF NewRootInit, MayInit, Entries
<1>3. seen = {} /\ (\A q \in Procs : ~Reading(q)) /\ (\A q \in Procs : call[q].at # "init")
  BY <1>2 DEF RootInv, Declared, NewRootInit, Initializing
<1>4. l \in Exts
  <2>1. CASE \E i \in DOMAIN args : args[i].layout
    <3>1. PICK i \in DOMAIN args : l = args[i]
      <4> DEFINE first == SE!SelectInSeq(args, LAMBDA e : e.layout)
      <4>1. first \in DOMAIN args /\ l = args[first]
        BY <2>1, FirstIs
      <4> HIDE DEF first, l
      <4> QED BY <4>1
    <3> QED BY <3>1 DEF Exts, Members
  <2>2. CASE \A i \in DOMAIN args : ~args[i].layout
    BY <2>2 DEF FirstLayout, Exts
  <2> QED BY <2>1, <2>2, RootAssumption
<1> HIDE DEF W, l
<1>5. /\ call'[p] = [at |-> "init", writes |-> W, layout |-> l, overlaps |-> Initializing]
      /\ \A q \in Procs : q # p => call'[q] = [call[q] EXCEPT !.overlaps = @ \/ (call[q] # Idle)]
      /\ call' = [q \in Procs |-> call'[q]]
  BY DEF NewRootInit, Start, W, l
<1>6. Initializing \in BOOLEAN
  BY DEF Initializing
<1>7. \A q \in Procs : q # p => call'[q] \in Calls /\ call'[q].at = call[q].at
  <2> SUFFICES ASSUME NEW q \in Procs, q # p PROVE call'[q] \in Calls /\ call'[q].at = call[q].at
    OBVIOUS
  <2>1. call[q] \in Calls
    BY DEF RootInv, TypeOK
  <2>2. call'[q] = [call[q] EXCEPT !.overlaps = @ \/ (call[q] # Idle)]
    BY <1>5
  <2>3. (call[q].overlaps \/ (call[q] # Idle)) \in BOOLEAN
    OBVIOUS
  <2> HIDE DEF Idle
  <2> QED BY <2>1, <2>2, <2>3 DEF Calls
<1>8. call'[p] \in Calls /\ call'[p].at = "init" /\ call'[p].writes = W /\ call'[p].layout = l
  <2>1. W \in Seq(Writes)
    BY <1>1 DEF Prepared
  <2> QED BY <1>4, <1>5, <1>6, <2>1 DEF Calls, Asked
<1>9. TypeOK'
  <2>1. \A q \in Procs : call'[q] \in Calls
    BY <1>7, <1>8
  <2>2. call' \in [Procs -> Calls]
    BY <1>5, <2>1
  <2> QED BY <2>2 DEF RootInv, TypeOK, NewRootInit
<1>10. \A q \in Procs : (call'[q].at = "init" => q = p) /\ ~Reading(q)'
  BY <1>3, <1>7, <1>8 DEF Reading
<1>11. seen' = {} /\ Initializing'
  BY <1>3, <1>8 DEF NewRootInit, Initializing
<1>12. Exclusive' /\ Declared' /\ Settled' /\ NameRead'
  BY <1>10, <1>11 DEF Exclusive, Declared, Settled, NameRead, Reading
<1>13. Progress(W, l, decl, layout, configs)
  BY <1>1, <1>2, <1>4 DEF Progress, Prepared
<1>14. decl' = decl /\ layout' = layout /\ configs' = configs
  BY DEF NewRootInit
<1>15. \A q \in Procs : Advances(q)'
  <2> SUFFICES Progress(call'[p].writes, call'[p].layout, decl', layout', configs')
    BY <1>10 DEF Advances
  <2> QED BY <1>8, <1>13, <1>14
<1> QED BY <1>9, <1>12, <1>15 DEF RootInv

\* A call to open the root begins, and overlaps an initialization that is under way.
LEMMA NewRootOpenInv ==
    ASSUME RootInv, NEW p \in Procs, NewRootOpen(p)
    PROVE  RootInv'
<1>1. /\ call'[p] = [at |-> "layout", writes |-> <<>>, layout |-> NoLayout, overlaps |-> Initializing]
      /\ \A q \in Procs : q # p => call'[q] = call[q]
      /\ call' = [q \in Procs |-> call'[q]]
  <2>1. /\ call'[p] = [at |-> "layout", writes |-> <<>>, layout |-> NoLayout, overlaps |-> Initializing]
        /\ \A q \in Procs : q # p => call'[q] = [call[q] EXCEPT !.overlaps = @ \/ FALSE]
        /\ call' = [q \in Procs |-> call'[q]]
    BY DEF NewRootOpen, Start
  <2>2. \A q \in Procs : [call[q] EXCEPT !.overlaps = @ \/ FALSE] = call[q]
    BY DEF RootInv, TypeOK, Calls
  <2> QED BY <2>1, <2>2
<1>2. Initializing \in BOOLEAN
  BY DEF Initializing
<1>3. TypeOK'
  <2>1. <<>> \in Seq(Writes) /\ NoLayout \in Exts
    BY EmptySeq DEF Exts
  <2>2. call'[p] \in Calls
    BY <1>1, <1>2, <2>1 DEF Calls, Asked
  <2>3. call' \in [Procs -> Calls]
    BY <1>1, <2>2 DEF RootInv, TypeOK
  <2> QED BY <2>3 DEF RootInv, TypeOK, NewRootOpen
<1>4. decl /\ UNCHANGED <<decl, layout, configs, seen>> /\ call[p].at \notin {"init", "layout", "config"}
  BY IdleCall DEF NewRootOpen
<1>5. Initializing' = Initializing
  BY <1>1, <1>4 DEF Initializing
<1>6. call'[p].at = "layout" /\ call'[p].overlaps = Initializing
  BY <1>1
<1>7. Exclusive'
  BY <1>1, <1>4, <1>5, <1>6 DEF RootInv, Exclusive, Reading
<1>8. Declared'
  BY <1>4 DEF Declared
<1>9. Settled'
  BY <1>4, <1>5 DEF RootInv, Settled, Loaded
<1>10. NameRead'
  BY <1>1, <1>4, <1>6 DEF RootInv, NameRead
<1>11. \A q \in Procs : call'[q].at = "init" => Advances(q) /\ call'[q] = call[q]
  BY <1>1, <1>6 DEF RootInv
<1>12. \A q \in Procs : Advances(q)'
  BY <1>4, <1>11 DEF Advances
<1> QED BY <1>3, <1>7, <1>8, <1>9, <1>10, <1>12 DEF RootInv

\* A write of the initialization moves what the layout needs from the writes to go to the
\* directory.
LEMMA WriteProgress ==
    ASSUME NEW W \in Seq(Writes), NEW l, Progress(W, l, decl, layout, configs), W # <<>>, TypeOK,
           decl' = (decl \/ Head(W).file = "decl"),
           layout' = IF Head(W).file = "layout" THEN Head(W).ext.name ELSE layout,
           configs' = IF Head(W).file = "config"
                      THEN [n \in DOMAIN configs \cup {Head(W).ext.name} |->
                               IF n = Head(W).ext.name THEN Head(W).ext ELSE configs[n]]
                      ELSE configs
    PROVE  decl' /\ Progress(Tail(W), l, decl', layout', configs')
<1> DEFINE w == Head(W)
           V == Tail(W)
<1>1. w \in Writes /\ w = W[1] /\ w \in Members(W) /\ Members(V) \subseteq Members(W)
      /\ \A v \in Members(W) : v = w \/ v \in Members(V)
  BY HeadTailMembers
<1> HIDE DEF w, V
<1>2. decl'
  BY <1>1 DEF Progress, w
<1>3. /\ \A v \in Members(V) : v.file = "layout" => v.ext = l /\ l # NoLayout
      /\ \A v \in Members(V) : v.file = "config" /\ v.ext.name = l.name => v.ext = l
  BY <1>1 DEF Progress
<1>4. layout' \in {NoLayout.name, l.name}
  BY <1>1 DEF Progress, w
<1>5. l.name \in DOMAIN configs' => configs'[l.name] = l
  <2>1. CASE w.file = "config"
    <3>1. w.ext.name = l.name => w.ext = l
      BY <1>1, <2>1 DEF Progress
    <3>2. configs' = [n \in DOMAIN configs \cup {w.ext.name} |-> IF n = w.ext.name THEN w.ext ELSE configs[n]]
      BY <2>1 DEF w
    <3> QED BY <3>1, <3>2 DEF Progress
  <2>2. CASE w.file # "config"
    BY <2>2 DEF Progress, w
  <2> QED BY <2>1, <2>2
<1>6. ASSUME l # NoLayout PROVE layout' = l.name \/ \E v \in Members(V) : v.file = "layout"
  <2>1. CASE w.file = "layout"
    <3>1. w.ext = l
      BY <1>1, <2>1 DEF Progress
    <3> QED BY <2>1, <3>1 DEF w
  <2>2. CASE w.file # "layout"
    BY <1>1, <1>6, <2>2 DEF Progress, w
  <2> QED BY <2>1, <2>2
<1>7. ASSUME l # NoLayout
      PROVE  l.name \in DOMAIN configs' \/ \E v \in Members(V) : v.file = "config" /\ v.ext = l
  <2>1. CASE l.name \in DOMAIN configs
    BY <2>1
  <2>2. CASE l.name \notin DOMAIN configs
    <3>1. PICK v \in Members(W) : v.file = "config" /\ v.ext = l
      BY <1>7, <2>2 DEF Progress
    <3>2. CASE v = w
      BY <3>1, <3>2 DEF w
    <3>3. CASE v # w
      BY <1>1, <3>1, <3>3
    <3> QED BY <3>2, <3>3
  <2> QED BY <2>1, <2>2
<1>8. Progress(V, l, decl', layout', configs')
  BY <1>2, <1>3, <1>4, <1>5, <1>6, <1>7 DEF Progress
<1> QED BY <1>2, <1>8 DEF V

\* A write of the initialization.
LEMMA InitWriteInv ==
    ASSUME RootInv, NEW p \in Procs, InitWrite(p)
    PROVE  RootInv'
<1> DEFINE W == call[p].writes
           l == call[p].layout
           w == Head(W)
<1>0. call[p].at = "init" /\ W # <<>> /\ call' = [call EXCEPT ![p].writes = Tail(@)] /\ seen' = seen
  BY DEF InitWrite
<1>1. W \in Seq(Writes) /\ Progress(W, l, decl, layout, configs) /\ TypeOK
  BY <1>0 DEF RootInv, TypeOK, Calls, Advances
<1>2. decl' /\ Progress(Tail(W), l, decl', layout', configs')
  <2>1. /\ decl' = (decl \/ w.file = "decl")
        /\ layout' = IF w.file = "layout" THEN w.ext.name ELSE layout
        /\ configs' = IF w.file = "config"
                      THEN [n \in DOMAIN configs \cup {w.ext.name} |->
                               IF n = w.ext.name THEN w.ext ELSE configs[n]]
                      ELSE configs
    BY DEF InitWrite
  <2> HIDE DEF W, l
  <2> QED BY <1>0, <1>1, <2>1, WriteProgress
<1>3. Tail(W) \in Seq(Writes) /\ w \in Writes
  <2> HIDE DEF W
  <2> QED BY <1>0, <1>1, HeadTailMembers
<1>4. /\ call'[p] = [call[p] EXCEPT !.writes = Tail(W)]
      /\ \A q \in Procs : q # p => call'[q] = call[q]
  BY <1>0 DEF RootInv, TypeOK
<1>5. /\ call'[p] \in Calls /\ call'[p].at = "init" /\ call'[p].writes = Tail(W)
      /\ call'[p].layout = l /\ call'[p].overlaps = call[p].overlaps
  BY <1>0, <1>3, <1>4 DEF RootInv, TypeOK, Calls
<1>6. TypeOK'
  <2>1. call' \in [Procs -> Calls]
    BY <1>0, <1>4, <1>5 DEF RootInv, TypeOK
  <2>2. layout' \in Names /\ decl' \in BOOLEAN
    BY <1>2, <1>3 DEF RootInv, TypeOK, InitWrite, Names, Writes
  <2> QED BY <2>1, <2>2 DEF TypeOK
<1>7. Initializing /\ Initializing'
  BY <1>0, <1>5 DEF Initializing
<1>8. Exclusive'
  BY <1>0, <1>4, <1>5, <1>7 DEF RootInv, Exclusive, Reading
<1>9. Declared' /\ Settled'
  BY <1>2, <1>7 DEF Declared, Settled
<1>10. NameRead'
  BY <1>4, <1>5, <1>7 DEF RootInv, NameRead, Exclusive, Reading
<1>11. \A q \in Procs : call'[q].at = "init" => q = p
  BY <1>0, <1>4, <1>5 DEF RootInv, Exclusive
<1>12. Progress(call'[p].writes, call'[p].layout, decl', layout', configs')
  <2> HIDE DEF W, l
  <2> QED BY <1>2, <1>5
<1>13. \A q \in Procs : Advances(q)'
  BY <1>11, <1>12 DEF Advances
<1> QED BY <1>6, <1>8, <1>9, <1>10, <1>13 DEF RootInv

\* An initialization returns what a call that opens the root now would: its writes are
\* done, and so the layout and its configuration are in the directory.
LEMMA InitReturnsInv ==
    ASSUME RootInv, NEW p \in Procs, InitReturns(p)
    PROVE  RootInv'
<1> DEFINE l == call[p].layout
<1>0. call[p].at = "init" /\ call[p].writes = <<>>
  BY DEF InitReturns
<1>1. Progress(<<>>, l, decl, layout, configs)
  BY <1>0 DEF RootInv, Advances
<1>2. Members(<<>>) = {}
  BY EmptySeq DEF Members
<1>3. decl /\ Loaded = l
  <2> HIDE DEF l
  <2>1. CASE l = NoLayout
    BY <1>1, <2>1 DEF Progress, Loaded
  <2>2. CASE l # NoLayout
    BY <1>1, <1>2, <2>2 DEF Progress, Loaded
  <2> QED BY <1>1, <2>1, <2>2 DEF Progress
<1>4. \A q \in Procs : call[q].at = "init" => q = p
  BY <1>0 DEF RootInv, Exclusive
<1>5. /\ call' = [call EXCEPT ![p] = Idle] /\ UNCHANGED <<decl, layout, configs>>
      /\ seen' = seen \/ seen' = seen \cup {Loaded}
  BY <1>3 DEF InitReturns, Returns
<1> QED BY <1>3, <1>4, <1>5, CallEnds

\* A call that returns a root outside of an initialization returns the layout that is in
\* the directory.
LEMMA ReaderReturns ==
    ASSUME RootInv, NEW p \in Procs, Reading(p), NEW l, Returns(p, l),
           UNCHANGED <<decl, layout, configs>>, ~call[p].overlaps => l = Loaded
    PROVE  RootInv'
<1>1. decl
  BY DEF RootInv, Declared, TypeOK
<1>2. CASE call[p].overlaps
  BY <1>2, CallEnds DEF Returns
<1>3. CASE ~call[p].overlaps
  <2>1. \A q \in Procs : call[q].at # "init"
    BY <1>3 DEF RootInv, Exclusive, Initializing
  <2>2. call' = [call EXCEPT ![p] = Idle] /\ seen' = seen \cup {Loaded}
    BY <1>3 DEF Returns
  <2> QED BY <1>1, <2>1, <2>2, CallEnds
<1> QED BY <1>2, <1>3

\* getLayout reads the layout file.
LEMMA ReadLayoutConfigInv ==
    ASSUME RootInv, NEW p \in Procs, ReadLayoutConfig(p)
    PROVE  RootInv'
<1>0. call[p].at = "layout" /\ UNCHANGED <<decl, layout, configs>> /\ Reading(p)
  BY DEF ReadLayoutConfig, Reading
<1>1. CASE layout = NoLayout.name
  <2>1. Returns(p, NoLayout) /\ Loaded = NoLayout
    BY <1>1 DEF ReadLayoutConfig, Loaded
  <2> QED BY <1>0, <2>1, ReaderReturns
<1>2. CASE layout # NoLayout.name
  <2> DEFINE l == [NoLayout EXCEPT !.name = layout]
  <2>1. /\ call' = [call EXCEPT ![p].at = "config", ![p].layout = l]
        /\ seen' = seen
    BY <1>2 DEF ReadLayoutConfig
  <2>2. l \in Asked /\ l.name = layout
    BY DEF RootInv, TypeOK, NoLayout, Asked
  <2> HIDE DEF l
  <2>3. /\ call'[p] = [call[p] EXCEPT !.at = "config", !.layout = l]
        /\ \A q \in Procs : q # p => call'[q] = call[q]
    BY <2>1 DEF RootInv, TypeOK
  <2>4. /\ call'[p] \in Calls /\ call'[p].at = "config" /\ call'[p].layout = l
        /\ call'[p].overlaps = call[p].overlaps
    <3>1. call[p] \in Calls
      BY DEF RootInv, TypeOK
    <3> QED BY <2>2, <2>3, <3>1 DEF Calls
  <2>5. TypeOK'
    <3>1. call' \in [Procs -> Calls]
      BY <2>1, <2>3, <2>4 DEF RootInv, TypeOK
    <3> QED BY <1>0, <3>1 DEF RootInv, TypeOK
  <2>6. Initializing' = Initializing
    <3>1. \A q \in Procs : call'[q].at = "init" <=> call[q].at = "init"
      BY <1>0, <2>3, <2>4
    <3> QED BY <3>1 DEF Initializing
  <2>7. Exclusive'
    <3>1. /\ \A q \in Procs : call'[q].at = "init" <=> call[q].at = "init"
          /\ \A q \in Procs : /\ call'[q].at \in {"layout", "config"} <=> Reading(q)
                              /\ call'[q].overlaps = call[q].overlaps
      BY <1>0, <2>3, <2>4 DEF Reading
    <3> QED BY <2>1, <2>6, <3>1 DEF RootInv, Exclusive, Reading
  <2>8. Declared'
    BY <1>0, <2>1, <2>3 DEF RootInv, Declared, Reading, TypeOK
  <2>9. Settled'
    BY <1>0, <2>1, <2>6 DEF RootInv, Settled, Loaded
  <2>10. NameRead'
    BY <1>0, <1>2, <2>2, <2>3, <2>4 DEF RootInv, NameRead
  <2>11. \A q \in Procs : Advances(q)'
    BY <1>0, <2>3, <2>4 DEF RootInv, Advances
  <2> QED BY <2>5, <2>7, <2>8, <2>9, <2>10, <2>11 DEF RootInv
<1> QED BY <1>1, <1>2

\* getLayout reads the config file of the layout.
LEMMA ReadExtensionConfigInv ==
    ASSUME RootInv, NEW p \in Procs, ReadExtensionConfig(p)
    PROVE  RootInv'
<1> DEFINE name == call[p].layout.name
           ext == IF name \in DOMAIN configs THEN configs[name] ELSE Defaults[name]
<1>0. call[p].at = "config" /\ UNCHANGED <<decl, layout, configs>> /\ Reading(p)
  BY DEF ReadExtensionConfig, Reading
<1>1. \/ Returns(p, ext)
      \/ call' = [call EXCEPT ![p] = Idle] /\ seen' = seen
  BY DEF ReadExtensionConfig
<1>2. ~call[p].overlaps => ext = Loaded
  BY <1>0 DEF RootInv, NameRead, Loaded
<1> HIDE DEF ext
<1>3. CASE Returns(p, ext)
  BY <1>0, <1>2, <1>3, ReaderReturns
<1>4. CASE call' = [call EXCEPT ![p] = Idle] /\ seen' = seen
  BY <1>0, <1>4, CallEnds
<1> QED BY <1>1, <1>3, <1>4

-----------------------------------------------------------------------------
\* RootInv is inductive.
LEMMA RootInvStep ==
    ASSUME Unambiguous, RootInv, [Next]_vars
    PROVE  RootInv'
<1>1. CASE UNCHANGED vars
  BY <1>1 DEF vars, RootInv, TypeOK, Exclusive, Declared, Settled, NameRead, Initializing,
                   Reading, Loaded, Advances
<1>2. ASSUME NEW p \in Procs, NEW args \in InitArgs, NewRootInit(p, args) PROVE RootInv'
  BY <1>2, NewRootInitInv
<1>3. ASSUME NEW p \in Procs, InitWrite(p) PROVE RootInv'
  BY <1>3, InitWriteInv
<1>4. ASSUME NEW p \in Procs, InitReturns(p) PROVE RootInv'
  BY <1>4, InitReturnsInv
<1>5. ASSUME NEW p \in Procs, NewRootOpen(p) PROVE RootInv'
  BY <1>5, NewRootOpenInv
<1>6. ASSUME NEW p \in Procs, ReadLayoutConfig(p) PROVE RootInv'
  BY <1>6, ReadLayoutConfigInv
<1>7. ASSUME NEW p \in Procs, ReadExtensionConfig(p) PROVE RootInv'
  BY <1>7, ReadExtensionConfigInv
<1>8. ASSUME NEW p \in Procs, NewRootFails(p) PROVE RootInv'
  BY <1>8, CallEnds DEF NewRootFails
<1> QED BY <1>1, <1>2, <1>3, <1>4, <1>5, <1>6, <1>7, <1>8 DEF Next

\* At most one layout was returned, and so at most one way to resolve identifiers.
LEMMA OneLayout == RootInv => ObjectsStayFound
<1> SUFFICES ASSUME RootInv PROVE ObjectsStayFound
  OBVIOUS
<1> DEFINE R(l) == [i \in Ids |-> ResolveID(l, i)]
           Rs == {R(l) : l \in seen}
<1>1. seen = {} \/ seen = {Loaded}
  BY DEF RootInv, Settled, Exclusive
<1> HIDE DEF R
<1>2. Rs = {} \/ Rs = {R(Loaded)}
  BY <1>1
<1> HIDE DEF Rs
<1>3. Cardinality(Rs) <= 1
  <2>1. CASE Rs = {}
    BY <2>1, FS_EmptySet
  <2>2. CASE Rs = {R(Loaded)}
    BY <2>2, FS_Singleton
  <2> QED BY <1>2, <2>1, <2>2
<1> QED BY <1>3 DEF ObjectsStayFound, Rs, R

\* An object stored through one root is found through every other one: all roots that
\* NewRoot (root.go) returns outside of an initialization resolve identifiers alike.  This
\* is for any number of programs and every list of extensions in which no two share a
\* config file, wherever initializations fail.
THEOREM RootsAgree ==
    ASSUME Unambiguous
    PROVE  Spec => []ObjectsStayFound
<1>1. Init => RootInv
  BY InitRootInv
<1>2. RootInv /\ [Next]_vars => RootInv'
  BY RootInvStep
<1>3. RootInv => ObjectsStayFound
  BY OneLayout
<1> QED BY <1>1, <1>2, <1>3, PTL DEF Spec
=============================================================================
