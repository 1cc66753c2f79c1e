------------------------------ MODULE CliProofs ------------------------------
(***************************************************************************)
(* Proofs about Cli and the modules it is made of, for any files with any  *)
(* imports, any packages, edits and failures.                              *)
(***************************************************************************)
EXTENDS Cli, TLAPS

Source == [parses : BOOLEAN, imports : Seq(Imports)]

LoaderTypeOK ==
    /\ disk \in [Files -> {Absent} \cup Source]
    /\ files \in Seq([path : Files, source : Source])
    /\ visiting \in Seq(Files)
    /\ stack \in Seq(Seq(Imports))
    /\ outcome \in {"none", "running", "ok"} \cup Errors

(* The files whose imports have all been loaded. *)
Finished == Loaded \ ToSet(visiting)

(* No file is loaded twice, and the first is the one of the command line;  *)
(* any other was imported by one before it.                                *)
Once == \A i, j \in DOMAIN files : files[i].path = files[j].path => i = j
Parents ==
    \A j \in DOMAIN files :
        IF j = 1 THEN files[1].path = Root
        ELSE \E i \in 1 .. j - 1 : files[j].path \in ImportsOf(i)
Rooted == \A i \in DOMAIN files : i > 1 => files[i].path \in Reach(files[1].path)

(* The files being visited are loaded, and each imports the next. *)
Visits ==
    /\ \A k, l \in DOMAIN visiting : visiting[k] = visiting[l] => k = l
    /\ \A k \in DOMAIN visiting : visiting[k] \in Loaded
    /\ \A k, l \in DOMAIN visiting : k < l => visiting[l] \in Reach(visiting[k])

(* What a finished file needs is finished, and does not need that file. *)
Settled ==
    \A i \in DOMAIN files :
        files[i].path \in Finished =>
            /\ ImportsOf(i) \subseteq Finished
            /\ Unknown \notin ToSet(files[i].source.imports)
            /\ \E S \in SUBSET Finished :
                   Closed(S) /\ ImportsOf(i) \subseteq S /\ files[i].path \notin S

(* While a load runs there is an activation for each file that is visited: *)
(* what it has behind it is finished, and what it does is the next visit.  *)
FrameOf(k, i) ==
    /\ ToSet(stack[k]) \subseteq ToSet(files[i].source.imports)
    /\ ImportsOf(i) \ ToSet(stack[k]) \subseteq Finished
    /\ Unknown \in ToSet(files[i].source.imports) => Unknown \in ToSet(stack[k])
    /\ k < Len(visiting) => stack[k] # <<>> /\ Head(stack[k]) = visiting[k + 1]
Frames ==
    outcome = "running" =>
        /\ Len(stack) = Len(visiting)
        /\ stack = <<>> => files = <<>>
        /\ \A k \in DOMAIN visiting, i \in DOMAIN files :
               files[i].path = visiting[k] => FrameOf(k, i)

Ended ==
    /\ outcome = "ok" => visiting = <<>>
    /\ outcome = "circular" => \E f \in Loaded : Cyclic(f)

LoadInv == /\ LoaderTypeOK /\ Once /\ Parents /\ Rooted /\ Visits /\ Settled
           /\ Frames /\ Ended

-----------------------------------------------------------------------------
(* Sequences of the model. *)

(* Leaving out the head of a queue of imports leaves out at most the head. *)
LEMMA TailHolds ==
    ASSUME NEW T, NEW q \in Seq(T), q # <<>>
    PROVE  /\ Tail(q) \in Seq(T)
           /\ ToSet(Tail(q)) \subseteq ToSet(q)
           /\ ToSet(q) \subseteq ToSet(Tail(q)) \cup {Head(q)}
           /\ Head(q) \in ToSet(q) /\ Head(q) \in T
<1>1. /\ Tail(q) \in Seq(T) /\ Len(q) \in Nat \ {0} /\ Len(Tail(q)) = Len(q) - 1
      /\ \A i \in 1 .. Len(q) - 1 : Tail(q)[i] = q[i + 1]
      /\ Head(q) = q[1] /\ q[1] \in T
    OBVIOUS
<1>2. ASSUME NEW x \in ToSet(Tail(q)) PROVE x \in ToSet(q)
    <2>1. PICK i \in 1 .. Len(q) - 1 : x = Tail(q)[i]
        BY <1>1 DEF ToSet
    <2>2. i + 1 \in DOMAIN q /\ q[i + 1] = x
        BY <1>1, <2>1
    <2>. QED
        BY <2>2 DEF ToSet
<1>3. ASSUME NEW x \in ToSet(q), x # Head(q) PROVE x \in ToSet(Tail(q))
    <2>1. PICK i \in DOMAIN q : x = q[i]
        BY DEF ToSet
    <2>2. i - 1 \in DOMAIN Tail(q) /\ Tail(q)[i - 1] = x
        BY <1>1, <1>3, <2>1
    <2>. QED
        BY <2>2 DEF ToSet
<1>4. q[1] \in ToSet(q)
    BY <1>1 DEF ToSet
<1>. QED
    BY <1>1, <1>2, <1>3, <1>4

(* A path that is pushed on visiting joins what is visited. *)
LEMMA PushHolds ==
    ASSUME NEW T, NEW q \in Seq(T), NEW x \in T
    PROVE  /\ Append(q, x) \in Seq(T) /\ Len(Append(q, x)) = Len(q) + 1
           /\ DOMAIN Append(q, x) = DOMAIN q \cup {Len(q) + 1}
           /\ \A i \in DOMAIN q : Append(q, x)[i] = q[i]
           /\ Append(q, x)[Len(q) + 1] = x
           /\ ToSet(Append(q, x)) = ToSet(q) \cup {x}
<1>1. /\ Append(q, x) \in Seq(T) /\ Len(Append(q, x)) = Len(q) + 1
      /\ \A i \in DOMAIN q : Append(q, x)[i] = q[i]
      /\ Append(q, x)[Len(q) + 1] = x
      /\ Len(q) \in Nat /\ DOMAIN q = 1 .. Len(q)
      /\ DOMAIN Append(q, x) = 1 .. Len(q) + 1
    OBVIOUS
<1>2. DOMAIN Append(q, x) = DOMAIN q \cup {Len(q) + 1}
    BY <1>1
<1>. QED
    BY <1>1, <1>2 DEF ToSet

(* Front takes the last element away. *)
LEMMA FrontHolds ==
    ASSUME NEW T, NEW q \in Seq(T), q # <<>>
    PROVE  /\ Front(q) \in Seq(T) /\ Len(Front(q)) = Len(q) - 1
           /\ \A i \in 1 .. Len(q) - 1 : Front(q)[i] = q[i]
           /\ Len(q) \in Nat \ {0} /\ Last(q) = q[Len(q)] /\ Last(q) \in T
           /\ ToSet(q) = ToSet(Front(q)) \cup {Last(q)}
<1>3. Len(q) \in Nat \ {0} /\ DOMAIN q = 1 .. Len(q) /\ \A i \in 1 .. Len(q) : q[i] \in T
    OBVIOUS
<1>4. Last(q) = q[Len(q)] /\ Last(q) \in T
    BY <1>3 DEF Last
<1>5. /\ Front(q) \in Seq(T) /\ Len(Front(q)) = Len(q) - 1
      /\ \A i \in 1 .. Len(q) - 1 : Front(q)[i] = q[i]
      /\ DOMAIN Front(q) = 1 .. Len(q) - 1
    BY <1>3 DEF Front
<1>1. /\ Front(q) \in Seq(T) /\ Len(Front(q)) = Len(q) - 1
      /\ \A i \in 1 .. Len(q) - 1 : Front(q)[i] = q[i]
      /\ Len(q) \in Nat \ {0} /\ DOMAIN q = 1 .. Len(q)
      /\ DOMAIN Front(q) = 1 .. Len(q) - 1
      /\ Last(q) = q[Len(q)] /\ Last(q) \in T
    BY <1>3, <1>4, <1>5
<1>2. DOMAIN q = DOMAIN Front(q) \cup {Len(q)}
    BY <1>1
<1>. QED
    BY <1>1, <1>2 DEF ToSet

(* The activation on top goes on with one import less. *)
LEMMA NextHolds ==
    ASSUME NEW T, NEW s \in Seq(Seq(T)), s # <<>>, s[Len(s)] # <<>>
    PROVE  /\ NextImport(s) \in Seq(Seq(T)) /\ Len(NextImport(s)) = Len(s)
           /\ Len(s) \in Nat \ {0} /\ NextImport(s) # <<>>
           /\ \A k \in 1 .. Len(s) : k # Len(s) => NextImport(s)[k] = s[k]
           /\ NextImport(s)[Len(s)] = Tail(s[Len(s)])
<1>1. /\ s[Len(s)] \in Seq(T) /\ Len(s) \in Nat \ {0}
    OBVIOUS
<1>2. Tail(s[Len(s)]) \in Seq(T)
    BY <1>1
<1>3. NextImport(s) = [s EXCEPT ![Len(s)] = Tail(s[Len(s)])]
    BY DEF NextImport
<1>. QED
    BY <1>1, <1>2, <1>3

-----------------------------------------------------------------------------
(* The graph of imports grows with the files. *)

(* Where nothing is loaded the graph stays. *)
LEMMA SameGraph ==
    ASSUME UNCHANGED files
    PROVE  /\ Loaded' = Loaded
           /\ \A i : ImportsOf(i)' = ImportsOf(i)
           /\ \A f, g : Edge(f, g)' <=> Edge(f, g)
           /\ \A S : Closed(S)' <=> Closed(S)
           /\ \A f : Reach(f)' = Reach(f)
           /\ \A f : Cyclic(f)' <=> Cyclic(f)
<1>1. /\ Loaded' = Loaded
      /\ \A i : ImportsOf(i)' = ImportsOf(i)
    BY DEF Loaded, ImportsOf
<1>2. \A f, g : Edge(f, g)' <=> Edge(f, g)
    BY <1>1 DEF Edge
<1>3. \A S : Closed(S)' <=> Closed(S)
    BY <1>2 DEF Closed
<1>4. \A f : Reach(f)' = Reach(f)
    BY <1>2, <1>3 DEF Reach
<1>. QED
    BY <1>1, <1>2, <1>3, <1>4 DEF Cyclic

(* A file that is loaded adds the edges to its imports and no others. *)
LEMMA GraphGrows ==
    ASSUME LoaderTypeOK, NEW f \in Files, NEW source \in Source, f \notin Loaded,
           files' = Append(files, [path |-> f, source |-> source])
    PROVE  /\ DOMAIN files' = DOMAIN files \cup {Len(files) + 1}
           /\ Len(files) + 1 \notin DOMAIN files
           /\ \A i \in DOMAIN files : files'[i] = files[i] /\ ImportsOf(i)' = ImportsOf(i)
           /\ files'[Len(files) + 1] = [path |-> f, source |-> source]
           /\ Loaded' = Loaded \cup {f}
           /\ \A g, h : Edge(g, h) => Edge(g, h)'
           /\ \A g, h : Edge(g, h)' /\ g # f => Edge(g, h)
           /\ \A S : Closed(S)' => Closed(S)
           /\ \A S : Closed(S) /\ f \notin S => Closed(S)'
           /\ \A g : g # f => Reach(g) \subseteq Reach(g)'
<1> DEFINE n == [path |-> f, source |-> source]
<1>1. n \in [path : Files, source : Source] /\ n.path = f
    OBVIOUS
<1> HIDE DEF n
<1>2. /\ DOMAIN files' = DOMAIN files \cup {Len(files) + 1}
      /\ \A i \in DOMAIN files : files'[i] = files[i]
      /\ files'[Len(files) + 1] = n
    BY <1>1, PushHolds DEF LoaderTypeOK, n
<1>3. Len(files) + 1 \notin DOMAIN files
    BY DEF LoaderTypeOK
<1>4. \A i \in DOMAIN files : ImportsOf(i)' = ImportsOf(i)
    BY <1>2 DEF ImportsOf
<1>5. Loaded' = Loaded \cup {f}
    BY <1>1, <1>2 DEF Loaded
<1>6. \A g, h : Edge(g, h) => Edge(g, h)'
    BY <1>2, <1>4 DEF Edge
<1>7. \A g, h : Edge(g, h)' /\ g # f => Edge(g, h)
    BY <1>1, <1>2, <1>4 DEF Edge
<1>8. \A S : Closed(S)' => Closed(S)
    BY <1>6 DEF Closed
<1>9. \A S : Closed(S) /\ f \notin S => Closed(S)'
    BY <1>7 DEF Closed
<1>10. ASSUME NEW g, g # f, NEW h \in Reach(g) PROVE h \in Reach(g)'
    BY <1>6, <1>8 DEF Reach
<1>. QED
    BY <1>2, <1>3, <1>4, <1>5, <1>6, <1>7, <1>8, <1>9, <1>10 DEF n

(* What is reached from a file goes on to what it imports. *)
LEMMA ReachStep ==
    ASSUME NEW f, NEW g \in Files, NEW h \in Files, g = f \/ g \in Reach(f), Edge(g, h)
    PROVE  h \in Reach(f)
BY DEF Reach, Closed

-----------------------------------------------------------------------------
(* The command's loader. *)

(* What a step of load does. *)
Top == Head(Last(stack))
Importing == stack # <<>> /\ Last(stack) # <<>>

Fails(error) ==
    /\ error \in Errors
    /\ error = "circular" => Importing /\ Top \in Files /\ Top \in ToSet(visiting)
    /\ outcome' = error
    /\ stack' = <<>>
    /\ UNCHANGED <<files, visiting, disk>>

Returns ==
    /\ Importing
    /\ Top # Unknown
    /\ Top \in Files => Top \in Finished
    /\ stack' = NextImport(stack)
    /\ outcome' = "running"
    /\ UNCHANGED <<files, visiting, disk>>

Enters(f) ==
    /\ IF stack = <<>> THEN f = Root ELSE Importing /\ f = Top
    /\ f \notin Loaded
    /\ disk[f] \in Source
    /\ files' = Append(files, [path |-> f, source |-> disk[f]])
    /\ visiting' = Append(visiting, f)
    /\ stack' = Append(stack, disk[f].imports)
    /\ outcome' = "running"
    /\ UNCHANGED disk

Leaves ==
    /\ stack # <<>>
    /\ Last(stack) = <<>>
    /\ visiting' = Front(visiting)
    /\ stack' = NextImport(Front(stack))
    /\ outcome' = IF Len(stack) = 1 THEN "ok" ELSE "running"
    /\ UNCHANGED <<files, disk>>

(* Every step of load is one of these four. *)
LEMMA LoadCases ==
    ASSUME LoadInv, LoadStep
    PROVE  \/ \E error \in Errors : Fails(error)
           \/ Returns
           \/ \E f \in Files : Enters(f)
           \/ Leaves
<1>1. outcome = "running" /\ (stack = <<>> => files = <<>> /\ visiting = <<>>)
    BY DEF LoadStep, LoadInv, Frames, LoaderTypeOK
<1>2. ASSUME NEW f \in Files, Load(f), UNCHANGED disk,
             IF stack = <<>> THEN f = Root ELSE Importing /\ f = Top
      PROVE  \/ \E error \in Errors : Fails(error)
             \/ Returns
             \/ Enters(f)
    <2>1. CASE Fail("missing") \/ Fail("syntax")
        BY <1>2, <2>1 DEF Fail, Fails, Errors
    <2>2. CASE f \in ToSet(visiting) /\ Fail("circular")
        <3>1. stack # <<>>
            BY <1>1, <2>2 DEF ToSet
        <3>. QED
            BY <1>2, <2>2, <3>1 DEF Fail, Fails, Errors
    <2>3. CASE f \in Loaded \ ToSet(visiting) /\ Return
        <3>1. stack # <<>>
            BY <1>1, <2>3 DEF Loaded
        <3>2. Unknown # f
            BY SourcesAssumption DEF SourcesAssumption
        <3>. QED
            BY <1>2, <2>3, <3>1, <3>2 DEF Return, Returns, Finished
    <2>4. CASE disk[f] # Absent /\ f \notin Loaded /\ Enter(f)
        <3>1. disk[f] \in Source
            BY <2>4 DEF LoadInv, LoaderTypeOK
        <3>. QED
            BY <1>1, <1>2, <2>4, <3>1 DEF Enter, Enters
    <2>. QED
        BY <1>2, <2>1, <2>2, <2>3, <2>4 DEF Load
<1>3. CASE stack = <<>> /\ Load(Root) /\ UNCHANGED <<disk, dll>>
    BY <1>2, <1>3, RootAssumption DEF RootAssumption
<1>4. CASE ResolveImport
    <2>1. Importing /\ Import(Top) /\ UNCHANGED disk
        BY <1>4 DEF ResolveImport, Importing, Top
    <2>2. CASE Top \in {Library, Foreign} /\ Return
        <3>1. Top # Unknown /\ Top \notin Files
            BY <2>2, SourcesAssumption DEF SourcesAssumption
        <3>. QED
            BY <2>1, <2>2, <3>1 DEF Return, Returns, Importing
    <2>3. CASE Fail("foreign") \/ Fail("unsupported")
        BY <2>1, <2>3 DEF Fail, Fails, Errors
    <2>4. CASE Top \in Files /\ Load(Top)
        BY <1>2, <2>1, <2>4 DEF Importing
    <2>. QED
        BY <2>1, <2>2, <2>3, <2>4 DEF Import, CompileForeign
<1>5. CASE LeaveModule
    BY <1>5 DEF LeaveModule, Leaves
<1>. QED
    BY <1>3, <1>4, <1>5 DEF LoadStep

(* The import that is resolved is one of the file visited last. *)
LEMMA TopIsImported ==
    ASSUME LoadInv, outcome = "running", Importing
    PROVE  /\ Len(visiting) \in DOMAIN visiting /\ Len(visiting) = Len(stack)
           /\ Last(stack) = stack[Len(visiting)] /\ Last(stack) \in Seq(Imports)
           /\ \E i \in DOMAIN files :
                  files[i].path = visiting[Len(visiting)] /\ (Top \in Files => Top \in ImportsOf(i))
           /\ Top \in Files => Edge(visiting[Len(visiting)], Top)
<1>1. Len(visiting) = Len(stack)
    BY DEF LoadInv, Frames
<1>2. /\ Len(stack) \in Nat \ {0} /\ Last(stack) = stack[Len(stack)]
      /\ Last(stack) \in Seq(Imports)
    BY FrontHolds DEF LoadInv, LoaderTypeOK, Importing
<1>3. Len(visiting) \in DOMAIN visiting
    BY <1>1, <1>2 DEF LoadInv, LoaderTypeOK
<1>4. PICK i \in DOMAIN files : files[i].path = visiting[Len(visiting)]
    BY <1>3 DEF LoadInv, Visits, Loaded
<1>5. FrameOf(Len(visiting), i)
    BY <1>3, <1>4 DEF LoadInv, Frames
<1>6. Top \in ToSet(stack[Len(visiting)])
    BY <1>1, <1>2, TailHolds DEF Importing, Top
<1>7. Top \in Files => Top \in ImportsOf(i)
    BY <1>5, <1>6 DEF FrameOf, ImportsOf
<1>. QED
    BY <1>1, <1>2, <1>3, <1>4, <1>7 DEF Edge

(* An error ends the load; the one of a cycle is right. *)
LEMMA FailsKeeps ==
    ASSUME LoadInv, outcome = "running", NEW error \in Errors, Fails(error)
    PROVE  LoadInv'
<1>1. UNCHANGED <<files, visiting, disk>> /\ stack' = <<>> /\ outcome' = error
    BY DEF Fails
<1>2. error \notin {"running", "ok", "none"}
    BY DEF Errors
<1>3. LoaderTypeOK'
    BY <1>1 DEF LoadInv, LoaderTypeOK
<1>4. (Once /\ Parents /\ Rooted /\ Visits /\ Settled)'
    BY <1>1, SameGraph DEF LoadInv, Once, Parents, Rooted, Visits, Settled, Finished
<1>5. ASSUME error = "circular" PROVE \E f \in Loaded : Cyclic(f)
    <2>1. Importing /\ Top \in Files /\ Top \in ToSet(visiting)
        BY <1>5 DEF Fails
    <2>2. PICK k \in DOMAIN visiting : visiting[k] = Top
        BY <2>1 DEF ToSet
    <2> DEFINE v == visiting[Len(visiting)]
    <2>3. Len(visiting) \in DOMAIN visiting /\ Edge(v, Top)
        BY <2>1, TopIsImported
    <2>4. v \in Files /\ Top \in Loaded
        BY <2>2, <2>3 DEF LoadInv, LoaderTypeOK, Visits
    <2>5. k = Len(visiting) \/ k < Len(visiting)
        BY <2>2 DEF LoadInv, LoaderTypeOK
    <2>6. v = Top \/ v \in Reach(Top)
        BY <2>2, <2>3, <2>5 DEF LoadInv, Visits
    <2>7. Top \in Reach(Top)
        BY <2>1, <2>3, <2>4, <2>6, ReachStep
    <2>. QED
        BY <2>4, <2>7 DEF Cyclic
<1>6. Frames' /\ Ended'
    BY <1>1, <1>2, <1>5, SameGraph DEF Frames, Ended
<1>. QED
    BY <1>3, <1>4, <1>6 DEF LoadInv

(* An import that is resolved is behind its activation. *)
LEMMA ReturnsKeeps ==
    ASSUME LoadInv, outcome = "running", Returns
    PROVE  LoadInv'
<1>1. UNCHANGED <<files, visiting, disk>> /\ stack' = NextImport(stack) /\ outcome' = "running"
    BY DEF Returns
<1> DEFINE V == Len(visiting)
<1>2. /\ V \in DOMAIN visiting /\ V = Len(stack)
      /\ Last(stack) = stack[V] /\ stack[V] \in Seq(Imports) /\ stack[V] # <<>>
    BY TopIsImported DEF Returns, Importing
<1>3. /\ stack' \in Seq(Seq(Imports)) /\ Len(stack') = V /\ stack' # <<>>
      /\ V \in Nat \ {0}
      /\ \A k \in 1 .. V : k # V => stack'[k] = stack[k]
      /\ stack'[V] = Tail(stack[V])
    BY <1>1, <1>2, NextHolds DEF LoadInv, LoaderTypeOK, Returns, Importing
<1>4. LoaderTypeOK'
    BY <1>1, <1>3 DEF LoadInv, LoaderTypeOK
<1>5. (Once /\ Parents /\ Rooted /\ Visits /\ Settled /\ Ended)'
    BY <1>1, SameGraph DEF LoadInv, Once, Parents, Rooted, Visits, Settled, Finished, Ended
<1>6. ASSUME NEW k \in DOMAIN visiting, NEW i \in DOMAIN files, files[i].path = visiting[k]
      PROVE  FrameOf(k, i)'
    <2>1. FrameOf(k, i) /\ k \in 1 .. V
        BY <1>6 DEF LoadInv, Frames, LoaderTypeOK
    <2>2. Finished' = Finished /\ ImportsOf(i)' = ImportsOf(i)
        BY <1>1, SameGraph DEF Finished
    <2>3. CASE k # V
        BY <1>1, <1>3, <2>1, <2>2, <2>3 DEF FrameOf
    <2>4. CASE k = V
        <3>1. /\ ToSet(stack'[V]) \subseteq ToSet(stack[V])
              /\ ToSet(stack[V]) \subseteq ToSet(stack'[V]) \cup {Top}
            BY <1>2, <1>3, TailHolds DEF Top
        <3>2. ImportsOf(i) \ ToSet(stack'[V]) \subseteq Finished
            BY <2>1, <2>4, <3>1 DEF FrameOf, Returns, ImportsOf
        <3>3. Unknown \in ToSet(files[i].source.imports) => Unknown \in ToSet(stack'[V])
            BY <2>1, <2>4, <3>1 DEF FrameOf, Returns
        <3>4. ToSet(stack'[V]) \subseteq ToSet(files[i].source.imports)
            BY <2>1, <2>4, <3>1 DEF FrameOf
        <3>. QED
            BY <1>1, <1>3, <2>2, <2>4, <3>2, <3>3, <3>4 DEF FrameOf
    <2>. QED
        BY <2>3, <2>4
<1>7. Frames'
    BY <1>1, <1>3, <1>6 DEF Frames
<1>. QED
    BY <1>4, <1>5, <1>7 DEF LoadInv

(* A file that is entered is a new one, imported by the one visited last. *)
LEMMA EntersKeeps ==
    ASSUME LoadInv, outcome = "running", NEW f \in Files, Enters(f)
    PROVE  LoadInv'
<1> DEFINE N == Len(files)
           V == Len(visiting)
           source == disk[f]
<1>1. /\ f \notin Loaded /\ source \in Source
      /\ files' = Append(files, [path |-> f, source |-> source])
      /\ visiting' = Append(visiting, f) /\ stack' = Append(stack, source.imports)
      /\ outcome' = "running" /\ disk' = disk
    BY DEF Enters
<1>2. LoaderTypeOK /\ Len(stack) = V /\ N \in Nat /\ V \in Nat /\ DOMAIN files = 1 .. N
    BY DEF LoadInv, Frames, LoaderTypeOK
<1>3. source.imports \in Seq(Imports)
    BY <1>1 DEF Source
<1> HIDE DEF source
<1>4. /\ DOMAIN files' = DOMAIN files \cup {N + 1} /\ N + 1 \notin DOMAIN files
      /\ \A i \in DOMAIN files : files'[i] = files[i] /\ ImportsOf(i)' = ImportsOf(i)
      /\ files'[N + 1] = [path |-> f, source |-> source]
      /\ Loaded' = Loaded \cup {f}
      /\ \A g, h : Edge(g, h) => Edge(g, h)'
      /\ \A S : Closed(S) /\ f \notin S => Closed(S)'
      /\ \A g : g # f => Reach(g) \subseteq Reach(g)'
    BY <1>1, <1>2, GraphGrows
<1>5. /\ visiting' \in Seq(Files) /\ Len(visiting') = V + 1
      /\ DOMAIN visiting' = DOMAIN visiting \cup {V + 1}
      /\ \A k \in DOMAIN visiting : visiting'[k] = visiting[k]
      /\ visiting'[V + 1] = f
      /\ ToSet(visiting') = ToSet(visiting) \cup {f}
    BY <1>1, <1>2, PushHolds DEF LoaderTypeOK
<1>6. /\ stack' \in Seq(Seq(Imports)) /\ Len(stack') = V + 1
      /\ \A k \in 1 .. V : stack'[k] = stack[k]
      /\ stack'[V + 1] = source.imports
    BY <1>1, <1>2, <1>3, PushHolds DEF LoaderTypeOK
<1>7. DOMAIN visiting = 1 .. V /\ \A k \in DOMAIN visiting : visiting[k] \in Files /\ visiting[k] # f
    BY <1>1, <1>2 DEF LoadInv, LoaderTypeOK, Visits
<1>8. LoaderTypeOK'
    <2>1. [path |-> f, source |-> source] \in [path : Files, source : Source]
        BY <1>1
    <2> DEFINE n == [path |-> f, source |-> source]
    <2> HIDE DEF n
    <2>2. files' \in Seq([path : Files, source : Source])
        BY <1>1, <1>2, <2>1, PushHolds DEF LoaderTypeOK, n
    <2>. QED
        BY <1>1, <1>2, <1>5, <1>6, <2>2 DEF LoaderTypeOK
<1>9. Finished' = Finished
    BY <1>1, <1>4, <1>5 DEF Finished
<1>10. Once'
    <2>1. \A i \in DOMAIN files : files[i].path # f
        BY <1>1 DEF Loaded
    <2>. QED
        BY <1>4, <2>1 DEF LoadInv, Once
<1>11. ASSUME stack = <<>> PROVE Parents' /\ Rooted' /\ Visits'
    <2>1. files = <<>> /\ visiting = <<>> /\ f = Root
        BY <1>2, <1>11 DEF LoadInv, Frames, LoaderTypeOK, Enters
    <2>2. N = 0 /\ V = 0 /\ DOMAIN files' = {1} /\ files'[1].path = Root
        BY <1>4, <2>1
    <2>3. Parents' /\ Rooted'
        BY <2>2 DEF Parents, Rooted
    <2>4. Visits'
        BY <1>4, <1>5, <2>2 DEF Visits
    <2>. QED
        BY <2>3, <2>4
<1>12. ASSUME stack # <<>> PROVE Parents' /\ Rooted' /\ Visits'
    <2>1. Importing /\ f = Top
        BY <1>12 DEF Enters
    <2>2. /\ V \in DOMAIN visiting /\ Edge(visiting[V], f)
          /\ \E i \in DOMAIN files : files[i].path = visiting[V] /\ f \in ImportsOf(i)
        BY <2>1, TopIsImported
    <2>3. PICK i \in DOMAIN files : files[i].path = visiting[V] /\ f \in ImportsOf(i)
        BY <2>2
    <2>4. Parents'
        <3>1. i \in 1 .. N /\ N + 1 # 1 /\ 1 \in DOMAIN files
            BY <1>2, <2>3
        <3>2. i \in 1 .. (N + 1) - 1 /\ files'[N + 1].path \in ImportsOf(i)'
            BY <1>2, <1>4, <2>3
        <3>3. ASSUME NEW j \in DOMAIN files, j # 1
              PROVE  \E h \in 1 .. j - 1 : files'[j].path \in ImportsOf(h)'
            <4>1. PICK h \in 1 .. j - 1 : files[j].path \in ImportsOf(h)
                BY <3>3 DEF LoadInv, Parents
            <4>2. h \in DOMAIN files
                BY <1>2, <3>3, <4>1
            <4>. QED
                BY <1>4, <4>1, <4>2
        <3>4. files'[1].path = Root
            BY <1>4, <3>1 DEF LoadInv, Parents
        <3>. QED
            BY <1>4, <3>1, <3>2, <3>3, <3>4 DEF Parents
    <2>5. Rooted'
        <3> DEFINE r == files[1].path
        <3>1. 1 \in DOMAIN files /\ r \in Loaded /\ r # f /\ files'[1].path = r
            BY <1>1, <1>2, <1>4, <2>3 DEF Loaded
        <3>2. visiting[V] = r \/ visiting[V] \in Reach(r)
            BY <1>2, <2>3 DEF LoadInv, Rooted
        <3>3. f \in Reach(r)
            BY <1>7, <2>2, <3>2, ReachStep
        <3>4. f \in Reach(r)' /\ Reach(r) \subseteq Reach(r)'
            BY <1>4, <3>1, <3>3
        <3>. QED
            BY <1>4, <3>1, <3>4 DEF LoadInv, Rooted
    <2>6. ASSUME NEW k \in DOMAIN visiting, NEW g, g = visiting[k] PROVE f \in Reach(g)'
        <3>1. visiting[V] = visiting[k] \/ visiting[V] \in Reach(visiting[k])
            BY <1>7, <2>2, <2>6 DEF LoadInv, Visits
        <3>2. f \in Reach(visiting[k])
            BY <1>7, <2>2, <3>1, ReachStep
        <3>. QED
            BY <1>4, <1>7, <2>6, <3>2
    <2>7. ASSUME NEW k \in DOMAIN visiting, NEW l \in DOMAIN visiting, k < l,
                 NEW g, g = visiting[k]
          PROVE  visiting[l] \in Reach(g)'
        <3>1. visiting[l] \in Reach(g) /\ g # f
            BY <1>7, <2>7 DEF LoadInv, Visits
        <3>. QED
            BY <1>4, <3>1
    <2>8. Visits'
        <3>1. \A k, l \in DOMAIN visiting' : visiting'[k] = visiting'[l] => k = l
            BY <1>5, <1>7 DEF LoadInv, Visits
        <3>2. \A k \in DOMAIN visiting' : visiting'[k] \in Loaded'
            BY <1>4, <1>5 DEF LoadInv, Visits
        <3>3. ASSUME NEW k \in DOMAIN visiting', NEW l \in DOMAIN visiting', k < l,
                     NEW g, g = visiting'[k]
              PROVE  visiting'[l] \in Reach(g)'
            <4>1. k \in DOMAIN visiting
                BY <1>2, <1>5, <1>7, <3>3
            <4>2. g = visiting[k]
                BY <1>5, <3>3, <4>1
            <4>3. CASE l = V + 1
                BY <1>5, <2>6, <4>1, <4>2, <4>3
            <4>4. CASE l \in DOMAIN visiting
                BY <1>5, <2>7, <3>3, <4>1, <4>2, <4>4
            <4>. QED
                BY <1>5, <4>3, <4>4
        <3>. QED
            BY <3>1, <3>2, <3>3 DEF Visits
    <2>. QED
        BY <2>4, <2>5, <2>8
<1>13. Settled'
    <2>1. f \notin Finished
        BY <1>1 DEF Finished
    <2>2. ASSUME NEW i \in DOMAIN files, files[i].path \in Finished
          PROVE  /\ ImportsOf(i)' \subseteq Finished'
                 /\ Unknown \notin ToSet(files'[i].source.imports)
                 /\ \E S \in SUBSET Finished' :
                      Closed(S)' /\ ImportsOf(i)' \subseteq S /\ files'[i].path \notin S
        <3>1. PICK S \in SUBSET Finished :
                     Closed(S) /\ ImportsOf(i) \subseteq S /\ files[i].path \notin S
            BY <2>2 DEF LoadInv, Settled
        <3>2. Closed(S)'
            BY <1>4, <2>1, <3>1
        <3>. QED
            BY <1>4, <1>9, <2>2, <3>1, <3>2 DEF LoadInv, Settled
    <2>. QED
        BY <1>4, <1>9, <2>1, <2>2 DEF Settled
<1>14. ASSUME NEW k \in DOMAIN visiting', NEW i \in DOMAIN files', files'[i].path = visiting'[k]
       PROVE  FrameOf(k, i)'
    <2>1. CASE k \in DOMAIN visiting
        <3>1. k \in 1 .. V /\ k < V + 1
            BY <1>7, <2>1, <1>2
        <3>2. i \in DOMAIN files
            BY <1>4, <1>5, <1>7, <1>14, <2>1
        <3>3. FrameOf(k, i)
            BY <1>4, <1>5, <1>14, <2>1, <3>2 DEF LoadInv, Frames
        <3>4. stack[k] # <<>> /\ Head(stack[k]) = visiting'[k + 1]
            <4>1. CASE k < V
                <5>1. k + 1 \in DOMAIN visiting
                    BY <1>2, <1>7, <3>1, <4>1
                <5>. QED
                    BY <1>5, <3>3, <4>1, <5>1 DEF FrameOf
            <4>2. CASE k = V
                <5>1. stack # <<>>
                    BY <1>2, <3>1
                <5>2. Importing /\ f = Top
                    BY <5>1 DEF Enters
                <5>3. Last(stack) = stack[V]
                    BY <5>2, TopIsImported
                <5>. QED
                    BY <1>5, <4>2, <5>2, <5>3 DEF Importing, Top
            <4>. QED
                BY <1>2, <3>1, <4>1, <4>2
        <3>. QED
            BY <1>4, <1>6, <1>9, <3>1, <3>2, <3>3, <3>4 DEF FrameOf
    <2>2. CASE k = V + 1
        <3>1. \A j \in DOMAIN files : files[j].path # f
            BY <1>1 DEF Loaded
        <3>2. i = N + 1
            BY <1>4, <1>5, <1>14, <2>2, <3>1
        <3>3. files'[i].source = source /\ stack'[k] = source.imports
            BY <1>4, <1>6, <2>2, <3>2
        <3>4. ImportsOf(i)' \subseteq ToSet(source.imports) /\ ~(k < Len(visiting'))
            BY <1>2, <1>5, <2>2, <3>3 DEF ImportsOf
        <3>. QED
            BY <3>3, <3>4 DEF FrameOf
    <2>. QED
        BY <1>5, <2>1, <2>2
<1>15. Frames'
    <2>1. stack' # <<>>
        BY <1>2, <1>6
    <2>. QED
        BY <1>5, <1>6, <1>14, <2>1 DEF Frames
<1>16. Ended'
    BY <1>1 DEF Ended
<1>. QED
    BY <1>8, <1>10, <1>11, <1>12, <1>13, <1>15, <1>16 DEF LoadInv

(* A file that is left is finished: all it needs is. *)
LEMMA LeavesKeeps ==
    ASSUME LoadInv, outcome = "running", Leaves
    PROVE  LoadInv'
<1> DEFINE V == Len(visiting)
           g == visiting[V]
<1>1. /\ visiting' = Front(visiting) /\ stack' = NextImport(Front(stack))
      /\ outcome' = (IF Len(stack) = 1 THEN "ok" ELSE "running")
      /\ UNCHANGED <<files, disk>> /\ stack # <<>> /\ Last(stack) = <<>>
    BY DEF Leaves
<1>2. /\ LoaderTypeOK /\ V = Len(stack) /\ V \in Nat \ {0} /\ visiting # <<>>
      /\ DOMAIN visiting = 1 .. V
    BY <1>1 DEF LoadInv, Frames, LoaderTypeOK
<1>3. /\ visiting' \in Seq(Files) /\ Len(visiting') = V - 1 /\ DOMAIN visiting' = 1 .. V - 1
      /\ \A k \in 1 .. V - 1 : visiting'[k] = visiting[k]
      /\ g \in Files /\ ToSet(visiting) = ToSet(visiting') \cup {g}
    <2>1. /\ visiting' \in Seq(Files) /\ Len(visiting') = V - 1
          /\ \A k \in 1 .. V - 1 : visiting'[k] = visiting[k]
          /\ g \in Files /\ ToSet(visiting) = ToSet(visiting') \cup {g}
        <3>1. /\ Front(visiting) \in Seq(Files) /\ Len(Front(visiting)) = Len(visiting) - 1
              /\ \A i \in 1 .. Len(visiting) - 1 : Front(visiting)[i] = visiting[i]
              /\ Last(visiting) = visiting[Len(visiting)] /\ Last(visiting) \in Files
              /\ ToSet(visiting) = ToSet(Front(visiting)) \cup {Last(visiting)}
            BY <1>2, FrontHolds DEF LoaderTypeOK
        <3>. QED
            BY <1>1, <3>1
    <2>. QED
        BY <1>2, <2>1
<1> DEFINE s == Front(stack)
<1>4. /\ s \in Seq(Seq(Imports)) /\ Len(s) = V - 1
      /\ \A k \in 1 .. V - 1 : s[k] = stack[k]
      /\ stack[V] = <<>>
    BY <1>1, <1>2, FrontHolds DEF LoaderTypeOK
<1> HIDE DEF s
<1>5. Finished' = Finished \cup {g} /\ g \notin Finished
    <2>1. g \notin ToSet(visiting')
        BY <1>2, <1>3 DEF LoadInv, Visits, ToSet
    <2>2. g \in Loaded
        BY <1>2 DEF LoadInv, Visits
    <2>. QED
        BY <1>1, <1>3, <2>1, <2>2, SameGraph DEF Finished
<1>6. ASSUME NEW i \in DOMAIN files, files[i].path = g
      PROVE  ImportsOf(i) \subseteq Finished /\ Unknown \notin ToSet(files[i].source.imports)
    <2>1. FrameOf(V, i)
        BY <1>2, <1>6 DEF LoadInv, Frames
    <2>2. ToSet(stack[V]) = {}
        BY <1>4 DEF ToSet
    <2>. QED
        BY <2>1, <2>2 DEF FrameOf
<1>7. Closed(Finished)
    BY DEF LoadInv, Settled, Closed, Edge
<1>8. Settled'
    <2> SUFFICES ASSUME NEW i \in DOMAIN files, files[i].path \in Finished'
                 PROVE  /\ ImportsOf(i) \subseteq Finished'
                        /\ Unknown \notin ToSet(files[i].source.imports)
                        /\ \E S \in SUBSET Finished' :
                               Closed(S) /\ ImportsOf(i) \subseteq S /\ files[i].path \notin S
        BY <1>1, SameGraph DEF Settled
    <2>1. CASE files[i].path \in Finished
        <3>1. PICK S \in SUBSET Finished :
                     Closed(S) /\ ImportsOf(i) \subseteq S /\ files[i].path \notin S
            BY <2>1 DEF LoadInv, Settled
        <3>. QED
            BY <1>5, <2>1, <3>1 DEF LoadInv, Settled
    <2>2. CASE files[i].path = g
        BY <1>5, <1>6, <1>7, <2>2
    <2>. QED
        BY <1>5, <2>1, <2>2
<1>9. Visits'
    <2>1. \A k \in 1 .. V - 1 : k \in 1 .. V
        BY <1>2
    <2>2. /\ \A k, l \in DOMAIN visiting' : visiting'[k] = visiting'[l] => k = l
          /\ \A k \in DOMAIN visiting' : visiting'[k] \in Loaded
        BY <1>2, <1>3, <2>1 DEF LoadInv, Visits
    <2>3. ASSUME NEW k \in DOMAIN visiting', NEW l \in DOMAIN visiting', k < l,
                 NEW h, h = visiting'[k]
          PROVE  visiting'[l] \in Reach(h)'
        <3>1. h = visiting[k] /\ visiting'[l] \in Reach(h)
            BY <1>2, <1>3, <2>1, <2>3 DEF LoadInv, Visits
        <3>. QED
            BY <1>1, <3>1, SameGraph
    <2>4. Loaded' = Loaded
        BY <1>1, SameGraph
    <2>. QED
        BY <2>2, <2>3, <2>4 DEF Visits
<1>10. (Once /\ Parents /\ Rooted)'
    BY <1>1, SameGraph DEF LoadInv, Once, Parents, Rooted
<1>11. CASE V = 1
    <2>1. s = <<>> /\ visiting' = <<>>
        BY <1>3, <1>4, <1>11
    <2>2. stack' = <<>> /\ outcome' = "ok"
        BY <1>1, <1>2, <1>11, <2>1 DEF NextImport, s
    <2>3. <<>> \in Seq(Seq(Imports))
        OBVIOUS
    <2>4. LoaderTypeOK'
        BY <1>1, <1>2, <1>3, <2>2, <2>3 DEF LoaderTypeOK
    <2>5. Frames' /\ Ended'
        BY <2>1, <2>2 DEF Frames, Ended
    <2>. QED
        BY <1>8, <1>9, <1>10, <2>4, <2>5 DEF LoadInv
<1>12. CASE V # 1
    <2>1. V - 1 \in 1 .. V /\ V - 1 \in DOMAIN visiting /\ s # <<>> /\ (V - 1) + 1 = V
        BY <1>2, <1>4, <1>12
    <2>2. ASSUME NEW i \in DOMAIN files, files[i].path = visiting[V - 1]
          PROVE  FrameOf(V - 1, i) /\ stack[V - 1] # <<>> /\ Head(stack[V - 1]) = g
        <3>1. FrameOf(V - 1, i) /\ V - 1 < V
            BY <1>2, <2>1, <2>2 DEF LoadInv, Frames
        <3>. QED
            BY <2>1, <3>1 DEF FrameOf
    <2>3. stack[V - 1] # <<>> /\ Head(stack[V - 1]) = g
        <3>1. \E i \in DOMAIN files : files[i].path = visiting[V - 1]
            BY <2>1 DEF LoadInv, Visits, Loaded
        <3>. QED
            BY <2>2, <3>1
    <2>4. /\ stack' \in Seq(Seq(Imports)) /\ Len(stack') = V - 1 /\ stack' # <<>>
          /\ \A k \in 1 .. V - 1 : k # V - 1 => stack'[k] = stack[k]
          /\ stack'[V - 1] = Tail(stack[V - 1])
        <3>1. stack' = NextImport(s) /\ s[Len(s)] = stack[V - 1]
            BY <1>1, <1>2, <1>4, <1>12 DEF s
        <3>2. /\ NextImport(s) \in Seq(Seq(Imports)) /\ Len(NextImport(s)) = Len(s)
              /\ NextImport(s) # <<>>
              /\ \A k \in 1 .. Len(s) : k # Len(s) => NextImport(s)[k] = s[k]
              /\ NextImport(s)[Len(s)] = Tail(s[Len(s)])
            BY <1>4, <2>1, <2>3, <3>1, NextHolds
        <3>. QED
            BY <1>4, <3>1, <3>2
    <2>5. outcome' = "running"
        BY <1>1, <1>2, <1>12
    <2>6. LoaderTypeOK'
        BY <1>1, <1>2, <1>3, <2>4, <2>5 DEF LoaderTypeOK
    <2>7. ASSUME NEW k \in 1 .. V - 1, NEW i \in DOMAIN files, files[i].path = visiting[k]
          PROVE  FrameOf(k, i)'
        <3>1. FrameOf(k, i) /\ k < V /\ k \in 1 .. V
            BY <1>2, <2>7 DEF LoadInv, Frames
        <3>2. ImportsOf(i)' = ImportsOf(i) /\ files' = files
            BY <1>1, SameGraph
        <3>3. CASE k # V - 1
            <4>2. V \in Nat /\ k \in 1 .. V - 1 /\ k # V - 1
                BY <1>2, <3>3
            <4>1. k + 1 \in 1 .. V - 1 /\ k < V - 1
                <5> HIDE DEF V
                <5>. QED
                    BY <4>2
            <4>. QED
                <5>1. stack'[k] = stack[k] /\ visiting'[k + 1] = visiting[k + 1]
                    BY <1>3, <2>4, <2>7, <3>3, <4>1
                <5>2. Finished \subseteq Finished'
                    BY <1>5
                <5>. QED
                    BY <1>3, <3>1, <3>2, <4>1, <5>1, <5>2 DEF FrameOf
        <3>4. CASE k = V - 1
            <4>1. stack[V - 1] \in Seq(Imports)
                BY <1>2, <2>1 DEF LoaderTypeOK
            <4>2. /\ ToSet(stack'[V - 1]) \subseteq ToSet(stack[V - 1])
                  /\ ToSet(stack[V - 1]) \subseteq ToSet(stack'[V - 1]) \cup {g}
                BY <2>3, <2>4, <4>1, TailHolds
            <4>3. Unknown # g
                BY <1>3, SourcesAssumption DEF SourcesAssumption
            <4>4. ImportsOf(i) \ ToSet(stack'[k]) \subseteq Finished'
                BY <1>5, <3>1, <3>4, <4>2 DEF FrameOf
            <4>5. Unknown \in ToSet(files[i].source.imports) => Unknown \in ToSet(stack'[k])
                BY <3>1, <3>4, <4>2, <4>3 DEF FrameOf
            <4>6. ToSet(stack'[k]) \subseteq ToSet(files[i].source.imports)
                BY <3>1, <3>4, <4>2 DEF FrameOf
            <4>7. ~(k < Len(visiting'))
                BY <1>2, <1>3, <3>4
            <4>. QED
                BY <3>2, <4>4, <4>5, <4>6, <4>7 DEF FrameOf
        <3>. QED
            BY <3>3, <3>4
    <2>8. Frames'
        BY <1>1, <1>3, <2>4, <2>7 DEF Frames
    <2>9. Ended'
        BY <2>5 DEF Ended
    <2>. QED
        BY <1>8, <1>9, <1>10, <2>6, <2>8, <2>9 DEF LoadInv
<1>. QED
    BY <1>11, <1>12

(* Nothing is loaded when the command line starts. *)
LEMMA LoadInit == Init => LoadInv
<1> SUFFICES ASSUME Init PROVE LoadInv
    OBVIOUS
<1>1. /\ files = <<>> /\ visiting = <<>> /\ stack = <<>> /\ outcome = "none"
      /\ disk \in [Files -> UNION {Sources[f] : f \in Files}]
      /\ \A f \in Files : disk[f] \in Sources[f]
    BY DEF Init, NewLoader
<1>2. \A f \in Files : Sources[f] \subseteq {Absent} \cup Source
    BY SourcesAssumption DEF SourcesAssumption, Source
<1>3. disk \in [Files -> {Absent} \cup Source]
    BY <1>1, <1>2
<1>4. LoaderTypeOK
    BY <1>1, <1>3 DEF LoaderTypeOK
<1>5. Once /\ Parents /\ Rooted /\ Visits /\ Settled /\ Frames /\ Ended
    BY <1>1 DEF Once, Parents, Rooted, Visits, Settled, Frames, Ended, Finished
<1>. QED
    BY <1>4, <1>5 DEF LoadInv

(* Steps of others leave the loader as it is; an edit changes the disk only. *)
LEMMA LoaderStays ==
    ASSUME LoadInv, UNCHANGED loader,
           \/ disk' = disk
           \/ \E f \in Files : \E source \in Sources[f] : disk' = [disk EXCEPT ![f] = source]
    PROVE  LoadInv'
<1>1. UNCHANGED <<files, visiting, stack, outcome>>
    BY DEF loader
<1>2. \A f \in Files : Sources[f] \subseteq {Absent} \cup Source
    BY SourcesAssumption DEF SourcesAssumption, Source
<1>3. disk' \in [Files -> {Absent} \cup Source]
    BY <1>2 DEF LoadInv, LoaderTypeOK
<1>4. LoaderTypeOK'
    BY <1>1, <1>3 DEF LoadInv, LoaderTypeOK
<1>5. (Once /\ Parents /\ Rooted /\ Visits /\ Settled /\ Ended)'
    BY <1>1, SameGraph DEF LoadInv, Once, Parents, Rooted, Visits, Settled, Finished, Ended
<1>6. Frames'
    BY <1>1, SameGraph DEF LoadInv, Frames, FrameOf, Finished
<1>. QED
    BY <1>4, <1>5, <1>6 DEF LoadInv

(* Every run of the program begins with a new loader. *)
LEMMA LoaderBegins ==
    ASSUME LoadInv, Begin, disk' = disk
    PROVE  LoadInv'
<1>1. files' = <<>> /\ visiting' = <<>> /\ stack' = <<>> /\ outcome' = "running"
    BY DEF Begin
<1>2. LoaderTypeOK'
    BY <1>1 DEF LoadInv, LoaderTypeOK
<1>3. (Once /\ Parents /\ Rooted /\ Visits /\ Settled /\ Frames /\ Ended)'
    BY <1>1 DEF Once, Parents, Rooted, Visits, Settled, Frames, Ended, Finished
<1>. QED
    BY <1>2, <1>3 DEF LoadInv

(* The invariant of the loader holds through every step of the command line. *)
LEMMA LoadNext == LoadInv /\ [Next]_vars => LoadInv'
<1> SUFFICES ASSUME LoadInv, [Next]_vars PROVE LoadInv'
    OBVIOUS
<1>1. CASE LoadStep
    <2>1. outcome = "running"
        BY <1>1 DEF LoadStep
    <2>. QED
        BY <1>1, <2>1, LoadCases, FailsKeeps, ReturnsKeeps, EntersKeeps, LeavesKeeps
<1>2. CASE Start \/ Poll
    BY <1>2, LoaderBegins DEF Start, Poll
<1>3. CASE UNCHANGED <<loader, disk>>
    BY <1>3, LoaderStays
<1>4. CASE Check \/ Run \/ CleanUp
    <2>1. UNCHANGED <<loader, disk>>
        BY <1>4 DEF Check, Run, CleanUp, Failed, Succeeded, Goes, watch
    <2>. QED
        BY <1>3, <2>1
<1>5. CASE WriteSources \/ Clang \/ Link
    <2>1. UNCHANGED <<loader, disk>>
        BY <1>5 DEF WriteSources, Clang, Link, Stage, Failed, Goes, watch
    <2>. QED
        BY <1>3, <2>1
<1>6. CASE Interrupt \/ Pkg \/ UNCHANGED vars
    <2>1. UNCHANGED <<loader, disk>>
        BY <1>6 DEF Interrupt, Pkg, vars, watch
    <2>. QED
        BY <1>3, <2>1
<1>7. ASSUME NEW f \in Files, NEW source \in Sources[f], Edit(f, source) PROVE LoadInv'
    <2>1. UNCHANGED loader /\ disk' = [disk EXCEPT ![f] = source]
        BY <1>7 DEF Edit
    <2>. QED
        BY <2>1, LoaderStays
<1>. QED
    BY <1>1, <1>2, <1>4, <1>5, <1>6, <1>7 DEF Next, Program

(* What the invariant says of a load that is over. *)
LEMMA LoadedFollows == LoadInv => ProgramLoaded
<1> SUFFICES ASSUME LoadInv PROVE ProgramLoaded
    OBVIOUS
<1>1. ASSUME outcome = "ok" PROVE visiting = <<>> /\ Finished = Loaded
    <2>1. visiting = <<>>
        BY <1>1 DEF LoadInv, Ended
    <2>2. ToSet(visiting) = {}
        BY <2>1 DEF ToSet
    <2>. QED
        BY <2>1, <2>2 DEF Finished
<1>2. ASSUME outcome = "ok", NEW i \in DOMAIN files
      PROVE  /\ ImportsOf(i) \subseteq Loaded
             /\ Unknown \notin ToSet(files[i].source.imports)
             /\ ~Cyclic(files[i].path)
    <2>1. files[i].path \in Finished
        BY <1>1, <1>2 DEF Loaded
    <2>2. PICK S \in SUBSET Finished :
                 Closed(S) /\ ImportsOf(i) \subseteq S /\ files[i].path \notin S
        BY <2>1 DEF LoadInv, Settled
    <2>3. Loaded \subseteq Files
        <3>1. \A j \in DOMAIN files : files[j] \in [path : Files, source : Source]
            <4> DEFINE Entries == [path : Files, source : Source]
            <4>1. files \in Seq(Entries)
                BY DEF LoadInv, LoaderTypeOK
            <4> HIDE DEF Entries
            <4>2. \A j \in DOMAIN files : files[j] \in Entries
                BY <4>1
            <4>. QED
                BY <4>2 DEF Entries
        <3>. QED
            BY <3>1 DEF Loaded
    <2>4. S \in SUBSET Files
        BY <2>2, <2>3 DEF Finished
    <2>5. \A h \in Files : Edge(files[i].path, h) => h \in S
        BY <2>2 DEF LoadInv, Once, Edge
    <2>6. ~Cyclic(files[i].path)
        BY <2>2, <2>4, <2>5 DEF Cyclic, Reach
    <2>. QED
        BY <1>1, <1>2, <2>1, <2>6 DEF LoadInv, Settled
<1>3. LoadedExactly
    <2>1. outcome = "ok" => \A f \in Loaded : ~Cyclic(f)
        BY <1>2 DEF Loaded
    <2>. QED
        BY <1>1, <1>2, <2>1 DEF LoadedExactly, LoadInv, Once, Rooted, Ended
<1>4. TreesAccepted
    <2> SUFFICES ASSUME outcome = "ok", ImportedOnce, NEW i \in DOMAIN files, NEW f \in ImportsOf(i)
                 PROVE  f \in ChecksBefore(i)
        BY DEF TreesAccepted, TypecheckAll
    <2>1. Len(files) \in Nat /\ DOMAIN files = 1 .. Len(files)
        BY DEF LoadInv, LoaderTypeOK
    <2>2. PICK j \in DOMAIN files : files[j].path = f
        BY <1>2 DEF Loaded
    <2>3. CASE j > i
        BY <2>1, <2>2, <2>3 DEF ChecksBefore
    <2>4. j # 1
        BY <2>2 DEF LoadInv, Parents, ImportedOnce
    <2>5. CASE ~(j > i)
        <3>1. PICK h \in 1 .. j - 1 : f \in ImportsOf(h)
            BY <2>2, <2>4 DEF LoadInv, Parents
        <3>2. h \in DOMAIN files /\ h # i
            BY <2>1, <2>2, <2>5, <3>1
        <3>. QED
            BY <3>1, <3>2 DEF ImportedOnce
    <2>. QED
        BY <2>3, <2>5
<1>. QED
    BY <1>3, <1>4 DEF ProgramLoaded

(* A load that succeeds has read what the program needs and nothing else,  *)
(* each file once; a cycle is reported when there is one and only then;    *)
(* and a program whose modules have one importer each is accepted.         *)
THEOREM LoadsAreExact == Spec => []ProgramLoaded
    BY LoadInit, LoadNext, LoadedFollows, PTL DEF Spec

-----------------------------------------------------------------------------
(* The build: the executable that is cleaned up after is the program that   *)
(* was loaded for it, and what a build makes is intermediate.               *)
BuildInv == /\ command \in [name : {"none", "run", "build"}, watch : BOOLEAN]
            /\ made \subseteq Intermediate
            /\ place = "clean" => exe = files

(* The output directory through a step. *)
LEMMA BuildNext ==
    /\ Init => BuildInv
    /\ BuildInv /\ [Next]_vars =>
          BuildInv' /\ (place = "clean" /\ place' # "clean" => exe' = files /\ made' = {})
<1>1. Init => BuildInv
    BY DEF Init, BuildInv
<1> SUFFICES ASSUME BuildInv, [Next]_vars
             PROVE  BuildInv' /\ (place = "clean" /\ place' # "clean" => exe' = files /\ made' = {})
    BY <1>1
<1> USE DEF BuildInv
<1>2. CASE LoadStep \/ Interrupt \/ UNCHANGED vars \/ \E f \in Files : \E source \in Sources[f] : Edit(f, source)
    BY <1>2 DEF LoadStep, Interrupt, Edit, output, shell, loader, vars
<1>3. CASE Start \/ Poll \/ Pkg
    BY <1>3 DEF Start, Poll, Pkg, Begin, output
<1>4. CASE Check \/ Run
    BY <1>4 DEF Check, Run, Failed, Succeeded, Goes, output, Errors
<1>5. CASE WriteSources \/ Clang \/ Link
    BY <1>5 DEF WriteSources, Clang, Link, Stage, Failed, Goes, output, loader, Intermediate
<1>6. CASE CleanUp
    BY <1>6 DEF CleanUp, Succeeded
<1>. QED
    BY <1>2, <1>3, <1>4, <1>5, <1>6 DEF Next, Program

(* A build that has succeeded leaves the program that was loaded, and      *)
(* nothing of its intermediate files.                                      *)
THEOREM BuildsWhatWasLoaded == Spec => BuiltIsLoaded
    BY BuildNext, PTL DEF Spec, BuiltIsLoaded

-----------------------------------------------------------------------------
(* The packages.  What is in lib is partial or the clone that the manifest *)
(* names: a name is written to the manifest once, before its clone.        *)
PkgTypeOK ==
    /\ manifest \in [deps : [Names -> Urls \cup {NoUrl}], meta : BOOLEAN]
    /\ lib \in [Names -> Urls \cup {NoUrl, Partial}]
    /\ job \in [at : {"idle", "added", "synced", "failed", "killed", "save", "clear",
                      "clone", "sync"},
                url : Urls \cup {NoUrl}, left : SUBSET Names]
    /\ job.at \in {"save", "clear", "clone", "added"} => job.url \in Urls

SyncInv ==
    /\ PkgTypeOK
    /\ \A n \in Names : /\ manifest.deps[n] \in Urls => NameOf[manifest.deps[n]] = n
                        /\ lib[n] \in Urls => lib[n] = manifest.deps[n]
    /\ job.at = "save" => NameOf[job.url] \notin Deps
    /\ job.at \in {"clear", "clone", "added"} => manifest.deps[NameOf[job.url]] = job.url
    /\ job.at = "added" => lib[NameOf[job.url]] = job.url
    /\ job.at = "sync" => \A n \in Deps \ job.left : lib[n] = manifest.deps[n]
    /\ job.at = "synced" => \A n \in Deps : lib[n] = manifest.deps[n]

(* The package commands keep the invariant, whatever fails or is killed.   *)
LEMMA SyncNextInv == SyncInv /\ [Next]_vars => SyncInv'
<1> SUFFICES ASSUME SyncInv, [Next]_vars PROVE SyncInv'
    OBVIOUS
<1> USE PackagesAssumption DEF PackagesAssumption, SyncInv, PkgTypeOK, Deps, Ends
<1>1. CASE UNCHANGED packages
    BY <1>1 DEF packages
<1>2. ASSUME NEW url \in Urls, Add(url) PROVE SyncInv'
    BY <1>2 DEF Add, Idle
<1>3. CASE SaveManifest
    <2>1. CASE Ends("failed") /\ UNCHANGED <<lib, manifest>>
        BY <2>1
    <2>2. CASE Ends("clear") /\ lib' = lib /\ job.at = "save"
               /\ manifest' = [deps |-> [manifest.deps EXCEPT ![NameOf[job.url]] = job.url],
                               meta |-> FALSE]
        <3> DEFINE n == NameOf[job.url]
        <3>1. /\ job.url \in Urls /\ n \in Names /\ manifest.deps[n] = NoUrl
              /\ lib[n] \notin Urls
            BY <2>2
        <3>2. /\ manifest'.deps \in [Names -> Urls \cup {NoUrl}]
              /\ manifest'.deps[n] = job.url
              /\ \A m \in Names : m # n => manifest'.deps[m] = manifest.deps[m]
            BY <2>2, <3>1
        <3>3. PkgTypeOK'
            BY <2>2, <3>1, <3>2
        <3>4. \A m \in Names : /\ manifest'.deps[m] \in Urls => NameOf[manifest'.deps[m]] = m
                              /\ lib[m] \in Urls => lib[m] = manifest'.deps[m]
            BY <3>1, <3>2
        <3>5. job'.at = "clear" /\ job'.url = job.url
            BY <2>2
        <3>. QED
            BY <2>2, <3>2, <3>3, <3>4, <3>5
    <2>. QED
        BY <1>3, <2>1, <2>2 DEF SaveManifest
<1>4. CASE ClearTarget
    BY <1>4 DEF ClearTarget
<1>5. CASE Clone
    BY <1>5 DEF Clone
<1>6. CASE Sync
    BY <1>6 DEF Sync, Idle
<1>7. CASE SyncNext
    <2>1. CASE Ends("failed") /\ UNCHANGED <<lib, manifest>>
        BY <2>1
    <2>2. ASSUME NEW n, job.at = "sync", manifest' = manifest,
                 job' = [job EXCEPT !.left = @ \ {n}],
                 \/ lib[n] = NoUrl /\ lib' = [lib EXCEPT ![n] = manifest.deps[n]]
                 \/ lib[n] \in Urls /\ UNCHANGED lib
          PROVE  SyncInv'
        BY <2>2
    <2>. QED
        BY <1>7, <2>1, <2>2 DEF SyncNext
<1>8. CASE SyncDone
    BY <1>8 DEF SyncDone
<1>9. CASE Kill
    BY <1>9 DEF Kill, Done
<1>. QED
    BY <1>1, <1>2, <1>3, <1>4, <1>5, <1>6, <1>7, <1>8, <1>9
       DEF Next, Program, LoadStep, Check, Run, WriteSources, Clang, Link, CleanUp, Stage,
           Start, Poll, Interrupt, Pkg, PkgStep, PkgCommand, Edit, vars

(* When sync or add has reported success, what the manifest names is there *)
(* and from its own source, whatever failed or was cut off before.         *)
THEOREM SyncInstalls == Spec => []SyncedMeansInstalled
<1>1. Init => SyncInv
    BY PackagesAssumption DEF PackagesAssumption, Init, PkgInit, SyncInv, PkgTypeOK, Deps, Idle
<1>2. SyncInv => SyncedMeansInstalled
    BY PackagesAssumption DEF PackagesAssumption, SyncInv, PkgTypeOK, SyncedMeansInstalled
<1>. QED
    BY <1>1, <1>2, SyncNextInv, PTL DEF Spec
=============================================================================
