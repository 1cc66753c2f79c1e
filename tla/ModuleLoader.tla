---------------------------- MODULE ModuleLoader ----------------------------
(***************************************************************************)
(* Loading a program: ModuleLoader::load, which reads a file, parses it    *)
(* and then loads what it imports, depth first (src/module/mod.rs).        *)
(* The recursion of load is a stack of activation records, one step per    *)
(* file or import, so that files may change on disk between two reads.     *)
(***************************************************************************)
EXTENDS Naturals, Sequences, SequencesExt

CONSTANTS
    Files,    \* source files
    Absent,   \* the content of a file that does not exist
    Library,  \* an import of a builtin library module
    Foreign,  \* an import of a Rust or C++ source
    Unknown,  \* an import of a path that is neither
    Sources   \* what may be in each file: [Files -> SUBSET Source]

(* A source either does not parse or is the sequence of its imports. *)
Imports == Files \cup {Library, Foreign, Unknown}
Broken == [parses |-> FALSE, imports |-> <<>>]

ASSUME SourcesAssumption ==
    /\ Sources \in [Files -> SUBSET ({Absent} \cup [parses: BOOLEAN, imports: Seq(Imports)])]
    /\ Files \cap {Absent, Library, Foreign, Unknown} = {}
    /\ Unknown \notin {Library, Foreign}

VARIABLES
    disk,      \* the content of every file
    dll,       \* the library built from the foreign source exists
    files,     \* the loaded modules, [path, source], in the order of their ids
    visiting,  \* the paths whose imports are being loaded
    stack,     \* activation records of load: the imports each has left
    outcome    \* what the outermost load returned, or "running"

loader == <<files, visiting, stack, outcome>>

(* The table from paths to ids is the inverse of files. *)
Loaded == {files[i].path : i \in DOMAIN files}

Errors == {"missing", "circular", "syntax", "foreign", "unsupported"}

(* An error leaves every activation of load by `?`: nothing is popped from  *)
(* visiting and nothing is taken out of files.                              *)
Fail(error) ==
    /\ outcome' = error
    /\ stack' = <<>>
    /\ UNCHANGED <<files, visiting>>

(* The activation on top goes on after its import. *)
NextImport(s) == IF s = <<>> THEN s ELSE [s EXCEPT ![Len(s)] = Tail(@)]

Return ==
    /\ stack' = NextImport(stack)
    /\ outcome' = IF stack = <<>> THEN "ok" ELSE "running"
    /\ UNCHANGED <<files, visiting>>

(* The file is read and parsed, entered in the table, and its imports are begun. *)
Enter(f) ==
    /\ files' = Append(files, [path |-> f, source |-> disk[f]])
    /\ visiting' = Append(visiting, f)
    /\ stack' = Append(stack, disk[f].imports)
    /\ UNCHANGED outcome

Load(f) ==
    \/ disk[f] = Absent /\ Fail("missing")
    \/ /\ disk[f] # Absent
       /\ f \in ToSet(visiting)
       /\ Fail("circular")
    \/ /\ disk[f] # Absent
       /\ f \in Loaded \ ToSet(visiting)
       /\ Return
    \/ /\ disk[f] \notin {Absent, Broken}
       /\ f \notin Loaded \cup ToSet(visiting)
       /\ Enter(f)
    \/ /\ disk[f] = Broken
       /\ f \notin Loaded \cup ToSet(visiting)
       /\ Fail("syntax")

(* A foreign source is compiled unless its library exists already; a C++   *)
(* source may be skipped when it or a compiler is not there.               *)
CompileForeign ==
    \/ dll /\ Return /\ UNCHANGED dll
    \/ ~dll /\ dll' \in BOOLEAN /\ Return
    \/ ~dll /\ Fail("foreign") /\ UNCHANGED dll

Import(i) ==
    \/ i = Library /\ Return /\ UNCHANGED dll
    \/ i = Foreign /\ CompileForeign
    \/ i = Unknown /\ Fail("unsupported") /\ UNCHANGED dll
    \/ i \in Files /\ Load(i) /\ UNCHANGED dll

ResolveImport ==
    /\ stack # <<>>
    /\ Last(stack) # <<>>
    /\ Import(Head(Last(stack)))
    /\ UNCHANGED disk

(* All imports are loaded: load returns to the import it was called for. *)
LeaveModule ==
    /\ stack # <<>>
    /\ Last(stack) = <<>>
    /\ visiting' = Front(visiting)
    /\ stack' = NextImport(Front(stack))
    /\ outcome' = IF Len(stack) = 1 THEN "ok" ELSE "running"
    /\ UNCHANGED <<files, disk, dll>>

NewLoader ==
    /\ files = <<>>
    /\ visiting = <<>>
    /\ stack = <<>>
    /\ outcome = "none"

(***************************************************************************)
(* The graph of what was read.                                             *)
(***************************************************************************)
ImportsOf(i) == ToSet(files[i].source.imports) \cap Files
Edge(f, g) == \E i \in DOMAIN files : files[i].path = f /\ g \in ImportsOf(i)

(* What is reached from f is in every set that holds the imports of f and, *)
(* with a file, the imports of that file.                                  *)
Closed(S) == \A f \in S, g \in Files : Edge(f, g) => g \in S
Reach(f) ==
    {g \in Files : \A S \in SUBSET Files :
                      Closed(S) /\ (\A h \in Files : Edge(f, h) => h \in S) => g \in S}
Cyclic(f) == f \in Reach(f)

(* A load that succeeds has read every file the program needs and no other, *)
(* each once, and no file imports itself through others; a load that reports *)
(* a cycle has one before it (module/mod.rs:32).                             *)
LoadedExactly ==
    /\ outcome = "ok" =>
          /\ visiting = <<>>
          /\ \A i \in DOMAIN files :
                /\ ImportsOf(i) \subseteq Loaded
                /\ Unknown \notin ToSet(files[i].source.imports)
                /\ i > 1 => files[i].path \in Reach(files[1].path)
          /\ \A f \in Loaded : ~Cyclic(f)
    /\ outcome = "circular" => \E f \in Loaded : Cyclic(f)
    /\ \A i, j \in DOMAIN files : files[i].path = files[j].path => i = j
=============================================================================
