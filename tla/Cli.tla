-------------------------------- MODULE Cli --------------------------------
(***************************************************************************)
(* The command line: `yidi run` and `yidi build`, each with or without     *)
(* --watch, and the package commands (src/cli/mod.rs).  Composes           *)
(* ModuleLoader and Packages with the checks of the loaded modules, the    *)
(* batch build of src/codegen/llvm.rs and a user who edits files.          *)
(*                                                                         *)
(* A watching command runs the program again from inside its loop, and     *)
(* the run starts a loop of its own when it succeeds.  Since no loop ends, *)
(* only the innermost `last` matters; nested counts the loops.             *)
(***************************************************************************)
EXTENDS ModuleLoader, Packages

CONSTANTS
    Root,          \* the file on the command line
    MaxEdits,      \* bound on edits
    MaxCommands    \* bound on commands

ASSUME RootAssumption == Root \in Files

VARIABLES
    place,     \* where the command is
    command,   \* "run" or "build", and whether it watches
    last,      \* the modification time that the loop remembers, 0 when none
    mtime,     \* the modification time of Root, 0 when there is none
    nested,    \* watch loops on the stack
    made,      \* files of the build in the output directory
    exe,       \* the program the executable was built from
    commands,  \* commands given
    edits,     \* edits made
    late       \* Root was edited after it was read and before its time was

shell == <<place, command, nested, commands>>
watch == <<last, mtime, edits, late, disk>>
output == <<made, exe>>
vars == <<shell, watch, output, loader, dll, packages>>

NoProgram == <<>>
Intermediate == {"ll", "runtime", "object", "runtime object"}

Init ==
    /\ disk \in [Files -> UNION {Sources[f] : f \in Files}]
    /\ \A f \in Files : disk[f] \in Sources[f]
    /\ dll = FALSE
    /\ NewLoader
    /\ PkgInit
    /\ place = "shell"
    /\ command = [name |-> "none", watch |-> FALSE]
    /\ last = 0
    /\ mtime = IF disk[Root] = Absent THEN 0 ELSE 1
    /\ nested = 0
    /\ made = {}
    /\ exe = NoProgram
    /\ commands = 0
    /\ edits = 0
    /\ late = FALSE

(* Mutant: one loader serves all runs. *)
BeginAgain ==
    /\ stack' = <<>>
    /\ outcome' = "running"
    /\ place' = "load"
    /\ late' = FALSE
    /\ UNCHANGED <<files, visiting>>

(***************************************************************************)
(* One run of the program: load, check, then interpret or build            *)
(***************************************************************************)
(* load makes a new loader for every run. *)
Begin ==
    /\ files' = <<>>
    /\ visiting' = <<>>
    /\ stack' = <<>>
    /\ outcome' = "running"
    /\ place' = "load"
    /\ late' = FALSE

Start ==
    /\ place = "shell"
    /\ commands < MaxCommands
    /\ job.at \in Done
    /\ \E name \in {"run", "build"}, w \in BOOLEAN : command' = [name |-> name, watch |-> w]
    /\ Begin
    /\ commands' = commands + 1
    /\ nested' = 0
    /\ UNCHANGED <<last, mtime, edits, disk, output, dll, packages>>

LoadStep ==
    /\ place = "load"
    /\ outcome = "running"
    /\ \/ stack = <<>> /\ Load(Root) /\ UNCHANGED <<disk, dll>>
       \/ ResolveImport
       \/ LeaveModule
    /\ UNCHANGED <<shell, last, mtime, edits, late, output, packages>>

(* Mutant: the loop looks at the file again when its run has failed. *)
FailedLooksAgain ==
    /\ place' = IF nested = 0 THEN "shell" ELSE "wait"
    /\ late' = FALSE
    /\ last' = mtime
    /\ UNCHANGED <<command, nested, commands, mtime, edits, disk>>

(* An error of the first run ends the command; one of a later run is dropped *)
(* and the loop that started the run goes on with the time it remembers.     *)
Failed ==
    /\ place' = IF nested = 0 THEN "shell" ELSE "wait"
    /\ late' = FALSE
    /\ UNCHANGED <<command, nested, commands, last, mtime, edits, disk>>

(* The run goes on in its next stage. *)
Goes(to) == place' = to /\ UNCHANGED <<command, nested, commands, watch>>

(* The modules are checked last first; what a module imports is found when *)
(* it has been checked before.                                             *)
ChecksBefore(i) == {files[j].path : j \in (i + 1) .. Len(files)}
TypecheckAll == \A i \in DOMAIN files : ImportsOf(i) \subseteq ChecksBefore(i)

Check ==
    /\ place = "load"
    /\ \/ outcome \in Errors /\ Failed
       \/ outcome = "ok" /\ ~TypecheckAll /\ Failed
       \/ outcome = "ok" /\ TypecheckAll /\ Goes(command.name)
    /\ UNCHANGED <<output, loader, dll, packages>>

(* A run that succeeded: the command ends, or its watch loop begins with a *)
(* look at the file as it is now.                                          *)
Succeeded ==
    /\ IF command.watch
       THEN place' = "wait" /\ nested' = nested + 1 /\ last' = mtime
       ELSE place' = "shell" /\ UNCHANGED <<nested, last>>
    /\ UNCHANGED <<command, commands, mtime, edits, late, disk>>

(* The interpreter runs the program, which may end with an error. *)
Run ==
    /\ place = "run"
    /\ Failed \/ Succeeded
    /\ UNCHANGED <<output, loader, dll, packages>>

(* The batch build, file by file: a tool that is not found or fails leaves *)
(* what has been written so far.                                           *)
Stage(from, to, made2, exe2) ==
    /\ place = from
    /\ \/ Goes(to) /\ made' = made2 /\ exe' = exe2
       \/ Failed /\ UNCHANGED output
    /\ UNCHANGED <<loader, dll, packages>>

(* Mutant: the exit code of the build script is not looked at. *)
LinkUnchecked ==
    /\ place = "link"
    /\ Goes("clean")
    /\ exe' \in {exe, files}
    /\ UNCHANGED <<made, loader, dll, packages>>

WriteSources == Stage("build", "clang", made \cup {"ll", "runtime"}, exe)
Clang == Stage("clang", "link", made \cup {"object", "runtime object"}, exe)
Link == Stage("link", "clean", made, files)

CleanUp ==
    /\ place = "clean"
    /\ made' = made \ Intermediate
    /\ Succeeded
    /\ UNCHANGED <<exe, loader, dll, packages>>

(***************************************************************************)
(* The watch loop, and the user                                            *)
(***************************************************************************)
(* Every half second: a later time than the one remembered starts a run. *)
Poll ==
    /\ place = "wait"
    /\ mtime # 0
    /\ mtime > last
    /\ last' = mtime
    /\ Begin
    /\ UNCHANGED <<command, nested, commands, mtime, edits, disk, output, dll, packages>>

(* Whether what the run read of Root is in files already. *)
RootRead == place # "load" \/ files # <<>>

Edit(f, source) ==
    /\ edits < MaxEdits
    /\ source # disk[f]
    /\ disk' = [disk EXCEPT ![f] = source]
    /\ mtime' = IF f # Root THEN mtime ELSE IF source = Absent THEN 0 ELSE edits + 2
    /\ edits' = edits + 1
    /\ late' = (late \/ (f = Root /\ place \notin {"shell", "wait"} /\ RootRead))
    /\ UNCHANGED <<shell, last, output, loader, dll, packages>>

(* Control-C *)
Interrupt ==
    /\ place = "wait"
    /\ place' = "shell"
    /\ UNCHANGED <<command, nested, commands, watch, output, loader, dll, packages>>

Pkg ==
    /\ place = "shell"
    /\ \/ PkgStep /\ UNCHANGED commands
       \/ commands < MaxCommands /\ commands' = commands + 1 /\ PkgCommand
    /\ UNCHANGED <<place, command, nested, watch, output, loader, dll>>

Program == LoadStep \/ Check \/ Run \/ WriteSources \/ Clang \/ Link \/ CleanUp

Next ==
    \/ Start
    \/ Program
    \/ Poll
    \/ Interrupt
    \/ Pkg
    \/ \E f \in Files : \E source \in Sources[f] : Edit(f, source)

(* A command that runs goes on, and a loop that waits looks at the file. *)
Spec == Init /\ [][Next]_vars /\ WF_vars(Program) /\ WF_vars(Poll)

-----------------------------------------------------------------------------
(* A program whose modules are imported from one place each and that loads *)
(* is accepted: checking in the reverse of the order of loading puts what  *)
(* a module imports before it (cli/mod.rs:107).                            *)
ImportedOnce ==
    /\ \A i, j \in DOMAIN files : i # j => ImportsOf(i) \cap ImportsOf(j) = {}
    /\ Root \notin UNION {ImportsOf(i) : i \in DOMAIN files}
TreesAccepted == outcome = "ok" /\ ImportedOnce => TypecheckAll

(* What a load gives is what the program needs (ModuleLoader::load), and a *)
(* program without shared modules is accepted (typecheck_all).             *)
ProgramLoaded == LoadedExactly /\ TreesAccepted

(* docs/dev/MODULE_SYSTEM.md:31 says that when A imports B, B is compiled  *)
(* before A.  Of two importers of one module the second in the order of    *)
(* loading is checked before it (cli/mod.rs:107).                          *)
ImportsCheckedFirst == outcome = "ok" => TypecheckAll

(* When a build has succeeded the executable is the program that was       *)
(* loaded, and nothing of the build is left over (llvm.rs:8312).           *)
BuiltIsLoaded ==
    [][place = "clean" /\ place' # "clean" => exe' = files /\ made' = {}]_vars

(* A loop that waits and a file whose time is not the one remembered: the  *)
(* program is run again, from the file as it is then.  An edit between the *)
(* reading of the file and the look at its time is not seen when the run    *)
(* succeeds (cli/mod.rs:136); one during a run that fails is (cli/mod.rs:144). *)
Current == files # <<>> /\ files[1].source = disk[Root]
EditsAreRun ==
    (place = "wait" /\ ~late /\ disk[Root] # Absent /\ (files = <<>> \/ ~Current))
        ~> (Current \/ place = "shell" \/ late \/ disk[Root] \in {Absent, Broken})
=============================================================================
