------------------------------ MODULE Packages ------------------------------
(***************************************************************************)
(* The package manager: `yidi add` and `yidi sync` over the manifest       *)
(* project.toml and the directory lib (src/package/mod.rs).  Every write   *)
(* to the disk and every run of git is a step, so that a command can fail  *)
(* or be killed between any two of them.                                   *)
(***************************************************************************)
EXTENDS Naturals, Sequences, FiniteSetsExt

CONSTANTS
    Urls,       \* package sources
    Names,      \* the names of the packages, 1 .. n in the order of a BTreeMap
    NameOf,     \* the name that parse_spec takes from a source
    NoUrl       \* nothing

Partial == "partial"    \* what a clone that was cut off has left

ASSUME PackagesAssumption ==
    /\ Names \subseteq Nat
    /\ NameOf \in [Urls -> Names]
    /\ Urls \cap {NoUrl, Partial} = {}

VARIABLES
    manifest,   \* [deps, meta]: dependencies by name; other tables are there
    lib,        \* what is in lib/<name>: nothing, a clone of a source, or Partial
    job         \* the command that runs, its place and its operands

Idle == [at |-> "idle", url |-> NoUrl, left |-> {}]
packages == <<manifest, lib, job>>

Deps == {n \in Names : manifest.deps[n] # NoUrl}

PkgInit ==
    /\ manifest = [deps |-> [n \in Names |-> NoUrl], meta |-> TRUE]
    /\ lib = [n \in Names |-> NoUrl]
    /\ job = Idle

Ends(how) == job' = [job EXCEPT !.at = how]
Done == {"idle", "added", "synced", "failed", "killed"}

(* add reads the manifest and refuses a name that it holds. *)
Add(url) ==
    /\ job.at \in Done
    /\ job' = [Idle EXCEPT !.at = IF NameOf[url] \in Deps THEN "failed" ELSE "save", !.url = url]
    /\ UNCHANGED <<manifest, lib>>

(* The manifest is written with the dependencies and nothing else. *)
SaveManifest ==
    /\ job.at = "save"
    /\ \/ /\ manifest' = [deps |-> [manifest.deps EXCEPT ![NameOf[job.url]] = job.url], meta |-> FALSE]
          /\ Ends("clear")
       \/ Ends("failed") /\ UNCHANGED manifest
    /\ UNCHANGED lib

ClearTarget ==
    /\ job.at = "clear"
    /\ \/ lib' = [lib EXCEPT ![NameOf[job.url]] = NoUrl] /\ Ends("clone")
       \/ Ends("failed") /\ UNCHANGED lib
    /\ UNCHANGED manifest

(* git leaves nothing behind when it fails. *)
Clone ==
    /\ job.at = "clone"
    /\ \/ lib' = [lib EXCEPT ![NameOf[job.url]] = job.url] /\ Ends("added")
       \/ Ends("failed") /\ UNCHANGED lib
    /\ UNCHANGED manifest

Sync ==
    /\ job.at \in Done
    /\ job' = [Idle EXCEPT !.at = "sync", !.left = Deps]
    /\ UNCHANGED <<manifest, lib>>

(* Mutant: the exit status of git pull is not looked at. *)
SyncUnchecked ==
    /\ job.at = "sync"
    /\ job.left # {}
    /\ LET n == Min(job.left) IN
       /\ \/ lib[n] = NoUrl /\ lib' = [lib EXCEPT ![n] = manifest.deps[n]]
          \/ lib[n] # NoUrl /\ UNCHANGED lib
       /\ job' = [job EXCEPT !.left = @ \ {n}]
    /\ UNCHANGED manifest

(* Packages are updated in the order of their names; the first error ends *)
(* the command.  A clone that was cut off is no repository: pull fails.   *)
SyncNext ==
    /\ job.at = "sync"
    /\ job.left # {}
    /\ LET n == Min(job.left) IN
       \/ /\ \/ lib[n] = NoUrl /\ lib' = [lib EXCEPT ![n] = manifest.deps[n]]
             \/ lib[n] \in Urls /\ UNCHANGED lib
          /\ job' = [job EXCEPT !.left = @ \ {n}]
       \/ Ends("failed") /\ UNCHANGED lib
    /\ UNCHANGED manifest

SyncDone ==
    /\ job.at = "sync"
    /\ job.left = {}
    /\ Ends("synced")
    /\ UNCHANGED <<manifest, lib>>

(* The command is killed; a clone that runs may leave part of a directory. *)
Cloning ==
    IF job.at = "clone" THEN {NameOf[job.url]}
    ELSE {n \in job.left : job.at = "sync" /\ n = Min(job.left)}

Kill ==
    /\ job.at \notin Done
    /\ Ends("killed")
    /\ \/ UNCHANGED lib
       \/ \E n \in Cloning : lib[n] = NoUrl /\ lib' = [lib EXCEPT ![n] = Partial]
    /\ UNCHANGED manifest

PkgCommand == Sync \/ \E url \in Urls : Add(url)
PkgStep == SaveManifest \/ ClearTarget \/ Clone \/ SyncNext \/ SyncDone \/ Kill

(* Whatever failed or was cut off before, once sync reports success every    *)
(* dependency of the manifest is in lib, from its own source, and a package  *)
(* that add reported is there until then (package/mod.rs:100, 125).          *)
SyncedMeansInstalled ==
    /\ job.at = "synced" => \A n \in Deps : lib[n] = manifest.deps[n]
    /\ job.at = "added" => lib[NameOf[job.url]] = manifest.deps[NameOf[job.url]]
    /\ \A n \in Names : lib[n] \in Urls => NameOf[lib[n]] = n
=============================================================================
