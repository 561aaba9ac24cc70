------------------------------- MODULE Scaffold -------------------------------
(***************************************************************************)
(* scripts/generate_scaffold.py: the generator that lays out the           *)
(* repository, run by hand, again and again, over a working tree in which  *)
(* developers have begun to replace its stubs.  It can be killed anywhere, *)
(* it has no record of what an earlier run did, and it locks nothing: a    *)
(* developer may save a file between its check and its opening, and while  *)
(* it is open.                                                             *)
(*                                                                         *)
(* Each step of main() stands for the files it writes, of which the model  *)
(* keeps one: they are written one after the other and do not depend on    *)
(* each other.  No two steps write the same path.                          *)
(***************************************************************************)
EXTENDS Naturals, Sequences, FiniteSets

CONSTANTS
  MaxKills,  \* bound on the runs that are killed
  MaxEdits   \* bound on what the developers do

ASSUME ScaffoldAssumption == MaxKills \in Nat /\ MaxEdits \in Nat

(* main(); the first two steps are the loops of ensure_dirs(). *)
Program ==
  <<"directories", "packages", "copy_docs", "build_root_files",
    "build_python_stubs", "build_backend_config", "build_frontend",
    "build_docker", "build_github_workflows", "build_infrastructure">>

Steps == {Program[i] : i \in 1..Len(Program)}

(* The steps that write through write(). *)
Builders == Steps \ {"directories", "packages", "copy_docs"}

Files == Steps \ {"directories"}

VARIABLES
  file,    \* file[f]: "absent", "cut" (opened for writing, not written),
           \* "generated", "edited" by a developer, or "mixed": saved
           \* while the generator had it open, and written over
  dirs,    \* the directories of DIRS exist
  source,  \* the documents are in the folder they are copied from
  step,    \* the step of main() that is next
  phase,   \* "idle", "running", "opening" between exists() and open(), or
           \* "writing" between open() and close()
  last,    \* how the last run ended: "none", "completed", "killed", "raised"
  raced,   \* history: what was saved while this run was opening or writing it
  kills, edits

vars == <<file, dirs, source, step, phase, last, raced, kills, edits>>

Init ==
  /\ file = [f \in Files |-> "absent"]
  /\ dirs = FALSE
  /\ source \in BOOLEAN
  /\ step = 1
  /\ phase = "idle"
  /\ last = "none"
  /\ raced = {}
  /\ kills = 0 /\ edits = 0

-----------------------------------------------------------------------------
(* One file. *)

At(f) == phase = "running" /\ step <= Len(Program) /\ Program[step] = f

Pass ==
  /\ step' = step + 1
  /\ UNCHANGED <<file, dirs, source, phase, last, raced, kills, edits>>

(* exists() has said that the file is to be written. *)
Check ==
  /\ phase' = "opening"
  /\ UNCHANGED <<file, dirs, source, step, last, raced, kills, edits>>

(* open() in mode "w" empties the file before anything is written to it. *)
OpenFile(f) ==
  /\ file' = [file EXCEPT ![f] = "cut"]
  /\ phase' = "writing"
  /\ UNCHANGED <<dirs, source, step, last, raced, kills, edits>>

(* An exception goes through main(), which catches none. *)
Raise == phase' = "idle" /\ last' = "raised" /\ UNCHANGED step

(* Between exists() and open() the file may have been saved, and the source *)
(* removed: copy2() opens the source first.                                 *)
OpenChecked ==
  /\ phase = "opening"
  /\ IF Program[step] = "copy_docs" /\ ~source
       THEN Raise /\ UNCHANGED <<file, dirs, source, raced, kills, edits>>
       ELSE dirs /\ OpenFile(Program[step])

(* What the bytes of the generator make of a file that was saved since they *)
(* were opened: an editor writes in place, or moves a new file there.       *)
Closed(content) ==
  IF content = "edited" THEN {"generated", "edited", "mixed"} ELSE {"generated"}

(* copy2() copies the times of the source last, if it is still there. *)
AfterClose ==
  IF Program[step] = "copy_docs" /\ ~source THEN Raise
  ELSE phase' = "running" /\ step' = step + 1 /\ UNCHANGED last

(* A mutant of CloseFile: what was opened is written with the next file. *)
CloseNext ==
  /\ phase = "writing"
  /\ file' = [f \in Files |->
       IF step > 2 /\ f = Program[step - 1] /\ file[f] = "cut"
         THEN "generated" ELSE file[f]]
  /\ AfterClose
  /\ UNCHANGED <<dirs, source, raced, kills, edits>>

CloseFile ==
  /\ phase = "writing"
  /\ \E content \in Closed(file[Program[step]]) :
       file' = [file EXCEPT ![Program[step]] = content]
  /\ AfterClose
  /\ UNCHANGED <<dirs, source, raced, kills, edits>>

-----------------------------------------------------------------------------
(* The steps of main(). *)

Start ==
  /\ phase = "idle"
  /\ phase' = "running"
  /\ step' = 1
  /\ last' = "none"
  /\ raced' = {}
  /\ UNCHANGED <<file, dirs, source, kills, edits>>

MakeDirectories ==
  /\ At("directories")
  /\ dirs' = TRUE
  /\ step' = step + 1
  /\ UNCHANGED <<file, source, phase, last, raced, kills, edits>>

(* A mutant of MakePackages: an __init__.py that exists is written anew. *)
MakePackagesAnew == At("packages") /\ Check

(* `if not init.exists()`: also an empty one is left as it is. *)
MakePackages ==
  /\ At("packages")
  /\ IF file["packages"] = "absent" THEN Check ELSE Pass

(* `if src.exists()`: what was not downloaded stays what it is. *)
CopyDocs ==
  /\ At("copy_docs")
  /\ IF source THEN Check ELSE Pass

(* A mutant of write: what exists is left alone. *)
writeIfAbsent(b) ==
  /\ At(b)
  /\ IF file[b] = "absent" THEN OpenFile(b) ELSE Pass

(* write() makes the directory it needs, and asks nothing of the file. *)
write(b) == At(b) /\ OpenFile(b)

build_root_files       == write("build_root_files")
build_python_stubs     == write("build_python_stubs")
build_backend_config   == write("build_backend_config")
build_frontend         == write("build_frontend")
build_docker           == write("build_docker")
build_github_workflows == write("build_github_workflows")
build_infrastructure   == write("build_infrastructure")

Finish ==
  /\ phase = "running"
  /\ step > Len(Program)
  /\ phase' = "idle"
  /\ last' = "completed"
  /\ UNCHANGED <<file, dirs, source, step, raced, kills, edits>>

-----------------------------------------------------------------------------
(* The world. *)

Kill ==
  /\ phase # "idle"
  /\ kills < MaxKills
  /\ phase' = "idle"
  /\ last' = "killed"
  /\ kills' = kills + 1
  /\ UNCHANGED <<file, dirs, source, step, raced, edits>>

(* A developer saves a file, at any time. *)
Edit(f) ==
  /\ edits < MaxEdits
  /\ dirs
  /\ file' = [file EXCEPT ![f] = "edited"]
  /\ raced' = IF phase \in {"opening", "writing"} /\ Program[step] = f
                THEN raced \cup {f} ELSE raced
  /\ edits' = edits + 1
  /\ UNCHANGED <<dirs, source, step, phase, last, kills>>

(* The downloaded documents are tidied away, or downloaded. *)
Download ==
  /\ edits < MaxEdits
  /\ source' = ~source
  /\ edits' = edits + 1
  /\ UNCHANGED <<file, dirs, step, phase, last, raced, kills>>

-----------------------------------------------------------------------------

Build == \/ build_root_files \/ build_python_stubs \/ build_backend_config
         \/ build_frontend \/ build_docker \/ build_github_workflows
         \/ build_infrastructure

Generator == \/ MakeDirectories \/ MakePackages \/ CopyDocs
             \/ Build \/ OpenChecked \/ CloseFile \/ Finish

Next == \/ Start \/ Generator \/ Kill
        \/ \E f \in Files : Edit(f)
        \/ Download

Spec == Init /\ [][Next]_vars

-----------------------------------------------------------------------------
(* Properties. *)

TypeOK ==
  /\ file \in [Files -> {"absent", "cut", "generated", "edited", "mixed"}]
  /\ dirs \in BOOLEAN /\ source \in BOOLEAN
  /\ step \in 1..(Len(Program) + 1)
  /\ phase \in {"idle", "running", "opening", "writing"}
  /\ phase \in {"opening", "writing"} => step <= Len(Program)
  /\ last \in {"none", "completed", "killed", "raised"}
  /\ raced \subseteq Files
  /\ kills \in 0..MaxKills /\ edits \in 0..MaxEdits

(* A run that completes repairs what interrupted ones left: every file that *)
(* goes through write() is whole again, except one that a developer saved   *)
(* at the moment this run was writing it.                                   *)
CompletedRunRepairs ==
  last = "completed" =>
    \A b \in Builders :
      file[b] \in {"generated", "edited"} \cup (IF b \in raced THEN {"mixed"} ELSE {})

(* An interrupted run damages one file, the one it was writing; damage does *)
(* not add up beyond that over any number of runs.                          *)
OneFilePerKill ==
  Cardinality({f \in Files : file[f] = "cut"})
    <= kills + (IF phase = "writing" THEN 1 ELSE 0)

(* What a developer has put into an __init__.py survives every run that had *)
(* not yet found it absent when it was saved; and an edited document is     *)
(* replaced only by its download, or where it was saved while being copied. *)
KeepsWhatItShould ==
  [][/\ file["packages"] = "edited" /\ file'["packages"] # "edited"
          => "packages" \in raced
     /\ file["copy_docs"] = "edited" /\ file'["copy_docs"] # "edited"
          => source \/ "copy_docs" \in raced]_vars
=============================================================================
