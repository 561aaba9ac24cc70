---------------------------- MODULE ScaffoldProofs ----------------------------
(***************************************************************************)
(* Proofs about Scaffold for any number of killed runs and of edits: what  *)
(* a completed run repairs, how much damage killed runs leave, and what no *)
(* run overwrites.                                                         *)
(*                                                                         *)
(* The invariant says, besides the types, that a file which is being       *)
(* opened or written was found absent or emptied, unless it was saved      *)
(* since (WritingInv), and that a run leaves whole files behind the step   *)
(* it has come to, except where one was saved under its hands (DoneInv).   *)
(***************************************************************************)
EXTENDS Scaffold, FiniteSetTheorems, TLAPS

-----------------------------------------------------------------------------
(* The program. *)

LEMMA TenSteps == Len(Program) = 10
BY DEF Program

LEMMA FirstSteps ==
  Program[1] = "directories" /\ Program[2] = "packages" /\ Program[3] = "copy_docs"
BY DEF Program

(* No two steps write the same file. *)
LEMMA StepsDiffer ==
  \A i, j \in 1..10 : Program[i] = Program[j] => i = j
BY DEF Program

LEMMA StepsAreProgram ==
  /\ \A i \in 1..10 : Program[i] \in Steps
  /\ \A f \in Steps : \E i \in 1..10 : f = Program[i]
BY TenSteps DEF Steps

LEMMA FilesAreProgram ==
  /\ \A i \in 2..10 : Program[i] \in Files
  /\ \A f \in Files : \E i \in 2..10 : f = Program[i]
<1>1. \A i \in 2..10 : i \in 1..10 /\ i # 1
  OBVIOUS
<1>2. \A i \in 1..10 : i # 1 => i \in 2..10
  OBVIOUS
<1>3. 1 \in 1..10
  OBVIOUS
<1>. HIDE DEF Program
<1>4. \A i \in 1..10 : i # 1 => Program[i] # "directories"
  BY <1>3, StepsDiffer, FirstSteps
<1>5. \A i \in 2..10 : Program[i] \in Files
  BY <1>1, <1>4, StepsAreProgram DEF Files
<1>6. \A f \in Files : \E i \in 2..10 : f = Program[i]
  BY <1>2, StepsAreProgram, FirstSteps DEF Files
<1>. QED  BY <1>5, <1>6

LEMMA BuildersAreProgram ==
  /\ Builders \subseteq Files
  /\ {"packages", "copy_docs"} \subseteq Files
  /\ \A f \in Builders : \E i \in 4..10 : f = Program[i]
<1>1. \A i \in 1..10 : i = 1 \/ i = 2 \/ i = 3 \/ i \in 4..10
  OBVIOUS
<1>2. 2 \in 2..10 /\ 3 \in 2..10
  OBVIOUS
<1>3. \A f \in Builders : \E i \in 4..10 : f = Program[i]
  BY <1>1, StepsAreProgram, FirstSteps DEF Builders
<1>4. {"packages", "copy_docs"} \subseteq Files
  BY <1>2, FilesAreProgram, FirstSteps
<1>. QED  BY <1>3, <1>4 DEF Builders, Files

LEMMA FilesFinite == IsFiniteSet(Files)
<1>1. IsFiniteSet(1..10)
  <2>1. \A a, b \in Int : IsFiniteSet(a..b)
    BY FS_Interval
  <2>2. 1 \in Int /\ 10 \in Int
    OBVIOUS
  <2>. QED  BY <2>1, <2>2, Zenon
<1>2. Program \in Surjection(1..10, Steps)
  <2>1. DOMAIN Program = 1..10 /\ Program = [i \in 1..10 |-> Program[i]]
    BY DEF Program
  <2>. QED  BY <2>1, StepsAreProgram DEF Surjection
<1>3. IsFiniteSet(Steps)
  BY <1>1, <1>2, FS_Surjection
<1>. QED  BY <1>3, FS_Subset DEF Files

-----------------------------------------------------------------------------
(* The invariant. *)

(* What a run may leave of a file it has written, or a developer saved. *)
Whole(f) == {"generated", "edited"} \cup (IF f \in raced THEN {"mixed"} ELSE {})

WritingInv ==
  /\ phase = "opening" =>
       /\ step \in 2..3
       /\ step = 2 => file["packages"] # "edited" \/ "packages" \in raced
  /\ phase = "writing" =>
       /\ step \in 2..10
       /\ file[Program[step]] \in {"cut", "edited"}
       /\ file[Program[step]] = "edited" => Program[step] \in raced

DoneInv ==
  /\ phase # "idle" =>
       \A i \in 4..10 : i < step => file[Program[i]] \in Whole(Program[i])
  /\ last = "completed" => phase = "idle"

Cut == {f \in Files : file[f] = "cut"}

(* The files that are not being written and yet are not whole: kills left   *)
(* them.  The one being written may itself be whole, if it was saved since. *)
Left == Cut \ (IF phase = "writing" THEN {Program[step]} ELSE {})
DamageInv == Cardinality(Left) <= kills

Inv == TypeOK /\ WritingInv /\ DoneInv /\ CompletedRunRepairs /\ DamageInv

(* A step of main() begins to write its file, ... *)
Opens ==
  /\ \/ phase = "running" /\ step \in 4..10
     \/ phase = "opening" /\ step = 2
     \/ phase = "opening" /\ step = 3 /\ source
  /\ file' = [file EXCEPT ![Program[step]] = "cut"]
  /\ phase' = "writing"
  /\ UNCHANGED <<dirs, source, step, last, raced, kills, edits>>

(* ... or, having checked it, is about to, ... *)
Checks ==
  /\ phase = "running" /\ step \in 2..3
  /\ step = 2 => file["packages"] = "absent"
  /\ phase' = "opening"
  /\ UNCHANGED <<file, dirs, source, step, last, raced, kills, edits>>

(* ... fails, for its source is gone, ... *)
Raises ==
  /\ phase = "opening"
  /\ phase' = "idle" /\ last' = "raised"
  /\ UNCHANGED <<file, dirs, source, step, raced, kills, edits>>

(* ... or, being one of the first three, is passed without writing. *)
Passes ==
  /\ phase = "running" /\ step \in 1..3
  /\ step' = step + 1
  /\ dirs' \in BOOLEAN
  /\ UNCHANGED <<file, source, phase, last, raced, kills, edits>>

(* The file of the present step is closed, and the run goes on or ends. *)
Closes ==
  /\ phase = "writing"
  /\ \E content \in Closed(file[Program[step]]) :
       file' = [file EXCEPT ![Program[step]] = content]
  /\ \/ phase' = "running" /\ step' = step + 1 /\ last' = last
     \/ phase' = "idle" /\ step' = step /\ last' = "raised"
  /\ UNCHANGED <<dirs, source, raced, kills, edits>>

LEMMA StepNumbers ==
  ASSUME step \in 1..10
  PROVE  /\ Program[step] = "directories" <=> step = 1
         /\ Program[step] = "packages" <=> step = 2
         /\ Program[step] = "copy_docs" <=> step = 3
<1>1. 1 \in 1..10 /\ 2 \in 1..10 /\ 3 \in 1..10
  OBVIOUS
<1>. HIDE DEF Program
<1>. QED  BY <1>1, StepsDiffer, FirstSteps

LEMMA WriteOpens ==
  ASSUME TypeOK, NEW b \in Steps \ {"directories", "packages", "copy_docs"}, write(b)
  PROVE  Opens
<1>1. phase = "running" /\ step \in 1..10 /\ Program[step] = b
  BY TenSteps DEF write, At, TypeOK
<1>2. step # 1 /\ step # 2 /\ step # 3
  BY <1>1, StepNumbers
<1>3. step \in 4..10
  BY <1>1, <1>2
<1>. HIDE DEF Program
<1>. QED  BY <1>1, <1>3 DEF write, OpenFile, Opens

LEMMA BuilderNames ==
  {"build_root_files", "build_python_stubs", "build_backend_config",
   "build_frontend", "build_docker", "build_github_workflows",
   "build_infrastructure"} \subseteq Steps \ {"directories", "packages", "copy_docs"}
<1>1. /\ Program[4] = "build_root_files" /\ Program[5] = "build_python_stubs"
      /\ Program[6] = "build_backend_config" /\ Program[7] = "build_frontend"
      /\ Program[8] = "build_docker" /\ Program[9] = "build_github_workflows"
      /\ Program[10] = "build_infrastructure"
  BY DEF Program
<1>2. /\ 4 \in 1..10 /\ 5 \in 1..10 /\ 6 \in 1..10 /\ 7 \in 1..10
      /\ 8 \in 1..10 /\ 9 \in 1..10 /\ 10 \in 1..10
  OBVIOUS
<1>. QED  BY <1>1, <1>2, StepsAreProgram

LEMMA FilesTyped ==
  \A i \in 2..10 : Program[i] \in Files
BY FilesAreProgram

(* What a step can be. *)
LEMMA Moves ==
  ASSUME TypeOK, WritingInv, Next
  PROVE  \/ Opens \/ Checks \/ Raises \/ Passes \/ Closes \/ Start \/ Finish \/ Kill
         \/ (\E f \in Files : Edit(f)) \/ Download
<1>1. ASSUME MakeDirectories  PROVE Passes
  <2>1. phase = "running" /\ step \in 1..10 /\ Program[step] = "directories"
    BY <1>1, TenSteps DEF MakeDirectories, At, TypeOK
  <2>2. step = 1
    BY <2>1, StepNumbers
  <2>. QED  BY <1>1, <2>1, <2>2 DEF MakeDirectories, Passes
<1>2. ASSUME MakePackages  PROVE Checks \/ Passes
  <2>1. phase = "running" /\ step \in 1..10 /\ Program[step] = "packages"
    BY <1>2, TenSteps DEF MakePackages, At, TypeOK
  <2>2. step = 2 /\ dirs \in BOOLEAN
    BY <2>1, StepNumbers DEF TypeOK
  <2>. QED  BY <1>2, <2>1, <2>2 DEF MakePackages, Check, Checks, Pass, Passes
<1>3. ASSUME CopyDocs  PROVE Checks \/ Passes
  <2>1. phase = "running" /\ step \in 1..10 /\ Program[step] = "copy_docs"
    BY <1>3, TenSteps DEF CopyDocs, At, TypeOK
  <2>2. step = 3 /\ dirs \in BOOLEAN
    BY <2>1, StepNumbers DEF TypeOK
  <2>. QED  BY <1>3, <2>1, <2>2 DEF CopyDocs, Check, Checks, Pass, Passes
<1>5. ASSUME OpenChecked  PROVE Opens \/ Raises
  <2>1. phase = "opening" /\ step \in 2..3 /\ step \in 1..10
    BY <1>5 DEF OpenChecked, WritingInv
  <2>2. Program[step] = "copy_docs" <=> step = 3
    BY <2>1, StepNumbers
  <2>. HIDE DEF Program
  <2>. QED  BY <1>5, <2>1, <2>2 DEF OpenChecked, OpenFile, Raise, Opens, Raises
<1>6. ASSUME CloseFile  PROVE Closes
  BY <1>6 DEF CloseFile, AfterClose, Raise, Closes
<1>4. ASSUME Build  PROVE Opens
  <2>1. \E b \in Steps \ {"directories", "packages", "copy_docs"} : write(b)
    BY <1>4, BuilderNames
       DEF Build, build_root_files, build_python_stubs, build_backend_config,
           build_frontend, build_docker, build_github_workflows,
           build_infrastructure
  <2>. QED  BY <2>1, WriteOpens
<1>. QED  BY <1>1, <1>2, <1>3, <1>4, <1>5, <1>6 DEF Next, Generator

-----------------------------------------------------------------------------
(* Every step preserves the invariant. *)

LEMMA TypeStep ==
  ASSUME TypeOK, WritingInv, Next
  PROVE  TypeOK'
<1>. USE ScaffoldAssumption, TenSteps DEF TypeOK
<1>1. CASE Opens
  <2>1. Program[step] \in Files
    BY <1>1, FilesTyped DEF Opens
  <2>. QED  BY <1>1, <2>1 DEF Opens
<1>2. CASE Passes \/ Checks \/ Raises
  BY <1>2 DEF Passes, Checks, Raises
<1>3. CASE Closes
  <2>1. Program[step] \in Files /\ step \in 2..10
    BY <1>3, FilesTyped DEF Closes, WritingInv
  <2>2. file' \in [Files -> {"absent", "cut", "generated", "edited", "mixed"}]
    BY <1>3, <2>1 DEF Closes, Closed
  <2>. QED  BY <1>3, <2>1, <2>2 DEF Closes
<1>4. CASE Start
  BY <1>4 DEF Start
<1>5. CASE Finish
  BY <1>5 DEF Finish
<1>6. CASE Kill
  BY <1>6 DEF Kill
<1>7. CASE \E f \in Files : Edit(f)
  BY <1>7 DEF Edit
<1>8. CASE Download
  BY <1>8 DEF Download
<1>. QED
  BY <1>1, <1>2, <1>3, <1>4, <1>5, <1>6, <1>7, <1>8, Moves

LEMMA WritingStep ==
  ASSUME TypeOK, WritingInv, Next
  PROVE  WritingInv'
<1>. USE DEF WritingInv
<1>1. CASE Opens
  <2>1. Program[step] \in Files /\ step \in 2..10
    BY <1>1, FilesTyped DEF Opens
  <2>. QED  BY <1>1, <2>1 DEF Opens, TypeOK
<1>2. CASE Passes \/ Checks \/ Raises
  BY <1>2 DEF Passes, Checks, Raises
<1>3. CASE Closes
  BY <1>3 DEF Closes
<1>4. CASE Start
  BY <1>4 DEF Start
<1>5. CASE Finish
  BY <1>5 DEF Finish
<1>6. CASE Kill
  BY <1>6 DEF Kill
<1>7. CASE \E f \in Files : Edit(f)
  <2>1. PICK f \in Files : Edit(f)
    BY <1>7
  <2>2. UNCHANGED <<phase, step>> /\ file' = [file EXCEPT ![f] = "edited"]
        /\ raced \subseteq raced'
        /\ (phase \in {"opening", "writing"} /\ Program[step] = f => f \in raced')
    BY <2>1 DEF Edit
  <2>3. CASE phase = "opening"
    <3>1. step = 2 => Program[step] = "packages"
      BY FirstSteps
    <3>. HIDE DEF Program
    <3>2. step = 2 /\ f = "packages" => "packages" \in raced'
      BY <2>2, <2>3, <3>1
    <3>3. f # "packages" => file'["packages"] = file["packages"]
      BY <2>2, BuildersAreProgram DEF TypeOK
    <3>. QED  BY <2>2, <2>3, <3>2, <3>3
  <2>4. CASE phase = "writing"
    <3>1. Program[step] \in Files
      BY <2>4, FilesTyped
    <3>. HIDE DEF Program
    <3>. QED  BY <2>2, <2>4, <3>1 DEF TypeOK
  <2>. QED  BY <2>2, <2>3, <2>4
<1>8. CASE Download
  BY <1>8 DEF Download
<1>. QED
  BY <1>1, <1>2, <1>3, <1>4, <1>5, <1>6, <1>7, <1>8, Moves

(* A run leaves whole files behind it: what it has closed, only developers  *)
(* change, and it comes to each file once.                                  *)
LEMMA DoneStep ==
  ASSUME TypeOK, WritingInv, DoneInv, Next
  PROVE  DoneInv'
<1>. HIDE DEF Program
<1>1. CASE Opens
  <2>1. Program[step] \in Files /\ step \in 1..10
    BY <1>1, FilesTyped DEF Opens
  <2>2. \A i \in 4..10 : i < step => Program[i] # Program[step]
    BY <2>1, StepsDiffer
  <2>3. \A i \in 4..10 : i < step => file'[Program[i]] = file[Program[i]]
    BY <1>1, <2>2, FilesTyped DEF Opens, TypeOK
  <2>. QED  BY <1>1, <2>3 DEF Opens, DoneInv, Whole
<1>2. CASE Passes \/ Checks \/ Raises
  BY <1>2 DEF Passes, Checks, Raises, DoneInv, Whole
<1>3. CASE Closes
  <2>1. Program[step] \in Files /\ step \in 1..10
    BY <1>3, FilesTyped DEF Closes, WritingInv
  <2>2. /\ file'[Program[step]] \in Closed(file[Program[step]])
        /\ \A f \in Files : f # Program[step] => file'[f] = file[f]
    BY <1>3, <2>1 DEF Closes, TypeOK
  <2>3. file'[Program[step]] \in Whole(Program[step])
    BY <1>3, <2>2 DEF Closes, Closed, Whole, WritingInv
  <2>4. ASSUME NEW i \in 4..10, i < step
        PROVE  file'[Program[i]] \in Whole(Program[i])
    <3>1. i \in 1..10 /\ i # step /\ Program[i] \in Files
      BY <2>1, <2>4, FilesTyped
    <3>2. Program[i] # Program[step]
      BY <2>1, <3>1, StepsDiffer
    <3>3. file'[Program[i]] = file[Program[i]]
      BY <2>2, <3>1, <3>2
    <3>. QED  BY <1>3, <2>4, <3>3 DEF Closes, DoneInv
  <2>5. raced' = raced /\ \A i \in 4..10 : i < step + 1 => i < step \/ i = step
    BY <1>3, <2>1 DEF Closes
  <2>6. \A f : Whole(f)' = Whole(f)
    BY <2>5 DEF Whole
  <2>7. last = "completed" => phase = "idle"
    BY DEF DoneInv
  <2>. QED  BY <1>3, <2>3, <2>4, <2>5, <2>6, <2>7 DEF Closes, DoneInv, Whole
<1>4. CASE Start
  BY <1>4 DEF Start, DoneInv
<1>5. CASE Finish
  BY <1>5 DEF Finish, DoneInv
<1>6. CASE Kill
  BY <1>6 DEF Kill, DoneInv
<1>7. CASE \E f \in Files : Edit(f)
  <2>1. PICK f \in Files : Edit(f)
    BY <1>7
  <2>2. /\ UNCHANGED <<phase, step, last>> /\ raced \subseteq raced'
        /\ \A g \in Files : file'[g] = IF g = f THEN "edited" ELSE file[g]
    BY <2>1 DEF Edit, TypeOK
  <2>3. ASSUME NEW i \in 4..10, file[Program[i]] \in Whole(Program[i])
        PROVE  file'[Program[i]] \in Whole(Program[i])'
    <3>1. Program[i] \in Files
      BY FilesTyped
    <3>2. file'[Program[i]] = IF Program[i] = f THEN "edited" ELSE file[Program[i]]
      BY <2>2, <3>1
    <3>. QED  BY <2>2, <2>3, <3>2 DEF Whole
  <2>. QED  BY <2>2, <2>3 DEF DoneInv
<1>8. CASE Download
  BY <1>8 DEF Download, DoneInv, Whole
<1>. QED
  BY <1>1, <1>2, <1>3, <1>4, <1>5, <1>6, <1>7, <1>8, Moves

LEMMA RepairStep ==
  ASSUME TypeOK, WritingInv, DoneInv, CompletedRunRepairs, Next
  PROVE  CompletedRunRepairs'
<1>. HIDE DEF Program
<1>. USE DEF CompletedRunRepairs
<1>1. CASE Opens
  BY <1>1 DEF Opens, DoneInv
<1>2. CASE Passes \/ Checks \/ Raises
  BY <1>2 DEF Passes, Checks, Raises
<1>3. CASE Closes
  BY <1>3 DEF Closes, DoneInv
<1>4. CASE Start
  BY <1>4 DEF Start
<1>5. CASE Finish
  <2>1. phase # "idle" /\ step > 10 /\ file' = file /\ raced' = raced
    BY <1>5, TenSteps DEF Finish
  <2>2. \A i \in 4..10 : i < step
    BY <2>1 DEF TypeOK
  <2>3. \A i \in 4..10 : file[Program[i]] \in Whole(Program[i])
    BY <2>1, <2>2 DEF DoneInv
  <2>. QED  BY <2>1, <2>3, BuildersAreProgram DEF Whole
<1>6. CASE Kill
  BY <1>6 DEF Kill
<1>7. CASE \E f \in Files : Edit(f)
  <2>1. PICK f \in Files : Edit(f)
    BY <1>7
  <2>2. /\ last' = last /\ raced \subseteq raced'
        /\ \A g \in Files : file'[g] = IF g = f THEN "edited" ELSE file[g]
    BY <2>1 DEF Edit, TypeOK
  <2>. QED  BY <2>2, BuildersAreProgram
<1>8. CASE Download
  BY <1>8 DEF Download
<1>. QED
  BY <1>1, <1>2, <1>3, <1>4, <1>5, <1>6, <1>7, <1>8, Moves

(* Only a kill adds to the damaged files, and it adds the one that is being *)
(* written.                                                                 *)
LEMMA DamageStep ==
  ASSUME TypeOK, WritingInv, DamageInv, Next
  PROVE  DamageInv'
<1>1. Cardinality(Left) <= kills /\ kills \in Nat
  BY ScaffoldAssumption DEF DamageInv, TypeOK
<1>2. IsFiniteSet(Left) /\ Cardinality(Left) \in Nat
  BY FilesFinite, FS_Subset, FS_CardinalityType DEF Left, Cut
<1>. HIDE DEF Program
<1>3. ASSUME Left' \subseteq Left, kills' = kills  PROVE DamageInv'
  <2>1. Cardinality(Left') <= Cardinality(Left) /\ Cardinality(Left') \in Nat
    BY <1>2, <1>3, FS_Subset, FS_CardinalityType
  <2>. QED  BY <1>1, <1>2, <1>3, <2>1 DEF DamageInv
<1>4. CASE Opens
  <2>1. Left' \subseteq Left /\ kills' = kills
    BY <1>4 DEF Opens, Left, Cut, TypeOK
  <2>. QED  BY <1>3, <2>1
<1>5. CASE Passes \/ Checks \/ Raises \/ Start \/ Finish
  <2>1. Left' = Left /\ kills' = kills
    BY <1>5 DEF Passes, Checks, Raises, Start, Finish, Left, Cut
  <2>. QED  BY <1>3, <2>1
<1>6. CASE Download
  <2>1. Left' = Left /\ kills' = kills
    BY <1>6 DEF Download, Left, Cut
  <2>. QED  BY <1>3, <2>1
<1>7. CASE Closes
  <2>1. Program[step] \in Files
    BY <1>7, FilesTyped DEF Closes, WritingInv
  <2>2. /\ file'[Program[step]] # "cut"
        /\ \A f \in Files : f # Program[step] => file'[f] = file[f]
    BY <1>7, <2>1 DEF Closes, Closed, TypeOK
  <2>3. phase = "writing" /\ phase' # "writing" /\ kills' = kills
    BY <1>7 DEF Closes
  <2>4. Left' \subseteq Left
    BY <2>2, <2>3 DEF Left, Cut
  <2>. QED  BY <1>3, <2>3, <2>4
<1>8. CASE Kill
  <2>1. file' = file /\ kills' = kills + 1 /\ phase' = "idle"
    BY <1>8 DEF Kill
  <2>2. Left' \subseteq Left \cup {Program[step]}
    BY <2>1 DEF Left, Cut
  <2>3. /\ IsFiniteSet(Left \cup {Program[step]})
        /\ Cardinality(Left \cup {Program[step]}) <= Cardinality(Left) + 1
        /\ Cardinality(Left \cup {Program[step]}) \in Nat
    <3>1. /\ IsFiniteSet(Left \cup {Program[step]})
          /\ Cardinality(Left \cup {Program[step]}) <= Cardinality(Left) + 1
      BY <1>2, FS_AddElement
    <3>. QED  BY <3>1, FS_CardinalityType
  <2>4. /\ Cardinality(Left') <= Cardinality(Left \cup {Program[step]})
        /\ Cardinality(Left') \in Nat
    BY <2>2, <2>3, FS_Subset, FS_CardinalityType
  <2>. QED  BY <1>1, <1>2, <2>1, <2>3, <2>4 DEF DamageInv
<1>9. CASE \E f \in Files : Edit(f)
  <2>1. Left' \subseteq Left /\ kills' = kills
    BY <1>9 DEF Edit, Left, Cut, TypeOK
  <2>. QED  BY <1>3, <2>1
<1>. QED
  BY <1>4, <1>5, <1>6, <1>7, <1>8, <1>9, Moves

LEMMA Invariance == Spec => []Inv
<1>1. Init => Inv
  <2>. SUFFICES ASSUME Init  PROVE Inv
    OBVIOUS
  <2>1. TypeOK
    <3>1. 1 \in 1..(Len(Program) + 1)
      BY TenSteps
    <3>2. 0 \in 0..MaxKills /\ 0 \in 0..MaxEdits
      BY ScaffoldAssumption
    <3>3. file \in [Files -> {"absent", "cut", "generated", "edited", "mixed"}]
      BY DEF Init
    <3>. QED  BY <3>1, <3>2, <3>3 DEF Init, TypeOK
  <2>2. WritingInv /\ DoneInv /\ CompletedRunRepairs
    BY DEF Init, WritingInv, DoneInv, CompletedRunRepairs
  <2>3. Left = {}
    BY DEF Init, Left, Cut
  <2>4. DamageInv
    BY <2>3, FS_EmptySet DEF Init, DamageInv
  <2>. QED  BY <2>1, <2>2, <2>4 DEF Inv
<1>2. Inv /\ [Next]_vars => Inv'
  <2>. SUFFICES ASSUME Inv, [Next]_vars  PROVE Inv'
    OBVIOUS
  <2>1. CASE UNCHANGED vars
    <3>. HIDE DEF Program
    <3>. QED  BY <2>1 DEF Inv, vars, TypeOK, WritingInv, DoneInv, Whole,
              CompletedRunRepairs, DamageInv, Left, Cut
  <2>2. CASE Next
    BY <2>2, TypeStep, WritingStep, DoneStep, RepairStep, DamageStep DEF Inv
  <2>. QED  BY <2>1, <2>2
<1>. QED  BY <1>1, <1>2, PTL DEF Spec

-----------------------------------------------------------------------------
(* Theorems. *)

(* Type correctness of the generator and its tree. *)
THEOREM TypeCorrect == Spec => []TypeOK
<1>1. Inv => TypeOK
  BY DEF Inv
<1>. QED  BY <1>1, Invariance, PTL

(* Whatever killed runs and developers did before and meanwhile, a run that *)
(* completes leaves every file of its builders whole.                       *)
THEOREM CompletionRepairs == Spec => []CompletedRunRepairs
<1>1. Inv => CompletedRunRepairs
  BY DEF Inv
<1>. QED  BY <1>1, Invariance, PTL

(* n killed runs leave at most n damaged files. *)
THEOREM KillsDamageOneFile == Spec => []OneFilePerKill
<1>1. Inv => OneFilePerKill
  <2>. SUFFICES ASSUME Inv  PROVE OneFilePerKill
    OBVIOUS
  <2>. HIDE DEF Program
  <2>1. kills \in Nat /\ Cardinality(Left) <= kills
    BY ScaffoldAssumption DEF Inv, TypeOK, DamageInv
  <2>2. IsFiniteSet(Left) /\ Cardinality(Left) \in Nat
    BY FilesFinite, FS_Subset, FS_CardinalityType DEF Left, Cut
  <2>3. CASE phase # "writing"
    <3>1. Left = Cut
      BY <2>3 DEF Left
    <3>. QED  BY <2>1, <2>2, <2>3, <3>1 DEF OneFilePerKill, Cut
  <2>4. CASE phase = "writing"
    <3>1. Cut \subseteq Left \cup {Program[step]}
      BY DEF Left
    <3>2. /\ IsFiniteSet(Left \cup {Program[step]})
          /\ Cardinality(Left \cup {Program[step]}) <= Cardinality(Left) + 1
          /\ Cardinality(Left \cup {Program[step]}) \in Nat
      <4>1. /\ IsFiniteSet(Left \cup {Program[step]})
            /\ Cardinality(Left \cup {Program[step]}) <= Cardinality(Left) + 1
        BY <2>2, FS_AddElement
      <4>. QED  BY <4>1, FS_CardinalityType
    <3>3. /\ Cardinality(Cut) <= Cardinality(Left \cup {Program[step]})
          /\ Cardinality(Cut) \in Nat
      BY <3>1, <3>2, FS_Subset, FS_CardinalityType
    <3>4. Cardinality(Cut) <= kills + 1
      BY <2>1, <2>2, <3>2, <3>3
    <3>. QED  BY <2>4, <3>4 DEF OneFilePerKill, Cut
  <2>. QED  BY <2>3, <2>4
<1>. QED  BY <1>1, Invariance, PTL

(* An edited package marker is overwritten only where it was saved after    *)
(* the run had found it absent, and an edited document only by its download *)
(* or where it was saved while being copied: the file that is being opened  *)
(* or written was, unless saved since, absent, emptied or can be copied.    *)
THEOREM EditsKept == Spec => KeepsWhatItShould
<1>. DEFINE Kept ==
       /\ file["packages"] = "edited" /\ file'["packages"] # "edited"
            => "packages" \in raced
       /\ file["copy_docs"] = "edited" /\ file'["copy_docs"] # "edited"
            => source \/ "copy_docs" \in raced
<1>1. Inv /\ [Next]_vars => [Kept]_vars
  <2>. SUFFICES ASSUME Inv, Next  PROVE Kept
    BY DEF vars
  <2>1. "packages" \in Files /\ "copy_docs" \in Files
    BY BuildersAreProgram
  <2>2. file \in [Files -> {"absent", "cut", "generated", "edited", "mixed"}]
    BY DEF Inv, TypeOK
  <2>3. CASE Opens
    <3>1. Program[step] \in Files /\ step \in 1..10
      BY <2>3, FilesTyped DEF Opens
    <3>2. \A f \in Files : f # Program[step] => file'[f] = file[f]
      BY <2>2, <2>3 DEF Opens
    <3>3. /\ Program[step] = "packages" <=> step = 2
          /\ Program[step] = "copy_docs" <=> step = 3
      BY <3>1, StepNumbers
    <3>. HIDE DEF Program
    <3>4. step = 2 => file["packages"] # "edited" \/ "packages" \in raced
      BY <2>3 DEF Opens, Inv, WritingInv
    <3>5. step = 3 => source
      BY <2>3 DEF Opens
    <3>. QED  BY <2>1, <3>2, <3>3, <3>4, <3>5
  <2>4. CASE Closes
    <3>1. \A f \in Files : f # Program[step] => file'[f] = file[f]
      BY <2>2, <2>4 DEF Closes
    <3>2. file[Program[step]] = "edited" => Program[step] \in raced
      BY <2>4 DEF Closes, Inv, WritingInv
    <3>. HIDE DEF Program
    <3>. QED  BY <2>1, <3>1, <3>2
  <2>5. CASE Passes \/ Checks \/ Raises \/ Start \/ Finish \/ Kill \/ Download
    BY <2>5 DEF Passes, Checks, Raises, Start, Finish, Kill, Download
  <2>6. CASE \E f \in Files : Edit(f)
    BY <2>1, <2>2, <2>6 DEF Edit
  <2>. QED  BY <2>3, <2>4, <2>5, <2>6, Moves DEF Inv
<1>. QED  BY <1>1, Invariance, PTL DEF Spec, KeepsWhatItShould
=============================================================================
