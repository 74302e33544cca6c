--------------------------- MODULE TaskInstallProofs ---------------------------
(***************************************************************************)
(* Theorems about installing a task while it is graded, for any packages   *)
(* and any number of installs and gradings.                                *)
(***************************************************************************)
EXTENDS TaskInstall, TLAPS

Content == Package \cup {Nothing, Torn}

TypeInv ==
  /\ disk \in [AnyFile -> Content]
  /\ installs \in Nat
  /\ installs > 0 => package \in Package
  /\ task_pc # "none" => installs > 0
  /\ task_pc \in {"none", "copy", "execute", "waitpid"}
  /\ pc \in [Grader -> {"idle", "grade", "end"}]
  /\ unread \in [Grader -> SUBSET AnyFile]
  /\ used \in [Grader -> SUBSET Content]
  /\ outcome \in [Grader -> {"none", "graded", "NO_TASK", "INVALID_VERSION", "aborted"}]
  /\ base \in [Grader -> Package \cup {Nothing}]

(* What is in place at each step of an install.                            *)
InPlace(S) == \A f \in S : disk[f] = package

CopyInv ==
  LET p == Packages[package] IN
    /\ task_pc = "copy" /\ ~cp_failed => InPlace(p.files \ (todo \cup {writing}))
    /\ task_pc = "execute" => InPlace(p.files)
    /\ task_pc = "waitpid" => InPlace(p.files \ p.generated)
    /\ ZeroMeansInstalled

(* A grading that nothing has disturbed has seen its package only.         *)
Undisturbed(g) ==
  /\ Packages[base[g]].version = Wanted[g]
  /\ used[g] = {base[g]}
  /\ unread[g] \subseteq Files(base[g])
  /\ \A f \in Files(base[g]) : disk[f] = base[g]

GradingInv ==
  /\ \A g \in Grader : (pc[g] = "grade" /\ base[g] # Nothing) => Undisturbed(g)
  /\ QuietTaskServes

-------------------------------------------------------------------------------
(* Facts about the packages.                                               *)

LEMMA FilesAreFiles ==
  ASSUME NEW p \in Package
  PROVE  /\ Files(p) \subseteq AnyFile
         /\ Packages[p].files \subseteq AnyFile /\ Packages[p].generated \subseteq AnyFile
         /\ "config" \in Packages[p].files /\ "config" \notin Packages[p].generated
         /\ p # Nothing /\ p # Torn
BY PackagesAssumption DEF Files, AnyFile

(* No step of `task` touches a grading but by the files, and it counts as  *)
(* a disturbance of every one that is under way.                           *)
LEMMA TaskLeaves == ASSUME Task PROVE UNCHANGED taskFrame /\ Disturbs
BY DEF Task, Install, OpenFile, WriteFile, SkipFile, EndCopy, ExecuteScript, EndScript, TaskDies

LEMMA GradingLeaves ==
  ASSUME NEW g \in Grader, GradeSubmission(g)
  PROVE  UNCHANGED <<disk, taskVars>>
BY DEF GradeSubmission, LoadTask, UseFile, EndGrading

-------------------------------------------------------------------------------
LEMMA TaskKeepsType == ASSUME TypeInv, Task PROVE TypeInv'
<1>1. UNCHANGED <<pc, unread, used, outcome>> /\ base' \in [Grader -> Package \cup {Nothing}]
  BY TaskLeaves DEF taskFrame, graderVars, Disturbs, TypeInv
<1>2. /\ disk' \in [AnyFile -> Content] /\ installs' \in Nat
      /\ installs' > 0 => package' \in Package
      /\ task_pc' # "none" => installs' > 0
      /\ task_pc' \in {"none", "copy", "execute", "waitpid"}
  <2>1. CASE \E p \in Package : Install(p)
    BY <2>1 DEF Install, Returns, TypeInv
  <2>2. CASE (\E f \in AnyFile : OpenFile(f)) \/ WriteFile \/ SkipFile
    BY <2>2 DEF OpenFile, WriteFile, SkipFile, TypeInv, Content
  <2>3. CASE EndCopy \/ TaskDies
    BY <2>3 DEF EndCopy, TaskDies, Returns, TypeInv
  <2>4. CASE ExecuteScript \/ EndScript
    BY <2>4 DEF ExecuteScript, EndScript, Returns, TypeInv, Content
  <2> QED
    BY <2>1, <2>2, <2>3, <2>4, Task DEF Task
<1> QED
  BY <1>1, <1>2, TypeInv DEF TypeInv

LEMMA GradingKeepsType ==
  ASSUME TypeInv, NEW g \in Grader, GradeSubmission(g)
  PROVE  TypeInv'
<1> USE DEF TypeInv, taskVars
<1>1. CASE LoadTask(g)
  <2>1. base' \in [Grader -> Package \cup {Nothing}]
    BY <1>1 DEF LoadTask, Installed
  <2>2. ASSUME NEW code \in {"NO_TASK", "INVALID_VERSION", "aborted"}, Ends(g, code)
        PROVE  /\ pc' \in [Grader -> {"idle", "grade", "end"}]
               /\ outcome' \in [Grader -> {"none", "graded", "NO_TASK", "INVALID_VERSION", "aborted"}]
               /\ UNCHANGED <<unread, used>>
    BY <2>2 DEF Ends
  <2>3. ASSUME NEW p \in Package, NEW content \in Content, Load(g, p, content)
        PROVE  /\ pc' \in [Grader -> {"idle", "grade", "end"}]
               /\ outcome' \in [Grader -> {"none", "graded", "NO_TASK", "INVALID_VERSION", "aborted"}]
               /\ unread' \in [Grader -> SUBSET AnyFile] /\ used' \in [Grader -> SUBSET Content]
    <3>1. CASE Ends(g, "INVALID_VERSION")
      BY <3>1, <2>2
    <3>2. CASE Grades(g, p, content)
      BY <3>2, FilesAreFiles DEF Grades
    <3> QED
      BY <2>3, <3>1, <3>2 DEF Load
  <2>4. disk["config"] \in Content
    BY FilesAreFiles, PackagesAssumption
  <2> QED
    BY <1>1, <2>1, <2>2, <2>3, <2>4 DEF LoadTask, CannotParse, Content
<1>2. CASE \E f \in AnyFile : UseFile(g, f)
  BY <1>2 DEF UseFile
<1>3. CASE EndGrading(g)
  BY <1>3 DEF EndGrading, Ends
<1> QED
  BY <1>1, <1>2, <1>3, GradeSubmission(g) DEF GradeSubmission

-------------------------------------------------------------------------------
LEMMA TaskKeepsCopy == ASSUME TypeInv, CopyInv, Task PROVE CopyInv'
<1> USE DEF CopyInv, ZeroMeansInstalled, InPlace, Files
<1>1. CASE \E p \in Package : Install(p)
  BY <1>1 DEF Install, Returns, TypeInv
<1>2. CASE \E f \in AnyFile : OpenFile(f)
  <2> PICK f \in AnyFile : OpenFile(f)
    BY <1>2
  <2>1. package \in Package /\ Packages[package].files \subseteq AnyFile /\ Nothing \notin AnyFile
    BY FilesAreFiles, PackagesAssumption DEF OpenFile, TypeInv
  <2> QED
    BY <2>1 DEF OpenFile, TypeInv
<1>3. CASE WriteFile
  <2>1. package \in Package /\ Packages[package].files \subseteq AnyFile
    BY <1>3, FilesAreFiles DEF WriteFile, TypeInv
  <2> QED
    BY <1>3, <2>1 DEF WriteFile, TypeInv
<1>4. CASE SkipFile
  BY <1>4 DEF SkipFile
<1>5. CASE EndCopy
  <2>1. package \in Package /\ Packages[package].files \subseteq AnyFile /\ Nothing \notin AnyFile
    BY <1>5, FilesAreFiles, PackagesAssumption DEF EndCopy, TypeInv
  <2> QED
    BY <1>5, <2>1 DEF EndCopy, Returns
<1>6. CASE ExecuteScript
  <2>1. package \in Package /\ Packages[package].files \subseteq AnyFile
    BY <1>6, FilesAreFiles DEF ExecuteScript, TypeInv
  <2> QED
    BY <1>6, <2>1 DEF ExecuteScript, Returns, TypeInv
<1>7. CASE EndScript
  <2>1. /\ package \in Package /\ Packages[package].files \subseteq AnyFile
        /\ Packages[package].generated \subseteq AnyFile
    BY <1>7, FilesAreFiles DEF EndScript, TypeInv
  <2> QED
    BY <1>7, <2>1 DEF EndScript, Returns, TypeInv
<1>8. CASE TaskDies
  BY <1>8 DEF TaskDies, Returns
<1> QED
  BY <1>1, <1>2, <1>3, <1>4, <1>5, <1>6, <1>7, <1>8, Task DEF Task

LEMMA GradingKeepsCopy ==
  ASSUME CopyInv, NEW g \in Grader, GradeSubmission(g)
  PROVE  CopyInv'
BY GradingLeaves DEF taskVars, CopyInv, ZeroMeansInstalled, InPlace

-------------------------------------------------------------------------------
LEMMA TaskKeepsGrading == ASSUME TypeInv, GradingInv, Task PROVE GradingInv'
BY TaskLeaves DEF TypeInv, taskFrame, graderVars, Disturbs, GradingInv, QuietTaskServes

(* config.yaml of an installed task is that of its package, so the version *)
(* and the files are.                                                      *)
LEMMA LoadInstalled ==
  ASSUME TypeInv, CopyInv, NEW g \in Grader, LoadTask(g), Installed
  PROVE  /\ package \in Package /\ Load(g, package, package)
         /\ \A f \in Files(package) : disk[f] = package
<1>1. package \in Package
  BY DEF Installed, TypeInv
<1>2. \A f \in Files(package) : disk[f] = package
  BY DEF Installed, CopyInv, ZeroMeansInstalled
<1>3. disk["config"] = package
  BY <1>1, <1>2, FilesAreFiles DEF Files
<1>4. package # Nothing /\ package # Torn /\ Packages[package].wellformed
  BY <1>1, FilesAreFiles DEF Installed
<1> QED
  BY <1>1, <1>2, <1>3, <1>4 DEF LoadTask

LEMMA GradingKeepsGrading ==
  ASSUME TypeInv, CopyInv, GradingInv, NEW g \in Grader, GradeSubmission(g)
  PROVE  GradingInv'
<1>1. UNCHANGED disk
  BY GradingLeaves
<1>2. \A h \in Grader \ {g} :
        /\ pc'[h] = pc[h] /\ unread'[h] = unread[h] /\ used'[h] = used[h]
        /\ outcome'[h] = outcome[h] /\ base'[h] = base[h]
  BY DEF TypeInv, GradeSubmission, LoadTask, UseFile, EndGrading, CannotParse, Load, Grades, Ends
<1>3. CASE LoadTask(g)
  <2>1. pc[g] = "idle" /\ base'[g] = IF Installed THEN package ELSE Nothing
    BY <1>3 DEF LoadTask, TypeInv
  <2>2. CASE ~Installed
    BY <1>1, <1>2, <2>1, <2>2 DEF GradingInv, QuietTaskServes, Undisturbed
  <2>3. CASE Installed
    <3>1. /\ package \in Package /\ Load(g, package, package)
          /\ \A f \in Files(package) : disk[f] = package
      BY <1>3, <2>3, LoadInstalled
    <3>2. CASE Packages[package].version # Wanted[g]
      <4>1. pc'[g] = "end" /\ outcome'[g] = "INVALID_VERSION"
        BY <3>1, <3>2 DEF Load, Ends, TypeInv
      <4> QED
        BY <1>1, <1>2, <2>1, <2>3, <3>2, <4>1 DEF GradingInv, QuietTaskServes, Undisturbed
    <3>3. CASE Packages[package].version = Wanted[g]
      <4>1. pc'[g] = "grade" /\ used'[g] = {package} /\ unread'[g] \subseteq Files(package)
        BY <3>1, <3>3 DEF Load, Grades, TypeInv
      <4> QED
        BY <1>1, <1>2, <2>1, <2>3, <3>1, <3>3, <4>1 DEF GradingInv, QuietTaskServes, Undisturbed
    <3> QED
      BY <3>2, <3>3
  <2> QED
    BY <2>2, <2>3
<1>4. CASE \E f \in AnyFile : UseFile(g, f)
  <2> PICK f \in AnyFile : UseFile(g, f)
    BY <1>4
  <2>1. /\ pc[g] = "grade" /\ pc'[g] = "grade" /\ base'[g] = base[g]
        /\ f \in unread[g] /\ unread'[g] = unread[g] \ {f}
        /\ used'[g] = used[g] \cup {disk[f]}
    BY DEF UseFile, TypeInv
  <2>2. base[g] # Nothing => Undisturbed(g)'
    <3> HAVE base[g] # Nothing
    <3>1. Undisturbed(g)
      BY <2>1 DEF GradingInv
    <3>2. disk[f] = base[g]
      BY <2>1, <3>1 DEF Undisturbed
    <3> QED
      BY <1>1, <2>1, <3>1, <3>2 DEF Undisturbed
  <2> QED
    BY <1>1, <1>2, <2>1, <2>2 DEF GradingInv, QuietTaskServes, Undisturbed
<1>5. CASE EndGrading(g)
  <2>1. /\ pc[g] = "grade" /\ pc'[g] = "end" /\ outcome'[g] = "graded"
        /\ base'[g] = base[g] /\ used'[g] = used[g]
    BY <1>5 DEF EndGrading, Ends, TypeInv
  <2>2. base[g] # Nothing => Packages[base[g]].version = Wanted[g] /\ used[g] = {base[g]}
    BY <2>1 DEF GradingInv, Undisturbed
  <2> QED
    BY <1>1, <1>2, <2>1, <2>2 DEF GradingInv, QuietTaskServes, Undisturbed
<1> QED
  BY <1>3, <1>4, <1>5, GradeSubmission(g) DEF GradeSubmission

-------------------------------------------------------------------------------
IInv == TypeInv /\ CopyInv /\ GradingInv

LEMMA InitHolds == Init => IInv
BY DEF Init, IInv, TypeInv, Content, CopyInv, ZeroMeansInstalled, GradingInv, QuietTaskServes

LEMMA StepKeeps == IInv /\ [Next]_vars => IInv'
<1> SUFFICES ASSUME IInv, [Next]_vars PROVE IInv'
  OBVIOUS
<1> USE DEF IInv
<1>1. CASE Task
  BY <1>1, TaskKeepsType, TaskKeepsCopy, TaskKeepsGrading
<1>2. CASE \E g \in Grader : GradeSubmission(g)
  BY <1>2, GradingKeepsType, GradingKeepsCopy, GradingKeepsGrading
<1>3. CASE UNCHANGED vars
  BY <1>3 DEF vars, taskVars, graderVars, TypeInv, CopyInv, InPlace, ZeroMeansInstalled,
              GradingInv, QuietTaskServes, Undisturbed
<1> QED
  BY <1>1, <1>2, <1>3 DEF Next

(* After an install that returned 0 the files of its package are in place, *)
(* but those of a script that failed (install.cpp:10-29).                  *)
THEOREM InstalledWhenZero == Spec => []ZeroMeansInstalled
<1>1. IInv => ZeroMeansInstalled
  BY DEF IInv, CopyInv
<1> QED
  BY <1>1, InitHolds, StepKeeps, PTL DEF Spec

(* A grading of a completely installed task that no install disturbs uses  *)
(* the files of that package only, and is refused exactly for another      *)
(* version (grade_script.cpp:103-119, task.cpp:23-32).                     *)
THEOREM UndisturbedServes == Spec => []QuietTaskServes
<1>1. IInv => QuietTaskServes
  BY DEF IInv, GradingInv
<1> QED
  BY <1>1, InitHolds, StepKeeps, PTL DEF Spec
===============================================================================
