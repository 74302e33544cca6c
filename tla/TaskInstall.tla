------------------------------ MODULE TaskInstall ------------------------------
(***************************************************************************)
(* A task is installed while it is graded.  `task install` (src/task-      *)
(* manager/) copies a package into tasks/<id>, file by file, over what is  *)
(* there, and runs its install script in that folder; the graders of the   *)
(* server read config.yaml from the same folder (src/task.cpp), mount it   *)
(* below their workspace and let their scripts use the other files.        *)
(* Nothing keeps the two apart.                                            *)
(*                                                                         *)
(* The content of a file is the package it comes from.  `task install` has *)
(* two arguments, a configuration, which it checks, and a folder, which it *)
(* copies: config.yaml of the folder is checked by nobody.  One `task` is  *)
(* run at a time.                                                          *)
(***************************************************************************)
EXTENDS Naturals

CONSTANTS
  Packages,     \* of each package: [version, files, generated, wellformed],
                \* where generated are the files its install script makes and
                \* wellformed says whether its config.yaml can be parsed
  Wanted,       \* of each grader: the version its submission asks for
  Nothing,      \* no file, no package
  Torn,         \* a file that is incomplete
  MaxInstalls   \* bound: how often `task install` is run

Package == DOMAIN Packages
Grader == DOMAIN Wanted
Files(p) == Packages[p].files \cup Packages[p].generated
AnyFile == UNION {Files(p) : p \in Package}

ASSUME PackagesAssumption ==
  /\ Package # {} /\ Nothing \notin Package \cup AnyFile /\ Torn \notin Package
  /\ \A p \in Package : "config" \in Packages[p].files \ Packages[p].generated
ASSUME BoundsAssumption == MaxInstalls \in Nat

VARIABLES
  disk,                           \* the files of tasks/<id>
  installs,                       \* how many installs have begun
  task_pc, package, todo,         \* the one that runs: its package, the files
  writing,                        \* cp has still to copy, and the open one
  cp_failed, script_failed,       \* what went wrong in the last install
  exit_code,                      \* what it returned
  server,                         \* "up" or "aborted"
  pc, unread, used, outcome,      \* of each grading: the files its scripts have
                                  \* still to read, what they have read
  base                            \* the package whose complete install its task
                                  \* has been from the beginning of the grading
                                  \* on, or Nothing (history)

taskVars == <<installs, task_pc, package, todo, writing, cp_failed, script_failed, exit_code>>
graderVars == <<pc, unread, used, outcome>>
vars == <<disk, taskVars, server, graderVars, base>>

Init ==
  /\ disk = [f \in AnyFile |-> Nothing]
  /\ installs = 0 /\ task_pc = "none" /\ package = Nothing
  /\ todo = {} /\ writing = Nothing
  /\ cp_failed = FALSE /\ script_failed = FALSE /\ exit_code = 0
  /\ server = "up"
  /\ pc = [g \in Grader |-> "idle"]
  /\ unread = [g \in Grader |-> {}] /\ used = [g \in Grader |-> {}]
  /\ outcome = [g \in Grader |-> "none"]
  /\ base = [g \in Grader |-> Nothing]

-------------------------------------------------------------------------------
(* The program `task`.                                                     *)

Disturbs == base' = [g \in Grader |-> IF pc[g] = "grade" THEN Nothing ELSE base[g]]
taskFrame == <<server, graderVars>>

Returns(code) == task_pc' = "none" /\ exit_code' = code

(* load_install_script: a configuration that is missing or invalid ends it *)
(* before anything is copied.                                              *)
Install(p) ==
  /\ task_pc = "none" /\ installs < MaxInstalls
  /\ installs' = installs + 1 /\ package' = p
  /\ cp_failed' = FALSE /\ script_failed' = FALSE /\ writing' = Nothing
  /\ \/ task_pc' = "copy" /\ todo' = Packages[p].files /\ UNCHANGED exit_code
     \/ Returns(1) /\ UNCHANGED todo
  /\ Disturbs
  /\ UNCHANGED <<taskFrame, disk>>

(* cp -r, in any order.  A file is truncated, then written.                *)
OpenFile(f) ==
  /\ task_pc = "copy" /\ writing = Nothing /\ f \in todo
  /\ disk' = [disk EXCEPT ![f] = Torn]
  /\ writing' = f /\ todo' = todo \ {f}
  /\ Disturbs
  /\ UNCHANGED <<taskFrame, installs, task_pc, package, cp_failed, script_failed, exit_code>>

WriteFile ==
  /\ task_pc = "copy" /\ writing # Nothing
  /\ disk' = [disk EXCEPT ![writing] = package]
  /\ writing' = Nothing
  /\ Disturbs
  /\ UNCHANGED <<taskFrame, installs, task_pc, package, todo, cp_failed, script_failed,
                 exit_code>>

(* A fault: cp -n, a file that is there is kept. *)
Fault_SkipFile ==
  /\ task_pc = "copy" /\ writing = Nothing
  /\ \E f \in todo : disk[f] # Nothing /\ todo' = todo \ {f}
  /\ Disturbs
  /\ UNCHANGED <<taskFrame, disk, installs, task_pc, package, writing, cp_failed,
                 script_failed, exit_code>>

(* cp cannot open a file, or cannot finish it, and goes on with the next.  *)
SkipFile ==
  /\ task_pc = "copy"
  /\ IF writing = Nothing THEN \E f \in todo : todo' = todo \ {f} ELSE UNCHANGED todo
  /\ writing' = Nothing /\ cp_failed' = TRUE
  /\ Disturbs
  /\ UNCHANGED <<taskFrame, disk, installs, task_pc, package, script_failed, exit_code>>

EndCopy ==
  /\ task_pc = "copy" /\ writing = Nothing /\ todo = {}
  /\ IF cp_failed THEN Returns(1) ELSE task_pc' = "execute" /\ UNCHANGED exit_code
  /\ Disturbs
  /\ UNCHANGED <<taskFrame, disk, installs, package, todo, writing, cp_failed, script_failed>>

(* Script::execute: no script, no child; the script starts to write.       *)
ExecuteScript ==
  /\ task_pc = "execute"
  /\ \/ Packages[package].generated = {} /\ Returns(0) /\ UNCHANGED disk
     \/ /\ Packages[package].generated # {}
        /\ \/ Returns(1) /\ UNCHANGED disk     \* fork has failed
           \/ /\ task_pc' = "waitpid"
              /\ disk' = [f \in AnyFile |->
                            IF f \in Packages[package].generated THEN Torn ELSE disk[f]]
              /\ UNCHANGED exit_code
  /\ Disturbs
  /\ UNCHANGED <<taskFrame, installs, package, todo, writing, cp_failed, script_failed>>

(* The child exits with 0 whatever its commands have returned.             *)
EndScript ==
  /\ task_pc = "waitpid"
  /\ \/ /\ disk' = [f \in AnyFile |->
                      IF f \in Packages[package].generated THEN package ELSE disk[f]]
        /\ UNCHANGED script_failed
     \/ script_failed' = TRUE /\ UNCHANGED disk
  /\ Returns(0)
  /\ Disturbs
  /\ UNCHANGED <<taskFrame, installs, package, todo, writing, cp_failed>>

(* The program is interrupted, and cp or the script, which are of its      *)
(* process group, with it: what has been copied stays.                     *)
TaskDies ==
  /\ task_pc # "none"
  /\ Returns(1)
  /\ Disturbs
  /\ UNCHANGED <<taskFrame, disk, installs, package, todo, writing, cp_failed, script_failed>>

Task ==
  \/ (\E p \in Package : Install(p)) \/ (\E f \in AnyFile : OpenFile(f))
  \/ WriteFile \/ SkipFile \/ EndCopy \/ ExecuteScript \/ EndScript \/ TaskDies

-------------------------------------------------------------------------------
(* A grading of the task in grader g.                                      *)

Ends(g, code) ==
  /\ outcome' = [outcome EXCEPT ![g] = code]
  /\ pc' = [pc EXCEPT ![g] = "end"]
  /\ server' = IF code = "aborted" THEN "aborted" ELSE server
  /\ UNCHANGED <<unread, used>>

(* The scripts use the files of the package whose version was loaded.      *)
Grades(g, p, content) ==
  /\ pc' = [pc EXCEPT ![g] = "grade"]
  /\ unread' = [unread EXCEPT ![g] = Files(p) \ {"config"}]
  /\ used' = [used EXCEPT ![g] = {content}]
  /\ UNCHANGED <<server, outcome>>

Installed ==
  /\ installs > 0 /\ task_pc = "none" /\ exit_code = 0 /\ ~script_failed
  /\ Packages[package].wellformed

(* The parser throws, and nobody catches it in a worker thread; or         *)
(* from_yaml refuses what it has found.                                    *)
CannotParse(g) == Ends(g, "NO_TASK") \/ Ends(g, "aborted")

(* A fault: the version is not looked at. *)
Fault_Load(g, p, content) == Grades(g, p, content)

Load(g, p, content) ==
  IF Packages[p].version # Wanted[g] THEN Ends(g, "INVALID_VERSION") ELSE Grades(g, p, content)

(* load_task and the check of the version.  What is there of a torn file   *)
(* may also be taken for the whole.                                        *)
LoadTask(g) ==
  /\ server = "up" /\ pc[g] = "idle"
  /\ LET config == disk["config"] IN
       IF config = Nothing THEN Ends(g, "NO_TASK")
       ELSE IF config = Torn THEN CannotParse(g) \/ \E p \in Package : Load(g, p, Torn)
       ELSE IF ~Packages[config].wellformed THEN CannotParse(g)
       ELSE Load(g, config, config)
  /\ base' = [base EXCEPT ![g] = IF Installed THEN package ELSE Nothing]
  /\ UNCHANGED <<disk, taskVars>>

(* A script reads a file through the overlay when it needs it.             *)
UseFile(g, f) ==
  /\ server = "up" /\ pc[g] = "grade" /\ f \in unread[g]
  /\ used' = [used EXCEPT ![g] = @ \cup {disk[f]}]
  /\ unread' = [unread EXCEPT ![g] = @ \ {f}]
  /\ UNCHANGED <<disk, taskVars, server, pc, outcome, base>>

EndGrading(g) ==
  /\ server = "up" /\ pc[g] = "grade" /\ unread[g] = {}
  /\ Ends(g, "graded")
  /\ UNCHANGED <<disk, taskVars, base>>

GradeSubmission(g) ==
  LoadTask(g) \/ (\E f \in AnyFile : UseFile(g, f)) \/ EndGrading(g)

-------------------------------------------------------------------------------
Next == Task \/ \E g \in Grader : GradeSubmission(g)

Spec == Init /\ [][Next]_vars

-------------------------------------------------------------------------------
(* After an install that returned 0 every file of its package is in place, *)
(* whatever earlier installs have left half done, and the files of its     *)
(* script unless that failed, which the 0 does not tell                    *)
(* (install.cpp:10-29, file.cpp:121-127, script.cpp:29-44).                *)
ZeroMeansInstalled ==
  (installs > 0 /\ task_pc = "none" /\ exit_code = 0) =>
    \A f \in Files(package) :
      disk[f] = package \/ (f \in Packages[package].generated /\ script_failed)

(* A task whose last install was complete, and that no install touches     *)
(* while it is graded, serves exactly the submissions of its version, with *)
(* files of that package only, although older files are still there, and   *)
(* never ends the server (grade_script.cpp:103-119, task.cpp:23-36,        *)
(* install.cpp:14-17).                                                     *)
QuietTaskServes ==
  \A g \in Grader :
    (pc[g] = "end" /\ base[g] # Nothing) =>
      IF Packages[base[g]].version = Wanted[g]
        THEN outcome[g] = "graded" /\ used[g] = {base[g]}
        ELSE outcome[g] = "INVALID_VERSION"

(* What install.cpp:23-26 says: an install script that fails makes the     *)
(* program return an error.                                                *)
FailingScriptIsReported ==
  (task_pc = "none" /\ script_failed) => exit_code # 0
===============================================================================
