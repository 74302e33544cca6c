---------------------------- MODULE GraderWorkspace ----------------------------
(***************************************************************************)
(* What a grader does between BUSY and DONE: grade_submission and the      *)
(* workspace it mounts, uses and cleans (src/grader/grade_script.cpp), in  *)
(* grader-server, where the handler of SIGINT removes the folders of the   *)
(* graders (terminate and cleanup_grader, src/grader/grader.cpp).          *)
(*                                                                         *)
(* Each grader has a mount point run/<id> and a folder grader/<id> with    *)
(* the upper and the work directory of its overlay; submissions/<id> and   *)
(* results/<id> belong to submission ids.  A file is the submission it     *)
(* was uploaded with, a result the file it was computed from; both are     *)
(* Torn while they are written.  The folders outlive the process, which    *)
(* may end at any moment and be started again.  Which grader gets which    *)
(* submission, and when, is the business of GraderPool, and so is a signal *)
(* that comes before every grader is in the vector.                        *)
(***************************************************************************)
EXTENDS Naturals, FiniteSets

CONSTANTS
  NumGraders,
  Submission, SubmissionID, IdOf,
  Requests,    \* of each submission, what it may be: [task, version, option]
  Tasks,       \* config.yaml of each installed task: [version, options]
  Nothing,     \* no file, no submission
  Blank,       \* the result of scripts that saw no submission file
  Torn,        \* what a reader finds in a file that is being written
  MaxRestarts  \* bound: how often the process ends and is started again

Grader == 0 .. NumGraders - 1

ASSUME NumGradersAssumption == NumGraders \in Nat
ASSUME IdOfAssumption == IdOf \in [Submission -> SubmissionID]
ASSUME NoFileAssumption ==
  {Nothing, Blank, Torn} \cap Submission = {} /\ Cardinality({Nothing, Blank, Torn}) = 3
ASSUME RestartsAssumption == MaxRestarts \in Nat

File == Submission \cup {Nothing, Torn}
Result == File \cup {Blank}
Folder == {"run", "grader", "upper", "work"}

GRADE_RESULT ==
  {"OK", "NO_TASK", "INVALID_VERSION", "INVALID_OPTION", "SETUP_ERROR", "CLEANUP_ERROR"}

VARIABLES
  submissions, results,             \* the two folders, by id
  uploading,                        \* what the REST thread is writing
  uploaded, taken, graded,          \* submissions the pool has got, has given
                                    \* out, has collected
  outcome,                          \* of each submission: what its grading returned
  status, submission, pc,           \* of each grader
  copying,                          \* the result its cp has opened
  folders, mounts,                  \* of each grader: what exists, and how many
                                    \* overlays lie on run/<id>
  file, result,                     \* what its upper directory holds
  attached,                         \* whether its top overlay still has that directory
  failed,                           \* how many overlays were left there (history)
  uncleared,                        \* graders whose folder an rm left there (history)
  dropped,                          \* results whose cp was not started (history)
  cut,                              \* submissions whose cp or script ended half-way (history)
  restarts,
  killer_pc, killer_at,
  seen                              \* the status terminate() stopped waiting at (history)

clients == <<submissions, uploading, uploaded>>
output == <<results, copying, outcome, dropped, cut>>
pool == <<taken, graded>>
workers == <<status, submission, pc>>
folder == <<folders, mounts, file, result, attached>>
workspace == <<folder, failed, uncleared>>
killer == <<killer_pc, killer_at, seen>>
vars == <<clients, output, pool, workers, workspace, killer, restarts>>

Init ==
  /\ submissions = [id \in SubmissionID |-> Nothing]
  /\ results = [id \in SubmissionID |-> Nothing]
  /\ uploading = Nothing /\ uploaded = {} /\ taken = {} /\ graded = {}
  /\ outcome = [s \in Submission |-> "none"] /\ dropped = {} /\ cut = {}
  /\ copying = [g \in Grader |-> Nothing]
  /\ restarts = 0
  /\ status = [g \in Grader |-> "INIT"]
  /\ submission = [g \in Grader |-> Nothing]
  /\ pc = [g \in Grader |-> "start"]
  /\ folders = [g \in Grader |-> {}]
  /\ mounts = [g \in Grader |-> 0]
  /\ file = [g \in Grader |-> Nothing]
  /\ result = [g \in Grader |-> Nothing]
  /\ attached = [g \in Grader |-> FALSE]
  /\ failed = [g \in Grader |-> 0] /\ uncleared = {}
  /\ killer_pc = "none" /\ killer_at = 0
  /\ seen = [g \in Grader |-> "none"]

-------------------------------------------------------------------------------
(* Clients and the scheduler, which stands still once the handler runs.    *)

(* The REST handler writes the file before it parses the request: also one *)
(* that is then rejected replaces the file of an id.                       *)
WriteFile(s) ==
  /\ uploading = Nothing /\ s \notin uploaded
  /\ submissions' = [submissions EXCEPT ![IdOf[s]] = Torn]
  /\ uploading' = s
  /\ UNCHANGED <<uploaded, output, pool, workers, workspace, killer, restarts>>

AddSubmission(s) ==
  /\ uploading = s
  /\ submissions' = [submissions EXCEPT ![IdOf[s]] = s]
  /\ uploading' = Nothing /\ uploaded' = uploaded \cup {s}
  /\ \/ taken' = taken
     \/ taken' = taken \cup {s}     \* rejected, or discarded by the pool
  /\ UNCHANGED <<output, graded, workers, workspace, killer, restarts>>

Grade(g, s) ==
  /\ killer_pc = "none"
  /\ status[g] = "IDLE"
  /\ s \in uploaded \ taken
  /\ taken' = taken \cup {s}
  /\ submission' = [submission EXCEPT ![g] = s]
  /\ status' = [status EXCEPT ![g] = "NEW"]
  /\ UNCHANGED <<clients, output, graded, pc, workspace, killer, restarts>>

Release(g) ==
  /\ killer_pc = "none"
  /\ status[g] = "DONE"
  /\ graded' = graded \cup {submission[g]}
  /\ status' = [status EXCEPT ![g] = "IDLE"]
  /\ UNCHANGED <<clients, output, taken, submission, pc, workspace, killer, restarts>>

-------------------------------------------------------------------------------
(* start_grader.                                                           *)

WorkerAt(g, label) == pc[g] = label
Goes(g, label) == pc' = [pc EXCEPT ![g] = label]

(* init_grader makes the two folders of the grader; what an earlier process *)
(* has left in them, or mounted there, stays.                              *)
InitGrader(g) ==
  /\ WorkerAt(g, "start")
  /\ folders' = [folders EXCEPT ![g] = @ \cup {"run", "grader"}]
  /\ status' = [status EXCEPT ![g] = "IDLE"]
  /\ Goes(g, "loop")
  /\ UNCHANGED <<clients, output, pool, submission, mounts, file, result, attached,
                 failed, uncleared, killer, restarts>>

SeeNew(g) ==
  /\ WorkerAt(g, "loop") /\ status[g] = "NEW"
  /\ Goes(g, "new")
  /\ UNCHANGED <<clients, output, pool, status, submission, workspace, killer, restarts>>

SetBusy(g) ==
  /\ WorkerAt(g, "new")
  /\ status' = [status EXCEPT ![g] = "BUSY"]
  /\ Goes(g, "load")
  /\ UNCHANGED <<clients, output, pool, submission, workspace, killer, restarts>>

SetDone(g) ==
  /\ WorkerAt(g, "return")
  /\ status' = [status EXCEPT ![g] = "DONE"]
  /\ Goes(g, "loop")
  /\ UNCHANGED <<clients, output, pool, submission, workspace, killer, restarts>>

Exit(g) ==
  /\ WorkerAt(g, "loop") /\ status[g] = "TERMINATED"
  /\ Goes(g, "exited")
  /\ UNCHANGED <<clients, output, pool, status, submission, workspace, killer, restarts>>

-------------------------------------------------------------------------------
(* grade_submission, in the worker of grader g.                            *)

gradingFrame == <<clients, pool, status, submission, killer, restarts>>

Of(g) == submission[g]
Ends(g, code) == outcome' = [outcome EXCEPT ![Of(g)] = code]

(* The second lookup, for "default", tests the iterator of the first: only *)
(* the option asked for is ever found.                                     *)
HasJudgeOption(options, option) == option \in options

(* What load_task, the version and get_judge_option say of a request.      *)
Refusal(request) ==
  IF request.task \notin DOMAIN Tasks THEN "NO_TASK"
  ELSE IF Tasks[request.task].version # request.version THEN "INVALID_VERSION"
  ELSE IF ~HasJudgeOption(Tasks[request.task].options, request.option) THEN "INVALID_OPTION"
  ELSE "OK"

(* A fault: a refused submission leaves the worker without an answer. *)
Fault_LoadTask(g) ==
  /\ WorkerAt(g, "load")
  /\ \E request \in Requests[Of(g)] :
       /\ Ends(g, Refusal(request))
       /\ Goes(g, IF Refusal(request) = "OK" THEN "create" ELSE "exited")
  /\ UNCHANGED <<gradingFrame, results, copying, dropped, cut, workspace>>

LoadTask(g) ==
  /\ WorkerAt(g, "load")
  /\ \E request \in Requests[Of(g)] :
       /\ Ends(g, Refusal(request))
       /\ Goes(g, IF Refusal(request) = "OK" THEN "create" ELSE "return")
  /\ UNCHANGED <<gradingFrame, results, copying, dropped, cut, workspace>>

(* mkdir keeps a folder that is there, and fails without its parent; both  *)
(* are only logged.                                                        *)
CreateFolders(g) ==
  /\ WorkerAt(g, "create")
  /\ folders' = [folders EXCEPT ![g] =
       IF "grader" \in @ THEN @ \cup {"upper", "work"} ELSE @]
  /\ Goes(g, "mount")
  /\ UNCHANGED <<gradingFrame, output, mounts, file, result, attached, failed, uncleared>>

(* The kernel may refuse the mount, and it may accept one on top of an     *)
(* overlay that is still there: both then share the upper directory.       *)
Mount(g) ==
  /\ WorkerAt(g, "mount")
  /\ folders[g] = Folder
  /\ mounts' = [mounts EXCEPT ![g] = @ + 1]
  /\ attached' = [attached EXCEPT ![g] = TRUE]
  /\ Goes(g, "copy_submission")
  /\ UNCHANGED <<gradingFrame, output, folders, file, result, failed, uncleared>>

(* A fault: the failure is only logged. *)
Fault_MountFails(g) ==
  /\ WorkerAt(g, "mount")
  /\ Goes(g, "return")
  /\ UNCHANGED <<gradingFrame, output, workspace>>

MountFails(g) ==
  /\ WorkerAt(g, "mount")
  /\ Ends(g, "SETUP_ERROR")
  /\ Goes(g, "return")
  /\ UNCHANGED <<gradingFrame, results, copying, dropped, cut, workspace>>

(* judge_submission.  Nobody looks at what cp or the scripts return.       *)

CopySubmission(g) ==
  LET source == submissions[IdOf[Of(g)]] IN
    /\ WorkerAt(g, "copy_submission")
    /\ \/ UNCHANGED <<file, cut>>
       \/ /\ attached[g] /\ source # Nothing
          /\ \/ file' = [file EXCEPT ![g] = source] /\ UNCHANGED cut
             \/ file' = [file EXCEPT ![g] = Torn] /\ cut' = cut \cup {Of(g)}
    /\ Goes(g, "execute")
    /\ UNCHANGED <<gradingFrame, results, copying, outcome, dropped, folders, mounts, result,
                   attached, failed, uncleared>>

(* The three scripts, one after another; they may end without having       *)
(* written a result, or in the middle of it.                               *)
ExecuteScripts(g) ==
  /\ WorkerAt(g, "execute")
  /\ \/ UNCHANGED <<result, cut>>
     \/ /\ attached[g]
        /\ \/ /\ result' = [result EXCEPT ![g] = IF file[g] = Nothing THEN Blank ELSE file[g]]
              /\ UNCHANGED cut
           \/ result' = [result EXCEPT ![g] = Torn] /\ cut' = cut \cup {Of(g)}
  /\ Goes(g, "copy_result")
  /\ UNCHANGED <<gradingFrame, results, copying, outcome, dropped, folders, mounts, file,
                 attached, failed, uncleared>>

(* A fault: a missing result ends the grading at once. *)
Fault_CopyResultFails(g) ==
  /\ WorkerAt(g, "copy_result")
  /\ Ends(g, "CLEANUP_ERROR")
  /\ Goes(g, "return")
  /\ UNCHANGED <<gradingFrame, results, copying, dropped, cut, workspace>>

(* cp cannot read the result or open the target.                           *)
CopyResultFails(g) ==
  /\ WorkerAt(g, "copy_result")
  /\ Ends(g, "CLEANUP_ERROR")
  /\ Goes(g, "umount")
  /\ UNCHANGED <<gradingFrame, results, copying, dropped, cut, workspace>>

(* cp cannot be started: the -1 of system() is not > 0.                    *)
CopyResultNotStarted(g) ==
  /\ WorkerAt(g, "copy_result")
  /\ dropped' = dropped \cup {Of(g)}
  /\ Goes(g, "umount")
  /\ UNCHANGED <<gradingFrame, results, copying, outcome, cut, workspace>>

(* cp truncates the target; of two that write it at once no more than Torn *)
(* is known.                                                               *)
CopyResult(g) ==
  LET others == {h \in Grader : copying[h] # Nothing /\ IdOf[Of(h)] = IdOf[Of(g)]} IN
    /\ WorkerAt(g, "copy_result")
    /\ attached[g] /\ result[g] # Nothing
    /\ results' = [results EXCEPT ![IdOf[Of(g)]] = Torn]
    /\ copying' = [h \in Grader |-> IF h \in others THEN Torn
                     ELSE IF h = g THEN IF others = {} THEN result[g] ELSE Torn
                     ELSE copying[h]]
    /\ Goes(g, "copying")
    /\ UNCHANGED <<gradingFrame, outcome, dropped, cut, workspace>>

(* A fault: the worker does not wait for cp. *)
Fault_FinishCopy(g) ==
  /\ WorkerAt(g, "copying")
  /\ copying' = [copying EXCEPT ![g] = Nothing]
  /\ Goes(g, "umount")
  /\ UNCHANGED <<gradingFrame, results, outcome, dropped, cut, workspace>>

(* cp ends, or fails in the middle.                                        *)
FinishCopy(g) ==
  /\ WorkerAt(g, "copying")
  /\ copying' = [copying EXCEPT ![g] = Nothing]
  /\ \/ results' = [results EXCEPT ![IdOf[Of(g)]] = copying[g]] /\ UNCHANGED outcome
     \/ Ends(g, "CLEANUP_ERROR") /\ UNCHANGED results
  /\ Goes(g, "umount")
  /\ UNCHANGED <<gradingFrame, dropped, cut, workspace>>

(* rm -rf of grader/<id>, after which `made' is there again.  It is started *)
(* by system(): it may not start, or end half-way, which is only logged.   *)
RemoveFolder(g, made) ==
  /\ folders' = [folders EXCEPT ![g] = (@ \ {"grader", "upper", "work"}) \cup made]
  /\ file' = [file EXCEPT ![g] = Nothing]
  /\ result' = [result EXCEPT ![g] = Nothing]
  /\ attached' = [attached EXCEPT ![g] = FALSE]

(* What is left of a folder that rm goes through and does not remove.      *)
RemoveSome(g) ==
  /\ file' \in {file, [file EXCEPT ![g] = Nothing]}
  /\ result' \in {result, [result EXCEPT ![g] = Nothing]}

RemoveFolderFails(g, made) ==
  \E gone \in SUBSET {"upper", "work"} :
    /\ folders' = [folders EXCEPT ![g] = (@ \ gone) \cup made]
    /\ RemoveSome(g)
    /\ "upper" \in gone => file'[g] = Nothing /\ result'[g] = Nothing
    /\ attached' = [attached EXCEPT ![g] = @ /\ "upper" \notin gone]

(* cleanup_workspace.  A process a script left behind makes umount fail:   *)
(* then nothing is removed.                                                *)

(* A fault: an overlay that was there before is unmounted as well. *)
Fault_UmountAll(g) ==
  /\ WorkerAt(g, "umount")
  /\ mounts' = [mounts EXCEPT ![g] = @ - 2]
  /\ Goes(g, "remove")
  /\ UNCHANGED <<gradingFrame, output, folders, file, result, attached, failed, uncleared>>

Umount(g) ==
  /\ WorkerAt(g, "umount")
  /\ mounts' = [mounts EXCEPT ![g] = @ - 1]
  /\ Goes(g, "remove")
  /\ UNCHANGED <<gradingFrame, output, folders, file, result, attached, failed, uncleared>>

UmountFails(g) ==
  /\ WorkerAt(g, "umount")
  /\ failed' = [failed EXCEPT ![g] = @ + 1]
  /\ Ends(g, "CLEANUP_ERROR")
  /\ Goes(g, "return")
  /\ UNCHANGED <<gradingFrame, results, copying, dropped, cut, folder, uncleared>>

(* A fault: grader/<id> is unmounted and not emptied. *)
Fault_RecreateFolder(g) ==
  /\ WorkerAt(g, "remove")
  /\ Goes(g, "return")
  /\ UNCHANGED <<gradingFrame, output, workspace>>

(* remove_folder and create_folder of grader/<id>; cleanup_workspace       *)
(* returns 0 whatever becomes of them.                                     *)
RecreateFolder(g) ==
  /\ WorkerAt(g, "remove")
  /\ \/ RemoveFolder(g, {"grader"}) /\ UNCHANGED uncleared
     \/ RemoveFolderFails(g, {"grader"}) /\ uncleared' = uncleared \cup {g}
  /\ Goes(g, "return")
  /\ UNCHANGED <<gradingFrame, output, mounts, failed>>

GradeSubmission(g) ==
  \/ LoadTask(g) \/ CreateFolders(g) \/ Mount(g) \/ MountFails(g)
  \/ CopySubmission(g) \/ ExecuteScripts(g)
  \/ CopyResult(g) \/ CopyResultFails(g) \/ CopyResultNotStarted(g) \/ FinishCopy(g)
  \/ Umount(g) \/ UmountFails(g) \/ RecreateFolder(g)

Worker(g) ==
  \/ InitGrader(g) \/ SeeNew(g) \/ SetBusy(g) \/ SetDone(g) \/ Exit(g)
  \/ GradeSubmission(g)

-------------------------------------------------------------------------------
(* The SIGINT handler, on the thread of the scheduler.                     *)

killFrame == <<clients, output, pool, submission, pc, restarts>>

Kill ==
  /\ killer_pc = "none"
  /\ killer_pc' = "terminate"
  /\ UNCHANGED <<killFrame, status, workspace, killer_at, seen>>

(* A fault: terminate does not wait. *)
Fault_Terminate ==
  /\ killer_pc = "terminate" /\ killer_at < NumGraders
  /\ seen' = [seen EXCEPT ![killer_at] = status[killer_at]]
  /\ killer_pc' = IF status[killer_at] = "INIT" THEN "set_terminated" ELSE "remove_run"
  /\ UNCHANGED <<killFrame, status, workspace, killer_at>>

(* terminate spins while BUSY, and spares the folders of a grader in INIT. *)
Terminate ==
  /\ killer_pc = "terminate" /\ killer_at < NumGraders
  /\ status[killer_at] # "BUSY"
  /\ seen' = [seen EXCEPT ![killer_at] = status[killer_at]]
  /\ killer_pc' = IF status[killer_at] = "INIT" THEN "set_terminated" ELSE "remove_run"
  /\ UNCHANGED <<killFrame, status, workspace, killer_at>>

(* rm -rf run/<id> goes through an overlay into its upper directory, and   *)
(* cannot remove a mount point.                                            *)
RemoveRun ==
  LET g == killer_at IN
    /\ killer_pc = "remove_run"
    /\ \/ UNCHANGED <<folders, file, result>>
       \/ /\ mounts[g] = 0
          /\ folders' = [folders EXCEPT ![g] = @ \ {"run"}] /\ UNCHANGED <<file, result>>
       \/ mounts[g] > 0 /\ attached[g] /\ RemoveSome(g) /\ UNCHANGED folders
    /\ killer_pc' = "remove_grader"
    /\ UNCHANGED <<killFrame, status, mounts, attached, failed, uncleared, killer_at, seen>>

RemoveGrader ==
  /\ killer_pc = "remove_grader"
  /\ RemoveFolder(killer_at, {}) \/ RemoveFolderFails(killer_at, {})
  /\ killer_pc' = "set_terminated"
  /\ UNCHANGED <<killFrame, status, mounts, failed, uncleared, killer_at, seen>>

SetTerminated ==
  /\ killer_pc = "set_terminated"
  /\ status' = [status EXCEPT ![killer_at] = "TERMINATED"]
  /\ killer_pc' = "terminate" /\ killer_at' = killer_at + 1
  /\ UNCHANGED <<killFrame, workspace, seen>>

Killer == Kill \/ Terminate \/ RemoveRun \/ RemoveGrader \/ SetTerminated

-------------------------------------------------------------------------------
(* The process ends, of an exception, a kill or its handler's exit, and is *)
(* started again: its memory is gone, the folders and the mounts are not.  *)

Mounted(g) ==
  pc[g] \in {"copy_submission", "execute", "copy_result", "copying", "umount"}

Restart ==
  /\ restarts < MaxRestarts
  /\ restarts' = restarts + 1
  /\ uploading' = Nothing
  /\ uploaded' = uploaded \cup ({uploading} \ {Nothing})
  /\ taken' = uploaded' /\ graded' = {}
  /\ outcome' = [s \in Submission |-> "none"] /\ dropped' = {} /\ cut' = {}
  /\ copying' = [g \in Grader |-> Nothing]
  /\ status' = [g \in Grader |-> "INIT"]
  /\ submission' = [g \in Grader |-> Nothing]
  /\ pc' = [g \in Grader |-> "start"]
  /\ failed' = [g \in Grader |-> IF Mounted(g) THEN failed[g] + 1 ELSE failed[g]]
  /\ uncleared' = {}
  /\ killer_pc' = "none" /\ killer_at' = 0
  /\ seen' = [g \in Grader |-> "none"]
  /\ UNCHANGED <<submissions, results, folder>>

-------------------------------------------------------------------------------
Next ==
  \/ \E s \in Submission : WriteFile(s) \/ AddSubmission(s)
  \/ \E g \in Grader : Release(g) \/ Worker(g) \/ \E s \in Submission : Grade(g, s)
  \/ Killer \/ Restart

Spec == Init /\ [][Next]_vars

(* The worker threads run; every script, cp, mount and rm comes to an end. *)
FairSpec == Spec /\ \A g \in Grader : WF_vars(Worker(g))

-------------------------------------------------------------------------------
(* Type invariant. *)
TypeOK ==
  /\ submissions \in [SubmissionID -> File] /\ results \in [SubmissionID -> Result]
  /\ graded \subseteq taken /\ taken \subseteq uploaded /\ uploaded \subseteq Submission
  /\ uploading \in Submission \cup {Nothing}
  /\ status \in [Grader -> {"INIT", "IDLE", "NEW", "BUSY", "DONE", "TERMINATED"}]
  /\ submission \in [Grader -> Submission \cup {Nothing}]
  /\ outcome \in [Submission -> GRADE_RESULT \cup {"none"}] 
  /\ dropped \subseteq Submission /\ cut \subseteq Submission
  /\ copying \in [Grader -> Result]
  /\ folders \in [Grader -> SUBSET Folder]
  /\ mounts \in [Grader -> Nat] /\ failed \in [Grader -> Nat]
  /\ uncleared \subseteq Grader
  /\ file \in [Grader -> File] /\ result \in [Grader -> Result]
  /\ attached \in [Grader -> BOOLEAN]
  /\ killer_at \in 0 .. NumGraders /\ restarts \in 0 .. MaxRestarts

(* A workspace may hold what another submission left: an umount or the rm  *)
(* after it has failed, or a process has ended in the middle of a grading, *)
(* and neither init_grader nor mkdir empties a folder.                     *)
Unclean == restarts > 0 \/ uncleared # {} \/ \E g \in Grader : failed[g] > 0

(* A client never reads, under its id, the result of a file uploaded under *)
(* another id, unless a workspace was not cleaned: then a script that      *)
(* writes no result leaves the old one to be copied.  Two files uploaded   *)
(* under one id are not told apart (grade_script.cpp:28-101, file.cpp:66-  *)
(* 73, grader.cpp:59-63).                                                  *)
ForeignResultOnlyIfUnclean ==
  \A id \in SubmissionID :
    results[id] \in Submission => IdOf[results[id]] = id \/ Unclean

(* Between two gradings a grader keeps exactly the overlays whose umount   *)
(* failed or whose process ended: every way out of grade_submission        *)
(* unmounts what it mounted (grade_script.cpp:103-135).                    *)
MountsAreFailures ==
  \A g \in Grader : pc[g] = "loop" => mounts[g] = failed[g]

(* When get_result answers GRADED and finds no result file, every grading  *)
(* of the id has returned an error or could not start its cp               *)
(* (grade_script.cpp:46-56, 103-135; router.cpp:138-144).                  *)
NoResultOnlyAfterFailure ==
  \A s \in graded :
    results[IdOf[s]] = Nothing => outcome[s] # "OK" \/ s \in dropped

(* The result file of a GRADED id is whole, unless the id was uploaded a   *)
(* second time, which is graded in its turn or was written while the first *)
(* file was copied, its cp failed, or the cp of the submission or a script *)
(* ended half-way, which nobody looks at (grade_script.cpp:38-49,          *)
(* grader.cpp:113-115, router.cpp:104-106).                                *)
GradedIsWhole ==
  \A s \in graded :
    results[IdOf[s]] = Torn =>
      \/ \E t \in uploaded \cup {uploading} : t \notin {s, Nothing} /\ IdOf[t] = IdOf[s]
      \/ outcome[s] # "OK" \/ s \in cut \/ Unclean

Running(g) == Mounted(g) \/ pc[g] \in {"create", "mount", "remove"}

(* The handler removes the folders of a grader under its running scripts   *)
(* only if it has looked at the grader between the scheduler's write of    *)
(* NEW and the worker's write of BUSY, which may be before or after the    *)
(* worker's own look; never of one it saw idle or done (grader.cpp:48,     *)
(* 71-79, 108-113).                                                        *)
RunningIsSpared ==
  [][\A g \in Grader :
       (killer_pc \in {"remove_run", "remove_grader"} /\ killer_at = g
          /\ killer_pc' \notin {killer_pc, "none"} /\ Running(g))
       => seen[g] = "NEW"]_vars

(* Whatever fails, a submission handed to a grader ends in DONE, unless    *)
(* the pool is killed or the process ends (grade_script.cpp:103-135,       *)
(* grader.cpp:108-119).                                                    *)
EveryGradingIsDone ==
  \A g \in Grader :
    (status[g] = "NEW") ~> (status[g] \in {"DONE", "INIT"} \/ killer_pc # "none")

(* What the comment of task.cpp:16 announces: a task that has a default    *)
(* option judges submissions that ask for an option it does not have.      *)
DefaultServes ==
  \A s \in Submission :
    outcome[s] = "INVALID_OPTION" =>
      \A request \in Requests[s] : "default" \notin Tasks[request.task].options
===============================================================================
