------------------------- MODULE GraderWorkspaceProofs -------------------------
(***************************************************************************)
(* Theorems of GraderWorkspace for any number of graders, submissions,     *)
(* requests, tasks and restarts, and their proofs.                         *)
(***************************************************************************)
EXTENDS GraderWorkspace, FiniteSetTheorems, TLAPS

LEMMA NoFilesDiffer ==
  /\ Nothing # Torn /\ Nothing # Blank /\ Blank # Torn
  /\ Nothing \notin Submission /\ Blank \notin Submission /\ Torn \notin Submission
<1>1. ASSUME NEW x, NEW y PROVE Cardinality({x, y}) # 3
  <2>1. IsFiniteSet({x}) /\ Cardinality({x}) = 1
    BY FS_Singleton
  <2>2. Cardinality({x} \cup {y}) \in {1, 2}
    BY <2>1, FS_AddElement
  <2>3. {x} \cup {y} = {x, y}
    OBVIOUS
  <2> QED  BY <2>2, <2>3
<1>2. Nothing # Torn
  <2> SUFFICES ASSUME Nothing = Torn PROVE FALSE
    OBVIOUS
  <2>1. {Nothing, Blank, Torn} = {Nothing, Blank}
    OBVIOUS
  <2> QED  BY <2>1, <1>1, NoFileAssumption
<1>3. Nothing # Blank
  <2> SUFFICES ASSUME Nothing = Blank PROVE FALSE
    OBVIOUS
  <2>1. {Nothing, Blank, Torn} = {Blank, Torn}
    OBVIOUS
  <2> QED  BY <2>1, <1>1, NoFileAssumption
<1>4. Blank # Torn
  <2> SUFFICES ASSUME Blank = Torn PROVE FALSE
    OBVIOUS
  <2>1. {Nothing, Blank, Torn} = {Nothing, Blank}
    OBVIOUS
  <2> QED  BY <2>1, <1>1, NoFileAssumption
<1> QED  BY <1>2, <1>3, <1>4, NoFileAssumption

-------------------------------------------------------------------------------
(* Types, and who holds a submission.  TypeOK is not inductive: a result   *)
(* is copied under the id of a submission that a grader has only because   *)
(* of the place its worker is at, and an overlay is unmounted that only    *)
(* the place says is there.                                                *)

Grading ==
  {"load", "create", "mount", "copy_submission", "execute", "copy_result",
   "copying", "umount", "remove", "return"}

Removing == {"remove_run", "remove_grader", "set_terminated"}

Active(g) == pc[g] \in Grading \cup {"new"} \/ status[g] \in {"NEW", "BUSY", "DONE"}

ControlType ==
  /\ pc \in [Grader -> Grading \cup {"start", "loop", "new", "exited"}]
  /\ killer_pc \in Removing \cup {"none", "terminate"}
  /\ killer_pc \in Removing => killer_at < NumGraders

StatusOfPc ==
  \A g \in Grader :
    /\ status[g] = "INIT" => pc[g] = "start"
    /\ pc[g] = "start" => status[g] \in {"INIT", "TERMINATED"}
    /\ status[g] \in {"IDLE", "DONE"} => pc[g] = "loop"
    /\ status[g] = "NEW" => pc[g] \in {"loop", "new"}
    /\ status[g] = "BUSY" => pc[g] \in Grading

Holding ==
  \A g \in Grader :
    /\ submission[g] \in taken \cup {Nothing}
    /\ Active(g) => submission[g] \in Submission \ graded
    /\ \A h \in Grader :
         submission[g] # Nothing /\ submission[g] = submission[h] => g = h

MountsCount ==
  \A g \in Grader : mounts[g] = IF Mounted(g) THEN failed[g] + 1 ELSE failed[g]

TypeInv == TypeOK /\ ControlType /\ StatusOfPc /\ Holding /\ MountsCount

LEMMA InitTypeInv == Init => TypeInv
  BY NumGradersAssumption, RestartsAssumption, NoFilesDiffer
  DEF Init, TypeInv, TypeOK, ControlType, StatusOfPc, Holding, MountsCount, Mounted,
      Active, Grading, Removing, Grader, File, Result, Folder, GRADE_RESULT

LEMMA ClientTypeInv ==
  ASSUME TypeInv, NEW s \in Submission, WriteFile(s) \/ AddSubmission(s)
  PROVE  TypeInv'
<1> USE IdOfAssumption, NoFilesDiffer
    DEF TypeInv, TypeOK, ControlType, StatusOfPc, Holding, MountsCount, Mounted,
      Active, Grading, Removing, File, Result, output, pool, workers, folder, workspace, killer
<1>1. CASE WriteFile(s)
  BY <1>1 DEF WriteFile
<1>2. CASE AddSubmission(s)
  BY <1>2 DEF AddSubmission
<1> QED  BY <1>1, <1>2

LEMMA SchedulerTypeInv ==
  ASSUME TypeInv, NEW g \in Grader,
         Release(g) \/ \E s \in Submission : Grade(g, s)
  PROVE  TypeInv'
<1> USE NoFilesDiffer
    DEF TypeInv, TypeOK, ControlType, StatusOfPc, Holding, MountsCount, Mounted,
      Active, Grading, Removing, output, clients, pool, workers, folder, workspace, killer
<1>1. CASE Release(g)
  BY <1>1 DEF Release
<1>2. ASSUME NEW s \in Submission, Grade(g, s) PROVE TypeInv'
  BY <1>2 DEF Grade
<1> QED  BY <1>1, <1>2

LEMMA LoopTypeInv ==
  ASSUME TypeInv, NEW g \in Grader,
         InitGrader(g) \/ SeeNew(g) \/ SetBusy(g) \/ SetDone(g) \/ Exit(g)
  PROVE  TypeInv'
<1> USE NoFilesDiffer
    DEF TypeInv, TypeOK, ControlType, StatusOfPc, Holding, MountsCount, Mounted, Folder,
      Active, Grading, Removing, output, clients, pool, workers, folder, workspace,
      killer, WorkerAt, Goes
<1>1. CASE InitGrader(g)
  BY <1>1 DEF InitGrader
<1>2. CASE SeeNew(g)
  BY <1>2 DEF SeeNew
<1>3. CASE SetBusy(g)
  BY <1>3 DEF SetBusy
<1>4. CASE SetDone(g)
  BY <1>4 DEF SetDone
<1>5. CASE Exit(g)
  BY <1>5 DEF Exit
<1> QED  BY <1>1, <1>2, <1>3, <1>4, <1>5

(* Whether rm -rf works or not, a grader keeps a file or loses it. *)
LEMMA Removal ==
  ASSUME TypeInv, NEW g \in Grader, NEW made \in SUBSET {"grader"},
         RemoveFolder(g, made) \/ RemoveFolderFails(g, made)
  PROVE  /\ folders' \in [Grader -> SUBSET Folder]
         /\ attached' \in [Grader -> BOOLEAN]
         /\ file' \in [Grader -> File] /\ result' \in [Grader -> Result]
         /\ \A h \in Grader : /\ file'[h] \in {file[h], Nothing}
                             /\ result'[h] \in {result[h], Nothing}
<1> USE DEF TypeInv, TypeOK, File, Result, Folder, RemoveSome
<1>1. CASE RemoveFolder(g, made)
  BY <1>1 DEF RemoveFolder
<1>2. CASE RemoveFolderFails(g, made)
  <2>1. PICK gone \in SUBSET {"upper", "work"} :
          /\ folders' = [folders EXCEPT ![g] = (@ \ gone) \cup made]
          /\ RemoveSome(g)
          /\ attached' = [attached EXCEPT ![g] = @ /\ "upper" \notin gone]
    BY <1>2 DEF RemoveFolderFails
  <2>2. folders' \in [Grader -> SUBSET Folder]
    BY <2>1
  <2>3. attached' \in [Grader -> BOOLEAN]
    BY <2>1, ZenonT(20)
  <2> QED  BY <2>1, <2>2, <2>3
<1> QED  BY <1>1, <1>2

LEMMA GradingTypeInv ==
  ASSUME TypeInv, NEW g \in Grader, GradeSubmission(g)
  PROVE  TypeInv'
<1> USE DEF WorkerAt, Goes, Ends, Of, gradingFrame, clients, pool, output, folder,
      workspace, killer, Grading
<1>1. Of(g) \in Submission /\ IdOf[Of(g)] \in SubmissionID /\ pc[g] \in Grading
  BY IdOfAssumption
  DEF GradeSubmission, LoadTask, CreateFolders, Mount, MountFails, CopySubmission,
    ExecuteScripts, CopyResult, CopyResultFails, CopyResultNotStarted, FinishCopy,
    Umount, UmountFails, RecreateFolder, TypeInv, Holding, Active
<1> USE DEF TypeInv, TypeOK, ControlType, StatusOfPc, Holding, MountsCount, Mounted, Active,
      GRADE_RESULT
<1>2. CASE LoadTask(g)
  BY <1>1, <1>2 DEF LoadTask, Refusal
<1>3. CASE CreateFolders(g)
  BY <1>1, <1>3 DEF CreateFolders, Folder
<1>4. CASE Mount(g)
  BY <1>1, <1>4 DEF Mount
<1>5. CASE MountFails(g)
  BY <1>1, <1>5 DEF MountFails
<1>6. CASE CopySubmission(g)
  BY <1>1, <1>6 DEF CopySubmission, File
<1>7. CASE ExecuteScripts(g)
  BY <1>1, <1>7 DEF ExecuteScripts, File, Result
<1>8. CASE CopyResult(g)
  BY <1>1, <1>8 DEF CopyResult, File, Result
<1>9. CASE CopyResultFails(g)
  BY <1>1, <1>9 DEF CopyResultFails
<1>10. CASE CopyResultNotStarted(g)
  BY <1>1, <1>10 DEF CopyResultNotStarted
<1>11. CASE FinishCopy(g)
  BY <1>1, <1>11 DEF FinishCopy, File, Result
<1>12. CASE Umount(g)
  BY <1>1, <1>12 DEF Umount
<1>13. CASE UmountFails(g)
  BY <1>1, <1>13 DEF UmountFails
<1>14. CASE RecreateFolder(g)
  BY <1>1, <1>14, Removal DEF RecreateFolder
<1> QED
  BY <1>2, <1>3, <1>4, <1>5, <1>6, <1>7, <1>8, <1>9, <1>10, <1>11, <1>12, <1>13,
     <1>14 DEF GradeSubmission

LEMMA KillerTypeInv == TypeInv /\ Killer => TypeInv'
<1> SUFFICES ASSUME TypeInv, Killer PROVE TypeInv'
  OBVIOUS
<1> USE NumGradersAssumption
    DEF TypeInv, TypeOK, ControlType, StatusOfPc, Holding, MountsCount, Mounted, Active,
      Grading, Removing, killFrame, output, clients, pool, folder, workspace, killer
<1>1. CASE Kill
  BY <1>1 DEF Kill
<1>2. CASE Terminate
  BY <1>2 DEF Terminate
<1>3. CASE RemoveRun
  <2> USE <1>3 DEF RemoveRun
  <2>1. killer_at \in Grader
    BY DEF Grader
  <2>2. folders' \in [Grader -> SUBSET Folder]
    BY <2>1
  <2>3. file' \in [Grader -> File] /\ result' \in [Grader -> Result]
    BY <2>1 DEF File, Result, RemoveSome
  <2> QED  BY <2>2, <2>3
<1>4. CASE RemoveGrader
  <2>1. killer_at \in Grader
    BY <1>4 DEF RemoveGrader, Grader
  <2> QED  BY <1>4, <2>1, Removal DEF RemoveGrader
<1>5. CASE SetTerminated
  BY <1>5 DEF SetTerminated, Grader
<1> QED  BY <1>1, <1>2, <1>3, <1>4, <1>5 DEF Killer

LEMMA RestartTypeInv == TypeInv /\ Restart => TypeInv'
  BY NumGradersAssumption, RestartsAssumption, NoFilesDiffer
  DEF TypeInv, TypeOK, ControlType, StatusOfPc, Holding, MountsCount, Mounted, Active,
    Grading, Removing, Restart, folder, File, Result, GRADE_RESULT

LEMMA NextTypeInv == TypeInv /\ [Next]_vars => TypeInv'
<1> SUFFICES ASSUME TypeInv, [Next]_vars PROVE TypeInv'
  OBVIOUS
<1>1. CASE UNCHANGED vars
  BY <1>1
  DEF TypeInv, TypeOK, ControlType, StatusOfPc, Holding, MountsCount, Mounted, Active,
    vars, clients, output, pool, workers, folder, workspace, killer
<1> QED
  BY <1>1, ClientTypeInv, SchedulerTypeInv, LoopTypeInv, GradingTypeInv, KillerTypeInv,
     RestartTypeInv
  DEF Next, Worker

LEMMA AlwaysTypeInv == Spec => []TypeInv
  BY InitTypeInv, NextTypeInv, PTL DEF Spec

(* Every variable keeps its type, and a submission is collected only after *)
(* it was given out, for any number of graders (grader.cpp:108-119,        *)
(* grade_script.cpp:103-135).                                              *)
THEOREM WorkspaceTypes == Spec => []TypeOK
  BY AlwaysTypeInv, PTL DEF TypeInv

(* Every way out of grade_submission unmounts what it mounted, or counts   *)
(* the overlay among the failed ones, however many graders and restarts    *)
(* there are (grade_script.cpp:103-135).                                   *)
THEOREM OverlaysAreFailures == Spec => []MountsAreFailures
<1>1. TypeInv => MountsAreFailures
  BY DEF TypeInv, MountsCount, Mounted, MountsAreFailures
<1> QED  BY <1>1, AlwaysTypeInv, PTL

-------------------------------------------------------------------------------
(* The handler of SIGINT.  What terminate() saw outlives the look only     *)
(* because nobody hands out work once the handler runs.                    *)

KillerInv ==
  /\ seen \in [Grader -> {"none", "INIT", "IDLE", "NEW", "BUSY", "DONE", "TERMINATED"}]
  /\ killer_pc = "none" => killer_at = 0
  /\ \A g \in Grader : status[g] = "TERMINATED" => g < killer_at
  /\ killer_pc \in {"remove_run", "remove_grader"} =>
       seen[killer_at] = "NEW" \/ status[killer_at] \in {"IDLE", "DONE"}

LEMMA InitKillerInv == Init => KillerInv
  BY DEF Init, KillerInv

LEMMA WorkerKillerInv ==
  ASSUME TypeInv, KillerInv, NEW g \in Grader, Worker(g)
  PROVE  KillerInv'
<1> USE NumGradersAssumption
    DEF KillerInv, killer, TypeInv, TypeOK, ControlType, Removing, Grader
<1>1. CASE InitGrader(g)
  BY <1>1 DEF InitGrader, WorkerAt, StatusOfPc
<1>2. CASE SetBusy(g)
  BY <1>2 DEF SetBusy, WorkerAt, StatusOfPc
<1>3. CASE SetDone(g)
  BY <1>3 DEF SetDone, WorkerAt, StatusOfPc
<1>4. CASE SeeNew(g) \/ Exit(g) \/ GradeSubmission(g)
  <2>1. UNCHANGED <<status, killer>>
    BY <1>4
    DEF SeeNew, Exit, GradeSubmission, LoadTask, CreateFolders, Mount, MountFails,
      CopySubmission, ExecuteScripts, CopyResult, CopyResultFails, CopyResultNotStarted,
      FinishCopy, Umount, UmountFails, RecreateFolder, gradingFrame
  <2> QED  BY <2>1
<1> QED  BY <1>1, <1>2, <1>3, <1>4 DEF Worker

LEMMA NextKillerInv == TypeInv /\ KillerInv /\ [Next]_vars => KillerInv'
<1> SUFFICES ASSUME TypeInv, KillerInv, [Next]_vars PROVE KillerInv'
  OBVIOUS
<1> USE DEF KillerInv
<1>1. ASSUME UNCHANGED vars \/ \E s \in Submission : WriteFile(s) \/ AddSubmission(s)
      PROVE  KillerInv'
  <2>1. UNCHANGED <<status, killer>>
    BY <1>1 DEF vars, workers, WriteFile, AddSubmission
  <2> QED  BY <2>1 DEF killer
<1>2. ASSUME NEW g \in Grader, NEW s \in Submission, Grade(g, s) PROVE KillerInv'
  BY <1>2 DEF Grade, killer, TypeInv, TypeOK, Grader
<1>3. ASSUME NEW g \in Grader, Release(g) PROVE KillerInv'
  BY <1>3 DEF Release, killer, TypeInv, TypeOK, Grader
<1>4. CASE Killer
  <2> USE NumGradersAssumption DEF TypeInv, TypeOK, ControlType, Removing, Grader, killFrame
  <2>1. CASE Kill
    BY <2>1 DEF Kill
  <2>2. CASE Terminate
    BY <2>2 DEF Terminate
  <2>3. CASE RemoveRun
    BY <2>3 DEF RemoveRun
  <2>4. CASE RemoveGrader
    BY <2>4 DEF RemoveGrader
  <2>5. CASE SetTerminated
    BY <2>5 DEF SetTerminated
  <2> QED  BY <1>4, <2>1, <2>2, <2>3, <2>4, <2>5 DEF Killer
<1>5. CASE Restart
  BY <1>5 DEF Restart
<1> QED
  BY <1>1, <1>2, <1>3, <1>4, <1>5, WorkerKillerInv DEF Next

(* The handler removes the folders of a grader under its running scripts   *)
(* only if it looked at the grader between the scheduler's write of NEW    *)
(* and the worker's write of BUSY (grader.cpp:48, 71-79, 108-113).         *)
THEOREM HandlerSparesScripts == Spec => RunningIsSpared
<1>1. Spec => []KillerInv
  BY InitKillerInv, NextKillerInv, AlwaysTypeInv, PTL DEF Spec
<1>2. TypeInv /\ KillerInv => \A g \in Grader :
        killer_pc \in {"remove_run", "remove_grader"} /\ killer_at = g /\ Running(g)
          => seen[g] = "NEW"
  BY DEF TypeInv, StatusOfPc, KillerInv, Running, Mounted
<1> DEFINE Spared ==
      \A g \in Grader :
        (killer_pc \in {"remove_run", "remove_grader"} /\ killer_at = g
           /\ killer_pc' \notin {killer_pc, "none"} /\ Running(g))
        => seen[g] = "NEW"
<1>3. TypeInv /\ KillerInv => [Spared]_vars
  BY <1>2
<1> QED  BY <1>1, <1>3, AlwaysTypeInv, PTL DEF RunningIsSpared

-------------------------------------------------------------------------------
(* Whose file is where, while every umount and every rm after it has       *)
(* worked and the process has not been restarted.                          *)

CopyingAtPc == \A g \in Grader : pc[g] = "copying" <=> copying[g] # Nothing

FiledUnderId ==
  \A id \in SubmissionID : submissions[id] \in Submission => IdOf[submissions[id]] = id

EmptyBetween ==
  \A g \in Grader :
    /\ pc[g] \notin {"execute", "copy_result", "copying", "umount", "remove"}
         => file[g] = Nothing
    /\ pc[g] \notin {"copy_result", "copying", "umount", "remove"} => result[g] = Nothing

OwnId ==
  \A g \in Grader : \A r \in {file[g], result[g], copying[g]} :
    r \in Submission => IdOf[r] = IdOf[Of(g)]

OwnInv ==
  /\ CopyingAtPc /\ FiledUnderId
  /\ ~Unclean => EmptyBetween /\ OwnId
  /\ ForeignResultOnlyIfUnclean

LEMMA UncleanStays ==
  ASSUME TypeInv, [Next]_vars, Unclean
  PROVE  Unclean'
<1> USE DEF Unclean, TypeInv, TypeOK
<1>1. CASE Restart
  BY <1>1 DEF Restart
<1>2. ASSUME NEW g \in Grader, UmountFails(g) PROVE Unclean'
  BY <1>2 DEF UmountFails, gradingFrame
<1>3. CASE UNCHANGED <<failed, uncleared, restarts>>
  BY <1>3
<1>4. ASSUME NEW g \in Grader, RecreateFolder(g) PROVE Unclean'
  BY <1>4 DEF RecreateFolder, gradingFrame
<1>5. CASE Killer
  BY <1>3, <1>5
  DEF Killer, Kill, Terminate, RemoveRun, RemoveGrader, SetTerminated, killFrame, workspace
<1>6. ASSUME NEW s \in Submission, WriteFile(s) \/ AddSubmission(s) PROVE Unclean'
  BY <1>3, <1>6 DEF WriteFile, AddSubmission, workspace
<1>7. ASSUME NEW g \in Grader, Release(g) \/ \E s \in Submission : Grade(g, s)
      PROVE  Unclean'
  BY <1>3, <1>7 DEF Release, Grade, workspace
<1>8. ASSUME NEW g \in Grader, Worker(g) PROVE Unclean'
  <2>1. UmountFails(g) \/ RecreateFolder(g) \/ UNCHANGED <<failed, uncleared, restarts>>
    BY <1>8
    DEF Worker, InitGrader, SeeNew, SetBusy, SetDone, Exit, GradeSubmission, LoadTask,
      CreateFolders, Mount, MountFails, CopySubmission, ExecuteScripts, CopyResult,
      CopyResultFails, CopyResultNotStarted, FinishCopy, Umount, gradingFrame, workspace
  <2> QED  BY <1>2, <1>3, <1>4, <2>1
<1> QED
  BY <1>1, <1>3, <1>5, <1>6, <1>7, <1>8 DEF Next, vars, workspace

LEMMA InitOwnInv == Init => OwnInv
  BY NoFilesDiffer
  DEF Init, OwnInv, CopyingAtPc, FiledUnderId, EmptyBetween, OwnId, Of,
    ForeignResultOnlyIfUnclean

LEMMA ClientOwnInv ==
  ASSUME TypeInv, OwnInv, NEW s \in Submission, WriteFile(s) \/ AddSubmission(s)
  PROVE  OwnInv'
<1> USE IdOfAssumption, NoFilesDiffer
    DEF OwnInv, CopyingAtPc, FiledUnderId, EmptyBetween, OwnId, Of,
      ForeignResultOnlyIfUnclean, Unclean, TypeInv, TypeOK, output, pool, workers, folder,
      workspace
<1>1. CASE WriteFile(s)
  BY <1>1 DEF WriteFile
<1>2. CASE AddSubmission(s)
  BY <1>2 DEF AddSubmission
<1> QED  BY <1>1, <1>2

LEMMA SchedulerOwnInv ==
  ASSUME TypeInv, OwnInv, NEW g \in Grader,
         Release(g) \/ \E s \in Submission : Grade(g, s)
  PROVE  OwnInv'
<1> USE NoFilesDiffer
    DEF OwnInv, CopyingAtPc, FiledUnderId, EmptyBetween, OwnId, Of, StatusOfPc,
      ForeignResultOnlyIfUnclean, Unclean, TypeInv, TypeOK, clients, output, folder,
      workspace
<1>1. CASE Release(g)
  BY <1>1 DEF Release
<1>2. ASSUME NEW s \in Submission, Grade(g, s) PROVE OwnInv'
  BY <1>2 DEF Grade
<1> QED  BY <1>1, <1>2

LEMMA WorkerOwnInv ==
  ASSUME TypeInv, OwnInv, NEW g \in Grader, Worker(g)
  PROVE  OwnInv'
<1> USE NoFilesDiffer
    DEF OwnInv, CopyingAtPc, FiledUnderId, EmptyBetween, OwnId, Of,
      ForeignResultOnlyIfUnclean, Unclean, TypeInv, TypeOK, ControlType, WorkerAt, Goes,
      clients, output, folder, workspace, gradingFrame
<1>1. CASE InitGrader(g) \/ SeeNew(g) \/ SetBusy(g) \/ SetDone(g) \/ Exit(g)
  BY <1>1 DEF InitGrader, SeeNew, SetBusy, SetDone, Exit
<1>2. CASE LoadTask(g) \/ CreateFolders(g) \/ Mount(g) \/ MountFails(g) \/ Umount(g)
  BY <1>2 DEF LoadTask, CreateFolders, Mount, MountFails, Umount
<1>3. CASE CopySubmission(g)
  BY <1>3, IdOfAssumption, SMTT(20) DEF CopySubmission, Holding, Active, Grading
<1>4. CASE ExecuteScripts(g)
  BY <1>4 DEF ExecuteScripts
<1>5. CASE CopyResult(g)
  BY <1>5 DEF CopyResult
<1>6. CASE CopyResultFails(g) \/ CopyResultNotStarted(g)
  BY <1>6 DEF CopyResultFails, CopyResultNotStarted
<1>7. CASE FinishCopy(g)
  BY <1>7 DEF FinishCopy
<1>8. CASE UmountFails(g)
  BY <1>8 DEF UmountFails
<1>9. CASE RecreateFolder(g)
  <2>1. CASE RemoveFolder(g, {"grader"})
    BY <1>9, <2>1 DEF RecreateFolder, RemoveFolder
  <2>2. CASE uncleared' = uncleared \cup {g}
    BY <1>9, <2>2 DEF RecreateFolder
  <2> QED  BY <1>9, <2>1, <2>2 DEF RecreateFolder
<1> QED
  BY <1>1, <1>2, <1>3, <1>4, <1>5, <1>6, <1>7, <1>8, <1>9 DEF Worker, GradeSubmission

LEMMA KillerOwnInv == TypeInv /\ OwnInv /\ Killer => OwnInv'
<1> SUFFICES ASSUME TypeInv, OwnInv, Killer PROVE OwnInv'
  OBVIOUS
<1> USE NoFilesDiffer
    DEF OwnInv, CopyingAtPc, FiledUnderId, EmptyBetween, OwnId, Of,
      ForeignResultOnlyIfUnclean, Unclean, TypeInv, TypeOK, killFrame, clients, output,
      folder, workspace
<1>1. CASE Kill \/ Terminate \/ SetTerminated
  BY <1>1 DEF Kill, Terminate, SetTerminated
<1>2. CASE RemoveRun
  BY <1>2 DEF RemoveRun, RemoveSome
<1>3. CASE RemoveGrader
  <2>1. killer_at \in Grader
    BY <1>3, NumGradersAssumption DEF RemoveGrader, ControlType, Removing, Grader
  <2> QED  BY <1>3, <2>1, Removal DEF RemoveGrader
<1> QED  BY <1>1, <1>2, <1>3 DEF Killer

LEMMA NextOwnInv == TypeInv /\ OwnInv /\ [Next]_vars => OwnInv'
<1> SUFFICES ASSUME TypeInv, OwnInv, [Next]_vars PROVE OwnInv'
  OBVIOUS
<1>1. CASE Restart
  BY <1>1
  DEF OwnInv, CopyingAtPc, FiledUnderId, ForeignResultOnlyIfUnclean, Unclean, Restart,
    TypeInv, TypeOK
<1>2. CASE UNCHANGED vars
  BY <1>2
  DEF OwnInv, CopyingAtPc, FiledUnderId, EmptyBetween, OwnId, Of, vars, clients, output,
    workers, folder, workspace, ForeignResultOnlyIfUnclean, Unclean
<1> QED
  BY <1>1, <1>2, ClientOwnInv, SchedulerOwnInv, WorkerOwnInv, KillerOwnInv DEF Next

LEMMA AlwaysOwnInv == Spec => []OwnInv
  BY InitOwnInv, NextOwnInv, AlwaysTypeInv, PTL DEF Spec

(* As long as every umount and every rm of a workspace has worked no       *)
(* client reads the result of a file that was uploaded under another id,   *)
(* whatever the graders do at the same time (grade_script.cpp:28-101,      *)
(* file.cpp:66-73, grader.cpp:59-63).                                      *)
THEOREM ResultsAreOwn == Spec => []ForeignResultOnlyIfUnclean
  BY AlwaysOwnInv, PTL DEF OwnInv

-------------------------------------------------------------------------------
(* A grading that returns OK has written a result, unless cp never ran.    *)

ResultWritten ==
  \A g \in Grader :
    (pc[g] \in {"copying", "umount", "remove", "return"} \/ status[g] = "DONE")
      => outcome[Of(g)] # "OK" \/ Of(g) \in dropped \/ results[IdOf[Of(g)]] # Nothing

ResultInv == ResultWritten /\ NoResultOnlyAfterFailure

LEMMA NextResultInv == TypeInv /\ OwnInv /\ ResultInv /\ [Next]_vars => ResultInv'
<1> SUFFICES ASSUME TypeInv, OwnInv, ResultInv, [Next]_vars PROVE ResultInv'
  OBVIOUS
<1> USE IdOfAssumption, NoFilesDiffer
    DEF ResultInv, ResultWritten, NoResultOnlyAfterFailure, Of
<1>1. CASE UNCHANGED vars
  BY <1>1 DEF vars, output, pool, workers
<1>2. ASSUME NEW s \in Submission, WriteFile(s) \/ AddSubmission(s) PROVE ResultInv'
  <2>1. UNCHANGED <<output, graded, workers>>
    BY <1>2 DEF WriteFile, AddSubmission, pool
  <2> QED  BY <2>1 DEF output, workers
<1>3. ASSUME NEW g \in Grader, Release(g) PROVE ResultInv'
  BY <1>3 DEF Release, output, TypeInv, TypeOK, Holding, Active, StatusOfPc
<1>4. ASSUME NEW g \in Grader, NEW s \in Submission, Grade(g, s) PROVE ResultInv'
  BY <1>4 DEF Grade, output, TypeInv, TypeOK, StatusOfPc
<1>5. CASE Killer
  <2>1. UNCHANGED <<output, graded, submission, pc>>
    BY <1>5 DEF Killer, Kill, Terminate, RemoveRun, RemoveGrader, SetTerminated, killFrame, pool
  <2>2. \A g \in Grader : status'[g] = "DONE" => status[g] = "DONE"
    BY <1>5
    DEF Killer, Kill, Terminate, RemoveRun, RemoveGrader, SetTerminated, TypeInv, TypeOK,
      killFrame
  <2> QED  BY <2>1, <2>2 DEF output
<1>6. CASE Restart
  BY <1>6 DEF Restart
<1>7. ASSUME NEW g \in Grader, Worker(g) PROVE ResultInv'
  <2> USE DEF TypeInv, TypeOK, ControlType, WorkerAt, Goes, Ends, clients, output, pool,
        workspace, gradingFrame
  <2>1. CASE InitGrader(g) \/ SeeNew(g) \/ SetBusy(g) \/ SetDone(g) \/ Exit(g)
    BY <1>7, <2>1 DEF InitGrader, SeeNew, SetBusy, SetDone, Exit
  <2>2. CASE CreateFolders(g) \/ Mount(g) \/ CopySubmission(g) \/ ExecuteScripts(g)
             \/ Umount(g) \/ RecreateFolder(g)
    BY <1>7, <2>2, <2>1
    DEF CreateFolders, Mount, CopySubmission, ExecuteScripts, Umount, RecreateFolder, StatusOfPc
  <2> USE DEF Holding, Active, Grading, StatusOfPc
  <2>3. CASE LoadTask(g)
    BY <2>3 DEF LoadTask
  <2>4. CASE MountFails(g) \/ CopyResultFails(g) \/ UmountFails(g)
    BY <2>4 DEF MountFails, CopyResultFails, UmountFails
  <2>5. CASE CopyResult(g)
    BY <2>5 DEF CopyResult
  <2>6. CASE CopyResultNotStarted(g)
    BY <2>6 DEF CopyResultNotStarted
  <2>7. CASE FinishCopy(g)
    BY <2>7 DEF FinishCopy, OwnInv, CopyingAtPc
  <2> QED
    BY <1>7, <2>1, <2>2, <2>3, <2>4, <2>5, <2>6, <2>7 DEF Worker, GradeSubmission
<1> QED
  BY <1>1, <1>2, <1>3, <1>4, <1>5, <1>6, <1>7 DEF Next

(* When a client of a GRADED id finds no result file, every grading of the *)
(* id has failed or could not start its cp (grade_script.cpp:46-56,        *)
(* 103-135; router.cpp:138-144).                                           *)
THEOREM MissingResultIsFailure == Spec => []NoResultOnlyAfterFailure
<1>1. Init => ResultInv
  BY DEF Init, ResultInv, ResultWritten, NoResultOnlyAfterFailure
<1>2. Spec => []ResultInv
  BY <1>1, NextResultInv, AlwaysTypeInv, AlwaysOwnInv, PTL DEF Spec
<1> QED  BY <1>2, PTL DEF ResultInv

-------------------------------------------------------------------------------
(* A submission whose id nobody else has used finds whole files all the    *)
(* way: its own upload, the copy in the workspace, the result.             *)

Alone(s) ==
  \A t \in uploaded \cup {uploading} : t # Nothing /\ IdOf[t] = IdOf[s] => t = s

WholeResult(s) == results[IdOf[s]] # Torn

WholeIn(g) ==
  /\ Of(g) \in cut \/ Torn \notin {file[g], result[g], copying[g]}
  /\ pc[g] \in {"new", "load", "create", "mount", "copy_submission", "execute",
                "copy_result"} \/ status[g] = "NEW"
       => WholeResult(Of(g))
  /\ (pc[g] \in {"umount", "remove", "return"} \/ status[g] = "DONE")
        /\ outcome[Of(g)] = "OK"
       => WholeResult(Of(g)) \/ Of(g) \in cut

Whole(s) ==
  /\ s \in uploaded => submissions[IdOf[s]] = s
  /\ s \notin taken => WholeResult(s)
  /\ s \in graded /\ outcome[s] = "OK" => WholeResult(s) \/ s \in cut
  /\ \A g \in Grader : Of(g) = s => WholeIn(g)

WholeInv == ~Unclean => \A s \in Submission : Alone(s) => Whole(s)

LEMMA AloneHolder ==
  ASSUME TypeInv, NEW s \in Submission, Alone(s), NEW g \in Grader, Of(g) \in Submission,
         IdOf[Of(g)] = IdOf[s]
  PROVE  Of(g) = s
  BY NoFilesDiffer DEF TypeInv, TypeOK, Holding, Alone, Of

LEMMA ClientWhole ==
  ASSUME TypeInv, NEW s \in Submission, Alone(s)', Alone(s) => Whole(s),
         NEW r \in Submission, WriteFile(r) \/ AddSubmission(r)
  PROVE  Whole(s)'
<1> USE IdOfAssumption, NoFilesDiffer
    DEF TypeInv, TypeOK, Alone, Whole, WholeIn, WholeResult, Of, output, workers, folder,
      workspace, pool
<1>1. CASE WriteFile(r)
  BY <1>1 DEF WriteFile
<1>2. CASE AddSubmission(r)
  BY <1>2 DEF AddSubmission
<1> QED  BY <1>1, <1>2

LEMMA SchedulerWhole ==
  ASSUME TypeInv, OwnInv, ~Unclean, NEW s \in Submission, Alone(s), Whole(s), NEW g \in Grader,
         Release(g) \/ \E r \in Submission : Grade(g, r)
  PROVE  Whole(s)'
<1> USE NoFilesDiffer
    DEF TypeInv, TypeOK, Whole, WholeIn, WholeResult, Of, output, clients, folder, workspace
<1>1. CASE Release(g)
  BY <1>1 DEF Release
<1>2. ASSUME NEW r \in Submission, Grade(g, r) PROVE Whole(s)'
  <2> USE <1>2 DEF Grade
  <2>1. pc[g] = "loop" /\ file[g] = Nothing /\ result[g] = Nothing /\ copying[g] = Nothing
    BY DEF StatusOfPc, OwnInv, EmptyBetween, CopyingAtPc
  <2>2. ASSUME NEW h \in Grader, Of(h)' = s PROVE WholeIn(h)'
    <3>1. CASE h = g
      BY <2>1, <2>2, <3>1
    <3>2. CASE h # g
      BY <2>2, <3>2
    <3> QED  BY <3>1, <3>2
  <2> QED  BY <2>2
<1> QED  BY <1>1, <1>2

LEMMA WorkerWhole ==
  ASSUME TypeInv, OwnInv, ~Unclean', NEW s \in Submission, Alone(s), Whole(s),
         NEW g \in Grader, Worker(g)
  PROVE  Whole(s)'
<1> USE IdOfAssumption, NoFilesDiffer
    DEF TypeInv, TypeOK, ControlType, Whole, WholeIn, WholeResult, Of, WorkerAt, Goes, Ends,
      clients, output, folder, workspace, pool, gradingFrame
<1>1. CASE InitGrader(g) \/ SeeNew(g) \/ SetBusy(g) \/ SetDone(g) \/ Exit(g)
  BY <1>1 DEF InitGrader, SeeNew, SetBusy, SetDone, Exit
<1> USE DEF Holding, Active, Grading, StatusOfPc
<1>2. CASE CreateFolders(g) \/ Mount(g) \/ Umount(g)
  BY <1>2 DEF CreateFolders, Mount, Umount
<1>3. CASE RecreateFolder(g)
  BY <1>3, Removal DEF RecreateFolder
<1>4. CASE LoadTask(g) \/ MountFails(g)
  BY <1>4 DEF LoadTask, MountFails
<1>5. CASE CopySubmission(g)
  BY <1>5 DEF CopySubmission
<1>6. CASE ExecuteScripts(g)
  BY <1>6 DEF ExecuteScripts
<1>7. CASE CopyResultFails(g) \/ CopyResultNotStarted(g)
  BY <1>7 DEF CopyResultFails, CopyResultNotStarted
<1>8. CASE CopyResult(g)
  <2> USE <1>8 DEF CopyResult
  <2>1. Of(g) \in Submission \ graded /\ Of(g) \in taken
    OBVIOUS
  <2>2. CASE IdOf[Of(g)] # IdOf[s]
    BY <2>1, <2>2, AloneHolder
  <2>3. CASE IdOf[Of(g)] = IdOf[s]
    <3>1. Of(g) = s
      BY <2>1, <2>3, AloneHolder
    <3>2. ASSUME NEW h \in Grader, copying[h] # Nothing, IdOf[Of(h)] = IdOf[Of(g)]
          PROVE  FALSE
      <4>1. pc[h] = "copying" /\ Of(h) \in Submission
        BY <3>2 DEF OwnInv, CopyingAtPc
      <4>2. Of(h) = s
        BY <3>1, <3>2, <4>1, AloneHolder
      <4> QED  BY <3>1, <4>1, <4>2
    <3>3. copying' = [h \in Grader |-> IF h = g THEN result[g] ELSE copying[h]]
      BY <3>2
    <3> QED  BY <2>1, <3>1, <3>3
  <2> QED  BY <2>2, <2>3
<1>9. CASE FinishCopy(g)
  <2> USE <1>9 DEF FinishCopy
  <2>1. Of(g) \in Submission \ graded /\ Of(g) \in taken
    OBVIOUS
  <2>2. CASE IdOf[Of(g)] # IdOf[s]
    BY <2>1, <2>2
  <2>3. CASE IdOf[Of(g)] = IdOf[s]
    BY <2>1, <2>3, AloneHolder
  <2> QED  BY <2>2, <2>3
<1>10. CASE UmountFails(g)
  BY <1>10 DEF UmountFails, Unclean
<1> QED
  BY <1>1, <1>2, <1>3, <1>4, <1>5, <1>6, <1>7, <1>8, <1>9, <1>10 DEF Worker, GradeSubmission

LEMMA KillerWhole ==
  ASSUME TypeInv, NEW s \in Submission, Whole(s), Killer
  PROVE  Whole(s)'
<1> USE NoFilesDiffer
    DEF TypeInv, TypeOK, Whole, WholeIn, WholeResult, Of, killFrame, clients, output, pool,
      folder, workspace
<1>1. CASE Kill \/ Terminate \/ SetTerminated
  BY <1>1 DEF Kill, Terminate, SetTerminated
<1>2. CASE RemoveRun
  BY <1>2 DEF RemoveRun, RemoveSome
<1>3. CASE RemoveGrader
  <2>1. killer_at \in Grader
    BY <1>3, NumGradersAssumption DEF RemoveGrader, ControlType, Removing, Grader
  <2> QED  BY <1>3, <2>1, Removal DEF RemoveGrader
<1> QED  BY <1>1, <1>2, <1>3 DEF Killer

LEMMA AloneStays ==
  ASSUME TypeInv, [Next]_vars, ~Unclean', NEW s \in Submission, Alone(s)'
  PROVE  Alone(s)
<1>1. ~Restart
  BY DEF Restart, Unclean, TypeInv, TypeOK
<1>2. CASE UNCHANGED <<uploaded, uploading>>
  BY <1>2 DEF Alone
<1>3. ASSUME NEW r \in Submission, WriteFile(r) \/ AddSubmission(r) PROVE Alone(s)
  BY <1>3, NoFilesDiffer DEF WriteFile, AddSubmission, Alone
<1>4. ASSUME NEW g \in Grader, Release(g) \/ Worker(g) \/ \E r \in Submission : Grade(g, r)
      PROVE  UNCHANGED clients
  BY <1>4
  DEF Release, Grade, Worker, InitGrader, SeeNew, SetBusy, SetDone, Exit, GradeSubmission,
    LoadTask, CreateFolders, Mount, MountFails, CopySubmission, ExecuteScripts, CopyResult,
    CopyResultFails, CopyResultNotStarted, FinishCopy, Umount, UmountFails, RecreateFolder,
    gradingFrame
<1>5. Killer => UNCHANGED clients
  BY DEF Killer, Kill, Terminate, RemoveRun, RemoveGrader, SetTerminated, killFrame
<1> QED
  BY <1>1, <1>2, <1>3, <1>4, <1>5 DEF Next, vars, clients

LEMMA NextWholeInv == TypeInv /\ OwnInv /\ WholeInv /\ [Next]_vars => WholeInv'
<1> SUFFICES ASSUME TypeInv, OwnInv, WholeInv, [Next]_vars, ~Unclean',
                    NEW s \in Submission, Alone(s)'
             PROVE  Whole(s)'
  BY DEF WholeInv
<1>1. ~Unclean /\ Alone(s) /\ Whole(s)
  BY UncleanStays, AloneStays DEF WholeInv
<1>2. ~Restart
  BY DEF Restart, Unclean, TypeInv, TypeOK
<1>3. CASE UNCHANGED vars
  BY <1>1, <1>3
  DEF vars, Whole, WholeIn, WholeResult, Of, clients, output, pool, workers, folder, workspace
<1> QED
  BY <1>1, <1>2, <1>3, ClientWhole, SchedulerWhole, WorkerWhole, KillerWhole DEF Next

(* The result file of a GRADED id that was uploaded once, copied and       *)
(* graded without an error and in clean workspaces is whole, however many  *)
(* clients upload and graders copy at the same time (grade_script.cpp:38-  *)
(* 49, grader.cpp:113-115, router.cpp:104-106).                            *)
THEOREM GradedResultsAreWhole == Spec => []GradedIsWhole
<1>1. Init => WholeInv
  BY NoFilesDiffer, IdOfAssumption DEF Init, WholeInv, Whole, WholeIn, WholeResult, Of
<1>2. Spec => []WholeInv
  BY <1>1, NextWholeInv, AlwaysTypeInv, AlwaysOwnInv, PTL DEF Spec
<1>3. TypeInv /\ WholeInv => GradedIsWhole
  BY DEF TypeInv, TypeOK, WholeInv, Alone, Whole, WholeResult, GradedIsWhole
<1> QED  BY <1>2, <1>3, AlwaysTypeInv, PTL

-------------------------------------------------------------------------------
(* What EveryGradingIsDone rests on, without fairness.                     *)

(* The steps a worker has before it, at the most, until DONE.              *)
StepsLeft ==
  [loop |-> 12, new |-> 11, load |-> 10, create |-> 9, mount |-> 8, copy_submission |-> 7,
   execute |-> 6, copy_result |-> 5, copying |-> 4, umount |-> 3, remove |-> 2, return |-> 1]

Underway(g) == killer_pc = "none" /\ status[g] \in {"NEW", "BUSY"}

(* A grading stands before one of its steps, none of which waits for       *)
(* anybody, with a submission to grade.                                    *)
NeverStuck ==
  \A g \in Grader :
    Underway(g) => pc[g] \in DOMAIN StepsLeft /\ (pc[g] = "loop" => status[g] = "NEW")
                   /\ submission[g] \in Submission

(* Each step of its worker, whatever fails in it, brings it nearer to      *)
(* DONE; nobody else moves it, but for a restart.                          *)
GoesDown ==
  \A g \in Grader : Underway(g) =>
    \/ Underway(g)' /\ StepsLeft[pc[g]]' < StepsLeft[pc[g]]
    \/ status'[g] = "DONE"
    \/ ~Worker(g) /\ (status'[g] = "INIT" \/ UNCHANGED <<pc[g], status[g]>>)

LEMMA UnderwayIsPlaced == TypeInv => NeverStuck
  BY DEF TypeInv, StatusOfPc, Holding, Active, NeverStuck, Underway, StepsLeft, Grading

LEMMA WorkerGoesDown ==
  ASSUME TypeInv, NEW g \in Grader, Underway(g), Worker(g)
  PROVE  (Underway(g)' /\ StepsLeft[pc[g]]' < StepsLeft[pc[g]]) \/ status'[g] = "DONE"
<1> USE DEF TypeInv, TypeOK, ControlType, StatusOfPc, Underway, WorkerAt, Goes, gradingFrame, killer
<1>1. CASE InitGrader(g) \/ Exit(g)
  BY <1>1 DEF InitGrader, Exit
<1>2. CASE SeeNew(g)
  BY <1>2 DEF SeeNew, StepsLeft
<1>3. CASE SetBusy(g)
  BY <1>3 DEF SetBusy, StepsLeft
<1>4. CASE SetDone(g)
  BY <1>4 DEF SetDone
<1>5. CASE GradeSubmission(g)
  <2>1. UNCHANGED <<status, killer_pc>>
    BY <1>5
    DEF GradeSubmission, LoadTask, CreateFolders, Mount, MountFails, CopySubmission,
      ExecuteScripts, CopyResult, CopyResultFails, CopyResultNotStarted, FinishCopy, Umount,
      UmountFails, RecreateFolder
  <2>2. \/ pc[g] = "load" /\ pc'[g] \in {"create", "return"}
        \/ pc[g] = "create" /\ pc'[g] = "mount"
        \/ pc[g] = "mount" /\ pc'[g] \in {"copy_submission", "return"}
        \/ pc[g] = "copy_submission" /\ pc'[g] = "execute"
        \/ pc[g] = "execute" /\ pc'[g] = "copy_result"
        \/ pc[g] = "copy_result" /\ pc'[g] \in {"copying", "umount"}
        \/ pc[g] = "copying" /\ pc'[g] = "umount"
        \/ pc[g] = "umount" /\ pc'[g] \in {"remove", "return"}
        \/ pc[g] = "remove" /\ pc'[g] = "return"
    BY <1>5
    DEF GradeSubmission, LoadTask, CreateFolders, Mount, MountFails, CopySubmission,
      ExecuteScripts, CopyResult, CopyResultFails, CopyResultNotStarted, FinishCopy, Umount,
      UmountFails, RecreateFolder
  <2> QED  BY <2>1, <2>2 DEF StepsLeft
<1> QED  BY <1>1, <1>2, <1>3, <1>4, <1>5 DEF Worker

LEMMA OthersStandBy ==
  ASSUME TypeInv, NEW g \in Grader, Underway(g), Next, ~Worker(g)
  PROVE  status'[g] = "INIT" \/ UNCHANGED <<pc[g], status[g]>>
<1> USE DEF TypeInv, TypeOK, ControlType, Underway, workers
<1>1. CASE \E s \in Submission : WriteFile(s) \/ AddSubmission(s)
  BY <1>1 DEF WriteFile, AddSubmission
<1>2. ASSUME NEW h \in Grader, Release(h) \/ \E s \in Submission : Grade(h, s)
      PROVE  UNCHANGED <<pc[g], status[g]>>
  BY <1>2 DEF Release, Grade
<1>3. ASSUME NEW h \in Grader \ {g}, Worker(h)
      PROVE  UNCHANGED <<pc[g], status[g]>>
  BY <1>3
  DEF Worker, InitGrader, SeeNew, SetBusy, SetDone, Exit, Goes, gradingFrame,
    GradeSubmission, LoadTask, CreateFolders, Mount, MountFails, CopySubmission,
    ExecuteScripts, CopyResult, CopyResultFails, CopyResultNotStarted, FinishCopy, Umount,
    UmountFails, RecreateFolder
<1>4. CASE Killer
  BY <1>4 DEF Killer, Kill, Terminate, RemoveRun, RemoveGrader, SetTerminated, killFrame, Removing
<1>5. CASE Restart
  BY <1>5 DEF Restart
<1> QED  BY <1>1, <1>2, <1>3, <1>4, <1>5 DEF Next

(* Whatever fails in a grading, each of its at most twelve steps leads     *)
(* towards DONE, no other thread holds it up, and none sets it back        *)
(* (grade_script.cpp:28-135, grader.cpp:108-119).                          *)
THEOREM NothingStopsAGrading == Spec => []NeverStuck /\ [][GoesDown]_vars
<1>1. TypeInv /\ [Next]_vars => [GoesDown]_vars
  <2> SUFFICES ASSUME TypeInv, Next, NEW g \in Grader, Underway(g)
               PROVE  \/ Underway(g)' /\ StepsLeft[pc[g]]' < StepsLeft[pc[g]]
                      \/ status'[g] = "DONE"
                      \/ ~Worker(g) /\ (status'[g] = "INIT" \/ UNCHANGED <<pc[g], status[g]>>)
    BY DEF GoesDown
  <2> QED  BY WorkerGoesDown, OthersStandBy
<1> QED  BY <1>1, UnderwayIsPlaced, AlwaysTypeInv, PTL DEF Spec
===============================================================================
