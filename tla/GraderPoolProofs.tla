--------------------------- MODULE GraderPoolProofs ---------------------------
(***************************************************************************)
(* Theorems of GraderPool for any number of graders, any submissions and   *)
(* either program, and their proofs.                                       *)
(***************************************************************************)
EXTENDS GraderPoolProperties, SequenceTheorems, TLAPS

-------------------------------------------------------------------------------
(* The pools.                                                              *)

LEMMA EmptyPoolType == EmptyPool \in Pool
  BY DEF EmptyPool, Pool, Pointer

LEMMA PushType ==
  ASSUME NEW pool \in Pool, NEW s \in Submission
  PROVE  Push(pool, s) \in Pool /\ Push(pool, s).order = Append(pool.order, s)
<1>1. pool.order \in Seq(Submission)
  BY DEF Pool
<1>2. Append(pool.order, s) \in Seq(Submission)
  BY <1>1, AppendProperties
<1> QED  BY <1>2 DEF Push, Pool

LEMMA InsertType ==
  ASSUME NEW pool \in Pool, NEW s \in Submission
  PROVE  Insert(pool, s) \in Pool /\ Insert(pool, s).order = pool.order
  BY IdOfAssumption DEF Insert, Pool, Pointer

LEMMA AddType ==
  ASSUME NEW pool \in Pool, NEW s \in Submission
  PROVE  Add(pool, s) \in Pool /\ Add(pool, s).order = Append(pool.order, s)
  BY PushType, InsertType DEF Add

LEMMA RemoveType ==
  ASSUME NEW pool \in Pool, NEW id \in SubmissionID
  PROVE  Remove(pool, id) \in Pool /\ Remove(pool, id).order = pool.order
  BY DEF Remove, Pool, Pointer

LEMMA PopType ==
  ASSUME NEW pool \in Pool, Size(pool) > 0
  PROVE  /\ Pop(pool) \in Pool /\ Pop(pool).order = Tail(pool.order)
         /\ Front(pool) \in Submission /\ Front(pool) = Head(pool.order)
         /\ pool.order # <<>>
<1>1. pool.order \in Seq(Submission) /\ Len(pool.order) > 0
  BY DEF Pool, Size
<1>2. /\ pool.order # <<>>
      /\ Head(pool.order) \in Submission
      /\ Tail(pool.order) \in Seq(Submission)
  BY <1>1
<1> QED  BY <1>1, <1>2 DEF Pop, Front, Pool

-------------------------------------------------------------------------------
(* Types.  TypeOK is not inductive: what a pool receives is a submission   *)
(* only because a program counter says that a pointer is not null.         *)

AtGrader ==
  {"collect", "ungrade", "release", "release_write", "idle", "get_first",
   "get_first_test", "start_grading", "unqueue", "hand_over",
   "hand_over_write", "hand_over_new"}

Holding ==
  {"get_first_test", "start_grading", "unqueue", "hand_over",
   "hand_over_write", "hand_over_new"}

Collecting == {"collect", "ungrade", "release", "release_write"}

LoopVariables ==
  /\ main_pc = "emplace" => graders < NumGraders
  /\ main_pc \in AtGrader => main_at < graders
  /\ killer_pc = "set_terminated" => killer_at < graders

NotNull ==
  /\ main_pc \in Holding => main_sub # NoSubmission
  /\ main_pc = "hand_over_new" => grader_submission[main_at] = main_sub
  /\ main_pc \in Collecting => grader_submission[main_at] # NoSubmission
  /\ rest_pc \in {"push", "insert"} => rest_sub # NoSubmission
  /\ rest_pc \in {"ask_graded", "ask_grading", "ask_waiting"} => rest_id \in SubmissionID
  /\ \A g \in Grader :
       (worker_pc[g] \in {"new", "grading"} \/ grader_status[g] \in {"NEW", "BUSY", "DONE"})
         => grader_submission[g] # NoSubmission

TypeInv == TypeOK /\ LoopVariables /\ NotNull

LEMMA InitTypeInv == Init => TypeInv
  BY NumGradersAssumption, EmptyPoolType
  DEF Init, TypeInv, TypeOK, LoopVariables, NotNull, AtGrader, Holding, Collecting,
      GRADER_POOL_STATUS, GRADER_STATUS, SUBMISSION_STATUS, Pointer, Grader

LEMMA ShownType ==
  ASSUME shown \subseteq SUBMISSION_STATUS, NEW waiting, NEW grading, NEW graded,
         Show(waiting, grading, graded)
  PROVE  shown' \subseteq SUBMISSION_STATUS
  BY DEF Show, StatusOf, SUBMISSION_STATUS

LEMMA MainTypeInv == TypeInv /\ Main => TypeInv'
<1> SUFFICES ASSUME TypeInv, Main PROVE TypeInv'
  OBVIOUS
<1> USE DEF TypeInv, TypeOK, LoopVariables, NotNull, Pointer, Grader, AtGrader,
      Holding, Collecting
<1>1. CASE CreateThread
  BY <1>1, NumGradersAssumption
  DEF CreateThread, MainAt, MainRuns, pools, graderVars, restVars, killerVars
<1>2. CASE EmplaceGrader
  BY <1>2, NumGradersAssumption
  DEF EmplaceGrader, MainAt, MainRuns, pools, graderVars, restVars, killerVars
<1>3. CASE SetRunning
  BY <1>3, NumGradersAssumption
  DEF SetRunning, MainAt, MainRuns, pools, graderVars, restVars, killerVars, GRADER_POOL_STATUS
<1>4. CASE TestPoolStatus
  BY <1>4, NumGradersAssumption
  DEF TestPoolStatus, MainAt, MainRuns, schedulerFrame, pools, graderVars, restVars, killerVars
<1>5. CASE TestTerminated
  BY <1>5, NumGradersAssumption
  DEF TestTerminated, MainAt, MainRuns, schedulerFrame, pools, graderVars, restVars, killerVars
<1>6. CASE ReturnFromStart
  BY <1>6
  DEF ReturnFromStart, MainAt, MainRuns, pools, graderVars, restVars, killerVars
<1>7. CASE ScanGrader
  BY <1>7, NumGradersAssumption
  DEF ScanGrader, MainAt, MainRuns, schedulerFrame, pools, graderVars, restVars, killerVars
<1>8. CASE EndScan
  BY <1>8, NumGradersAssumption
  DEF EndScan, MainAt, MainRuns, schedulerFrame, pools, graderVars, restVars, killerVars
<1>9. CASE Collect
  <2>1. grader_submission[main_at] \in Submission
    BY <1>9, NumGradersAssumption DEF Collect, MainAt
  <2>2. graded_pool' \in Pool /\ shown' \subseteq SUBMISSION_STATUS
    BY <1>9, <2>1, AddType, ShownType DEF Collect
  <2> QED  BY <1>9, <2>2
  DEF Collect, MainAt, MainRuns, schedulerFrame, pools, graderVars, restVars, killerVars
<1>10. CASE Ungrade
  <2>1. grader_submission[main_at] \in Submission
    BY <1>10, NumGradersAssumption DEF Ungrade, MainAt
  <2>2. grading_pool' \in Pool /\ shown' \subseteq SUBMISSION_STATUS
    BY <1>10, <2>1, RemoveType, IdOfAssumption, ShownType DEF Ungrade
  <2> QED  BY <1>10, <2>2
  DEF Ungrade, MainAt, MainRuns, schedulerFrame, pools, graderVars, restVars, killerVars
<1>11. CASE Release
  BY <1>11
  DEF Release, MainAt, MainRuns, schedulerFrame, pools, graderVars, restVars, killerVars
<1>12. CASE ReleaseWrite
  BY <1>12, ZenonT(40)
  DEF ReleaseWrite, MainAt, MainRuns, schedulerFrame, pools, restVars, killerVars, GRADER_STATUS
<1>13. CASE TestIdle
  BY <1>13, NumGradersAssumption
  DEF TestIdle, NextGrader, MainAt, MainRuns, schedulerFrame, pools, graderVars, restVars, killerVars
<1>14. CASE GetFirstPop
  BY <1>14, PopType, NoSubmissionAssumption
  DEF GetFirstPop, MainAt, MainRuns, schedulerFrame, graderVars, restVars, killerVars
<1>15. CASE GetFirstTest
  BY <1>15
  DEF GetFirstTest, MainAt, MainRuns, schedulerFrame, pools, graderVars, restVars, killerVars
<1>16. CASE GetFirstEmpty
  BY <1>16
  DEF GetFirstEmpty, MainAt, MainRuns, pools, mainVars, graderVars, restVars, killerVars
<1>17. CASE StartGrading
  BY <1>17, AddType, ShownType
  DEF StartGrading, MainAt, MainRuns, schedulerFrame, graderVars, restVars, killerVars
<1>18. CASE Unqueue
  BY <1>18, RemoveType, IdOfAssumption, ShownType
  DEF Unqueue, MainAt, MainRuns, schedulerFrame, graderVars, restVars, killerVars
<1>19. CASE HandOver
  BY <1>19, NumGradersAssumption
  DEF HandOver, NextGrader, MainAt, MainRuns, schedulerFrame, pools, graderVars, restVars, killerVars
<1>20. CASE HandOverPointer
  <2> USE <1>20 DEF HandOverPointer, MainAt, schedulerFrame, pools, restVars, killerVars
  <2>1. main_at \in Grader /\ main_sub \in Submission
    BY NumGradersAssumption
  <2>2. TypeOK'
    BY <2>1
  <2>3. LoopVariables'
    OBVIOUS
  <2>4. NotNull'
    BY <2>1, NoSubmissionAssumption
  <2> QED  BY <2>2, <2>3, <2>4
<1>21. CASE HandOverNew
  BY <1>21, NumGradersAssumption
  DEF HandOverNew, NextGrader, MainAt, MainRuns, schedulerFrame, pools, restVars, killerVars, GRADER_STATUS
<1> QED
  BY <1>1, <1>2, <1>3, <1>4, <1>5, <1>6, <1>7, <1>8, <1>9, <1>10, <1>11, <1>12,
     <1>13, <1>14, <1>15, <1>16, <1>17, <1>18, <1>19, <1>20, <1>21 DEF Main

LEMMA WorkerTypeInv ==
  ASSUME NEW g \in Grader, TypeInv, Worker(g)
  PROVE  TypeInv'
<1> USE DEF TypeInv, TypeOK, LoopVariables, NotNull, WorkerAt, WorkerGoes, pools,
      mainVars, restVars, killerVars, GRADER_STATUS
<1>1. CASE WorkerStart(g)
  BY <1>1 DEF WorkerStart
<1>2. CASE WorkerReady(g)
  BY <1>2 DEF WorkerReady
<1>3. CASE WorkerExit(g)
  BY <1>3 DEF WorkerExit
<1>4. CASE WorkerSeesNew(g)
  BY <1>4 DEF WorkerSeesNew
<1>5. CASE WorkerBusy(g)
  BY <1>5 DEF WorkerBusy
<1>6. CASE WorkerDone(g)
  BY <1>6 DEF WorkerDone
<1> QED
  BY <1>1, <1>2, <1>3, <1>4, <1>5, <1>6 DEF Worker

LEMMA RestTypeInv == TypeInv /\ Rest => TypeInv'
<1> SUFFICES ASSUME TypeInv, Rest PROVE TypeInv'
  OBVIOUS
<1> USE DEF TypeInv, TypeOK, LoopVariables, NotNull, RestAt, restFrame, mainVars,
      graderVars, killerVars, Pointer, SUBMISSION_STATUS
<1>1. ASSUME NEW s \in Submission, AddSubmission(s) PROVE TypeInv'
  BY <1>1, NoSubmissionAssumption DEF AddSubmission
<1>2. CASE AddPush
  BY <1>2, PushType DEF AddPush
<1>3. CASE AddInsert
  BY <1>3, InsertType DEF AddInsert
<1>4. ASSUME NEW id \in Queried, QueryStatus(id) PROVE TypeInv'
  BY <1>4, QueriedAssumption DEF QueryStatus, StatusNow, StatusOf
<1>5. CASE QueryGraded
  <2>1. CASE Has(graded_pool, rest_id)
    BY <1>5, <2>1 DEF QueryGraded, Answer
  <2>2. CASE ~Has(graded_pool, rest_id)
    <3>1. /\ rest_pc = "ask_graded" /\ rest_pc' = "ask_grading"
          /\ UNCHANGED <<restFrame, waiting_pool, rest_sub, add_result, rest_id, answer, shown>>
      BY <1>5, <2>2 DEF QueryGraded, LookOn
    <3> QED  BY <3>1
  <2> QED  BY <2>1, <2>2
<1>6. CASE QueryGrading
  <2>1. CASE Has(grading_pool, rest_id)
    BY <1>6, <2>1 DEF QueryGrading, Answer
  <2>2. CASE ~Has(grading_pool, rest_id)
    <3>1. /\ rest_pc = "ask_grading" /\ rest_pc' = "ask_waiting"
          /\ UNCHANGED <<restFrame, waiting_pool, rest_sub, add_result, rest_id, answer, shown>>
      BY <1>6, <2>2 DEF QueryGrading, LookOn
    <3> QED  BY <3>1
  <2> QED  BY <2>1, <2>2
<1>7. CASE QueryWaiting
  BY <1>7 DEF QueryWaiting, Answer
<1> QED
  BY <1>1, <1>2, <1>3, <1>4, <1>5, <1>6, <1>7 DEF Rest, RestProgress

LEMMA KillerTypeInv == TypeInv /\ (Kill \/ KillerProgress) => TypeInv'
<1> SUFFICES ASSUME TypeInv, Kill \/ KillerProgress PROVE TypeInv'
  OBVIOUS
<1> USE NumGradersAssumption DEF TypeInv, TypeOK, LoopVariables, NotNull, KillerAt,
      killerFrame, pools, mainVars, graderVars, restVars, GRADER_STATUS, Grader
<1>1. CASE Kill
  BY <1>1 DEF Kill
<1>2. CASE AwaitNotBusy
  BY <1>2 DEF AwaitNotBusy
<1>3. CASE SetTerminated
  BY <1>3 DEF SetTerminated
<1>4. CASE AllSignalled
  BY <1>4 DEF AllSignalled
<1>5. CASE JoinWorker
  BY <1>5 DEF JoinWorker
<1>6. CASE FinishKill
  BY <1>6 DEF FinishKill, GRADER_POOL_STATUS
<1>7. CASE HandlerExit
  BY <1>7 DEF HandlerExit, killerVars
<1> QED
  BY <1>1, <1>2, <1>3, <1>4, <1>5, <1>6, <1>7 DEF KillerProgress

LEMMA StutterTypeInv == TypeInv /\ UNCHANGED vars => TypeInv'
  BY DEF vars, TypeInv, TypeOK, LoopVariables, NotNull, pools, mainVars, graderVars,
    restVars, killerVars

LEMMA NextTypeInv == TypeInv /\ [Next]_vars => TypeInv'
  BY MainTypeInv, WorkerTypeInv, RestTypeInv, KillerTypeInv, StutterTypeInv DEF Next

LEMMA SpecTypeInv == Spec => []TypeInv
  BY InitTypeInv, NextTypeInv, PTL DEF Spec

(* Every variable keeps its type, in every state of either program         *)
(* (grader_pool.cpp, grader.cpp and submission_pool.cpp as a whole).       *)
THEOREM TypeCorrect == Spec => []TypeOK
<1>1. TypeInv => TypeOK
  BY DEF TypeInv
<1> QED  BY <1>1, SpecTypeInv, PTL

-------------------------------------------------------------------------------
(* Who may do what when.  Threads are created only before anybody kills;   *)
(* a killer has joined the graders it has passed; a grader is DONE only    *)
(* while its worker loops, and stays so until the scheduler resets it,     *)
(* unless a killer terminates it first.                                    *)

Creating == {"create", "emplace"}

Joined ==
  /\ killer_pc = "join" => \A g \in Grader : g < killer_at => worker_pc[g] = "exited"
  /\ killer_pc = "stopped" => \A g \in Grader : g < graders => worker_pc[g] = "exited"
  /\ (killer_pc # "none" /\ ~SignalOnMain) => main_pc \notin Creating
  /\ pool_status = "RUNNING" => main_pc \notin Creating
  /\ pool_status = "TERMINATED" => killer_pc = "stopped"

DoneIsLooping ==
  /\ main_pc \in Creating => \A g \in Grader : g > graders => worker_pc[g] = "none"
  /\ main_pc = "create" => \A g \in Grader : g = graders => worker_pc[g] = "none"
  /\ \A g \in Grader : grader_status[g] = "DONE" => worker_pc[g] = "loop"
  /\ main_pc \in Collecting =>
       /\ worker_pc[main_at] \in {"loop", "exited"}
       /\ grader_status[main_at] \in {"DONE", "TERMINATED"}

ControlInv == Joined /\ DoneIsLooping

LEMMA InitControl == Init => ControlInv
  BY NumGradersAssumption
  DEF Init, ControlInv, Joined, DoneIsLooping, Creating, Collecting, Grader

LEMMA MainControl == TypeInv /\ ControlInv /\ Main => ControlInv'
<1> SUFFICES ASSUME TypeInv, ControlInv, Main PROVE ControlInv'
  OBVIOUS
<1> USE NumGradersAssumption, ModesAssumption
    DEF TypeInv, TypeOK, LoopVariables, ControlInv, Joined, DoneIsLooping, Creating,
      Collecting, AtGrader, Grader, MainAt, MainRuns, schedulerFrame, pools,
      mainVars, graderVars, killerVars
<1>1. CASE CreateThread
  BY <1>1 DEF CreateThread
<1>2. CASE EmplaceGrader
  BY <1>2 DEF EmplaceGrader
<1>3. CASE SetRunning
  BY <1>3 DEF SetRunning
<1>4. CASE TestPoolStatus
  BY <1>4 DEF TestPoolStatus
<1>5. CASE TestTerminated
  BY <1>5 DEF TestTerminated
<1>6. CASE ReturnFromStart
  BY <1>6 DEF ReturnFromStart
<1>7. CASE ScanGrader
  BY <1>7 DEF ScanGrader
<1>8. CASE EndScan
  BY <1>8 DEF EndScan
<1>9. CASE Collect
  BY <1>9 DEF Collect
<1>10. CASE Ungrade
  BY <1>10 DEF Ungrade
<1>11. CASE Release
  BY <1>11 DEF Release
<1>12. CASE ReleaseWrite
  BY <1>12 DEF ReleaseWrite
<1>13. CASE TestIdle
  BY <1>13 DEF TestIdle, NextGrader
<1>14. CASE GetFirstPop
  BY <1>14 DEF GetFirstPop
<1>15. CASE GetFirstTest
  BY <1>15 DEF GetFirstTest
<1>16. CASE GetFirstEmpty
  BY <1>16 DEF GetFirstEmpty
<1>17. CASE StartGrading
  BY <1>17 DEF StartGrading
<1>18. CASE Unqueue
  BY <1>18 DEF Unqueue
<1>19. CASE HandOver
  BY <1>19 DEF HandOver, NextGrader
<1>20. CASE HandOverPointer
  BY <1>20 DEF HandOverPointer
<1>21. CASE HandOverNew
  BY <1>21 DEF HandOverNew, NextGrader
<1> QED
  BY <1>1, <1>2, <1>3, <1>4, <1>5, <1>6, <1>7, <1>8, <1>9, <1>10, <1>11, <1>12,
     <1>13, <1>14, <1>15, <1>16, <1>17, <1>18, <1>19, <1>20, <1>21 DEF Main

LEMMA WorkerControl ==
  ASSUME NEW g \in Grader, TypeInv, ControlInv, Worker(g)
  PROVE  ControlInv'
<1> USE DEF TypeInv, TypeOK, ControlInv, Joined, DoneIsLooping, Creating, Collecting,
      WorkerAt, WorkerGoes, is_terminated, mainVars, killerVars, Grader
<1>1. CASE WorkerStart(g)
  BY <1>1 DEF WorkerStart
<1>2. CASE WorkerReady(g)
  BY <1>2 DEF WorkerReady
<1>3. CASE WorkerExit(g)
  BY <1>3 DEF WorkerExit
<1>4. CASE WorkerSeesNew(g)
  BY <1>4 DEF WorkerSeesNew
<1>5. CASE WorkerBusy(g)
  BY <1>5 DEF WorkerBusy
<1>6. CASE WorkerDone(g)
  BY <1>6 DEF WorkerDone
<1> QED
  BY <1>1, <1>2, <1>3, <1>4, <1>5, <1>6 DEF Worker

LEMMA RestControl == ControlInv /\ Rest => ControlInv'
  BY DEF Rest, RestProgress, AddSubmission, AddPush, AddInsert, QueryStatus, QueryGraded,
    QueryGrading, QueryWaiting, restFrame, mainVars, graderVars, killerVars,
    ControlInv, Joined, DoneIsLooping, Creating, Collecting

LEMMA KillerControl == TypeInv /\ ControlInv /\ (Kill \/ KillerProgress) => ControlInv'
<1> SUFFICES ASSUME TypeInv, ControlInv, Kill \/ KillerProgress PROVE ControlInv'
  OBVIOUS
<1> USE NumGradersAssumption, ModesAssumption
    DEF TypeInv, TypeOK, LoopVariables, ControlInv, Joined, DoneIsLooping, Creating,
      Collecting, AtGrader, Grader, KillerAt, killerFrame, mainVars
<1>1. CASE Kill
  BY <1>1 DEF Kill
<1>2. CASE AwaitNotBusy
  BY <1>2 DEF AwaitNotBusy
<1>3. CASE SetTerminated
  BY <1>3 DEF SetTerminated
<1>4. CASE AllSignalled
  BY <1>4 DEF AllSignalled
<1>5. CASE JoinWorker
  BY <1>5 DEF JoinWorker
<1>6. CASE FinishKill
  BY <1>6 DEF FinishKill
<1>7. CASE HandlerExit
  BY <1>7 DEF HandlerExit, killerVars
<1> QED
  BY <1>1, <1>2, <1>3, <1>4, <1>5, <1>6, <1>7 DEF KillerProgress

LEMMA StutterControl == ControlInv /\ UNCHANGED vars => ControlInv'
  BY DEF vars, ControlInv, Joined, DoneIsLooping, mainVars, graderVars, killerVars

LEMMA NextControl == TypeInv /\ ControlInv /\ [Next]_vars => ControlInv'
  BY MainControl, WorkerControl, RestControl, KillerControl, StutterControl DEF Next

LEMMA SpecControl == Spec => [](TypeInv /\ ControlInv)
  BY SpecTypeInv, InitControl, NextControl, PTL DEF Spec

(* A pool that reports TERMINATED has no grader thread left: signal(KILL)  *)
(* has joined every one (grader_pool.cpp:112-128).                         *)
THEOREM StopJoinsAll == Spec => []StoppedMeansJoined
<1>1. ControlInv => StoppedMeansJoined
  BY DEF ControlInv, Joined, StoppedMeansJoined
<1> QED  BY <1>1, SpecControl, PTL

(* Neither null dereference of the pool can happen (grader.cpp:45-53,      *)
(* 110-115; grader_pool.cpp:33-35).                                        *)
THEOREM NoNullDereference == Spec => []NullNeverUsed
<1>1. TypeInv /\ ControlInv => NullNeverUsed
  BY DEF TypeInv, NotNull, ControlInv, DoneIsLooping, NullNeverUsed, Collecting
<1> QED  BY <1>1, SpecControl, PTL

-------------------------------------------------------------------------------
(* Where a submission is.  A pointer moves from the queue to the scheduler *)
(* to one grader to graded_pool, and is never in two of these places, the  *)
(* copy the scheduler is handing over apart.                               *)

LEMMA RangeOfAppend ==
  ASSUME NEW S, NEW seq \in Seq(S), NEW x \in S
  PROVE  /\ Range(Append(seq, x)) = Range(seq) \cup {x}
         /\ IsInjective(seq) /\ x \notin Range(seq) => IsInjective(Append(seq, x))
<1>1. /\ Len(seq) \in Nat
      /\ DOMAIN seq = 1 .. Len(seq)
      /\ DOMAIN Append(seq, x) = 1 .. Len(seq) + 1
      /\ \A i \in 1 .. Len(seq) : Append(seq, x)[i] = seq[i]
      /\ Append(seq, x)[Len(seq) + 1] = x
  OBVIOUS
<1> QED  BY <1>1 DEF Range, IsInjective

LEMMA RangeOfTail ==
  ASSUME NEW S, NEW seq \in Seq(S), seq # <<>>
  PROVE  /\ Head(seq) \in Range(seq)
         /\ Range(Tail(seq)) \subseteq Range(seq)
         /\ IsInjective(seq) => IsInjective(Tail(seq)) /\ Head(seq) \notin Range(Tail(seq))
<1>1. /\ Len(seq) \in Nat /\ Len(seq) > 0
      /\ DOMAIN seq = 1 .. Len(seq)
      /\ DOMAIN Tail(seq) = 1 .. Len(seq) - 1
      /\ \A i \in 1 .. Len(seq) - 1 : Tail(seq)[i] = seq[i + 1]
      /\ Head(seq) = seq[1]
  OBVIOUS
<1> QED  BY <1>1 DEF Range, IsInjective

LEMMA RangeOfPool ==
  ASSUME NEW pool \in Pool
  PROVE  pool.order \in Seq(Submission) /\ Range(pool.order) \subseteq Submission
  BY DEF Pool, Range

Queue == Range(waiting_pool.order)
Graded == Range(graded_pool.order)

Somewhere(s) ==
  \/ s \in Queue \cup Graded
  \/ main_sub = s
  \/ \E g \in Grader : grader_submission[g] = s

(* The grader's submission has not been collected, and still may be.       *)
Uncollected(g) ==
  \/ worker_pc[g] \in {"new", "grading"}
  \/ grader_status[g] \in {"NEW", "BUSY"}
  \/ grader_status[g] = "DONE" /\ ~(main_at = g /\ main_pc \in {"ungrade", "release", "release_write"})
  \/ main_at = g /\ main_pc = "collect"

FreshIsNowhere ==
  /\ rest_pc \in {"push", "insert"} => add_result[rest_sub] = "pending"
  /\ \A s \in Submission :
       (add_result[s] = "pending" /\ ~(rest_pc = "insert" /\ rest_sub = s)) => ~Somewhere(s)

OnePlace ==
  /\ IsInjective(waiting_pool.order)
  /\ main_sub \notin Queue
  /\ \A g \in Grader : grader_submission[g] \notin Queue
  /\ main_sub # NoSubmission => \A g \in Grader :
       grader_submission[g] = main_sub => main_pc = "hand_over_new" /\ main_at = g
  /\ AtMostOneGrader

GradedApart ==
  /\ GradedOnce
  /\ \A s \in Submission : s \in Graded => s \notin Queue
  /\ main_sub \notin Graded
  /\ \A g \in Grader : Uncollected(g) => grader_submission[g] \notin Graded

OwnerInv == FreshIsNowhere /\ OnePlace /\ GradedApart

LEMMA InitOwner == Init => OwnerInv
<1> SUFFICES ASSUME Init PROVE OwnerInv
  OBVIOUS
<1>1. /\ waiting_pool.order = <<>> /\ graded_pool.order = <<>>
      /\ Queue = {} /\ Graded = {}
      /\ IsInjective(waiting_pool.order) /\ IsInjective(graded_pool.order)
  BY DEF Init, EmptyPool, Queue, Graded, Range, IsInjective
<1> QED
  BY <1>1, NoSubmissionAssumption
  DEF Init, OwnerInv, FreshIsNowhere, OnePlace, GradedApart, AtMostOneGrader, GradedOnce, Somewhere

LEMMA MainOwner == TypeInv /\ ControlInv /\ OwnerInv /\ Main => OwnerInv'
<1> SUFFICES ASSUME TypeInv, ControlInv, OwnerInv, Main PROVE OwnerInv'
  OBVIOUS
<1> USE NumGradersAssumption, NoSubmissionAssumption
    DEF TypeInv, TypeOK, LoopVariables, NotNull, ControlInv, DoneIsLooping, OwnerInv,
      FreshIsNowhere, OnePlace, GradedApart, AtMostOneGrader, GradedOnce, Somewhere,
      Uncollected, Queue, Graded, Pointer, Collecting, Holding, AtGrader, Creating, Grader,
      MainAt, MainRuns, schedulerFrame, pools, mainVars, graderVars, restVars
<1>0. NoSubmission \notin Queue /\ NoSubmission \notin Graded
  BY RangeOfPool
<1>1. CASE CreateThread
  BY <1>1 DEF CreateThread
<1>2. CASE EmplaceGrader
  BY <1>2 DEF EmplaceGrader
<1>3. CASE SetRunning
  BY <1>3 DEF SetRunning
<1>4. CASE TestPoolStatus
  BY <1>4 DEF TestPoolStatus
<1>5. CASE TestTerminated
  BY <1>5 DEF TestTerminated
<1>6. CASE ReturnFromStart
  BY <1>6 DEF ReturnFromStart
<1>7. CASE ScanGrader
  BY <1>7 DEF ScanGrader
<1>8. CASE EndScan
  BY <1>8 DEF EndScan
<1>9. CASE Collect
  <2>1. grader_submission[main_at] \in Submission
    BY <1>9 DEF Collect
  <2>2. graded_pool'.order = Append(graded_pool.order, grader_submission[main_at])
    BY <1>9, <2>1, AddType DEF Collect
  <2>3. /\ Graded' = Graded \cup {grader_submission[main_at]}
        /\ IsInjective(graded_pool'.order)
    BY <1>9, <2>1, <2>2, RangeOfPool, RangeOfAppend DEF Collect
  <2> QED  BY <1>9, <2>1, <2>3 DEF Collect
<1>10. CASE Ungrade
  BY <1>10 DEF Ungrade
<1>11. CASE Release
  BY <1>11 DEF Release
<1>12. CASE ReleaseWrite
  BY <1>12 DEF ReleaseWrite
<1>13. CASE TestIdle
  BY <1>0, <1>13 DEF TestIdle, NextGrader
<1>14. CASE GetFirstPop
  <2>1. /\ waiting_pool'.order = Tail(waiting_pool.order)
        /\ main_sub' = Head(waiting_pool.order)
        /\ main_sub' \in Submission
    BY <1>14, PopType DEF GetFirstPop
  <2>2. /\ main_sub' \in Queue /\ Queue' \subseteq Queue
        /\ IsInjective(waiting_pool'.order) /\ main_sub' \notin Queue'
    BY <1>14, <2>1, PopType, RangeOfPool, RangeOfTail DEF GetFirstPop
  <2>3. FreshIsNowhere'
    BY <1>14, <2>2 DEF GetFirstPop
  <2>4. OnePlace'
    BY <1>14, <2>1, <2>2 DEF GetFirstPop
  <2>5. GradedApart'
    BY <1>14, <2>1, <2>2 DEF GetFirstPop
  <2> QED  BY <2>3, <2>4, <2>5
<1>15. CASE GetFirstTest
  BY <1>0, <1>15 DEF GetFirstTest
<1>16. CASE GetFirstEmpty
  BY <1>16 DEF GetFirstEmpty
<1>17. CASE StartGrading
  BY <1>17 DEF StartGrading
<1>18. CASE Unqueue
  <2>1. waiting_pool'.order = waiting_pool.order
    BY <1>18, RemoveType, IdOfAssumption DEF Unqueue
  <2> QED  BY <1>18, <2>1 DEF Unqueue
<1>19. CASE HandOver
  BY <1>0, <1>19 DEF HandOver, NextGrader
<1>20. CASE HandOverPointer
  BY <1>20 DEF HandOverPointer
<1>21. CASE HandOverNew
  BY <1>0, <1>21 DEF HandOverNew, NextGrader
<1> QED
  BY <1>1, <1>2, <1>3, <1>4, <1>5, <1>6, <1>7, <1>8, <1>9, <1>10, <1>11, <1>12,
     <1>13, <1>14, <1>15, <1>16, <1>17, <1>18, <1>19, <1>20, <1>21 DEF Main

LEMMA WorkerOwner ==
  ASSUME NEW g \in Grader, TypeInv, ControlInv, OwnerInv, Worker(g)
  PROVE  OwnerInv'
<1> USE DEF TypeInv, TypeOK, ControlInv, DoneIsLooping, OwnerInv, FreshIsNowhere, OnePlace,
      GradedApart, AtMostOneGrader, GradedOnce, Somewhere, Uncollected, Queue, Graded,
      Collecting, WorkerAt, WorkerGoes, pools, mainVars, restVars
<1>1. CASE WorkerStart(g)
  BY <1>1 DEF WorkerStart
<1>2. CASE WorkerReady(g)
  BY <1>2 DEF WorkerReady
<1>3. CASE WorkerExit(g)
  BY <1>3 DEF WorkerExit
<1>4. CASE WorkerSeesNew(g)
  BY <1>4 DEF WorkerSeesNew
<1>5. CASE WorkerBusy(g)
  BY <1>5 DEF WorkerBusy
<1>6. CASE WorkerDone(g)
  BY <1>6 DEF WorkerDone
<1> QED
  BY <1>1, <1>2, <1>3, <1>4, <1>5, <1>6 DEF Worker

LEMMA RestOwner == TypeInv /\ OwnerInv /\ Rest => OwnerInv'
<1> SUFFICES ASSUME TypeInv, OwnerInv, Rest PROVE OwnerInv'
  OBVIOUS
<1> USE NoSubmissionAssumption
    DEF TypeInv, TypeOK, NotNull, Pointer, OwnerInv, FreshIsNowhere, OnePlace, GradedApart,
      AtMostOneGrader, GradedOnce, Somewhere, Uncollected, Queue, Graded, RestAt,
      restFrame, mainVars, graderVars
<1>1. ASSUME NEW s \in Submission, AddSubmission(s) PROVE OwnerInv'
  BY <1>1 DEF AddSubmission
<1>2. CASE AddPush
  <2>1. /\ rest_sub \in Submission /\ rest_sub \notin Queue
        /\ waiting_pool'.order = Append(waiting_pool.order, rest_sub)
    BY <1>2, PushType DEF AddPush
  <2>2. /\ Queue' = Queue \cup {rest_sub}
        /\ IsInjective(waiting_pool'.order)
    BY <2>1, RangeOfPool, RangeOfAppend
  <2>3. FreshIsNowhere'
    BY <1>2, <2>1, <2>2 DEF AddPush
  <2>4. OnePlace'
    BY <1>2, <2>1, <2>2 DEF AddPush
  <2>5. GradedApart'
    BY <1>2, <2>1, <2>2 DEF AddPush
  <2> QED  BY <2>3, <2>4, <2>5
<1>3. CASE AddInsert
  <2>1. waiting_pool'.order = waiting_pool.order
    BY <1>3, InsertType DEF AddInsert
  <2> QED  BY <1>3, <2>1 DEF AddInsert
<1>4. ASSUME NEW id \in Queried, QueryStatus(id) PROVE OwnerInv'
  BY <1>4 DEF QueryStatus
<1>5. CASE QueryGraded
  BY <1>5 DEF QueryGraded, LookOn, Answer
<1>6. CASE QueryGrading
  BY <1>6 DEF QueryGrading, LookOn, Answer
<1>7. CASE QueryWaiting
  BY <1>7 DEF QueryWaiting, Answer
<1> QED
  BY <1>1, <1>2, <1>3, <1>4, <1>5, <1>6, <1>7 DEF Rest, RestProgress

LEMMA KillerOwner == TypeInv /\ OwnerInv /\ (Kill \/ KillerProgress) => OwnerInv'
<1> SUFFICES ASSUME TypeInv, OwnerInv, Kill \/ KillerProgress PROVE OwnerInv'
  OBVIOUS
<1> USE DEF TypeInv, TypeOK, OwnerInv, FreshIsNowhere, OnePlace, GradedApart,
      AtMostOneGrader, GradedOnce, Somewhere, Uncollected, Queue, Graded,
      killerFrame, pools, mainVars, graderVars, restVars
<1>1. CASE Kill
  BY <1>1 DEF Kill
<1>2. CASE AwaitNotBusy
  BY <1>2 DEF AwaitNotBusy
<1>3. CASE SetTerminated
  BY <1>3 DEF SetTerminated
<1>4. CASE AllSignalled
  BY <1>4 DEF AllSignalled
<1>5. CASE JoinWorker
  BY <1>5 DEF JoinWorker
<1>6. CASE FinishKill
  BY <1>6 DEF FinishKill
<1>7. CASE HandlerExit
  BY <1>7 DEF HandlerExit
<1> QED
  BY <1>1, <1>2, <1>3, <1>4, <1>5, <1>6, <1>7 DEF KillerProgress

LEMMA StutterOwner == OwnerInv /\ UNCHANGED vars => OwnerInv'
  BY DEF vars, OwnerInv, FreshIsNowhere, OnePlace, GradedApart, AtMostOneGrader, GradedOnce,
    Somewhere, Uncollected, Queue, Graded, pools, mainVars, graderVars, restVars

LEMMA NextOwner == TypeInv /\ ControlInv /\ OwnerInv /\ [Next]_vars => OwnerInv'
  BY MainOwner, WorkerOwner, RestOwner, KillerOwner, StutterOwner DEF Next

LEMMA SpecOwner == Spec => [](TypeInv /\ ControlInv /\ OwnerInv)
  BY SpecControl, InitOwner, NextOwner, PTL DEF Spec

(* No submission is ever held by two graders (grader_pool.cpp:38-43).      *)
THEOREM OneGraderPerSubmission == Spec => []AtMostOneGrader
<1>1. OwnerInv => AtMostOneGrader
  BY DEF OwnerInv, OnePlace
<1> QED  BY <1>1, SpecOwner, PTL

(* No submission is ever collected twice, even when a killer and a worker  *)
(* overwrite each other's status (grader_pool.cpp:32-36).                  *)
THEOREM CollectedOnce == Spec => []GradedOnce
<1>1. OwnerInv => GradedOnce
  BY DEF OwnerInv, GradedApart
<1> QED  BY <1>1, SpecOwner, PTL

-------------------------------------------------------------------------------
(* What clients are told.  The entry of an id moves from pool to pool in   *)
(* the index: the next pool has it before the former one loses it, which   *)
(* is what the scheduler relies on between Add and Remove.                 *)

MovedFirst ==
  /\ main_pc = "unqueue" => Has(grading_pool, IdOf[main_sub])
  /\ main_pc = "ungrade" => Has(graded_pool, IdOf[grader_submission[main_at]])

(* A query that has looked into graded_pool in vain is the first to answer. *)
ToldGraded ==
  /\ \A id \in SubmissionID : answer[id] = "GRADED" => Has(graded_pool, id)
  /\ rest_pc \in {"ask_grading", "ask_waiting"} => answer[rest_id] # "GRADED"

ClientInv == NeverForgotten /\ MovedFirst /\ ToldGraded

LEMMA IndexOfAdd ==
  ASSUME NEW pool \in Pool, NEW s \in Submission
  PROVE  /\ Has(Insert(pool, s), IdOf[s]) /\ Has(Add(pool, s), IdOf[s])
         /\ \A id \in SubmissionID :
              Has(pool, id) => Has(Push(pool, s), id) /\ Has(Insert(pool, s), id) /\ Has(Add(pool, s), id)
<1>1. ASSUME NEW p \in Pool
      PROVE  /\ Has(Insert(p, s), IdOf[s])
             /\ \A id \in SubmissionID : Has(p, id) => Has(Insert(p, s), id)
  BY IdOfAssumption, NoSubmissionAssumption DEF Insert, Has, Pool
<1>2. Push(pool, s) \in Pool /\ Push(pool, s).index = pool.index
  BY PushType DEF Push, Pool
<1> QED  BY <1>1, <1>2 DEF Add, Has

LEMMA IndexOfRemove ==
  ASSUME NEW pool \in Pool, NEW id \in SubmissionID
  PROVE  \A i \in SubmissionID \ {id} : Has(pool, i) => Has(Remove(pool, id), i)
  BY DEF Remove, Has, Pool

LEMMA InitClient == Init => ClientInv
  BY DEF Init, ClientInv, NeverForgotten, MovedFirst, ToldGraded

LEMMA MainClient == TypeInv /\ ClientInv /\ Main => ClientInv'
<1> SUFFICES ASSUME TypeInv, ClientInv, Main PROVE ClientInv'
  OBVIOUS
<1> USE IdOfAssumption
    DEF TypeInv, TypeOK, LoopVariables, NotNull, ClientInv, NeverForgotten, MovedFirst, ToldGraded,
      Pointer, AtGrader, Holding, Collecting, Grader, MainAt, MainRuns, schedulerFrame, pools,
      mainVars, graderVars, restVars
<1>1. ASSUME waiting_pool' = waiting_pool, grading_pool' = grading_pool,
             graded_pool' = graded_pool, UNCHANGED restVars,
             main_pc' \notin {"unqueue", "ungrade"}
      PROVE  ClientInv'
  BY <1>1
<1>2. CASE CreateThread \/ EmplaceGrader \/ SetRunning \/ TestPoolStatus \/ TestTerminated
             \/ ReturnFromStart \/ ScanGrader \/ EndScan \/ Release \/ ReleaseWrite \/ TestIdle
             \/ GetFirstTest \/ GetFirstEmpty \/ HandOver \/ HandOverPointer \/ HandOverNew
  BY <1>1, <1>2
  DEF CreateThread, EmplaceGrader, SetRunning, TestPoolStatus, TestTerminated, ReturnFromStart,
    ScanGrader, EndScan, Release, ReleaseWrite, TestIdle, NextGrader, GetFirstTest,
    GetFirstEmpty, HandOver, HandOverPointer, HandOverNew
<1>3. CASE Collect
  <2>1. main_at \in Grader /\ grader_submission[main_at] \in Submission
    BY <1>3, NumGradersAssumption DEF Collect
  <2>2. /\ Has(graded_pool', IdOf[grader_submission[main_at]])
        /\ \A id \in SubmissionID : Has(graded_pool, id) => Has(graded_pool', id)
    BY <1>3, <2>1, IndexOfAdd DEF Collect
  <2> QED  BY <1>3, <2>2 DEF Collect
<1>4. CASE Ungrade
  <2>1. main_at \in Grader /\ grader_submission[main_at] \in Submission
    BY <1>4, NumGradersAssumption DEF Ungrade
  <2>2. \A id \in SubmissionID \ {IdOf[grader_submission[main_at]]} :
          Has(grading_pool, id) => Has(grading_pool', id)
    BY <1>4, <2>1, IndexOfRemove DEF Ungrade
  <2> QED  BY <1>4, <2>1, <2>2 DEF Ungrade
<1>5. CASE GetFirstPop
  <2>1. \A id : Has(waiting_pool, id) <=> Has(waiting_pool', id)
    BY <1>5 DEF GetFirstPop, Pop, Has, Pool
  <2> QED  BY <1>5, <2>1 DEF GetFirstPop
<1>6. CASE StartGrading
  <2>1. /\ Has(grading_pool', IdOf[main_sub])
        /\ \A id \in SubmissionID : Has(grading_pool, id) => Has(grading_pool', id)
    BY <1>6, IndexOfAdd DEF StartGrading
  <2> QED  BY <1>6, <2>1 DEF StartGrading
<1>7. CASE Unqueue
  <2>1. \A id \in SubmissionID \ {IdOf[main_sub]} :
          Has(waiting_pool, id) => Has(waiting_pool', id)
    BY <1>7, IndexOfRemove DEF Unqueue
  <2> QED  BY <1>7, <2>1 DEF Unqueue
<1> QED
  BY <1>2, <1>3, <1>4, <1>5, <1>6, <1>7 DEF Main

LEMMA WorkerClient ==
  ASSUME NEW g \in Grader, ClientInv, Worker(g)
  PROVE  ClientInv'
  BY DEF Worker, WorkerStart, WorkerReady, WorkerExit, WorkerSeesNew, WorkerBusy, WorkerDone,
    WorkerGoes, ClientInv, NeverForgotten, MovedFirst, ToldGraded, pools, mainVars, restVars

LEMMA RestClient == TypeInv /\ ClientInv /\ Rest => ClientInv'
<1> SUFFICES ASSUME TypeInv, ClientInv, Rest PROVE ClientInv'
  OBVIOUS
<1> USE IdOfAssumption
    DEF TypeInv, TypeOK, NotNull, Pointer, ClientInv, NeverForgotten, MovedFirst, ToldGraded,
      RestAt, restFrame, mainVars, graderVars
<1>1. ASSUME NEW s \in Submission, AddSubmission(s) PROVE ClientInv'
  BY <1>1 DEF AddSubmission
<1>2. CASE AddPush
  <2>1. \A id \in SubmissionID : Has(waiting_pool, id) => Has(waiting_pool', id)
    BY <1>2, IndexOfAdd DEF AddPush
  <2> QED  BY <1>2, <2>1 DEF AddPush
<1>3. CASE AddInsert
  <2>1. /\ Has(waiting_pool', IdOf[rest_sub])
        /\ \A id \in SubmissionID : Has(waiting_pool, id) => Has(waiting_pool', id)
    BY <1>3, IndexOfAdd DEF AddInsert
  <2> QED  BY <1>3, <2>1 DEF AddInsert
<1>4. ASSUME NEW id \in Queried, QueryStatus(id) PROVE ClientInv'
  BY <1>4 DEF QueryStatus
<1>5. CASE QueryGraded
  BY <1>5 DEF QueryGraded, LookOn, Answer
<1>6. CASE QueryGrading
  BY <1>6 DEF QueryGrading, LookOn, Answer
<1>7. CASE QueryWaiting
  BY <1>7 DEF QueryWaiting, Answer
<1> QED
  BY <1>1, <1>2, <1>3, <1>4, <1>5, <1>6, <1>7 DEF Rest, RestProgress

LEMMA KillerClient == ClientInv /\ (Kill \/ KillerProgress) => ClientInv'
  BY DEF Kill, KillerProgress, AwaitNotBusy, SetTerminated, AllSignalled, JoinWorker, FinishKill,
    HandlerExit, killerFrame, ClientInv, NeverForgotten, MovedFirst, ToldGraded, pools, mainVars, restVars

LEMMA StutterClient == ClientInv /\ UNCHANGED vars => ClientInv'
  BY DEF vars, ClientInv, NeverForgotten, MovedFirst, ToldGraded, pools, mainVars, graderVars, restVars

LEMMA NextClient == TypeInv /\ ClientInv /\ [Next]_vars => ClientInv'
  BY MainClient, WorkerClient, RestClient, KillerClient, StutterClient DEF Next

LEMMA SpecClient == Spec => [](TypeInv /\ ClientInv)
  BY SpecTypeInv, InitClient, NextClient, PTL DEF Spec

(* An accepted submission is, at every moment, known under its id to one   *)
(* of the three pools (grader_pool.cpp:33-34, 40-41).                      *)
THEOREM AcceptedIsKnown == Spec => []NeverForgotten
<1>1. ClientInv => NeverForgotten
  BY DEF ClientInv
<1> QED  BY <1>1, SpecClient, PTL

(* Once a client was told GRADED it is told nothing else, under whatever   *)
(* interleaving and also when the id is submitted again                    *)
(* (grader_pool.cpp:58-63).                                                *)
THEOREM GradedStays == Spec => GradedIsFinal
<1> DEFINE Stays == \A id \in SubmissionID : answer[id] = "GRADED" => answer'[id] = "GRADED"
<1>1. TypeInv /\ ClientInv /\ [Next]_vars => [Stays]_vars
  <2> SUFFICES ASSUME TypeInv, ClientInv, Next PROVE Stays
    OBVIOUS
  <2> USE DEF TypeInv, TypeOK, ClientInv, ToldGraded
  <2>1. CASE Main
    BY <2>1
    DEF Main, CreateThread, EmplaceGrader, SetRunning, TestPoolStatus, TestTerminated,
      ReturnFromStart, ScanGrader, EndScan, Collect, Ungrade, Release, ReleaseWrite, TestIdle,
      GetFirstPop, GetFirstTest, GetFirstEmpty, StartGrading, Unqueue, HandOver,
      HandOverPointer, HandOverNew, schedulerFrame, restVars
  <2>2. ASSUME NEW g \in Grader, Worker(g) PROVE Stays
    BY <2>2
    DEF Worker, WorkerStart, WorkerReady, WorkerExit, WorkerSeesNew, WorkerBusy, WorkerDone,
      WorkerGoes, restVars
  <2>3. CASE Kill \/ KillerProgress
    BY <2>3
    DEF Kill, KillerProgress, AwaitNotBusy, SetTerminated, AllSignalled, JoinWorker, FinishKill,
      HandlerExit, killerFrame, restVars
  <2>4. CASE Rest
    BY <2>4
    DEF Rest, RestProgress, AddPush, AddInsert, QueryGraded, QueryGrading, QueryWaiting, LookOn, Answer,
      AddSubmission, QueryStatus, RestAt
  <2> QED  BY <2>1, <2>2, <2>3, <2>4 DEF Next
<1> QED  BY <1>1, SpecClient, PTL DEF Spec, GradedIsFinal

-------------------------------------------------------------------------------
(* What is being graded, in the index.  An object that a grader has been   *)
(* given is found under its id in grading_pool, until one of that id has   *)
(* been collected: then the id is in graded_pool, and stays there.         *)

IsRegistered(s) == Has(grading_pool, IdOf[s]) \/ Has(graded_pool, IdOf[s])

Registered ==
  /\ main_pc \in {"unqueue", "hand_over", "hand_over_write", "hand_over_new"} =>
       IsRegistered(main_sub)
  /\ \A g \in Grader :
       grader_submission[g] # NoSubmission => IsRegistered(grader_submission[g])

GradedIsIndexed ==
  \A id \in SubmissionID : Has(graded_pool, id) <=> \E t \in Graded : IdOf[t] = id

RegisterInv == Registered /\ GradedIsIndexed

LEMMA InitRegister == Init => RegisterInv
<1> SUFFICES ASSUME Init PROVE RegisterInv
  OBVIOUS
<1>1. Graded = {} /\ \A id \in SubmissionID : ~Has(graded_pool, id)
  BY DEF Init, EmptyPool, Graded, Range, Has
<1>2. Registered
  BY DEF Init, Registered
<1> QED  BY <1>1, <1>2 DEF RegisterInv, GradedIsIndexed

(* A step that leaves the two pools and the pointers alone.                *)
LEMMA SameRegister ==
  ASSUME RegisterInv, UNCHANGED <<grading_pool, graded_pool, grader_submission>>,
         main_pc' \in {"unqueue", "hand_over", "hand_over_write", "hand_over_new"} =>
           IsRegistered(main_sub')
  PROVE  RegisterInv'
  BY DEF RegisterInv, Registered, IsRegistered, GradedIsIndexed, Graded, Has

LEMMA MainRegister == TypeInv /\ ClientInv /\ RegisterInv /\ Main => RegisterInv'
<1> SUFFICES ASSUME TypeInv, ClientInv, RegisterInv, Main PROVE RegisterInv'
  OBVIOUS
<1> USE IdOfAssumption
    DEF TypeInv, TypeOK, LoopVariables, NotNull, AtGrader, Holding, Collecting, Pointer,
      MainAt, schedulerFrame, pools, mainVars, graderVars
<1>1. CASE CreateThread \/ EmplaceGrader \/ SetRunning \/ TestPoolStatus \/ TestTerminated
             \/ ReturnFromStart \/ ScanGrader \/ EndScan \/ Release \/ ReleaseWrite
             \/ TestIdle \/ GetFirstPop \/ GetFirstTest \/ GetFirstEmpty
  BY <1>1, SameRegister
  DEF CreateThread, EmplaceGrader, SetRunning, TestPoolStatus, TestTerminated, ReturnFromStart,
    ScanGrader, EndScan, Release, ReleaseWrite, TestIdle, NextGrader, GetFirstPop,
    GetFirstTest, GetFirstEmpty
<1>2. CASE Unqueue \/ HandOver \/ HandOverNew
  BY <1>2, SameRegister
  DEF Unqueue, HandOver, HandOverNew, NextGrader, RegisterInv, Registered
<1>3. CASE Collect
  <2>1. grader_submission[main_at] \in Submission
    BY <1>3, NumGradersAssumption DEF Collect, Grader
  <2> DEFINE s == grader_submission[main_at]
  <2>2. /\ Has(graded_pool', IdOf[s])
        /\ \A id \in SubmissionID : Has(graded_pool, id) => Has(graded_pool', id)
    BY <1>3, <2>1, IndexOfAdd DEF Collect
  <2>3. \A id \in SubmissionID \ {IdOf[s]} : Has(graded_pool', id) => Has(graded_pool, id)
    <3>1. Push(graded_pool, s) \in Pool /\ Push(graded_pool, s).index = graded_pool.index
      BY <2>1, PushType DEF Push, Pool
    <3>2. graded_pool' = Insert(Push(graded_pool, s), s)
      BY <1>3 DEF Collect, Add
    <3> HIDE DEF s
    <3> QED  BY <2>1, <3>1, <3>2 DEF Insert, Has, Pool
  <2>4. Graded' = Graded \cup {s}
    <3>1. graded_pool'.order = Append(graded_pool.order, s)
      BY <1>3, <2>1, AddType DEF Collect
    <3> QED  BY <2>1, <3>1, RangeOfPool, RangeOfAppend DEF Graded
  <2>5. GradedIsIndexed'
    <3>1. GradedIsIndexed /\ IdOf[s] \in SubmissionID
      BY <2>1 DEF RegisterInv
    <3> HIDE DEF s
    <3> QED  BY <2>2, <2>3, <2>4, <3>1 DEF GradedIsIndexed
  <2>6. Registered'
    BY <1>3, <2>2 DEF Collect, RegisterInv, Registered, IsRegistered
  <2> QED  BY <2>5, <2>6 DEF RegisterInv
<1>4. CASE Ungrade
  <2>1. grader_submission[main_at] \in Submission
    BY <1>4, NumGradersAssumption DEF Ungrade, Grader
  <2> DEFINE s == grader_submission[main_at]
  <2>2. \A id \in SubmissionID \ {IdOf[s]} : Has(grading_pool, id) => Has(grading_pool', id)
    BY <1>4, <2>1, IndexOfRemove DEF Ungrade
  <2>3. Has(graded_pool, IdOf[s])
    BY <1>4 DEF Ungrade, ClientInv, MovedFirst
  <2>4. UNCHANGED <<graded_pool, grader_submission>> /\ main_pc' = "release"
    BY <1>4 DEF Ungrade
  <2>5. Registered'
    <3> HIDE DEF s
    <3> QED  BY <2>2, <2>3, <2>4 DEF RegisterInv, Registered, IsRegistered
  <2> QED  BY <2>4, <2>5 DEF RegisterInv, GradedIsIndexed, Graded
<1>5. CASE StartGrading
  <2>1. /\ Has(grading_pool', IdOf[main_sub])
        /\ \A id \in SubmissionID : Has(grading_pool, id) => Has(grading_pool', id)
    BY <1>5, IndexOfAdd DEF StartGrading
  <2>2. UNCHANGED <<graded_pool, grader_submission, main_sub>>
    BY <1>5 DEF StartGrading
  <2> QED  BY <2>1, <2>2 DEF RegisterInv, Registered, IsRegistered, GradedIsIndexed, Graded
<1>6. CASE HandOverPointer
  <2>1. /\ UNCHANGED <<grading_pool, graded_pool, main_sub>> /\ IsRegistered(main_sub)
        /\ grader_submission' = [grader_submission EXCEPT ![main_at] = main_sub]
    BY <1>6 DEF HandOverPointer, RegisterInv, Registered
  <2> QED  BY <2>1 DEF RegisterInv, Registered, IsRegistered, GradedIsIndexed, Graded
<1> QED  BY <1>1, <1>2, <1>3, <1>4, <1>5, <1>6 DEF Main

LEMMA NextRegister == TypeInv /\ ClientInv /\ RegisterInv /\ [Next]_vars => RegisterInv'
<1> SUFFICES ASSUME TypeInv, ClientInv, RegisterInv, [Next]_vars PROVE RegisterInv'
  OBVIOUS
<1> USE DEF pools, mainVars, graderVars
<1>1. ASSUME UNCHANGED <<grading_pool, graded_pool, grader_submission, main_pc, main_sub>>
      PROVE  RegisterInv'
  BY <1>1, SameRegister DEF RegisterInv, Registered
<1>2. ASSUME NEW g \in Grader, Worker(g) PROVE RegisterInv'
  BY <1>1, <1>2
  DEF Worker, WorkerStart, WorkerReady, WorkerExit, WorkerSeesNew, WorkerBusy, WorkerDone, WorkerGoes
<1>3. CASE Rest
  BY <1>1, <1>3
  DEF Rest, RestProgress, AddSubmission, AddPush, AddInsert, QueryStatus, QueryGraded,
    QueryGrading, QueryWaiting, restFrame
<1>4. CASE Kill \/ KillerProgress
  BY <1>1, <1>4
  DEF Kill, KillerProgress, AwaitNotBusy, SetTerminated, AllSignalled, JoinWorker, FinishKill,
    HandlerExit, killerFrame
<1>5. CASE UNCHANGED vars
  BY <1>1, <1>5 DEF vars
<1> QED  BY MainRegister, <1>2, <1>3, <1>4, <1>5 DEF Next

(* While a submission's scripts run, get_submission_status would answer    *)
(* GRADING for its id, or GRADED if another object of the id has been      *)
(* collected: never anything else, and never GRADED for its own sake       *)
(* (grader_pool.cpp:32-43, 58-63).                                         *)
THEOREM RunningIsToldGrading == Spec => []RunningIsNotGraded
<1>1. ASSUME TypeInv, OwnerInv, RegisterInv, NEW g \in Grader,
             worker_pc[g] \in {"new", "grading"}
      PROVE  LET s == grader_submission[g]
                 collected == Range(graded_pool.order)
                 again == \E t \in collected \ {s} : IdOf[t] = IdOf[s]
             IN  s \notin collected /\ StatusNow(IdOf[s]) = IF again THEN "GRADED" ELSE "GRADING"
  <2> DEFINE s == grader_submission[g]
  <2>1. s \in Submission /\ s \notin Graded /\ IdOf[s] \in SubmissionID
    BY <1>1, IdOfAssumption
    DEF TypeInv, TypeOK, NotNull, Pointer, OwnerInv, GradedApart, Uncollected
  <2>2. IsRegistered(s)
    BY <1>1, <2>1, NoSubmissionAssumption DEF RegisterInv, Registered
  <2>3. Has(graded_pool, IdOf[s]) <=> \E t \in Graded : IdOf[t] = IdOf[s]
    BY <1>1, <2>1 DEF RegisterInv, GradedIsIndexed
  <2> HIDE DEF s
  <2>4. Has(graded_pool, IdOf[s]) <=> \E t \in Graded \ {s} : IdOf[t] = IdOf[s]
    BY <2>1, <2>3
  <2>5. s \notin Graded
        /\ StatusNow(IdOf[s]) =
             IF \E t \in Graded \ {s} : IdOf[t] = IdOf[s] THEN "GRADED" ELSE "GRADING"
    BY <2>1, <2>2, <2>4 DEF StatusNow, StatusOf, IsRegistered
  <2> QED  BY <2>5 DEF Graded, s
<1>2. TypeInv /\ OwnerInv /\ RegisterInv => RunningIsNotGraded
  BY <1>1 DEF RunningIsNotGraded
<1> QED  BY <1>2, SpecOwner, SpecClient, InitRegister, NextRegister, PTL DEF Spec

-------------------------------------------------------------------------------
(* What a query is shown.  Nothing enters waiting_pool while one is asked, *)
(* and an id is collected during a query only after it was being graded    *)
(* during it.                                                              *)

ShownNow == rest_id # NoID => StatusNow(rest_id) \in shown

ShownGrading ==
  (rest_pc \in {"ask_grading", "ask_waiting"} /\ Has(graded_pool, rest_id)) => "GRADING" \in shown

ShownMissing ==
  (rest_id # NoID /\ "NOT_EXISTS" \in shown) => ~Has(waiting_pool, rest_id)

ShownAtLast ==
  rest_pc = "ask_waiting" =>
    "WAITING" \in shown \/ "NOT_EXISTS" \in shown \/ {"GRADING", "GRADED"} \subseteq shown

Asking == {"ask_graded", "ask_grading", "ask_waiting"}

ShownInv ==
  /\ rest_id # NoID <=> rest_pc \in Asking
  /\ ShownNow /\ ShownGrading /\ ShownMissing /\ ShownAtLast

LEMMA InitShown == Init => ShownInv
  BY DEF Init, ShownInv, ShownNow, ShownGrading, ShownMissing, ShownAtLast, Asking

LEMMA SameShown ==
  ASSUME ShownInv, UNCHANGED <<rest_pc, rest_id, shown>>,
         \A id : /\ Has(waiting_pool', id) <=> Has(waiting_pool, id)
                 /\ Has(grading_pool', id) <=> Has(grading_pool, id)
                 /\ Has(graded_pool', id) <=> Has(graded_pool, id)
  PROVE  ShownInv'
  BY DEF ShownInv, ShownNow, ShownGrading, ShownMissing, ShownAtLast, StatusNow, StatusOf

(* A move of the scheduler.                                                *)
LEMMA MoveShown ==
  ASSUME ShownInv, UNCHANGED <<rest_pc, rest_id>>,
         Show(waiting_pool', grading_pool', graded_pool'),
         rest_id # NoID =>
           /\ Has(waiting_pool', rest_id) => Has(waiting_pool, rest_id)
           /\ Has(graded_pool', rest_id) =>
                Has(graded_pool, rest_id) \/ Has(grading_pool, rest_id)
  PROVE  ShownInv'
<1>1. CASE rest_id = NoID
  BY <1>1 DEF ShownInv, ShownNow, ShownGrading, ShownMissing, ShownAtLast, Show, Asking
<1>2. CASE rest_id # NoID
  <2> DEFINE now == StatusOf(rest_id, waiting_pool', grading_pool', graded_pool')
  <2>1. shown' = shown \cup {now}
    BY <1>2 DEF Show
  <2>2. StatusNow(rest_id)' = now
    BY DEF StatusNow
  <2>3. now = "NOT_EXISTS" => ~Has(waiting_pool', rest_id)
    BY DEF StatusOf
  <2>4. ShownGrading'
    <3>1. CASE Has(graded_pool, rest_id)
      BY <2>1, <3>1 DEF ShownInv, ShownGrading
    <3>2. CASE ~Has(graded_pool, rest_id)
      <4>1. Has(grading_pool, rest_id) => StatusNow(rest_id) = "GRADING"
        BY <3>2 DEF StatusNow, StatusOf
      <4> QED  BY <1>2, <2>1, <3>2, <4>1 DEF ShownInv, ShownNow, ShownGrading
    <3> QED  BY <3>1, <3>2
  <2> HIDE DEF now
  <2> QED
    BY <1>2, <2>1, <2>2, <2>3, <2>4 DEF ShownInv, ShownNow, ShownMissing, ShownAtLast
<1> QED  BY <1>1, <1>2

LEMMA MainShown == TypeInv /\ RegisterInv /\ ShownInv /\ Main => ShownInv'
<1> SUFFICES ASSUME TypeInv, RegisterInv, ShownInv, Main PROVE ShownInv'
  OBVIOUS
<1> USE IdOfAssumption
    DEF TypeInv, TypeOK, LoopVariables, NotNull, AtGrader, Holding, Collecting, Pointer, MainAt,
      schedulerFrame, mainVars, restVars
<1>0. rest_id # NoID => rest_id \in SubmissionID
  BY DEF ShownInv, Asking
<1>1. CASE CreateThread \/ EmplaceGrader \/ SetRunning \/ TestPoolStatus \/ TestTerminated
             \/ ReturnFromStart \/ ScanGrader \/ EndScan \/ Release \/ ReleaseWrite
             \/ TestIdle \/ GetFirstTest \/ GetFirstEmpty \/ HandOver \/ HandOverPointer
             \/ HandOverNew
  BY <1>1, SameShown
  DEF CreateThread, EmplaceGrader, SetRunning, TestPoolStatus, TestTerminated, ReturnFromStart,
    ScanGrader, EndScan, Release, ReleaseWrite, TestIdle, GetFirstTest, GetFirstEmpty, HandOver,
    HandOverPointer, HandOverNew, pools
<1>2. CASE GetFirstPop
  <2>1. \A id : Has(waiting_pool', id) <=> Has(waiting_pool, id)
    BY <1>2 DEF GetFirstPop, Pop, Has, Pool
  <2> QED  BY <1>2, <2>1, SameShown DEF GetFirstPop
<1>3. CASE Collect
  <2>1. grader_submission[main_at] \in Submission
    BY <1>3, NumGradersAssumption DEF Collect, Grader
  <2> DEFINE s == grader_submission[main_at]
  <2>2. Has(grading_pool, IdOf[s]) \/ Has(graded_pool, IdOf[s])
    BY <1>3, <2>1, NumGradersAssumption, NoSubmissionAssumption
    DEF Collect, Grader, RegisterInv, Registered, IsRegistered
  <2>3. \A id \in SubmissionID \ {IdOf[s]} : Has(graded_pool', id) => Has(graded_pool, id)
    <3>1. Push(graded_pool, s) \in Pool /\ Push(graded_pool, s).index = graded_pool.index
      BY <2>1, PushType DEF Push, Pool
    <3>2. graded_pool' = Insert(Push(graded_pool, s), s)
      BY <1>3 DEF Collect, Add
    <3> HIDE DEF s
    <3> QED  BY <2>1, <3>1, <3>2 DEF Insert, Has, Pool
  <2>4. /\ UNCHANGED <<rest_pc, rest_id, waiting_pool, grading_pool>>
        /\ Show(waiting_pool', grading_pool', graded_pool')
    BY <1>3 DEF Collect
  <2> HIDE DEF s
  <2> QED  BY <1>0, <2>2, <2>3, <2>4, MoveShown
<1>4. CASE Ungrade
  <2>1. /\ UNCHANGED <<rest_pc, rest_id, waiting_pool, graded_pool>>
        /\ Show(waiting_pool', grading_pool', graded_pool')
    BY <1>4 DEF Ungrade
  <2> QED  BY <2>1, MoveShown
<1>5. CASE StartGrading
  <2>1. /\ UNCHANGED <<rest_pc, rest_id, waiting_pool, graded_pool>>
        /\ Show(waiting_pool', grading_pool', graded_pool')
    BY <1>5 DEF StartGrading
  <2> QED  BY <2>1, MoveShown
<1>6. CASE Unqueue
  <2>1. /\ UNCHANGED <<rest_pc, rest_id, grading_pool, graded_pool>>
        /\ Show(waiting_pool', grading_pool', graded_pool')
        /\ waiting_pool' = Remove(waiting_pool, IdOf[main_sub])
    BY <1>6 DEF Unqueue
  <2>2. \A id \in SubmissionID : Has(waiting_pool', id) => Has(waiting_pool, id)
    BY <2>1 DEF Remove, Has, Pool
  <2> QED  BY <1>0, <2>1, <2>2, MoveShown
<1> QED  BY <1>1, <1>2, <1>3, <1>4, <1>5, <1>6 DEF Main

LEMMA RestShown == TypeInv /\ ShownInv /\ Rest => ShownInv'
<1> SUFFICES ASSUME TypeInv, ShownInv, Rest PROVE ShownInv'
  OBVIOUS
<1> USE DEF ShownInv, ShownNow, ShownGrading, ShownMissing, ShownAtLast, Asking, RestAt, restFrame
<1>1. ASSUME NEW s \in Submission, AddSubmission(s) PROVE ShownInv'
  BY <1>1 DEF AddSubmission
<1>2. CASE AddPush
  BY <1>2 DEF AddPush
<1>3. CASE AddInsert
  BY <1>3 DEF AddInsert
<1>4. ASSUME NEW id \in Queried, QueryStatus(id) PROVE ShownInv'
  <2>1. /\ rest_id' = id /\ rest_pc' = "ask_graded" /\ shown' = {StatusNow(id)}
        /\ UNCHANGED <<waiting_pool, grading_pool, graded_pool>>
    BY <1>4 DEF QueryStatus
  <2>2. id # NoID /\ StatusNow(id)' = StatusNow(id)
    BY <2>1, QueriedAssumption DEF StatusNow, StatusOf
  <2>3. StatusNow(id) = "NOT_EXISTS" => ~Has(waiting_pool, id)
    BY DEF StatusNow, StatusOf
  <2>4. ShownNow' /\ ShownMissing'
    BY <2>1, <2>2, <2>3 DEF StatusNow
  <2> QED  BY <2>1, <2>2, <2>4
<1>5. CASE QueryGraded
  <2>1. CASE Has(graded_pool, rest_id)
    BY <1>5, <2>1 DEF QueryGraded, Answer
  <2>2. CASE ~Has(graded_pool, rest_id)
    BY <1>5, <2>2 DEF QueryGraded, LookOn, StatusNow
  <2> QED  BY <2>1, <2>2
<1>6. CASE QueryGrading
  <2>1. CASE Has(grading_pool, rest_id)
    BY <1>6, <2>1 DEF QueryGrading, Answer
  <2>2. CASE ~Has(grading_pool, rest_id)
    <3>1. StatusNow(rest_id) \in {"GRADED", "WAITING", "NOT_EXISTS"}
          /\ (StatusNow(rest_id) = "GRADED" => Has(graded_pool, rest_id))
      BY <2>2 DEF StatusNow, StatusOf
    <3> QED  BY <1>6, <2>2, <3>1 DEF QueryGrading, LookOn, StatusNow
  <2> QED  BY <2>1, <2>2
<1>7. CASE QueryWaiting
  BY <1>7 DEF QueryWaiting, Answer
<1> QED
  BY <1>1, <1>2, <1>3, <1>4, <1>5, <1>6, <1>7 DEF Rest, RestProgress

LEMMA NextShown == TypeInv /\ RegisterInv /\ ShownInv /\ [Next]_vars => ShownInv'
<1> SUFFICES ASSUME TypeInv, RegisterInv, ShownInv, [Next]_vars PROVE ShownInv'
  OBVIOUS
<1> USE DEF pools, restVars
<1>1. ASSUME NEW g \in Grader, Worker(g) PROVE ShownInv'
  BY <1>1, SameShown
  DEF Worker, WorkerStart, WorkerReady, WorkerExit, WorkerSeesNew, WorkerBusy, WorkerDone, WorkerGoes
<1>2. CASE Kill \/ KillerProgress
  BY <1>2, SameShown
  DEF Kill, KillerProgress, AwaitNotBusy, SetTerminated, AllSignalled, JoinWorker, FinishKill,
    HandlerExit, killerFrame
<1>3. CASE UNCHANGED vars
  BY <1>3, SameShown DEF vars
<1> QED  BY MainShown, RestShown, <1>1, <1>2, <1>3 DEF Next

LEMMA SpecShown == Spec => [](TypeInv /\ ClientInv /\ RegisterInv /\ ShownInv)
  BY SpecClient, InitRegister, NextRegister, InitShown, NextShown, PTL DEF Spec

(* What a query answers was true at some moment while it was asked; only   *)
(* WAITING and NOT_EXISTS may not have been, and only if the scheduler has *)
(* begun or ended the grading of the id meanwhile (grader_pool.cpp:33-34,  *)
(* 40-41, 58-63).                                                          *)
THEOREM AnswersWereTrue == Spec => AnswerWasTrue
<1> DEFINE True ==
      (rest_id # NoID /\ rest_id' = NoID) =>
         \/ answer'[rest_id] \in shown
         \/ /\ answer'[rest_id] \in {"WAITING", "NOT_EXISTS"}
            /\ "GRADING" \in shown /\ shown # {"GRADING"}
<1>1. TypeInv /\ ShownInv /\ [Next]_vars => [True]_vars
  <2> SUFFICES ASSUME TypeInv, ShownInv, Next, rest_id # NoID, rest_id' = NoID PROVE True
    OBVIOUS
  <2>1. ~Main
    BY DEF Main, CreateThread, EmplaceGrader, SetRunning, TestPoolStatus, TestTerminated,
      ReturnFromStart, ScanGrader, EndScan, Collect, Ungrade, Release, ReleaseWrite, TestIdle,
      GetFirstPop, GetFirstTest, GetFirstEmpty, StartGrading, Unqueue, HandOver,
      HandOverPointer, HandOverNew, schedulerFrame, restVars
  <2>2. \A g \in Grader : ~Worker(g)
    BY DEF Worker, WorkerStart, WorkerReady, WorkerExit, WorkerSeesNew, WorkerBusy, WorkerDone,
      WorkerGoes, restVars
  <2>3. ~(Kill \/ KillerProgress)
    BY DEF Kill, KillerProgress, AwaitNotBusy, SetTerminated, AllSignalled, JoinWorker,
      FinishKill, HandlerExit, killerFrame, restVars
  <2>4. ~AddPush /\ ~AddInsert /\ \A s \in Submission : ~AddSubmission(s)
    BY DEF AddPush, AddInsert, AddSubmission
  <2>5. \A id \in Queried : ~QueryStatus(id)
    BY DEF QueryStatus, RestAt, ShownInv, Asking
  <2>6. QueryGraded \/ QueryGrading \/ QueryWaiting
    BY <2>1, <2>2, <2>3, <2>4, <2>5 DEF Next, Rest, RestProgress
  <2>7. /\ rest_id \in SubmissionID /\ StatusNow(rest_id) \in shown
        /\ \A status : answer' = [answer EXCEPT ![rest_id] = status] => answer'[rest_id] = status
    BY DEF TypeInv, TypeOK, NotNull, ShownInv, ShownNow, Asking
  <2>8. CASE QueryGraded
    <3>1. Has(graded_pool, rest_id) /\ answer' = [answer EXCEPT ![rest_id] = "GRADED"]
      BY <2>8 DEF QueryGraded, LookOn, Answer
    <3> QED  BY <2>7, <3>1 DEF StatusNow, StatusOf
  <2>9. CASE QueryGrading
    <3>1. /\ Has(grading_pool, rest_id) /\ answer' = [answer EXCEPT ![rest_id] = "GRADING"]
          /\ rest_pc = "ask_grading"
      BY <2>9 DEF QueryGrading, LookOn, Answer, RestAt
    <3>2. "GRADING" \in shown
      BY <2>7, <3>1 DEF StatusNow, StatusOf, ShownInv, ShownGrading
    <3> QED  BY <2>7, <3>1, <3>2
  <2>10. CASE QueryWaiting
    <3>1. rest_pc = "ask_waiting"
      BY <2>10 DEF QueryWaiting, RestAt
    <3>2. CASE Has(waiting_pool, rest_id)
      <4>1. answer'[rest_id] = "WAITING"
        BY <2>7, <2>10, <3>2 DEF QueryWaiting, Answer
      <4> QED  BY <3>1, <3>2, <4>1 DEF ShownInv, ShownMissing, ShownAtLast
    <3>3. CASE ~Has(waiting_pool, rest_id)
      <4>1. answer'[rest_id] = "NOT_EXISTS"
        BY <2>7, <2>10, <3>3 DEF QueryWaiting, Answer
      <4>2. StatusNow(rest_id) \in {"GRADED", "GRADING", "NOT_EXISTS"}
            /\ (StatusNow(rest_id) = "GRADED" => Has(graded_pool, rest_id))
        BY <3>3 DEF StatusNow, StatusOf
      <4> QED
        BY <2>7, <3>1, <4>1, <4>2 DEF ShownInv, ShownGrading, ShownAtLast
    <3> QED  BY <3>2, <3>3
  <2> QED  BY <2>6, <2>8, <2>9, <2>10
<1> QED  BY <1>1, SpecShown, PTL DEF Spec, AnswerWasTrue
===============================================================================
