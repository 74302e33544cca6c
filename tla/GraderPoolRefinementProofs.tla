---------------------- MODULE GraderPoolRefinementProofs ----------------------
(***************************************************************************)
(* What a grader holds while it is served and while its scripts run; from  *)
(* that, that a GraderPool implements JobPool; and who can go on while a   *)
(* submission is held or a kill waits.                                     *)
(***************************************************************************)
EXTENDS GraderPoolProofs

-------------------------------------------------------------------------------
(* A grader that is seen IDLE is free: it holds nothing, or what has been  *)
(* collected; and its worker stays in its loop, or leaves it, for as long  *)
(* as the scheduler serves it.  Only a killer can change its status then.  *)

Serving ==
  {"get_first", "get_first_test", "start_grading", "unqueue", "hand_over", "hand_over_write"}

Free(g) == grader_submission[g] \in Graded \cup {NoSubmission}

NotStarted ==
  \A g \in Grader : worker_pc[g] \in {"none", "start", "init"} =>
    grader_submission[g] = NoSubmission /\ grader_status[g] \in {"INIT", "TERMINATED"}

IdleIsFree ==
  /\ \A g \in Grader : grader_status[g] = "IDLE" =>
       /\ worker_pc[g] \in {"loop", "exited"}
       /\ Free(g) \/ (main_pc = "hand_over_new" /\ main_at = g)
  /\ \A g \in Grader : grader_status[g] = "TERMINATED" => killer_pc # "none"

ServedIsFree ==
  /\ main_pc \in Serving \cup {"hand_over_new"} =>
       /\ worker_pc[main_at] \in {"loop", "exited"}
       /\ grader_status[main_at] \in {"IDLE", "TERMINATED"}
  /\ main_pc \in Serving => Free(main_at)
  /\ main_pc \in {"ungrade", "release", "release_write"} => grader_submission[main_at] \in Graded

ServeInv == NotStarted /\ IdleIsFree /\ ServedIsFree

LEMMA InitServe == Init => ServeInv
  BY DEF Init, ServeInv, NotStarted, IdleIsFree, ServedIsFree, Serving, Free

LEMMA MainServe == TypeInv /\ ControlInv /\ ServeInv /\ Main => ServeInv'
<1> SUFFICES ASSUME TypeInv, ControlInv, ServeInv, Main PROVE ServeInv'
  OBVIOUS
<1> USE NumGradersAssumption
    DEF TypeInv, TypeOK, LoopVariables, NotNull, ControlInv, Joined, DoneIsLooping, ServeInv,
      NotStarted, IdleIsFree, ServedIsFree, Serving, Free, Graded, AtGrader, Collecting, Creating,
      Grader, MainAt, MainRuns, schedulerFrame, pools, mainVars, graderVars, killerVars
<1>1. CASE CreateThread
  BY <1>1 DEF CreateThread
<1>2. CASE EmplaceGrader
  BY <1>2 DEF EmplaceGrader
<1>3. CASE SetRunning
  BY <1>3 DEF SetRunning
<1>4. CASE TestPoolStatus
  BY <1>4 DEF TestPoolStatus
<1>5. CASE TestTerminated
  BY <1>5 DEF TestTerminated
<1>6. CASE ReturnFromStart
  BY <1>6 DEF ReturnFromStart
<1>7. CASE ScanGrader
  BY <1>7 DEF ScanGrader
<1>8. CASE EndScan
  BY <1>8 DEF EndScan
<1>9. CASE Collect
  <2>1. grader_submission[main_at] \in Submission
    BY <1>9 DEF Collect, Pointer
  <2>2. graded_pool'.order = Append(graded_pool.order, grader_submission[main_at])
    BY <1>9, <2>1, AddType DEF Collect
  <2>3. Graded' = Graded \cup {grader_submission[main_at]}
    BY <2>1, <2>2, RangeOfPool, RangeOfAppend
  <2> QED  BY <1>9, <2>3 DEF Collect
<1>10. CASE Ungrade
  BY <1>10 DEF Ungrade
<1>11. CASE Release
  BY <1>11 DEF Release
<1>12. CASE ReleaseWrite
  BY <1>12 DEF ReleaseWrite
<1>13. CASE TestIdle
  BY <1>13 DEF TestIdle, NextGrader
<1>14. CASE GetFirstPop
  BY <1>14 DEF GetFirstPop
<1>15. CASE GetFirstTest
  BY <1>15 DEF GetFirstTest
<1>16. CASE GetFirstEmpty
  BY <1>16 DEF GetFirstEmpty
<1>17. CASE StartGrading
  BY <1>17 DEF StartGrading
<1>18. CASE Unqueue
  BY <1>18 DEF Unqueue
<1>19. CASE HandOver
  BY <1>19 DEF HandOver, NextGrader
<1>20. CASE HandOverPointer
  BY <1>20 DEF HandOverPointer
<1>21. CASE HandOverNew
  BY <1>21 DEF HandOverNew, NextGrader
<1> QED
  BY <1>1, <1>2, <1>3, <1>4, <1>5, <1>6, <1>7, <1>8, <1>9, <1>10, <1>11, <1>12,
     <1>13, <1>14, <1>15, <1>16, <1>17, <1>18, <1>19, <1>20, <1>21 DEF Main

LEMMA WorkerServe ==
  ASSUME NEW g \in Grader, TypeInv, ServeInv, Worker(g)
  PROVE  ServeInv'
<1> USE DEF TypeInv, TypeOK, ServeInv, NotStarted, IdleIsFree, ServedIsFree, Serving, Free,
      Graded, WorkerAt, WorkerGoes, is_terminated, pools, mainVars, killerVars
<1>1. CASE WorkerStart(g)
  BY <1>1 DEF WorkerStart
<1>2. CASE WorkerReady(g)
  BY <1>2 DEF WorkerReady
<1>3. CASE WorkerExit(g)
  BY <1>3 DEF WorkerExit
<1>4. CASE WorkerSeesNew(g)
  BY <1>4 DEF WorkerSeesNew
<1>5. CASE WorkerBusy(g)
  BY <1>5 DEF WorkerBusy
<1>6. CASE WorkerDone(g)
  BY <1>6 DEF WorkerDone
<1> QED
  BY <1>1, <1>2, <1>3, <1>4, <1>5, <1>6 DEF Worker

LEMMA RestServe == ServeInv /\ Rest => ServeInv'
  BY DEF Rest, RestProgress, AddSubmission, AddPush, AddInsert, QueryStatus, QueryGraded,
    QueryGrading, QueryWaiting, restFrame, mainVars, graderVars, killerVars,
    ServeInv, NotStarted, IdleIsFree, ServedIsFree, Free, Graded

LEMMA KillerServe == TypeInv /\ ServeInv /\ (Kill \/ KillerProgress) => ServeInv'
<1> SUFFICES ASSUME TypeInv, ServeInv, Kill \/ KillerProgress PROVE ServeInv'
  OBVIOUS
<1> USE DEF TypeInv, TypeOK, ServeInv, NotStarted, IdleIsFree, ServedIsFree, Serving, Free, Graded,
      KillerAt, killerFrame, pools, mainVars, killerVars
<1>1. CASE Kill
  BY <1>1 DEF Kill
<1>2. CASE AwaitNotBusy
  BY <1>2 DEF AwaitNotBusy
<1>3. CASE SetTerminated
  BY <1>3 DEF SetTerminated
<1>4. CASE AllSignalled
  BY <1>4 DEF AllSignalled
<1>5. CASE JoinWorker
  BY <1>5 DEF JoinWorker
<1>6. CASE FinishKill
  BY <1>6 DEF FinishKill
<1>7. CASE HandlerExit
  BY <1>7 DEF HandlerExit
<1> QED
  BY <1>1, <1>2, <1>3, <1>4, <1>5, <1>6, <1>7 DEF KillerProgress

LEMMA StutterServe == ServeInv /\ UNCHANGED vars => ServeInv'
  BY DEF vars, ServeInv, NotStarted, IdleIsFree, ServedIsFree, Free, Graded, pools, mainVars,
    graderVars, killerVars

LEMMA NextServe == TypeInv /\ ControlInv /\ ServeInv /\ [Next]_vars => ServeInv'
  BY MainServe, WorkerServe, RestServe, KillerServe, StutterServe DEF Next

LEMMA SpecServe == Spec => [](TypeInv /\ ControlInv /\ OwnerInv /\ ServeInv)
  BY SpecOwner, InitServe, NextServe, PTL DEF Spec

(* What is collected at the end of a grading is what was handed over at    *)
(* its start, under every interleaving with a killer (grader.cpp:112-115). *)
THEOREM CollectedIsGraded == Spec => SubmissionIsStable
<1> DEFINE Stable ==
      \A g \in Grader : (worker_pc[g] = "grading" /\ worker_pc'[g] = "grading") =>
        grader_submission'[g] = grader_submission[g]
<1>1. TypeInv /\ ServeInv /\ [Next]_vars => [Stable]_vars
  <2> SUFFICES ASSUME TypeInv, ServeInv, Next PROVE Stable
    OBVIOUS
  <2>1. CASE HandOverPointer
    BY <2>1 DEF HandOverPointer, MainAt, TypeInv, TypeOK, ServeInv, ServedIsFree, Serving
  <2>2. CASE Main /\ ~HandOverPointer
    BY <2>2
    DEF Main, CreateThread, EmplaceGrader, SetRunning, TestPoolStatus, TestTerminated,
      ReturnFromStart, ScanGrader, EndScan, Collect, Ungrade, Release, ReleaseWrite, TestIdle,
      GetFirstPop, GetFirstTest, GetFirstEmpty, StartGrading, Unqueue, HandOver, HandOverNew,
      graderVars
  <2>3. ASSUME NEW g \in Grader, Worker(g) PROVE Stable
    BY <2>3
    DEF Worker, WorkerStart, WorkerReady, WorkerExit, WorkerSeesNew, WorkerBusy, WorkerDone, WorkerGoes
  <2>4. CASE Rest
    BY <2>4
    DEF Rest, RestProgress, AddSubmission, AddPush, AddInsert, QueryStatus, QueryGraded,
      QueryGrading, QueryWaiting, restFrame, graderVars
  <2>5. CASE Kill \/ KillerProgress
    BY <2>5
    DEF Kill, KillerProgress, AwaitNotBusy, SetTerminated, AllSignalled, JoinWorker, FinishKill,
      HandlerExit, killerFrame
  <2> QED  BY <2>1, <2>2, <2>3, <2>4, <2>5 DEF Next
<1> QED  BY <1>1, SpecServe, PTL DEF Spec, SubmissionIsStable

-------------------------------------------------------------------------------
(* Refinement: every step of the pool is a step of JobPool or changes      *)
(* nothing that JobPool sees.                                              *)

HandingOver == {"start_grading", "unqueue", "hand_over", "hand_over_write", "hand_over_new"}

LEMMA ConsTail ==
  ASSUME NEW S, NEW seq \in Seq(S), seq # <<>>
  PROVE  <<Head(seq)>> \o Tail(seq) = seq
<1>1. <<Head(seq)>> \o Tail(seq) \in Seq(S) /\ Len(<<Head(seq)>> \o Tail(seq)) = Len(seq)
  OBVIOUS
<1>2. \A i \in 1 .. Len(seq) : (<<Head(seq)>> \o Tail(seq))[i] = seq[i]
  OBVIOUS
<1> QED  BY <1>1, <1>2, SeqEqual

LEMMA ConsAppend ==
  ASSUME NEW S, NEW seq \in Seq(S), NEW x \in S, NEW y \in S
  PROVE  /\ <<x>> \o Append(seq, y) = Append(<<x>> \o seq, y)
         /\ <<x>> \o seq # <<>> /\ Head(<<x>> \o seq) = x /\ Tail(<<x>> \o seq) = seq
<1>1. /\ <<x>> \o Append(seq, y) \in Seq(S) /\ Append(<<x>> \o seq, y) \in Seq(S)
      /\ Len(<<x>> \o Append(seq, y)) = Len(Append(<<x>> \o seq, y))
  OBVIOUS
<1>2. \A i \in 1 .. Len(<<x>> \o Append(seq, y)) :
        (<<x>> \o Append(seq, y))[i] = Append(<<x>> \o seq, y)[i]
  OBVIOUS
<1>3. /\ Tail(<<x>> \o seq) \in Seq(S) /\ Len(Tail(<<x>> \o seq)) = Len(seq)
      /\ \A i \in 1 .. Len(seq) : Tail(<<x>> \o seq)[i] = seq[i]
      /\ <<x>> \o seq # <<>> /\ Head(<<x>> \o seq) = x
  OBVIOUS
<1> QED  BY <1>1, <1>2, <1>3, SeqEqual

JobStep == Jobs!Next \/ UNCHANGED Jobs!vars

(* The steps that move nothing JobPool sees.                               *)
MovesNoJob ==
  /\ UNCHANGED <<graded_pool, grader_submission, add_result, rest_pc, rest_sub>>
  /\ waiting_pool'.order = waiting_pool.order
  /\ \/ UNCHANGED <<main_pc, main_at, main_sub>>
     \/ /\ main_pc \notin HandingOver \cup {"get_first_test"}
        /\ main_pc' \notin HandingOver \cup {"get_first_test"}
     \/ /\ main_pc \in HandingOver /\ main_pc' \in HandingOver
        /\ UNCHANGED <<main_at, main_sub>>
  /\ killer_pc' # "none" <=> killer_pc # "none"

LEMMA SameJobs == MovesNoJob => JobStep
<1> SUFFICES ASSUME MovesNoJob PROVE UNCHANGED Jobs!vars
  BY DEF JobStep
<1>1. Pushed' = Pushed
  BY DEF MovesNoJob, Pushed
<1>2. PoppedQueue' = PoppedQueue
  BY DEF MovesNoJob, PoppedQueue, HandingOver
<1>3. \A g \in Grader : Held(g)' = Held(g)
  BY DEF MovesNoJob, Held, Handing, HandingOver
<1> QED  BY <1>1, <1>2, <1>3 DEF MovesNoJob, Jobs!vars

RefineInv == TypeInv /\ ControlInv /\ OwnerInv /\ ServeInv

LEMMA InitRefines == Init => Jobs!Init
<1> SUFFICES ASSUME Init PROVE Jobs!Init
  OBVIOUS
<1>1. Pushed = {} /\ PoppedQueue = <<>>
  BY DEF Init, Pushed, PoppedQueue, EmptyPool
<1>2. \A g \in Grader : Held(g) = NoSubmission
  BY DEF Init, Held, Handing
<1>3. graded_pool.order = <<>> /\ killer_pc = "none"
  BY DEF Init, EmptyPool
<1> QED  BY <1>1, <1>2, <1>3 DEF Jobs!Init

(* get_first decides about the submission it has popped.                   *)
LEMMA GetFirstRefines == RefineInv /\ (GetFirstPop \/ GetFirstTest) => JobStep
<1> SUFFICES ASSUME RefineInv, GetFirstPop \/ GetFirstTest PROVE JobStep
  OBVIOUS
<1> USE DEF RefineInv, TypeInv, TypeOK, LoopVariables, NotNull, AtGrader, Holding, Pointer, Grader,
      MainAt, schedulerFrame, restVars, killerVars
<1>0. /\ Pushed' = Pushed
      /\ UNCHANGED <<graded_pool.order, killer_pc, grader_submission>>
  BY DEF GetFirstPop, GetFirstTest, Pushed, pools, graderVars
<1>1. CASE GetFirstPop
  <2>1. waiting_pool.order \in Seq(Submission)
    BY RangeOfPool
  <2>2. PoppedQueue' = PoppedQueue
    BY <1>1, <2>1, PopType, ConsTail DEF GetFirstPop, PoppedQueue
  <2>3. \A g \in Grader : Held(g)' = Held(g)
    BY <1>1 DEF GetFirstPop, Held, Handing, graderVars
  <2> QED  BY <1>0, <2>2, <2>3 DEF JobStep, Jobs!vars
<1>2. CASE GetFirstTest
  <2>1. main_sub \in Submission /\ waiting_pool.order \in Seq(Submission)
    BY <1>2, RangeOfPool DEF GetFirstTest
  <2>2. /\ PoppedQueue # <<>> /\ Head(PoppedQueue) = main_sub
        /\ PoppedQueue' = Tail(PoppedQueue)
    BY <1>2, <2>1, ConsAppend DEF GetFirstTest, PoppedQueue, pools
  <2>3. CASE Has(waiting_pool, IdOf[main_sub])
    <3>1. \A g \in Grader : Held(g)' = Held(g)
      BY <1>2, <2>3 DEF GetFirstTest, Held, Handing, pools, graderVars
    <3> QED  BY <1>0, <2>2, <3>1 DEF JobStep, Jobs!Next, Jobs!Discard
  <2>4. CASE ~Has(waiting_pool, IdOf[main_sub])
    <3>1. main_at \in Grader
      BY <1>2, NumGradersAssumption DEF GetFirstTest
    <3>2. Held(main_at) = NoSubmission
      BY <1>2 DEF GetFirstTest, Held, Handing, ServeInv, ServedIsFree, Serving, Free, Graded
    <3>3. \A g \in Grader : Held(g)' = IF g = main_at THEN main_sub ELSE Held(g)
      BY <1>2, <2>4 DEF GetFirstTest, Held, Handing, pools, graderVars
    <3>4. Jobs!Assign(main_at)
      BY <1>0, <2>2, <3>1, <3>2, <3>3 DEF Jobs!Assign
    <3> QED  BY <3>1, <3>4 DEF JobStep, Jobs!Next
  <2> QED  BY <2>3, <2>4
<1> QED  BY <1>1, <1>2

(* A grader a killer has TERMINATED drops the submission it is handed.     *)
LEMMA HandOverRefines == RefineInv /\ (HandOver \/ HandOverPointer \/ HandOverNew) => JobStep
<1> SUFFICES ASSUME RefineInv, HandOver \/ HandOverPointer \/ HandOverNew PROVE JobStep
  OBVIOUS
<1> USE DEF RefineInv, TypeInv, TypeOK, LoopVariables, NotNull, AtGrader, Holding, Pointer, Grader,
      MainAt, schedulerFrame, pools, restVars, killerVars
<1>0. /\ main_at \in Grader
      /\ Pushed' = Pushed /\ PoppedQueue' = PoppedQueue
      /\ UNCHANGED <<graded_pool.order, killer_pc>>
  BY NumGradersAssumption DEF HandOver, HandOverPointer, HandOverNew, NextGrader, Pushed, PoppedQueue
<1>1. CASE HandOver /\ grader_status[main_at] = "IDLE"
  BY <1>1, SameJobs DEF MovesNoJob, HandOver, HandingOver, graderVars
<1>2. CASE HandOver /\ grader_status[main_at] # "IDLE"
  <2>1. killer_pc # "none"
    BY <1>0, <1>2 DEF HandOver, ServeInv, ServedIsFree, IdleIsFree, Serving
  <2>2. \A g \in Grader : Held(g)' = IF g = main_at THEN NoSubmission ELSE Held(g)
    BY <1>2
    DEF HandOver, NextGrader, Held, Handing, graderVars, ServeInv, ServedIsFree, Serving, Free, Graded
  <2>3. Jobs!Abandon(main_at)
    BY <1>0, <2>1, <2>2 DEF Jobs!Abandon
  <2> QED  BY <1>0, <2>3 DEF JobStep, Jobs!Next
<1>3. CASE HandOverPointer
  <2>1. \A g \in Grader : Held(g)' = Held(g)
    BY <1>3 DEF HandOverPointer, Held, Handing
  <2> QED  BY <1>0, <2>1 DEF JobStep, Jobs!vars
<1>4. CASE HandOverNew
  <2>1. \A g \in Grader : Held(g)' = Held(g)
    BY <1>4
    DEF HandOverNew, NextGrader, Held, Handing, OwnerInv, GradedApart, Graded
  <2> QED  BY <1>0, <2>1 DEF JobStep, Jobs!vars
<1> QED  BY <1>1, <1>2, <1>3, <1>4

LEMMA CollectRefines == RefineInv /\ Collect => JobStep
<1> SUFFICES ASSUME RefineInv, Collect PROVE JobStep
  OBVIOUS
<1> USE DEF RefineInv, TypeInv, TypeOK, LoopVariables, NotNull, AtGrader, Collecting, Pointer, Grader,
      Collect, MainAt, schedulerFrame, restVars, killerVars, graderVars
<1>1. main_at \in Grader /\ grader_submission[main_at] \in Submission
  BY NumGradersAssumption
<1>2. Held(main_at) = grader_submission[main_at]
  BY <1>1 DEF Held, Handing, OwnerInv, GradedApart, Uncollected, Graded
<1>3. graded_pool'.order = Append(graded_pool.order, Held(main_at))
  BY <1>1, <1>2, AddType
<1>4. Graded' = Graded \cup {grader_submission[main_at]}
  BY <1>1, <1>2, <1>3, RangeOfPool, RangeOfAppend DEF Graded
<1>5. \A g \in Grader : Held(g)' = IF g = main_at THEN NoSubmission ELSE Held(g)
  BY <1>1, <1>4, NoSubmissionAssumption DEF Held, Handing, Graded, OwnerInv, OnePlace, AtMostOneGrader
<1>6. Pushed' = Pushed /\ PoppedQueue' = PoppedQueue /\ killer_pc' = killer_pc
  BY DEF Pushed, PoppedQueue
<1>7. Jobs!Finish(main_at)
  BY <1>1, <1>2, <1>3, <1>5, <1>6, NoSubmissionAssumption DEF Jobs!Finish
<1> QED  BY <1>1, <1>7 DEF JobStep, Jobs!Next

LEMMA MainRefines == RefineInv /\ Main => JobStep
<1> SUFFICES ASSUME RefineInv, Main PROVE JobStep
  OBVIOUS
<1> USE DEF HandingOver, MainAt, schedulerFrame, pools, mainVars, graderVars, restVars, killerVars
<1>1. CASE CreateThread \/ EmplaceGrader \/ SetRunning \/ TestPoolStatus \/ TestTerminated
             \/ ReturnFromStart \/ ScanGrader \/ EndScan \/ Ungrade \/ Release \/ ReleaseWrite
             \/ TestIdle \/ GetFirstEmpty \/ StartGrading
  BY <1>1, SameJobs
  DEF MovesNoJob, CreateThread, EmplaceGrader, SetRunning, TestPoolStatus, TestTerminated, ReturnFromStart,
    ScanGrader, EndScan, Ungrade, Release, ReleaseWrite, TestIdle, NextGrader, GetFirstEmpty,
    StartGrading
<1>2. CASE Unqueue
  <2>1. main_sub \in Submission /\ waiting_pool \in Pool
    BY <1>2 DEF Unqueue, RefineInv, TypeInv, TypeOK, NotNull, Holding, Pointer
  <2>2. waiting_pool'.order = waiting_pool.order
    BY <1>2, <2>1, RemoveType, IdOfAssumption DEF Unqueue
  <2> QED  BY <1>2, <2>2, SameJobs DEF MovesNoJob, Unqueue
<1> QED
  BY <1>1, <1>2, GetFirstRefines, HandOverRefines, CollectRefines DEF Main

LEMMA RestRefines == RefineInv /\ Rest => JobStep
<1> SUFFICES ASSUME RefineInv, Rest PROVE JobStep
  OBVIOUS
<1> USE DEF RefineInv, TypeInv, TypeOK, NotNull, Pointer, RestAt, restFrame, mainVars, graderVars, killerVars
<1>0. /\ UNCHANGED <<graded_pool.order, killer_pc, grader_submission, main_pc, main_at, main_sub>>
      /\ \A g \in Grader : Held(g)' = Held(g)
  BY DEF Rest, RestProgress, AddSubmission, AddPush, AddInsert, QueryStatus, QueryGraded,
    QueryGrading, QueryWaiting, Held, Handing
<1>1. CASE AddPush
  <2>1. /\ rest_sub \in Submission /\ rest_sub \notin Pushed
        /\ Pushed' = Pushed \cup {rest_sub}
    BY <1>1 DEF AddPush, Pushed, OwnerInv, FreshIsNowhere
  <2>2. /\ waiting_pool.order \in Seq(Submission)
        /\ waiting_pool'.order = Append(waiting_pool.order, rest_sub)
    BY <1>1, <2>1, PushType, RangeOfPool DEF AddPush
  <2>3. main_pc = "get_first_test" => main_sub \in Submission
    BY DEF Holding
  <2>4. PoppedQueue' = Append(PoppedQueue, rest_sub)
    BY <1>0, <2>1, <2>2, <2>3, ConsAppend DEF PoppedQueue
  <2>5. Jobs!Submit(rest_sub)
    BY <1>0, <2>1, <2>4 DEF Jobs!Submit
  <2> QED  BY <2>1, <2>5 DEF JobStep, Jobs!Next
<1>2. ASSUME Pushed' = Pushed, waiting_pool'.order = waiting_pool.order PROVE JobStep
  BY <1>0, <1>2 DEF JobStep, Jobs!vars, PoppedQueue
<1>3. CASE AddInsert
  BY <1>2, <1>3, InsertType DEF AddInsert, Pushed
<1>4. ASSUME NEW s \in Submission, AddSubmission(s) PROVE JobStep
  BY <1>2, <1>4 DEF AddSubmission, Pushed
<1>5. CASE \/ QueryGraded \/ QueryGrading \/ QueryWaiting
           \/ \E id \in Queried : QueryStatus(id)
  BY <1>2, <1>5 DEF QueryStatus, QueryGraded, QueryGrading, QueryWaiting, LookOn, Answer, Pushed
<1> QED  BY <1>1, <1>3, <1>4, <1>5 DEF Rest, RestProgress

LEMMA KillerRefines == Kill \/ KillerProgress => JobStep
<1> SUFFICES ASSUME Kill \/ KillerProgress PROVE JobStep
  OBVIOUS
<1> USE DEF KillerAt, killerFrame, pools, mainVars, restVars, killerVars
<1>1. CASE Kill
  <2>1. Pushed' = Pushed /\ PoppedQueue' = PoppedQueue /\ \A g \in Grader : Held(g)' = Held(g)
    BY <1>1 DEF Kill, Pushed, PoppedQueue, Held, Handing
  <2>2. graded_pool'.order = graded_pool.order /\ killer_pc' # "none"
    BY <1>1 DEF Kill
  <2> QED  BY <2>1, <2>2 DEF JobStep, Jobs!Next, Jobs!Stop
<1>2. CASE KillerProgress
  BY <1>2, SameJobs
  DEF MovesNoJob, KillerProgress, AwaitNotBusy, SetTerminated, AllSignalled, JoinWorker, FinishKill, HandlerExit
<1> QED  BY <1>1, <1>2

LEMMA NextRefines == RefineInv /\ [Next]_vars => [Jobs!Next]_Jobs!vars
<1> SUFFICES ASSUME RefineInv, [Next]_vars PROVE JobStep
  BY DEF JobStep
<1>1. ASSUME NEW g \in Grader, Worker(g) PROVE JobStep
  BY <1>1, SameJobs
  DEF MovesNoJob, Worker, WorkerStart, WorkerReady, WorkerExit, WorkerSeesNew, WorkerBusy, WorkerDone, WorkerGoes,
    pools, mainVars, restVars, killerVars
<1>2. CASE UNCHANGED vars
  BY <1>2, SameJobs DEF MovesNoJob, vars, pools, mainVars, graderVars, restVars, killerVars
<1> QED  BY MainRefines, RestRefines, KillerRefines, <1>1, <1>2 DEF Next

(* The pool with its threads is a JobPool: a submission is queued once,    *)
(* leaves the queue in order of arrival, is given to one free grader and   *)
(* finished by it once, and abandoned only by a kill (grader_pool.cpp,     *)
(* grader.cpp and submission_pool.cpp as a whole).                         *)
THEOREM PoolImplementsJobPool == Spec => ImplementsJobPool
<1>1. Spec => []RefineInv
  BY SpecServe, PTL DEF RefineInv
<1> QED  BY <1>1, InitRefines, NextRefines, PTL DEF Spec, ImplementsJobPool, Jobs!Spec

-------------------------------------------------------------------------------
(* What the liveness of the pool rests on, without fairness.               *)

(* A grader in the vector has a thread; before its worker is ready it is   *)
(* INIT, and BUSY only while its scripts run; nobody passes the end of the *)
(* vector.                                                                 *)
ThreadInv ==
  /\ \A g \in Grader : g < graders => worker_pc[g] # "none"
  /\ main_pc = "emplace" => worker_pc[graders] # "none"
  /\ killer_at <= graders
  /\ \A g \in Grader :
       /\ grader_status[g] = "INIT" => worker_pc[g] \in {"none", "start", "init"}
       /\ grader_status[g] = "BUSY" => worker_pc[g] = "grading"
       /\ killer_pc = "none" =>
            /\ grader_status[g] = "NEW" => worker_pc[g] \in {"loop", "new"}
            /\ worker_pc[g] = "new" => grader_status[g] = "NEW"
            /\ worker_pc[g] = "grading" => grader_status[g] = "BUSY"
            /\ grader_status[g] = "IDLE" => worker_pc[g] = "loop"

WorkerCanGo(g) ==
  \/ worker_pc[g] \in {"start", "init", "new", "grading"}
  \/ worker_pc[g] = "loop" /\ grader_status[g] \in {"NEW", "TERMINATED"}

KillerCanGo ==
  \/ killer_pc = "terminate" /\ (killer_at = graders \/ grader_status[killer_at] # "BUSY")
  \/ killer_pc = "set_terminated"
  \/ killer_pc = "join" /\ (killer_at = graders \/ worker_pc[killer_at] = "exited")

(* signal(KILL) waits for a grader that can go on, or joins a worker whose *)
(* TERMINATED somebody has overwritten.                                    *)
KillGoesOn ==
  (process = "up" /\ killer_pc \in {"terminate", "set_terminated", "join"}) =>
    \/ KillerCanGo
    \/ killer_at < graders /\ WorkerCanGo(killer_at)
    \/ killer_at < graders /\ killer_pc = "join" /\ ~is_terminated(killer_at)

(* The steps of a grading: from IDLE, when the scheduler has written the   *)
(* pointer and not yet NEW, to DONE, when it can collect it.               *)
HoldRank(g) ==
  CASE grader_status[g] = "IDLE" -> 5
    [] grader_status[g] = "NEW"  -> IF worker_pc[g] = "loop" THEN 4 ELSE 3
    [] grader_status[g] = "BUSY" -> 2
    [] OTHER                     -> 1

Holds(g) == grader_submission[g] \in Submission \ Graded

(* While nobody kills, a grader keeps a submission until it is graded,     *)
(* every step of its worker brings it nearer to that, and nobody's step    *)
(* takes it back.                                                          *)
HeldGoesForward ==
  \A g \in Grader : (Holds(g) /\ killer_pc = "none") =>
    /\ grader_submission'[g] = grader_submission[g]
    /\ \/ grader_submission[g] \in Graded'
       \/ HoldRank(g)' < HoldRank(g)
       \/ HoldRank(g)' = HoldRank(g) /\ ~Worker(g)

(* A held submission is in the hands of somebody who can go on: its worker, *)
(* or the scheduler, who has still to write NEW or will find it DONE.      *)
HeldIsInHand ==
  \A g \in Grader : (Holds(g) /\ killer_pc = "none") =>
    \/ WorkerCanGo(g)
    \/ main_pc = "hand_over_new" /\ main_at = g
    \/ grader_status[g] = "DONE"

LEMMA InitThread == Init => ThreadInv
  BY NumGradersAssumption DEF Init, ThreadInv, Grader

LEMMA MainThread == TypeInv /\ ControlInv /\ ServeInv /\ ThreadInv /\ Main => ThreadInv'
<1> SUFFICES ASSUME TypeInv, ControlInv, ServeInv, ThreadInv, Main PROVE ThreadInv'
  OBVIOUS
<1> USE NumGradersAssumption
    DEF TypeInv, TypeOK, LoopVariables, ControlInv, DoneIsLooping, ServeInv, IdleIsFree,
      ServedIsFree, Serving, ThreadInv, AtGrader, Collecting, Creating, Grader, MainAt, MainRuns,
      schedulerFrame, mainVars, graderVars, killerVars
<1>1. CASE CreateThread
  BY <1>1 DEF CreateThread
<1>2. CASE EmplaceGrader
  BY <1>2 DEF EmplaceGrader
<1>3. CASE ReleaseWrite
  BY <1>3 DEF ReleaseWrite
<1>4. CASE HandOverNew
  BY <1>4 DEF HandOverNew, NextGrader
<1>5. CASE \/ SetRunning \/ TestPoolStatus \/ TestTerminated \/ ReturnFromStart
           \/ ScanGrader \/ EndScan \/ Collect \/ Ungrade \/ Release \/ TestIdle
           \/ GetFirstPop \/ GetFirstTest \/ GetFirstEmpty \/ StartGrading \/ Unqueue
           \/ HandOver \/ HandOverPointer
  <2>1. /\ UNCHANGED <<graders, worker_pc, killer_pc, killer_at, grader_status>>
        /\ main_pc' = main_pc \/ main_pc' # "emplace"
    BY <1>5
    DEF SetRunning, TestPoolStatus, TestTerminated, ReturnFromStart, ScanGrader, EndScan,
      Collect, Ungrade, Release, TestIdle, NextGrader, GetFirstPop, GetFirstTest,
      GetFirstEmpty, StartGrading, Unqueue, HandOver, HandOverPointer
  <2> QED  BY <2>1
<1> QED  BY <1>1, <1>2, <1>3, <1>4, <1>5 DEF Main

LEMMA WorkerThread ==
  ASSUME NEW g \in Grader, TypeInv, ServeInv, ThreadInv, Worker(g)
  PROVE  ThreadInv'
<1> USE DEF TypeInv, TypeOK, ServeInv, NotStarted, IdleIsFree, ThreadInv, WorkerAt, WorkerGoes,
      is_terminated, mainVars, killerVars
<1>1. CASE WorkerStart(g)
  BY <1>1 DEF WorkerStart
<1>2. CASE WorkerReady(g)
  BY <1>2 DEF WorkerReady
<1>3. CASE WorkerExit(g)
  BY <1>3 DEF WorkerExit
<1>4. CASE WorkerSeesNew(g)
  BY <1>4 DEF WorkerSeesNew
<1>5. CASE WorkerBusy(g)
  BY <1>5 DEF WorkerBusy
<1>6. CASE WorkerDone(g)
  BY <1>6 DEF WorkerDone
<1> QED
  BY <1>1, <1>2, <1>3, <1>4, <1>5, <1>6 DEF Worker

LEMMA RestThread == ThreadInv /\ Rest => ThreadInv'
  BY DEF Rest, RestProgress, AddSubmission, AddPush, AddInsert, QueryStatus, QueryGraded,
    QueryGrading, QueryWaiting, restFrame, mainVars, graderVars, killerVars, ThreadInv

LEMMA KillerThread == TypeInv /\ ThreadInv /\ (Kill \/ KillerProgress) => ThreadInv'
<1> SUFFICES ASSUME TypeInv, ThreadInv, Kill \/ KillerProgress PROVE ThreadInv'
  OBVIOUS
<1> USE NumGradersAssumption
    DEF TypeInv, TypeOK, LoopVariables, ThreadInv, KillerAt, killerFrame, mainVars, killerVars
<1>1. CASE Kill
  BY <1>1 DEF Kill
<1>2. CASE AwaitNotBusy
  BY <1>2 DEF AwaitNotBusy
<1>3. CASE SetTerminated
  BY <1>3 DEF SetTerminated
<1>4. CASE AllSignalled
  BY <1>4 DEF AllSignalled
<1>5. CASE JoinWorker
  BY <1>5 DEF JoinWorker
<1>6. CASE FinishKill
  BY <1>6 DEF FinishKill
<1>7. CASE HandlerExit
  BY <1>7 DEF HandlerExit
<1> QED
  BY <1>1, <1>2, <1>3, <1>4, <1>5, <1>6, <1>7 DEF KillerProgress

LEMMA StutterThread == ThreadInv /\ UNCHANGED vars => ThreadInv'
  BY DEF vars, ThreadInv, mainVars, graderVars, killerVars

LEMMA NextThread == TypeInv /\ ControlInv /\ ServeInv /\ ThreadInv /\ [Next]_vars => ThreadInv'
  BY MainThread, WorkerThread, RestThread, KillerThread, StutterThread DEF Next

LEMMA SpecThread == Spec => [](TypeInv /\ ControlInv /\ OwnerInv /\ ServeInv /\ ThreadInv)
  BY SpecServe, InitThread, NextThread, PTL DEF Spec

(* What KillEnds rests on: signal(KILL) never waits for a grader that      *)
(* cannot go on, but for one whose TERMINATED was overwritten              *)
(* (grader.cpp:71-79, grader_pool.cpp:114-122).                            *)
THEOREM KillWaitsForRunners == Spec => []KillGoesOn
<1>1. TypeInv /\ ThreadInv => KillGoesOn
  <2> SUFFICES ASSUME TypeInv, ThreadInv, ~KillerCanGo,
                      killer_pc \in {"terminate", "set_terminated", "join"}
               PROVE  /\ killer_at < graders
                      /\ WorkerCanGo(killer_at) \/ (killer_pc = "join" /\ ~is_terminated(killer_at))
    BY DEF KillGoesOn
  <2>1. killer_at < graders /\ killer_at \in Grader
    BY NumGradersAssumption DEF TypeInv, TypeOK, ThreadInv, KillerCanGo, Grader
  <2>2. CASE killer_pc = "terminate"
    BY <2>1, <2>2 DEF KillerCanGo, ThreadInv, WorkerCanGo
  <2>3. CASE killer_pc = "join"
    <3>1. worker_pc[killer_at] \in {"start", "init", "loop", "new", "grading"}
      BY <2>1, <2>3 DEF KillerCanGo, ThreadInv, TypeInv, TypeOK
    <3> QED  BY <2>1, <2>3, <3>1 DEF WorkerCanGo, is_terminated
  <2> QED  BY <2>1, <2>2, <2>3 DEF KillerCanGo
<1> QED  BY <1>1, SpecThread, PTL

(* Until a submission that is held is graded, its worker can go on, or the *)
(* scheduler has it in hand (grader.cpp:45-53, 108-119).                   *)
LEMMA HeldInHand == TypeInv /\ ServeInv /\ ThreadInv => HeldIsInHand
<1> SUFFICES ASSUME TypeInv, ServeInv, ThreadInv, NEW g \in Grader, Holds(g), killer_pc = "none",
                    ~WorkerCanGo(g), grader_status[g] # "DONE"
             PROVE  main_pc = "hand_over_new" /\ main_at = g
  BY DEF HeldIsInHand
<1>1. grader_submission[g] # NoSubmission /\ ~Free(g)
  BY NoSubmissionAssumption DEF Holds, Free
<1>2. grader_status[g] \in {"INIT", "IDLE", "NEW", "BUSY"}
  BY DEF TypeInv, TypeOK, GRADER_STATUS, ServeInv, IdleIsFree
<1>3. grader_status[g] = "IDLE"
  BY <1>1, <1>2 DEF ServeInv, NotStarted, ThreadInv, WorkerCanGo
<1> QED  BY <1>1, <1>3 DEF ServeInv, IdleIsFree

(* Steps that touch no status, no pointer and no worker.                   *)
LEMMA HeldAsBefore ==
  ASSUME NEW g \in Grader, UNCHANGED <<graderVars, worker_pc>>, ~Worker(g)
  PROVE  /\ grader_submission'[g] = grader_submission[g]
         /\ HoldRank(g)' = HoldRank(g) /\ ~Worker(g)
  BY DEF graderVars, HoldRank

LEMMA MainHeld ==
  ASSUME TypeInv, ControlInv, ServeInv, ThreadInv, Main,
         NEW g \in Grader, Holds(g), killer_pc = "none"
  PROVE  /\ grader_submission'[g] = grader_submission[g]
         /\ \/ grader_submission[g] \in Graded'
            \/ HoldRank(g)' < HoldRank(g)
            \/ HoldRank(g)' = HoldRank(g) /\ ~Worker(g)
<1>0. ~Free(g) /\ worker_pc[g] \notin {"none", "start", "init"}
  BY NoSubmissionAssumption DEF Holds, Free, ServeInv, NotStarted
<1> USE DEF TypeInv, TypeOK, LoopVariables, AtGrader, Grader, MainAt, MainRuns, schedulerFrame
<1>1. CASE CreateThread
  <2>1. ~Worker(g)
    BY <1>1
    DEF CreateThread, Worker, WorkerStart, WorkerReady, WorkerExit, WorkerSeesNew, WorkerBusy,
      WorkerDone, WorkerGoes, mainVars
  <2>2. g # graders
    BY <1>0, <1>1 DEF CreateThread, ControlInv, DoneIsLooping
  <2> QED  BY <1>1, <2>1, <2>2 DEF CreateThread, graderVars, HoldRank
<1>2. CASE ReleaseWrite
  <2>1. g # main_at
    BY <1>0, <1>2 DEF ReleaseWrite, ServeInv, ServedIsFree, Free
  <2>2. ~Worker(g)
    BY <1>2
    DEF ReleaseWrite, Worker, WorkerStart, WorkerReady, WorkerExit, WorkerSeesNew, WorkerBusy,
      WorkerDone, WorkerGoes, mainVars
  <2> QED  BY <1>2, <2>1, <2>2 DEF ReleaseWrite, HoldRank
<1>3. CASE HandOverPointer
  <2>1. g # main_at
    BY <1>0, <1>3 DEF HandOverPointer, ServeInv, ServedIsFree, Serving
  <2>2. ~Worker(g)
    BY <1>3
    DEF HandOverPointer, Worker, WorkerStart, WorkerReady, WorkerExit, WorkerSeesNew, WorkerBusy,
      WorkerDone, WorkerGoes, mainVars
  <2> QED  BY <1>3, <2>1, <2>2 DEF HandOverPointer, HoldRank
<1>4. CASE HandOverNew
  <2>1. ~Worker(g)
    BY <1>4
    DEF HandOverNew, NextGrader, Worker, WorkerStart, WorkerReady, WorkerExit, WorkerSeesNew,
      WorkerBusy, WorkerDone, WorkerGoes, mainVars
  <2>2. CASE g = main_at
    <3>1. grader_status[g] = "IDLE" /\ worker_pc[g] = "loop"
      BY <1>4, <2>2 DEF HandOverNew, ServeInv, ServedIsFree, IdleIsFree, ThreadInv
    <3>2. grader_status'[g] = "NEW" /\ UNCHANGED <<worker_pc, grader_submission>>
      BY <1>4, <2>2 DEF HandOverNew
    <3> QED  BY <3>1, <3>2 DEF HoldRank
  <2>3. CASE g # main_at
    BY <1>4, <2>1, <2>3 DEF HandOverNew, HoldRank
  <2> QED  BY <2>2, <2>3
<1>5. CASE Collect
  <2>1. grader_submission[main_at] \in Submission
    BY <1>5, NumGradersAssumption DEF Collect, NotNull, Collecting, Pointer
  <2>2. graded_pool'.order = Append(graded_pool.order, grader_submission[main_at])
    BY <1>5, <2>1, AddType DEF Collect
  <2>3. Graded' = Graded \cup {grader_submission[main_at]}
    BY <2>1, <2>2, RangeOfPool, RangeOfAppend DEF Graded
  <2>4. ~Worker(g)
    BY <1>5
    DEF Collect, Worker, WorkerStart, WorkerReady, WorkerExit, WorkerSeesNew, WorkerBusy,
      WorkerDone, WorkerGoes, mainVars
  <2> QED  BY <1>5, <2>4, HeldAsBefore DEF Collect
<1>6. CASE \/ EmplaceGrader \/ SetRunning \/ TestPoolStatus \/ TestTerminated \/ ReturnFromStart
           \/ ScanGrader \/ EndScan \/ Ungrade \/ Release \/ TestIdle
           \/ GetFirstPop \/ GetFirstTest \/ GetFirstEmpty \/ StartGrading \/ Unqueue \/ HandOver
  <2>1. UNCHANGED <<graderVars, worker_pc>>
    BY <1>6
    DEF EmplaceGrader, SetRunning, TestPoolStatus, TestTerminated, ReturnFromStart, ScanGrader,
      EndScan, Ungrade, Release, TestIdle, NextGrader, GetFirstPop, GetFirstTest, GetFirstEmpty,
      StartGrading, Unqueue, HandOver
  <2>2. ~Worker(g)
    BY <2>1
    DEF Worker, WorkerStart, WorkerReady, WorkerExit, WorkerSeesNew, WorkerBusy, WorkerDone,
      WorkerGoes, WorkerAt
  <2> QED  BY <2>1, <2>2, HeldAsBefore
<1> QED  BY <1>1, <1>2, <1>3, <1>4, <1>5, <1>6 DEF Main

LEMMA WorkerHeld ==
  ASSUME TypeInv, ServeInv, ThreadInv, NEW h \in Grader, Worker(h),
         NEW g \in Grader, Holds(g), killer_pc = "none"
  PROVE  /\ grader_submission'[g] = grader_submission[g]
         /\ \/ HoldRank(g)' < HoldRank(g)
            \/ HoldRank(g)' = HoldRank(g) /\ ~Worker(g)
<1>0. worker_pc[g] \notin {"none", "start", "init"} /\ grader_status[g] # "TERMINATED"
  BY NoSubmissionAssumption DEF Holds, ServeInv, NotStarted, IdleIsFree
<1>1. UNCHANGED grader_submission
  BY DEF Worker, WorkerStart, WorkerReady, WorkerExit, WorkerSeesNew, WorkerBusy, WorkerDone,
    WorkerGoes
<1> USE DEF TypeInv, TypeOK, WorkerAt, WorkerGoes
<1>2. CASE h # g
  <2>1. worker_pc'[h] # worker_pc[h] /\ worker_pc'[g] = worker_pc[g]
        /\ grader_status'[g] = grader_status[g]
    BY <1>2
    DEF Worker, WorkerStart, WorkerReady, WorkerExit, WorkerSeesNew, WorkerBusy, WorkerDone
  <2>2. ~Worker(g)
    BY <1>2, <2>1
    DEF Worker, WorkerStart, WorkerReady, WorkerExit, WorkerSeesNew, WorkerBusy, WorkerDone
  <2> QED  BY <1>1, <2>1, <2>2 DEF HoldRank
<1>3. CASE h = g
  <2>1. CASE WorkerSeesNew(g)
    BY <1>1, <2>1 DEF WorkerSeesNew, HoldRank
  <2>2. CASE WorkerBusy(g)
    BY <1>1, <2>2 DEF WorkerBusy, HoldRank, ThreadInv
  <2>3. CASE WorkerDone(g)
    BY <1>1, <2>3 DEF WorkerDone, HoldRank, ThreadInv
  <2> QED
    BY <1>3, <1>0, <2>1, <2>2, <2>3
    DEF Worker, WorkerStart, WorkerReady, WorkerExit, is_terminated
<1> QED  BY <1>2, <1>3

(* What HeldIsGraded rests on: until somebody kills the pool, a grader     *)
(* keeps what it holds, somebody has it in hand, each step of its worker   *)
(* brings it nearer to its collection, and nobody sets it back             *)
(* (grader.cpp:45-53, 108-119, grader_pool.cpp:32-36).                     *)
THEOREM HeldIsNotSetBack == Spec => []HeldIsInHand /\ [][HeldGoesForward]_vars
<1>1. TypeInv /\ ControlInv /\ ServeInv /\ ThreadInv /\ [Next]_vars => [HeldGoesForward]_vars
  <2> SUFFICES ASSUME TypeInv, ControlInv, ServeInv, ThreadInv, Next,
                      NEW g \in Grader, Holds(g), killer_pc = "none"
               PROVE  /\ grader_submission'[g] = grader_submission[g]
                      /\ \/ grader_submission[g] \in Graded'
                         \/ HoldRank(g)' < HoldRank(g)
                         \/ HoldRank(g)' = HoldRank(g) /\ ~Worker(g)
    BY DEF HeldGoesForward
  <2>1. CASE Main
    BY <2>1, MainHeld
  <2>2. ASSUME NEW h \in Grader, Worker(h)
        PROVE  /\ grader_submission'[g] = grader_submission[g]
               /\ \/ HoldRank(g)' < HoldRank(g)
                  \/ HoldRank(g)' = HoldRank(g) /\ ~Worker(g)
    BY <2>2, WorkerHeld
  <2>3. CASE Rest \/ Kill \/ KillerProgress
    <3>1. /\ UNCHANGED <<graderVars, worker_pc>>
      BY <2>3
      DEF Rest, RestProgress, AddSubmission, AddPush, AddInsert, QueryStatus, QueryGraded,
        QueryGrading, QueryWaiting, restFrame, Kill, KillerProgress, AwaitNotBusy, SetTerminated,
        AllSignalled, JoinWorker, FinishKill, HandlerExit, KillerAt, killerFrame, graderVars
    <3>2. ~Worker(g)
      BY <3>1
      DEF Worker, WorkerStart, WorkerReady, WorkerExit, WorkerSeesNew, WorkerBusy, WorkerDone,
        WorkerGoes, WorkerAt, TypeInv, TypeOK
    <3> QED  BY <3>1, <3>2, HeldAsBefore
  <2> QED  BY <2>1, <2>2, <2>3 DEF Next
<1> QED  BY <1>1, HeldInHand, SpecThread, PTL DEF Spec
===============================================================================
