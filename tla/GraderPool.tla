------------------------------ MODULE GraderPool ------------------------------
(***************************************************************************)
(* GraderPool, its Graders and the threads that share them                 *)
(* (src/grader/grader_pool.cpp, src/grader/grader.cpp):                    *)
(*                                                                         *)
(*   main      GraderPool::start: creates the workers, then schedules      *)
(*   worker g  Grader::start_grader, one thread per grader                 *)
(*   rest      the caller of add_submission and get_submission_status      *)
(*   killer    the caller of signal(KILL)                                  *)
(*                                                                         *)
(* Nothing in the code synchronises them: an action is one access to       *)
(* shared memory (a field read or written, or one container operation; a   *)
(* container torn by two threads is out of scope).  SignalOnMain tells the *)
(* two programs apart: in grader-server the killer is a SIGINT handler on  *)
(* the main thread, so the scheduler stands still from the signal on; in   *)
(* test/grader/grader_pool.cpp the thread that submits also calls stop(),  *)
(* once the pool is RUNNING, while start() runs on a thread of its own.    *)
(*                                                                         *)
(* An operator Fault_X is the definition after it with a mistake in it: it *)
(* is no part of Next, and shows that a property can fail.                 *)
(***************************************************************************)
EXTENDS SubmissionPool, Naturals, Functions

CONSTANTS
  NumGraders,     \* the argument num-graders
  SignalOnMain,   \* TRUE: grader-server; FALSE: the test program
  KillAllowed,    \* whether the environment ever kills the pool
  Queried,        \* the ids clients ask the status of
  NoID            \* no request is being served

ASSUME NumGradersAssumption == NumGraders \in Nat
ASSUME ModesAssumption == SignalOnMain \in BOOLEAN /\ KillAllowed \in BOOLEAN
ASSUME QueriedAssumption == Queried \subseteq SubmissionID /\ NoID \notin SubmissionID

VARIABLES
  process,            \* "up", "exited", or "aborted" by an uncaught exception
  pool_status,        \* GRADER_POOL_STATUS
  waiting_pool, grading_pool, graded_pool,
  graders,            \* length of the vector: graders 0 .. graders-1 are in it
  main_pc, main_at,   \* the scheduler and its loop variable
  main_sub,           \* `submission` in assign_submission_to_grader
  grader_status,      \* GRADER_STATUS, a plain field written by three threads
  grader_submission,  \* Grader::submission
  worker_pc,
  rest_pc, rest_sub, rest_id,
  killer_pc, killer_at,
  add_result,         \* what add_submission returned for each object
  answer,             \* the last status answered for each id
  shown               \* history: every status the pools had for rest_id since
                      \* the query began

mainVars   == <<main_pc, main_at, main_sub>>
graderVars == <<grader_status, grader_submission>>
restVars   == <<rest_pc, rest_sub, rest_id, add_result, answer>>
killerVars == <<killer_pc, killer_at>>
pools      == <<waiting_pool, grading_pool, graded_pool, shown>>
vars == <<process, pool_status, pools, graders, mainVars, graderVars,
          worker_pc, restVars, killerVars>>

(* What most steps of the scheduler, of rest and of the killer leave alone. *)
schedulerFrame == <<process, pool_status, graders, worker_pc, restVars, killerVars>>
restFrame == <<process, pool_status, grading_pool, graded_pool, graders, mainVars,
               graderVars, worker_pc, killerVars>>
killerFrame == <<pools, graders, mainVars, grader_submission, worker_pc, restVars>>

Grader == 0 .. NumGraders - 1

GRADER_STATUS == {"INIT", "IDLE", "NEW", "BUSY", "DONE", "TERMINATED"}
GRADER_POOL_STATUS == {"INIT", "RUNNING", "TERMINATED"}
SUBMISSION_STATUS == {"WAITING", "GRADING", "GRADED", "NOT_EXISTS"}

(* ERROR, the other terminated status, needs init_grader to fail; it never *)
(* does (its return value is the constant 0).                              *)
is_terminated(g) == grader_status[g] = "TERMINATED"

Init ==
  /\ process = "up"
  /\ pool_status = "INIT"
  /\ waiting_pool = EmptyPool
  /\ grading_pool = EmptyPool
  /\ graded_pool = EmptyPool
  /\ graders = 0
  /\ main_pc = "create" /\ main_at = 0 /\ main_sub = NoSubmission
  /\ grader_status = [g \in Grader |-> "INIT"]
  /\ grader_submission = [g \in Grader |-> NoSubmission]
  /\ worker_pc = [g \in Grader |-> "none"]
  /\ rest_pc = "idle" /\ rest_sub = NoSubmission /\ rest_id = NoID
  /\ killer_pc = "none" /\ killer_at = 0
  /\ add_result = [s \in Submission |-> "pending"]
  /\ answer = [id \in SubmissionID |-> "none"]
  /\ shown = {}

(* What get_submission_status would answer if it looked into the three     *)
(* pools at once.                                                          *)
StatusOf(id, waiting, grading, graded) ==
  IF Has(graded, id) THEN "GRADED"
  ELSE IF Has(grading, id) THEN "GRADING"
  ELSE IF Has(waiting, id) THEN "WAITING" ELSE "NOT_EXISTS"

StatusNow(id) == StatusOf(id, waiting_pool, grading_pool, graded_pool)

(* A step of the scheduler moves a submission while a client asks.         *)
Show(waiting, grading, graded) ==
  shown' = IF rest_id = NoID THEN shown
           ELSE shown \cup {StatusOf(rest_id, waiting, grading, graded)}

-------------------------------------------------------------------------------
(* GraderPool::start, on the main thread.                                  *)

(* The handler runs on top of main's stack: main takes no further step.    *)
MainRuns == process = "up" /\ (SignalOnMain => killer_pc = "none")

MainAt(pc) == MainRuns /\ main_pc = pc

(* A fault: one thread too many. *)
Fault_CreateOneMore ==
  /\ MainAt("create")
  /\ graders <= NumGraders
  /\ worker_pc' = [worker_pc EXCEPT ![graders] = "start"]
  /\ main_pc' = "emplace"
  /\ UNCHANGED <<process, pool_status, pools, graders, main_at, main_sub,
                 graderVars, restVars, killerVars>>

(* new Grader, pthread_create: the worker may run before it is in graders. *)
CreateThread ==
  /\ MainAt("create")
  /\ graders < NumGraders
  /\ worker_pc' = [worker_pc EXCEPT ![graders] = "start"]
  /\ main_pc' = "emplace"
  /\ UNCHANGED <<process, pool_status, pools, graders, main_at, main_sub,
                 graderVars, restVars, killerVars>>

EmplaceGrader ==
  /\ MainAt("emplace")
  /\ graders' = graders + 1
  /\ main_pc' = "create"
  /\ UNCHANGED <<process, pool_status, pools, main_at, main_sub, graderVars,
                 worker_pc, restVars, killerVars>>

SetRunning ==
  /\ MainAt("create")
  /\ graders = NumGraders
  /\ pool_status' = "RUNNING"
  /\ main_pc' = "loop"
  /\ UNCHANGED <<process, pools, graders, main_at, main_sub, graderVars,
                 worker_pc, restVars, killerVars>>

(* The loop's condition. *)
TestPoolStatus ==
  /\ MainAt("loop")
  /\ main_pc' = IF pool_status = "TERMINATED" THEN "return" ELSE "all_of"
  /\ main_at' = 0
  /\ UNCHANGED <<schedulerFrame, pools, main_sub, graderVars>>

(* std::all_of reads one grader after another, up to the first that runs.  *)
TestTerminated ==
  /\ MainAt("all_of")
  /\ \/ /\ main_at = graders
        /\ main_pc' = "return" /\ main_at' = 0
     \/ /\ main_at < graders
        /\ is_terminated(main_at)
        /\ main_pc' = main_pc /\ main_at' = main_at + 1
     \/ /\ main_at < graders
        /\ ~is_terminated(main_at)
        /\ main_pc' = "scan" /\ main_at' = 0
  /\ UNCHANGED <<schedulerFrame, pools, main_sub, graderVars>>

(* start returns; grader-server then returns from main, the test goes on.  *)
ReturnFromStart ==
  /\ MainAt("return")
  /\ main_pc' = "returned"
  /\ process' = IF SignalOnMain THEN "exited" ELSE process
  /\ UNCHANGED <<pool_status, pools, graders, main_at, main_sub, graderVars,
                 worker_pc, restVars, killerVars>>

-------------------------------------------------------------------------------
(* assign_submission_to_grader: one turn of its loop is the labels scan,   *)
(* [collect, ungrade, release, release_write,] idle, [get_first,           *)
(* start_grading, unqueue, hand_over, hand_over_write].                    *)

NextGrader == main_pc' = "scan" /\ main_at' = main_at + 1 /\ main_sub' = NoSubmission

ScanGrader ==
  /\ MainAt("scan")
  /\ main_at < graders
  /\ main_pc' = IF grader_status[main_at] = "DONE" THEN "collect" ELSE "idle"
  /\ UNCHANGED <<schedulerFrame, pools, main_at, main_sub, graderVars>>

EndScan ==
  /\ MainAt("scan")
  /\ main_at = graders
  /\ main_pc' = "loop" /\ main_at' = 0
  /\ UNCHANGED <<schedulerFrame, pools, main_sub, graderVars>>

(* A fault: the grading entry goes before the graded one is there. *)
Fault_CollectUngradesFirst ==
  /\ MainAt("collect")
  /\ IF Has(grading_pool, IdOf[grader_submission[main_at]])
       THEN /\ grading_pool' = Remove(grading_pool, IdOf[grader_submission[main_at]])
            /\ UNCHANGED <<graded_pool, main_pc>>
       ELSE /\ graded_pool' = Add(graded_pool, grader_submission[main_at])
            /\ main_pc' = "ungrade"
            /\ UNCHANGED grading_pool
  /\ Show(waiting_pool, grading_pool', graded_pool')
  /\ UNCHANGED <<schedulerFrame, waiting_pool, main_at, main_sub, graderVars>>

Collect ==
  /\ MainAt("collect")
  /\ graded_pool' = Add(graded_pool, grader_submission[main_at])
  /\ Show(waiting_pool, grading_pool, graded_pool')
  /\ main_pc' = "ungrade"
  /\ UNCHANGED <<schedulerFrame, waiting_pool, grading_pool, main_at, main_sub, graderVars>>

Ungrade ==
  /\ MainAt("ungrade")
  /\ grading_pool' = Remove(grading_pool, IdOf[grader_submission[main_at]])
  /\ Show(waiting_pool, grading_pool', graded_pool)
  /\ main_pc' = "release"
  /\ UNCHANGED <<schedulerFrame, waiting_pool, graded_pool, main_at, main_sub, graderVars>>

(* grade(nullptr): the switch reads the status again.  Its IDLE case would *)
(* dereference the null pointer: ReleaseMeetsDone says it is never taken.  *)
Release ==
  /\ MainAt("release")
  /\ main_pc' = IF grader_status[main_at] = "DONE" THEN "release_write" ELSE "idle"
  /\ UNCHANGED <<schedulerFrame, pools, main_at, main_sub, graderVars>>

(* A fault: grade(nullptr) leaves the grader DONE. *)
Fault_ReleaseForgets ==
  /\ MainAt("release_write")
  /\ main_pc' = "idle"
  /\ UNCHANGED <<schedulerFrame, pools, main_at, main_sub, graderVars>>

ReleaseWrite ==
  /\ MainAt("release_write")
  /\ grader_status' = [grader_status EXCEPT ![main_at] = "IDLE"]
  /\ main_pc' = "idle"
  /\ UNCHANGED <<schedulerFrame, pools, main_at, main_sub, grader_submission>>

(* Only main shortens the queue, so a queue seen non-empty still is when   *)
(* the status is read: the two reads of the condition are one step.        *)
TestIdle ==
  /\ MainAt("idle")
  /\ IF Size(waiting_pool) > 0 /\ grader_status[main_at] = "IDLE"
       THEN main_pc' = "get_first" /\ UNCHANGED <<main_at, main_sub>>
       ELSE NextGrader
  /\ UNCHANGED <<schedulerFrame, pools, graderVars>>

(* get_first, one turn of its do-while loop: pop, then go round again      *)
(* WHILE the popped submission is in the index.                            *)
GetFirstPop ==
  /\ MainAt("get_first")
  /\ Size(waiting_pool) > 0
  /\ main_sub' = Front(waiting_pool)
  /\ waiting_pool' = Pop(waiting_pool)
  /\ main_pc' = "get_first_test"
  /\ UNCHANGED <<schedulerFrame, grading_pool, graded_pool, shown, main_at, graderVars>>

GetFirstTest ==
  /\ MainAt("get_first_test")
  /\ IF Has(waiting_pool, IdOf[main_sub])
       THEN main_pc' = "get_first" /\ main_sub' = NoSubmission
       ELSE main_pc' = "start_grading" /\ UNCHANGED main_sub
  /\ UNCHANGED <<schedulerFrame, pools, main_at, graderVars>>

(* nullopt: value() throws on the scheduler's thread, nobody catches.      *)
GetFirstEmpty ==
  /\ MainAt("get_first")
  /\ Size(waiting_pool) = 0
  /\ process' = "aborted"
  /\ UNCHANGED <<pool_status, pools, graders, mainVars, graderVars, worker_pc,
                 restVars, killerVars>>

StartGrading ==
  /\ MainAt("start_grading")
  /\ grading_pool' = Add(grading_pool, main_sub)
  /\ Show(waiting_pool, grading_pool', graded_pool)
  /\ main_pc' = "unqueue"
  /\ UNCHANGED <<schedulerFrame, waiting_pool, graded_pool, main_at, main_sub, graderVars>>

Unqueue ==
  /\ MainAt("unqueue")
  /\ waiting_pool' = Remove(waiting_pool, IdOf[main_sub])
  /\ Show(waiting_pool', grading_pool, graded_pool)
  /\ main_pc' = "hand_over"
  /\ UNCHANGED <<schedulerFrame, grading_pool, graded_pool, main_at, main_sub, graderVars>>

(* A fault: the status is written before the pointer it announces. *)
Fault_NewBeforePointer ==
  /\ MainAt("hand_over")
  /\ IF grader_status[main_at] = "IDLE"
       THEN /\ grader_status' = [grader_status EXCEPT ![main_at] = "NEW"]
            /\ main_pc' = "hand_over_write" /\ UNCHANGED <<main_at, main_sub>>
       ELSE NextGrader /\ UNCHANGED grader_status
  /\ UNCHANGED <<schedulerFrame, pools, grader_submission>>

(* grade(submission): the switch reads the status again, and drops the     *)
(* submission when a killer has meanwhile TERMINATED the grader.           *)
HandOver ==
  /\ MainAt("hand_over")
  /\ IF grader_status[main_at] = "IDLE"
       THEN main_pc' = "hand_over_write" /\ UNCHANGED <<main_at, main_sub>>
       ELSE NextGrader
  /\ UNCHANGED <<schedulerFrame, pools, graderVars>>

HandOverPointer ==
  /\ MainAt("hand_over_write")
  /\ grader_submission' = [grader_submission EXCEPT ![main_at] = main_sub]
  /\ main_pc' = "hand_over_new"
  /\ UNCHANGED <<schedulerFrame, pools, main_at, main_sub, grader_status>>

HandOverNew ==
  /\ MainAt("hand_over_new")
  /\ grader_status' = [grader_status EXCEPT ![main_at] = "NEW"]
  /\ NextGrader
  /\ UNCHANGED <<schedulerFrame, pools, grader_submission>>

Main ==
  \/ CreateThread \/ EmplaceGrader \/ SetRunning
  \/ TestPoolStatus \/ TestTerminated \/ ReturnFromStart
  \/ ScanGrader \/ EndScan
  \/ Collect \/ Ungrade \/ Release \/ ReleaseWrite
  \/ TestIdle \/ GetFirstPop \/ GetFirstTest \/ GetFirstEmpty
  \/ StartGrading \/ Unqueue \/ HandOver \/ HandOverPointer \/ HandOverNew

-------------------------------------------------------------------------------
(* Grader::start_grader, on the thread of worker g.                        *)

WorkerAt(g, pc) == process = "up" /\ worker_pc[g] = pc

WorkerGoes(g, pc) ==
  /\ worker_pc' = [worker_pc EXCEPT ![g] = pc]
  /\ UNCHANGED <<process, pool_status, pools, graders, mainVars,
                 grader_submission, restVars, killerVars>>

WorkerStart(g) ==
  /\ WorkerAt(g, "start")
  /\ grader_status' = [grader_status EXCEPT ![g] = "INIT"]
  /\ WorkerGoes(g, "init")

(* init_grader has made the grader's two folders. *)
WorkerReady(g) ==
  /\ WorkerAt(g, "init")
  /\ grader_status' = [grader_status EXCEPT ![g] = "IDLE"]
  /\ WorkerGoes(g, "loop")

(* A fault: the worker waits for the pool's status in place of its own. *)
Fault_ExitWithPool(g) ==
  /\ WorkerAt(g, "loop")
  /\ pool_status = "TERMINATED"
  /\ WorkerGoes(g, "exited")
  /\ UNCHANGED grader_status

(* The loop's condition is false; the thread returns and can be joined.    *)
WorkerExit(g) ==
  /\ WorkerAt(g, "loop")
  /\ is_terminated(g)
  /\ WorkerGoes(g, "exited")
  /\ UNCHANGED grader_status

WorkerSeesNew(g) ==
  /\ WorkerAt(g, "loop")
  /\ grader_status[g] = "NEW"
  /\ WorkerGoes(g, "new")
  /\ UNCHANGED grader_status

(* A fault: the end of the grading is announced at its start. *)
Fault_DoneAtOnce(g) ==
  /\ WorkerAt(g, "new")
  /\ grader_status' = [grader_status EXCEPT ![g] = "DONE"]
  /\ WorkerGoes(g, "grading")

WorkerBusy(g) ==
  /\ WorkerAt(g, "new")
  /\ grader_status' = [grader_status EXCEPT ![g] = "BUSY"]
  /\ WorkerGoes(g, "grading")

(* A fault: the worker frees itself, and nobody collects its submission. *)
Fault_DoneIsIdle(g) ==
  /\ WorkerAt(g, "grading")
  /\ grader_status' = [grader_status EXCEPT ![g] = "IDLE"]
  /\ WorkerGoes(g, "loop")

(* grade_submission has returned, with any result: it is only logged.      *)
WorkerDone(g) ==
  /\ WorkerAt(g, "grading")
  /\ grader_status' = [grader_status EXCEPT ![g] = "DONE"]
  /\ WorkerGoes(g, "loop")

Worker(g) ==
  \/ WorkerStart(g) \/ WorkerReady(g) \/ WorkerExit(g)
  \/ WorkerSeesNew(g) \/ WorkerBusy(g) \/ WorkerDone(g)

-------------------------------------------------------------------------------
(* The callers of add_submission and get_submission_status.                *)

RestAt(pc) == process = "up" /\ rest_pc = pc

(* The test program submits and stops from one thread. *)
CallerIsFree == SignalOnMain \/ killer_pc \in {"none", "stopped"}

(* add_submission of a new object: ignored unless the pool is RUNNING.     *)
AddSubmission(s) ==
  /\ RestAt("idle")
  /\ CallerIsFree
  /\ add_result[s] = "pending"
  /\ IF pool_status = "RUNNING"
       THEN rest_pc' = "push" /\ rest_sub' = s /\ UNCHANGED add_result
       ELSE add_result' = [add_result EXCEPT ![s] = "ignored"] /\ UNCHANGED <<rest_pc, rest_sub>>
  /\ UNCHANGED <<restFrame, waiting_pool, shown, rest_id, answer>>

(* waiting_pool.add, whose two statements get_first can come between.      *)
AddPush ==
  /\ RestAt("push")
  /\ waiting_pool' = Push(waiting_pool, rest_sub)
  /\ rest_pc' = "insert"
  /\ UNCHANGED <<restFrame, shown, rest_sub, rest_id, add_result, answer>>

AddInsert ==
  /\ RestAt("insert")
  /\ waiting_pool' = Insert(waiting_pool, rest_sub)
  /\ add_result' = [add_result EXCEPT ![rest_sub] = "added"]
  /\ rest_pc' = "idle" /\ rest_sub' = NoSubmission
  /\ UNCHANGED <<restFrame, shown, rest_id, answer>>

Answer(status) ==
  /\ answer' = [answer EXCEPT ![rest_id] = status]
  /\ rest_pc' = "idle" /\ rest_id' = NoID
  /\ shown' = {}

LookOn(pc) == rest_pc' = pc /\ UNCHANGED <<rest_id, answer, shown>>

(* get_submission_status looks into the three pools one after another.     *)
QueryStatus(id) ==
  /\ RestAt("idle")
  /\ CallerIsFree
  /\ rest_pc' = "ask_graded" /\ rest_id' = id
  /\ shown' = {StatusNow(id)}
  /\ UNCHANGED <<restFrame, waiting_pool, rest_sub, add_result, answer>>

(* A fault: grading_pool is asked before graded_pool. *)
Fault_GradingFirst ==
  /\ RestAt("ask_graded")
  /\ IF Has(grading_pool, rest_id) THEN Answer("GRADING")
     ELSE IF Has(graded_pool, rest_id) THEN Answer("GRADED")
     ELSE LookOn("ask_grading")
  /\ UNCHANGED <<restFrame, waiting_pool, rest_sub, add_result>>

QueryGraded ==
  /\ RestAt("ask_graded")
  /\ IF Has(graded_pool, rest_id)
       THEN Answer("GRADED")
       ELSE LookOn("ask_grading")
  /\ UNCHANGED <<restFrame, waiting_pool, rest_sub, add_result>>

(* A fault: waiting_pool is asked before grading_pool. *)
Fault_WaitingFirst ==
  /\ RestAt("ask_grading")
  /\ IF Has(waiting_pool, rest_id) THEN Answer("WAITING")
     ELSE IF Has(grading_pool, rest_id) THEN Answer("GRADING")
     ELSE LookOn("ask_waiting")
  /\ UNCHANGED <<restFrame, waiting_pool, rest_sub, add_result>>

QueryGrading ==
  /\ RestAt("ask_grading")
  /\ IF Has(grading_pool, rest_id)
       THEN Answer("GRADING")
       ELSE LookOn("ask_waiting")
  /\ UNCHANGED <<restFrame, waiting_pool, rest_sub, add_result>>

QueryWaiting ==
  /\ RestAt("ask_waiting")
  /\ Answer(IF Has(waiting_pool, rest_id) THEN "WAITING" ELSE "NOT_EXISTS")
  /\ UNCHANGED <<restFrame, waiting_pool, rest_sub, add_result>>

RestProgress == AddPush \/ AddInsert \/ QueryGraded \/ QueryGrading \/ QueryWaiting

Rest ==
  \/ RestProgress
  \/ \E s \in Submission : AddSubmission(s)
  \/ \E id \in Queried : QueryStatus(id)

-------------------------------------------------------------------------------
(* GraderPool::signal(KILL), and the SIGINT handler around it.             *)

KillerAt(pc) == process = "up" /\ killer_pc = pc

(* In the test, the thread that submits; otherwise the signal may arrive   *)
(* at any step of main's until start has returned.                         *)
Kill ==
  /\ KillAllowed
  /\ KillerAt("none")
  /\ SignalOnMain \/ (pool_status = "RUNNING" /\ rest_pc = "idle")
  /\ killer_pc' = "terminate" /\ killer_at' = 0
  /\ UNCHANGED <<killerFrame, process, pool_status, grader_status>>

(* A fault: a finished grader is waited for as well. *)
Fault_AwaitIdle ==
  /\ KillerAt("terminate")
  /\ killer_at < graders
  /\ grader_status[killer_at] \notin {"BUSY", "DONE"}
  /\ killer_pc' = "set_terminated"
  /\ UNCHANGED <<killerFrame, process, pool_status, grader_status, killer_at>>

(* terminate(grader): spins while the grader is BUSY, then removes its     *)
(* folders (the folders are not part of this model).                       *)
AwaitNotBusy ==
  /\ KillerAt("terminate")
  /\ killer_at < graders
  /\ grader_status[killer_at] # "BUSY"
  /\ killer_pc' = "set_terminated"
  /\ UNCHANGED <<killerFrame, process, pool_status, grader_status, killer_at>>

SetTerminated ==
  /\ KillerAt("set_terminated")
  /\ grader_status' = [grader_status EXCEPT ![killer_at] = "TERMINATED"]
  /\ killer_pc' = "terminate" /\ killer_at' = killer_at + 1
  /\ UNCHANGED <<killerFrame, process, pool_status>>

AllSignalled ==
  /\ KillerAt("terminate")
  /\ killer_at = graders
  /\ killer_pc' = "join" /\ killer_at' = 0
  /\ UNCHANGED <<killerFrame, process, pool_status, grader_status>>

(* A fault: the threads are not waited for. *)
Fault_JoinAtOnce ==
  /\ KillerAt("join")
  /\ killer_at < graders
  /\ killer_at' = killer_at + 1
  /\ UNCHANGED <<killerFrame, process, pool_status, grader_status, killer_pc>>

JoinWorker ==
  /\ KillerAt("join")
  /\ killer_at < graders
  /\ worker_pc[killer_at] = "exited"
  /\ killer_at' = killer_at + 1
  /\ UNCHANGED <<killerFrame, process, pool_status, grader_status, killer_pc>>

FinishKill ==
  /\ KillerAt("join")
  /\ killer_at = graders
  /\ pool_status' = "TERMINATED"
  /\ killer_pc' = "stopped"
  /\ UNCHANGED <<killerFrame, process, grader_status, killer_at>>

(* The handler goes on to exit(0). *)
HandlerExit ==
  /\ KillerAt("stopped")
  /\ SignalOnMain
  /\ process' = "exited"
  /\ UNCHANGED <<killerFrame, pool_status, grader_status, killerVars>>

KillerProgress ==
  AwaitNotBusy \/ SetTerminated \/ AllSignalled \/ JoinWorker \/ FinishKill \/ HandlerExit

-------------------------------------------------------------------------------
Next ==
  \/ Main
  \/ \E g \in Grader : Worker(g)
  \/ Rest
  \/ Kill \/ KillerProgress

Spec == Init /\ [][Next]_vars

(* The kernel runs every thread that can run.  A request once accepted is  *)
(* served; nobody has to submit, to ask or to kill.  That WorkerDone is in *)
(* the fair part assumes that every script of a task comes to an end:      *)
(* grade_submission waits for its children with no limit of its own.       *)
Fairness ==
  /\ WF_vars(Main)
  /\ \A g \in Grader : WF_vars(Worker(g))
  /\ WF_vars(RestProgress)
  /\ WF_vars(KillerProgress)

FairSpec == Spec /\ Fairness
===============================================================================
