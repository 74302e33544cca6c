----------------------------- MODULE ServerProcess -----------------------------
(***************************************************************************)
(* The process of grader-server as a whole (src/rest/grader.cpp): main     *)
(* builds the pool, the REST server and the graders one after another, the *)
(* handler of SIGINT may interrupt it at any step, and every thread writes *)
(* its log under a mutex (include/logger.hpp).                             *)
(*                                                                         *)
(* The handler is a second frame on the stack of main: a mutex that main   *)
(* holds is never released once the handler runs.  The child that a worker *)
(* forks to run a script gets a copy of the mutexes as they are.           *)
(*                                                                         *)
(* g_log_mutex is static in a header and used by a template: a log call    *)
(* may lock the mutex of its own translation unit or that of another one   *)
(* the linker has chosen.  Builds says which mutex each unit locks.        *)
(*                                                                         *)
(* The status of a grader is one plain field that main, its worker and the *)
(* handler write: BUSY, DONE, INIT or IDLE may replace a TERMINATED, and   *)
(* the handler then joins a worker that never leaves its loop.  Of the log *)
(* calls that a frame makes in a row one stands for all.  The submissions  *)
(* are the business of GraderPool.  Signals after the first are left out.  *)
(***************************************************************************)
EXTENDS Naturals

CONSTANTS
  NumGraders,
  Main, Handler, Rest,   \* the frames that are no worker's
  Builds,                \* functions from Unit to mutexes
  None                   \* no mutex

Grader == 0 .. NumGraders - 1
Frame == Grader \cup {Main, Handler, Rest}
Unit == {"server", "pool", "grader", "workspace", "script", "file"}
GRADER_STATUS == {"INIT", "IDLE", "NEW", "BUSY", "DONE", "TERMINATED"}

(* With no grader at all start returns at once, and the process ends.      *)
ASSUME NumGradersAssumption == NumGraders \in Nat \ {0}
ASSUME FramesAssumption ==
  /\ {Main, Handler, Rest} \cap Grader = {}
  /\ Main # Handler /\ Main # Rest /\ Handler # Rest
ASSUME BuildsAssumption ==
  \A build \in Builds : DOMAIN build = Unit /\ \A unit \in Unit : build[unit] # None

VARIABLES
  process,                 \* "up", "exited" or "crashed"
  main_pool, server,       \* whether the two pointers are set
  serving,                 \* whether the REST thread takes requests
  pool_status, graders,    \* graders 0 .. graders-1 are in the vector
  mutex_of,                \* the build
  logging,                 \* the mutex of the log call a frame is in, or None
  main_pc, main_at,
  worker_pc,
  status,                  \* of each grader
  overwritten,             \* workers that have replaced a TERMINATED (history)
  stuck,                   \* whether a worker's child waits for a mutex it has
                           \* got locked
  rest_pc, began,          \* began: the status a request for /info has read
  handler_pc, handler_at,
  interrupted              \* the mutex the signal met main with (history)

mainVars == <<main_pc, main_at, main_pool, server, graders>>
workerVars == <<worker_pc, overwritten, stuck>>
restVars == <<rest_pc, began>>
handlerVars == <<handler_pc, handler_at, interrupted>>
vars == <<process, serving, pool_status, mutex_of, logging, status, mainVars,
          workerVars, restVars, handlerVars>>

Init ==
  /\ process = "up"
  /\ main_pool = FALSE /\ server = FALSE /\ serving = FALSE
  /\ pool_status = "INIT" /\ graders = 0
  /\ mutex_of \in Builds /\ logging = [f \in Frame |-> None]
  /\ main_pc = "start" /\ main_at = 0
  /\ worker_pc = [g \in Grader |-> "none"]
  /\ status = [g \in Grader |-> "INIT"] /\ overwritten = {}
  /\ stuck = [g \in Grader |-> FALSE]
  /\ rest_pc = "idle" /\ began = "none"
  /\ handler_pc = "none" /\ handler_at = 0 /\ interrupted = None

-------------------------------------------------------------------------------
(* Logger::operator(): lock, write, unlock.                                *)

Held(m) == \E f \in Frame : logging[f] = m

Lock(f, unit) ==
  /\ logging[f] = None
  /\ ~Held(mutex_of[unit])
  /\ logging' = [logging EXCEPT ![f] = mutex_of[unit]]

Unlock(f) == logging[f] # None /\ logging' = [logging EXCEPT ![f] = None]

-------------------------------------------------------------------------------
(* main, start_server and GraderPool::start.                               *)

MainAt(pc) == process = "up" /\ handler_pc = "none" /\ main_pc = pc
mainFrame == <<process, mutex_of, overwritten, stuck, restVars, handlerVars>>

(* The log calls: their unit, and where main goes on. *)
MainLog ==
  [log_server |-> [unit |-> "server", next |-> "start_pool"],
   log_pool   |-> [unit |-> "pool", next |-> "create"],
   log_ready  |-> [unit |-> "pool", next |-> "loop"],
   log_grade  |-> [unit |-> "grader", next |-> "hand_over"]]

MainLock ==
  \E pc \in DOMAIN MainLog :
    /\ MainAt(pc)
    /\ Lock(Main, MainLog[pc].unit)
    /\ UNCHANGED <<mainFrame, mainVars, serving, pool_status, worker_pc, status>>

MainUnlock ==
  \E pc \in DOMAIN MainLog :
    /\ MainAt(pc)
    /\ Unlock(Main)
    /\ main_pc' = MainLog[pc].next
    /\ UNCHANGED <<mainFrame, main_at, main_pool, server, graders, serving,
                   pool_status, worker_pc, status>>

NewPool ==
  /\ MainAt("start")
  /\ main_pool' = TRUE
  /\ main_pc' = "start_server"
  /\ UNCHANGED <<mainFrame, main_at, server, graders, serving, pool_status, logging,
                 worker_pc, status>>

(* A fault: the server is made only when the pool is started. *)
Fault_NewServer ==
  /\ MainAt("start_server")
  /\ main_pc' = "serve"
  /\ UNCHANGED <<mainFrame, main_at, main_pool, server, graders, serving, pool_status,
                 logging, worker_pc, status>>

NewServer ==
  /\ MainAt("start_server")
  /\ server' = TRUE
  /\ main_pc' = "serve"
  /\ UNCHANGED <<mainFrame, main_at, main_pool, graders, serving, pool_status, logging,
                 worker_pc, status>>

(* From here on the REST thread uses a pool that has not been started. *)
Serve ==
  /\ MainAt("serve")
  /\ serving' = TRUE
  /\ main_pc' = "log_server"
  /\ UNCHANGED <<mainFrame, main_at, main_pool, server, graders, pool_status, logging,
                 worker_pc, status>>

StartPool ==
  /\ MainAt("start_pool")
  /\ pool_status' = "INIT"
  /\ main_pc' = "log_pool"
  /\ UNCHANGED <<mainFrame, main_at, main_pool, server, graders, serving, logging,
                 worker_pc, status>>

CreateThread ==
  /\ MainAt("create") /\ graders < NumGraders
  /\ worker_pc' = [worker_pc EXCEPT ![graders] = "log_start"]
  /\ main_pc' = "emplace"
  /\ UNCHANGED <<mainFrame, main_at, main_pool, server, graders, serving, pool_status,
                 logging, status>>

EmplaceGrader ==
  /\ MainAt("emplace")
  /\ graders' = graders + 1
  /\ main_pc' = "create"
  /\ UNCHANGED <<mainFrame, main_at, main_pool, server, serving, pool_status, logging,
                 worker_pc, status>>

(* A fault: RUNNING is announced with the first grader. *)
Fault_SetRunning ==
  /\ MainAt("create") /\ graders \in {1, NumGraders}
  /\ pool_status' = "RUNNING"
  /\ main_pc' = IF graders = NumGraders THEN "log_ready" ELSE "create"
  /\ UNCHANGED <<mainFrame, main_at, main_pool, server, graders, serving, logging,
                 worker_pc, status>>

SetRunning ==
  /\ MainAt("create") /\ graders = NumGraders
  /\ pool_status' = "RUNNING"
  /\ main_pc' = "log_ready"
  /\ UNCHANGED <<mainFrame, main_at, main_pool, server, graders, serving, logging,
                 worker_pc, status>>

(* assign_submission_to_grader: what a grader has done is collected, and   *)
(* one that is free gets a submission; grade logs before it writes NEW.    *)
Collect(g) ==
  /\ MainAt("loop")
  /\ status[g] = "DONE"
  /\ status' = [status EXCEPT ![g] = "IDLE"]
  /\ UNCHANGED <<mainFrame, mainVars, serving, pool_status, logging, worker_pc>>

Assign(g) ==
  /\ MainAt("loop")
  /\ status[g] = "IDLE"
  /\ main_pc' = "log_grade" /\ main_at' = g
  /\ UNCHANGED <<mainFrame, main_pool, server, graders, serving, pool_status, logging,
                 worker_pc, status>>

HandOver ==
  /\ MainAt("hand_over")
  /\ status' = [status EXCEPT ![main_at] = "NEW"]
  /\ main_pc' = "loop" /\ main_at' = 0
  /\ UNCHANGED <<mainFrame, main_pool, server, graders, serving, pool_status, logging,
                 worker_pc>>

MainStep ==
  \/ MainLock \/ MainUnlock \/ NewPool \/ NewServer \/ Serve \/ StartPool
  \/ CreateThread \/ EmplaceGrader \/ SetRunning
  \/ (\E g \in Grader : Collect(g) \/ Assign(g)) \/ HandOver

-------------------------------------------------------------------------------
(* start_grader, on the thread of worker g.                                *)

WorkerAt(g, pc) == process = "up" /\ worker_pc[g] = pc
WorkerGoes(g, pc) == worker_pc' = [worker_pc EXCEPT ![g] = pc]
workerFrame == <<process, mutex_of, mainVars, serving, pool_status, restVars, handlerVars>>

(* The log calls: those of create_folder at the start; of a grading those  *)
(* of load_task's refusals, of the workspace and of the copies, before its *)
(* scripts and after them.                                                 *)
WorkerLog ==
  [log_start |-> [units |-> {"grader"}, next |-> {"set_init"}],
   log_init  |-> [units |-> {"grader", "file"}, next |-> {"set_idle"}],
   log_new   |-> [units |-> {"grader", "file", "workspace"}, next |-> {"fork", "log_done"}],
   log_done  |-> [units |-> {"grader", "file", "workspace"}, next |-> {"set_done"}]]

WorkerLock(g) ==
  \E pc \in DOMAIN WorkerLog, unit \in Unit :
    /\ WorkerAt(g, pc) /\ unit \in WorkerLog[pc].units
    /\ Lock(g, unit)
    /\ UNCHANGED <<workerFrame, status, workerVars>>

(* A fault: the last log call of a grading is not ended. *)
Fault_WorkerUnlock(g) ==
  \E pc \in DOMAIN WorkerLog : \E next \in WorkerLog[pc].next :
    /\ WorkerAt(g, pc) /\ logging[g] # None
    /\ IF pc = "log_done" THEN UNCHANGED logging ELSE Unlock(g)
    /\ WorkerGoes(g, next)
    /\ UNCHANGED <<workerFrame, status, overwritten, stuck>>

(* A submission that is refused, or has no script to run, forks nothing.   *)
WorkerUnlock(g) ==
  \E pc \in DOMAIN WorkerLog : \E next \in WorkerLog[pc].next :
    /\ WorkerAt(g, pc)
    /\ Unlock(g)
    /\ WorkerGoes(g, next)
    /\ UNCHANGED <<workerFrame, status, overwritten, stuck>>

(* What the worker writes to its status, whatever stands there.            *)
WorkerSets ==
  [set_init |-> [status |-> "INIT", next |-> "log_init"],
   set_idle |-> [status |-> "IDLE", next |-> "loop"],
   set_busy |-> [status |-> "BUSY", next |-> "log_new"],
   set_done |-> [status |-> "DONE", next |-> "loop"]]

SetStatus(g) ==
  \E pc \in DOMAIN WorkerSets :
    /\ WorkerAt(g, pc)
    /\ status' = [status EXCEPT ![g] = WorkerSets[pc].status]
    /\ overwritten' = overwritten \cup (IF status[g] = "TERMINATED" THEN {g} ELSE {})
    /\ WorkerGoes(g, WorkerSets[pc].next)
    /\ UNCHANGED <<workerFrame, logging, stuck>>

SeeNew(g) ==
  /\ WorkerAt(g, "loop") /\ status[g] = "NEW"
  /\ WorkerGoes(g, "set_busy")
  /\ UNCHANGED <<workerFrame, logging, status, overwritten, stuck>>

(* The first thing the child does is to log, in change_folder and          *)
(* execute_script: nobody will ever unlock its copy of a locked mutex.     *)
Fork(g) ==
  /\ WorkerAt(g, "fork")
  /\ stuck' = [stuck EXCEPT ![g] = \E unit \in {"file", "script"} : Held(mutex_of[unit])]
  /\ WorkerGoes(g, "waitpid")
  /\ UNCHANGED <<workerFrame, logging, status, overwritten>>

(* The script ends; one stands for the up to three of a task. *)
ChildEnds(g) ==
  /\ WorkerAt(g, "waitpid") /\ ~stuck[g]
  /\ WorkerGoes(g, "log_done")
  /\ UNCHANGED <<workerFrame, logging, status, overwritten, stuck>>

WorkerExit(g) ==
  /\ WorkerAt(g, "loop") /\ status[g] = "TERMINATED"
  /\ WorkerGoes(g, "exited")
  /\ UNCHANGED <<workerFrame, logging, status, overwritten, stuck>>

Worker(g) ==
  \/ WorkerUnlock(g) \/ SetStatus(g) \/ SeeNew(g) \/ Fork(g) \/ ChildEnds(g)
  \/ WorkerExit(g)

-------------------------------------------------------------------------------
(* The REST thread.                                                        *)

RestAt(pc) == process = "up" /\ rest_pc = pc
restFrame == <<mutex_of, mainVars, serving, pool_status, status, workerVars, handlerVars>>

(* get_grader_info reads the status first, then one grader after another;  *)
(* for one that is not there at() throws, and the framework answers with   *)
(* an error; while the vector grows anything may be read.                  *)
InfoStatus ==
  /\ RestAt("idle") /\ serving
  /\ began' = pool_status
  /\ rest_pc' = "info"
  /\ UNCHANGED <<restFrame, process, logging>>

(* How many graders have been read is left open: the answer may be sent    *)
(* after any of them.                                                      *)
InfoGraders ==
  /\ RestAt("info")
  /\ \/ rest_pc' = "idle" /\ began' = "none" /\ UNCHANGED process
     \/ main_pc = "emplace" /\ process' = "crashed" /\ UNCHANGED restVars
  /\ UNCHANGED <<restFrame, logging>>

(* add_submission logs whether it takes a submission or ignores it. *)
Submit ==
  /\ RestAt("idle") /\ serving
  /\ rest_pc' = "log_add"
  /\ UNCHANGED <<restFrame, process, logging, began>>

RestLock ==
  /\ RestAt("log_add")
  /\ Lock(Rest, "pool")
  /\ UNCHANGED <<restFrame, process, restVars>>

RestUnlock ==
  /\ RestAt("log_add")
  /\ Unlock(Rest)
  /\ rest_pc' = "idle"
  /\ UNCHANGED <<restFrame, process, began>>

-------------------------------------------------------------------------------
(* keyboard_interrupt_handler, with GraderPool::signal and Grader::signal. *)

HandlerAt(pc) == process = "up" /\ handler_pc = pc
HandlerGoes(pc, at) == handler_pc' = pc /\ handler_at' = at
handlerFrame == <<mutex_of, mainVars, workerVars, restVars, interrupted>>

Crashes == process' = "crashed" /\ UNCHANGED <<handler_pc, handler_at>>

Signal ==
  /\ HandlerAt("none")
  /\ HandlerGoes("enter", 0)
  /\ interrupted' = logging[Main]
  /\ UNCHANGED <<process, mutex_of, mainVars, serving, pool_status, logging, status,
                 workerVars, restVars>>

(* The logger of a pool that is not there is read.                         *)
HandlerEnter ==
  /\ HandlerAt("enter")
  /\ IF main_pool THEN HandlerGoes("log_receive", 0) /\ UNCHANGED process ELSE Crashes
  /\ UNCHANGED <<handlerFrame, serving, pool_status, logging, status>>

HandlerLog ==
  [log_receive    |-> [units |-> {"pool"}, next |-> "signal", step |-> 0],
   log_signal     |-> [units |-> {"pool", "grader"}, next |-> "await", step |-> 0],
   log_cleanup    |-> [units |-> {"file"}, next |-> "set_terminated", step |-> 0],
   log_terminated |-> [units |-> {"grader"}, next |-> "signal", step |-> 1],
   log_stopping   |-> [units |-> {"server"}, next |-> "shutdown", step |-> 0],
   log_stopped    |-> [units |-> {"server"}, next |-> "exit", step |-> 0]]

HandlerLock ==
  \E pc \in DOMAIN HandlerLog, unit \in Unit :
    /\ HandlerAt(pc) /\ unit \in HandlerLog[pc].units
    /\ Lock(Handler, unit)
    /\ UNCHANGED <<handlerFrame, process, serving, pool_status, status, handler_pc,
                   handler_at>>

HandlerUnlock ==
  \E pc \in DOMAIN HandlerLog :
    /\ HandlerAt(pc)
    /\ Unlock(Handler)
    /\ HandlerGoes(HandlerLog[pc].next, handler_at + HandlerLog[pc].step)
    /\ UNCHANGED <<handlerFrame, process, serving, pool_status, status>>

(* A fault: the last grader gets no signal. *)
Fault_SignalGrader ==
  /\ HandlerAt("signal")
  /\ HandlerGoes(IF handler_at + 1 < graders THEN "log_signal" ELSE "join",
                 IF handler_at + 1 < graders THEN handler_at ELSE 0)
  /\ UNCHANGED <<handlerFrame, process, serving, pool_status, logging, status>>

(* The loop over the graders, which main may have been adding one to.      *)
SignalGrader ==
  /\ HandlerAt("signal")
  /\ \/ handler_at < graders /\ HandlerGoes("log_signal", handler_at) /\ UNCHANGED process
     \/ handler_at = graders /\ HandlerGoes("join", 0) /\ UNCHANGED process
     \/ main_pc = "emplace" /\ Crashes
  /\ UNCHANGED <<handlerFrame, serving, pool_status, logging, status>>

Busy(g) == worker_pc[g] \in {"log_new", "fork", "waitpid", "log_done", "set_done"}

(* terminate spins while BUSY; the folders of a grader in INIT are spared. *)
Terminate ==
  /\ HandlerAt("await") /\ status[handler_at] # "BUSY"
  /\ HandlerGoes(IF status[handler_at] = "INIT" THEN "set_terminated" ELSE "log_cleanup",
                 handler_at)
  /\ UNCHANGED <<handlerFrame, process, serving, pool_status, logging, status>>

SetTerminated ==
  /\ HandlerAt("set_terminated")
  /\ status' = [status EXCEPT ![handler_at] = "TERMINATED"]
  /\ HandlerGoes("log_terminated", handler_at)
  /\ UNCHANGED <<handlerFrame, process, serving, pool_status, logging>>

JoinWorker ==
  /\ HandlerAt("join") /\ handler_at < graders
  /\ worker_pc[handler_at] = "exited"
  /\ HandlerGoes("join", handler_at + 1)
  /\ UNCHANGED <<handlerFrame, process, serving, pool_status, logging, status>>

AllJoined ==
  /\ HandlerAt("join") /\ handler_at = graders
  /\ pool_status' = "TERMINATED"
  /\ HandlerGoes("log_stopping", handler_at)
  /\ UNCHANGED <<handlerFrame, process, serving, logging, status>>

Shutdown ==
  /\ HandlerAt("shutdown")
  /\ serving' = FALSE
  /\ IF server THEN HandlerGoes("log_stopped", handler_at) /\ UNCHANGED process ELSE Crashes
  /\ UNCHANGED <<handlerFrame, pool_status, logging, status>>

Exit ==
  /\ HandlerAt("exit")
  /\ process' = "exited"
  /\ UNCHANGED <<handlerFrame, serving, pool_status, logging, status, handler_pc, handler_at>>

HandlerStep ==
  \/ HandlerEnter \/ HandlerUnlock \/ SignalGrader \/ Terminate \/ SetTerminated
  \/ JoinWorker \/ AllJoined \/ Shutdown \/ Exit

-------------------------------------------------------------------------------
Next ==
  \/ MainStep
  \/ \E g \in Grader : WorkerLock(g) \/ Worker(g)
  \/ InfoStatus \/ InfoGraders \/ Submit \/ RestLock \/ RestUnlock
  \/ Signal \/ HandlerLock \/ HandlerStep

Spec == Init /\ [][Next]_vars

(* The kernel runs the threads, and whoever logs finishes its log call.    *)
(* std::mutex is not fair, but every log call of another thread takes a    *)
(* request or a submission of its own: a worker or the handler that waits  *)
(* for a mutex which is free again and again gets it.  A script that runs  *)
(* comes to an end.                                                        *)
FairSpec ==
  /\ Spec
  /\ WF_vars(MainStep) /\ WF_vars(RestUnlock)
  /\ \A g \in Grader : WF_vars(Worker(g)) /\ SF_vars(WorkerLock(g))
  /\ WF_vars(HandlerStep) /\ SF_vars(HandlerLock)

-------------------------------------------------------------------------------
Startup == {"start", "start_server", "serve", "log_server", "start_pool", "log_pool",
            "create", "emplace"}

(* Once every grader is in the pool's vector, no signal and no request     *)
(* finds a pointer that is null or a vector that moves: the process        *)
(* crashes during the start only (rest/grader.cpp:27-49,                   *)
(* grader_pool.cpp:83, 114).                                               *)
CrashOnlyInStartup == process = "crashed" => main_pc \in Startup

(* A request for /info that reads RUNNING finds every grader; one that     *)
(* came earlier may have been answered with an error (router.cpp:76-87,    *)
(* grader_pool.hpp:70-72).                                                 *)
InfoIsComplete ==
  (rest_pc = "info" /\ began = "RUNNING") => graders = NumGraders /\ main_pc # "emplace"

(* The three ways in which the program itself can stop for ever: the       *)
(* signal met main inside a log call, whose mutex the handler then waits   *)
(* for; a script's child waits for a mutex that was locked when it was     *)
(* forked; a worker has replaced its TERMINATED.                           *)
Obstacle == interrupted # None \/ (\E g \in Grader : stuck[g]) \/ overwritten # {}

(* The signal ends the process, but for the three obstacles                *)
(* (rest/grader.cpp:44-50, logger.hpp:22-28, script.cpp:32-36,             *)
(* grader.cpp:71-88, 98-115).                                              *)
SignalEndsProcess == (handler_pc # "none") ~> (process # "up" \/ Obstacle)

(* A grading that has begun ends, unless a log call of another thread was  *)
(* under way when its script was forked, or the signal met main inside one *)
(* (grader.cpp:110-116, script.cpp:32-41).                                 *)
GradingEnds ==
  \A g \in Grader :
    Busy(g) ~> (~Busy(g) \/ stuck[g] \/ interrupted # None \/ process # "up")
===============================================================================
