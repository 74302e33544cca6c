------------------------- MODULE ServerProcessProofs -------------------------
(***************************************************************************)
(* Theorems about the process of grader-server, for any number of graders  *)
(* and any assignment of mutexes: what the start leaves behind when it is  *)
(* over, that the mutexes of the log come free, and that the signal always *)
(* leaves somebody who can go on, with ever less to do.                    *)
(***************************************************************************)
EXTENDS ServerProcess, FiniteSets, FiniteSetTheorems, TLAPS

(* Main is past the start.                                                 *)
Started == {"log_ready", "loop", "log_grade", "hand_over"}

(* The pointers are set one after the other, and a process that has        *)
(* crashed did so before the last grader was in the vector.                *)
PointerInv ==
  /\ main_pool \/ main_pc = "start"
  /\ server \/ main_pc \in {"start", "start_server"}
  /\ process = "crashed" => main_pc \in Startup

(* RUNNING is announced, and read by a request, after the start only.      *)
RunningInv ==
  (pool_status = "RUNNING" \/ began = "RUNNING") =>
    main_pc \in Started /\ graders = NumGraders

LEMMA MainKeepsPointers == ASSUME PointerInv, MainStep PROVE PointerInv'
<1> USE DEF PointerInv, MainAt, mainFrame, Startup
<1>1. CASE MainLock
  BY <1>1 DEF MainLock, mainVars
<1>2. CASE MainUnlock
  BY <1>2 DEF MainUnlock, MainLog
<1>3. CASE NewPool \/ NewServer \/ Serve \/ StartPool
  BY <1>3 DEF NewPool, NewServer, Serve, StartPool
<1>4. CASE CreateThread \/ EmplaceGrader \/ SetRunning
  BY <1>4 DEF CreateThread, EmplaceGrader, SetRunning
<1>5. CASE (\E g \in Grader : Collect(g) \/ Assign(g)) \/ HandOver
  BY <1>5 DEF Collect, Assign, HandOver, mainVars
<1> QED
  BY <1>1, <1>2, <1>3, <1>4, <1>5, MainStep DEF MainStep

LEMMA MainKeepsRunning == ASSUME RunningInv, MainStep PROVE RunningInv'
<1> USE DEF RunningInv, MainAt, mainFrame, restVars, Started
<1>1. CASE MainLock
  BY <1>1 DEF MainLock, mainVars
<1>2. CASE MainUnlock
  BY <1>2 DEF MainUnlock, MainLog
<1>3. CASE NewPool \/ NewServer \/ Serve \/ StartPool
  BY <1>3 DEF NewPool, NewServer, Serve, StartPool
<1>4. CASE CreateThread \/ EmplaceGrader \/ SetRunning
  BY <1>4 DEF CreateThread, EmplaceGrader, SetRunning
<1>5. CASE (\E g \in Grader : Collect(g) \/ Assign(g)) \/ HandOver
  BY <1>5 DEF Collect, Assign, HandOver, mainVars
<1> QED
  BY <1>1, <1>2, <1>3, <1>4, <1>5, MainStep DEF MainStep

(* A worker leaves everything of main, of the requests and of the process. *)
LEMMA WorkerLeaves ==
  ASSUME NEW g \in Grader, WorkerLock(g) \/ Worker(g)
  PROVE  UNCHANGED workerFrame
<1>1. CASE WorkerLock(g)
  BY <1>1 DEF WorkerLock
<1>2. CASE Worker(g)
  BY <1>2 DEF Worker, WorkerUnlock, SetStatus, SeeNew, Fork, ChildEnds, WorkerExit
<1> QED
  BY <1>1, <1>2

(* A request finds the vector moving while main adds a grader, at no other *)
(* time.                                                                   *)
LEMMA RestKeepsBoth ==
  ASSUME PointerInv, RunningInv,
         InfoStatus \/ InfoGraders \/ Submit \/ RestLock \/ RestUnlock
  PROVE  PointerInv' /\ RunningInv'
<1> USE DEF PointerInv, RunningInv, RestAt, restFrame, mainVars, restVars, Startup
<1>1. CASE InfoStatus
  BY <1>1 DEF InfoStatus
<1>2. CASE InfoGraders
  BY <1>2 DEF InfoGraders
<1>3. CASE Submit \/ RestLock \/ RestUnlock
  BY <1>3 DEF Submit, RestLock, RestUnlock
<1> QED
  BY <1>1, <1>2, <1>3

(* The handler finds a null pointer only while main is before its          *)
(* assignment.                                                             *)
LEMMA HandlerKeepsBoth ==
  ASSUME PointerInv, RunningInv, Signal \/ HandlerLock \/ HandlerStep
  PROVE  PointerInv' /\ RunningInv'
<1> USE DEF PointerInv, RunningInv, HandlerAt, handlerFrame, mainVars, restVars, Startup
<1>1. CASE Signal \/ HandlerLock \/ HandlerUnlock
  BY <1>1 DEF Signal, HandlerLock, HandlerUnlock
<1>2. CASE HandlerEnter
  BY <1>2 DEF HandlerEnter, Crashes
<1>3. CASE SignalGrader
  BY <1>3 DEF SignalGrader, Crashes
<1>4. CASE Terminate \/ SetTerminated \/ JoinWorker \/ AllJoined
  BY <1>4 DEF Terminate, SetTerminated, JoinWorker, AllJoined
<1>5. CASE Shutdown
  BY <1>5 DEF Shutdown, Crashes
<1>6. CASE Exit
  BY <1>6 DEF Exit
<1> QED
  BY <1>1, <1>2, <1>3, <1>4, <1>5, <1>6 DEF HandlerStep

LEMMA StepKeepsBoth ==
  ASSUME PointerInv, RunningInv, [Next]_vars
  PROVE  PointerInv' /\ RunningInv'
<1>1. CASE MainStep
  BY <1>1, MainKeepsPointers, MainKeepsRunning
<1>2. CASE \E g \in Grader : WorkerLock(g) \/ Worker(g)
  <2>1. UNCHANGED workerFrame
    BY <1>2, WorkerLeaves
  <2> QED
    BY <2>1 DEF workerFrame, mainVars, restVars, PointerInv, RunningInv
<1>3. CASE InfoStatus \/ InfoGraders \/ Submit \/ RestLock \/ RestUnlock
  BY <1>3, RestKeepsBoth
<1>4. CASE Signal \/ HandlerLock \/ HandlerStep
  BY <1>4, HandlerKeepsBoth
<1>5. CASE UNCHANGED vars
  BY <1>5 DEF vars, mainVars, restVars, PointerInv, RunningInv
<1> QED
  BY <1>1, <1>2, <1>3, <1>4, <1>5 DEF Next

LEMMA BothHold == Spec => [](PointerInv /\ RunningInv)
<1>1. Init => PointerInv /\ RunningInv
  BY DEF Init, PointerInv, RunningInv
<1>2. PointerInv /\ RunningInv /\ [Next]_vars => (PointerInv /\ RunningInv)'
  BY StepKeepsBoth
<1> QED
  BY <1>1, <1>2, PTL DEF Spec

(* A process that has crashed, of a signal or of a request, did so during  *)
(* the start (rest/grader.cpp:27-49, grader_pool.cpp:83, 114).             *)
THEOREM CrashesInStartup == Spec => []CrashOnlyInStartup
<1>1. PointerInv => CrashOnlyInStartup
  BY DEF PointerInv, CrashOnlyInStartup
<1> QED
  BY <1>1, BothHold, PTL

(* A request that has read RUNNING finds the vector complete and at rest   *)
(* (router.cpp:76-87, grader_pool.cpp:86).                                 *)
THEOREM CompleteWhenRunning == Spec => []InfoIsComplete
<1>1. RunningInv => InfoIsComplete
  BY DEF RunningInv, InfoIsComplete, Started
<1> QED
  BY <1>1, BothHold, PTL

-------------------------------------------------------------------------------
(* The mutexes of the log.                                                 *)

Places ==
  {"none", "log_start", "set_init", "log_init", "set_idle", "loop", "set_busy", "log_new",
   "fork", "waitpid", "log_done", "set_done", "exited"}

HandlerPlaces ==
  {"none", "enter", "log_receive", "signal", "log_signal", "await", "log_cleanup",
   "set_terminated", "log_terminated", "join", "log_stopping", "shutdown", "log_stopped", "exit"}

Mutex == UNION {{build[unit] : unit \in Unit} : build \in Builds}

LogTyped == mutex_of \in Builds /\ logging \in [Frame -> Mutex \cup {None}]

(* Two log calls under way have two mutexes.                               *)
Exclusive ==
  \A e, f \in Frame : (e # f /\ logging[e] # None) => logging[e] # logging[f]

(* A mutex is held at a log call only, where the frame can unlock it.      *)
HeldAtLog ==
  /\ logging[Main] # None => main_pc \in DOMAIN MainLog
  /\ \A g \in Grader : logging[g] # None => worker_pc[g] \in DOMAIN WorkerLog
  /\ logging[Rest] # None => rest_pc = "log_add"
  /\ logging[Handler] # None => handler_pc \in DOMAIN HandlerLog

(* The handler's frame is on top of main's: what main held, it holds.      *)
MainIsFrozen == handler_pc # "none" => interrupted = logging[Main]

PlacesTyped ==
  /\ worker_pc \in [Grader -> Places] /\ handler_pc \in HandlerPlaces
  /\ status \in [Grader -> GRADER_STATUS]
  /\ stuck \in [Grader -> BOOLEAN]
  /\ main_pc \in {"log_grade", "hand_over"} => main_at \in Grader
  /\ \A g \in Grader : status[g] = "BUSY" => Busy(g)

(* A grader in the vector has a thread, and no other has one but the next. *)
VectorInv ==
  /\ graders \in 0 .. NumGraders
  /\ main_pc = "emplace" => graders < NumGraders /\ worker_pc[graders] # "none"
  /\ \A g \in Grader : g < graders => worker_pc[g] # "none"
  /\ \A g \in Grader :
       (g > graders \/ (g = graders /\ main_pc # "emplace")) => worker_pc[g] = "none"

Signalling ==
  {"signal", "log_signal", "await", "log_cleanup", "set_terminated", "log_terminated"}

(* The handler has told the grader to stop, and the worker may have        *)
(* replaced that.                                                          *)
Told(g) == status[g] = "TERMINATED" \/ g \in overwritten

(* The handler deals with the graders one after another and forgets none.  *)
SignalInv ==
  /\ handler_at \in 0 .. graders
  /\ handler_pc \in Signalling \ {"signal"} => handler_at < graders
  /\ handler_pc \in Signalling =>
       \A g \in Grader :
         (g < handler_at \/ (handler_pc = "log_terminated" /\ g = handler_at)) <=> Told(g)
  /\ handler_pc \in {"none", "enter", "log_receive"} =>
       handler_at = 0 /\ \A g \in Grader : ~Told(g)
  /\ handler_pc \notin Signalling \cup {"none", "enter", "log_receive"} =>
       \A g \in Grader : g < graders <=> Told(g)

(* Who has left its loop was told so; who has replaced that never leaves.  *)
FinalInv ==
  \A g \in Grader :
    /\ worker_pc[g] = "exited" => status[g] = "TERMINATED"
    /\ g \in overwritten => status[g] # "TERMINATED"

LogInv == LogTyped /\ Exclusive /\ HeldAtLog /\ MainIsFrozen
WayInv == PlacesTyped /\ VectorInv /\ SignalInv /\ FinalInv
FullInv == LogInv /\ WayInv

-------------------------------------------------------------------------------
(* Lock takes a mutex nobody holds, Unlock gives up one's own.             *)

LEMMA LockKeeps ==
  ASSUME NEW f \in Frame, NEW unit \in Unit, LogTyped, Exclusive, Lock(f, unit),
         UNCHANGED mutex_of
  PROVE  /\ LogTyped' /\ Exclusive' /\ logging[f] = None
         /\ logging'[f] # None /\ \A e \in Frame \ {f} : logging'[e] = logging[e]
<1>1. /\ logging' = [logging EXCEPT ![f] = mutex_of[unit]] /\ ~Held(mutex_of[unit])
      /\ logging[f] = None
  BY DEF Lock
<1>2. mutex_of[unit] \in Mutex /\ mutex_of[unit] # None
  BY BuildsAssumption DEF LogTyped, Mutex
<1>3. LogTyped'
  BY <1>1, <1>2 DEF LogTyped
<1>4. logging'[f] = mutex_of[unit] /\ \A e \in Frame \ {f} : logging'[e] = logging[e]
  BY <1>1 DEF LogTyped
<1>5. \A e \in Frame : logging[e] # mutex_of[unit]
  BY <1>1 DEF Held
<1>6. Exclusive'
  BY <1>4, <1>5 DEF Exclusive
<1> QED
  BY <1>1, <1>2, <1>3, <1>4, <1>6

LEMMA UnlockKeeps ==
  ASSUME NEW f \in Frame, LogTyped, Exclusive, Unlock(f), UNCHANGED mutex_of
  PROVE  /\ LogTyped' /\ Exclusive' /\ logging[f] # None
         /\ logging'[f] = None /\ \A e \in Frame \ {f} : logging'[e] = logging[e]
<1>1. logging' = [logging EXCEPT ![f] = None] /\ logging[f] # None
  BY DEF Unlock
<1>2. LogTyped'
  BY <1>1 DEF LogTyped
<1>3. logging'[f] = None /\ \A e \in Frame \ {f} : logging'[e] = logging[e]
  BY <1>1 DEF LogTyped
<1>4. Exclusive'
  BY <1>3 DEF Exclusive
<1> QED
  BY <1>1, <1>2, <1>3, <1>4

LEMMA FramesAreFour ==
  /\ Main \in Frame /\ Handler \in Frame /\ Rest \in Frame
  /\ Main # Handler /\ Main # Rest /\ Handler # Rest
  /\ \A g \in Grader : g \in Frame /\ g # Main /\ g # Handler /\ g # Rest
  BY FramesAssumption DEF Frame

(* Steps that take no part in a log call.                                  *)
LEMMA SameLog ==
  ASSUME LogTyped, Exclusive, UNCHANGED <<logging, mutex_of>>
  PROVE  LogTyped' /\ Exclusive'
  BY DEF LogTyped, Exclusive

-------------------------------------------------------------------------------
LEMMA MainKeepsLog == ASSUME LogInv, MainStep PROVE LogInv'
<1> USE FramesAreFour DEF LogInv
<1>0. handler_pc = "none" /\ UNCHANGED <<mutex_of, handlerVars, rest_pc>>
  BY DEF MainStep, MainLock, MainUnlock, NewPool, NewServer, Serve, StartPool, CreateThread,
     EmplaceGrader, SetRunning, Collect, Assign, HandOver, MainAt, mainFrame, restVars
<1>1. CASE MainLock
  <2>1. PICK pc \in DOMAIN MainLog : MainAt(pc) /\ Lock(Main, MainLog[pc].unit)
                                     /\ UNCHANGED <<mainVars, worker_pc>>
    BY <1>1 DEF MainLock
  <2>2. MainLog[pc].unit \in Unit
    BY <2>1 DEF MainLog, Unit
  <2>3. /\ LogTyped' /\ Exclusive'
        /\ \A e \in Frame \ {Main} : logging'[e] = logging[e]
    BY <2>1, <2>2, <1>0, LockKeeps
  <2>4. HeldAtLog'
    BY <2>1, <2>3, <1>0 DEF HeldAtLog, MainAt, mainVars, handlerVars
  <2> QED
    BY <2>3, <2>4, <1>0 DEF MainIsFrozen, handlerVars
<1>2. CASE MainUnlock
  <2>1. PICK pc \in DOMAIN MainLog : MainAt(pc) /\ Unlock(Main) /\ UNCHANGED worker_pc
    BY <1>2 DEF MainUnlock
  <2>2. /\ LogTyped' /\ Exclusive' /\ logging'[Main] = None
        /\ \A e \in Frame \ {Main} : logging'[e] = logging[e]
    BY <2>1, <1>0, UnlockKeeps
  <2>3. HeldAtLog'
    BY <2>1, <2>2, <1>0 DEF HeldAtLog, handlerVars
  <2> QED
    BY <2>2, <2>3, <1>0 DEF MainIsFrozen, handlerVars
<1>3. CASE CreateThread
  <2>1. logging[Main] = None /\ UNCHANGED logging
    BY <1>3 DEF CreateThread, MainAt, HeldAtLog, MainLog
  <2>2. \A g \in Grader : worker_pc'[g] = worker_pc[g] \/ worker_pc'[g] = "log_start"
    BY <1>3 DEF CreateThread
  <2>3. HeldAtLog'
    BY <2>1, <2>2, <1>0 DEF HeldAtLog, WorkerLog, handlerVars
  <2> QED
    BY <2>1, <2>3, <1>0, SameLog DEF MainIsFrozen, handlerVars
<1>4. CASE NewPool \/ NewServer \/ Serve \/ StartPool \/ EmplaceGrader \/ SetRunning
           \/ (\E g \in Grader : Collect(g) \/ Assign(g)) \/ HandOver
  <2>1. logging[Main] = None /\ UNCHANGED <<logging, worker_pc>>
    BY <1>4 DEF NewPool, NewServer, Serve, StartPool, EmplaceGrader, SetRunning, Collect, Assign,
       HandOver, MainAt, HeldAtLog, MainLog, mainVars
  <2>2. HeldAtLog'
    BY <2>1, <1>0 DEF HeldAtLog, handlerVars
  <2> QED
    BY <2>1, <2>2, <1>0, SameLog DEF MainIsFrozen, handlerVars
<1> QED
  BY <1>1, <1>2, <1>3, <1>4 DEF MainStep

LEMMA WorkerKeepsLog ==
  ASSUME LogInv, NEW g \in Grader, WorkerLock(g) \/ Worker(g), worker_pc \in [Grader -> Places]
  PROVE  LogInv'
<1> USE FramesAreFour DEF LogInv
<1>0. UNCHANGED <<mutex_of, main_pc, rest_pc, handler_pc, interrupted>>
  BY WorkerLeaves DEF workerFrame, mainVars, restVars, handlerVars
<1>1. CASE WorkerLock(g)
  <2>1. PICK pc \in DOMAIN WorkerLog, unit \in Unit :
             WorkerAt(g, pc) /\ Lock(g, unit) /\ UNCHANGED worker_pc
    BY <1>1 DEF WorkerLock, workerVars
  <2>2. /\ LogTyped' /\ Exclusive'
        /\ \A e \in Frame \ {g} : logging'[e] = logging[e]
    BY <2>1, <1>0, LockKeeps
  <2>3. HeldAtLog'
    BY <2>1, <2>2, <1>0 DEF HeldAtLog, WorkerAt
  <2> QED
    BY <2>2, <2>3, <1>0 DEF MainIsFrozen
<1>2. CASE WorkerUnlock(g)
  <2>1. Unlock(g) /\ \E pc : WorkerGoes(g, pc)
    BY <1>2 DEF WorkerUnlock
  <2>2. /\ LogTyped' /\ Exclusive' /\ logging'[g] = None
        /\ \A e \in Frame \ {g} : logging'[e] = logging[e]
    BY <2>1, <1>0, UnlockKeeps
  <2>3. \A h \in Grader \ {g} : worker_pc'[h] = worker_pc[h]
    BY <2>1 DEF WorkerGoes
  <2>4. HeldAtLog'
    BY <2>2, <2>3, <1>0 DEF HeldAtLog
  <2> QED
    BY <2>2, <2>4, <1>0 DEF MainIsFrozen
<1>3. CASE SetStatus(g) \/ SeeNew(g) \/ Fork(g) \/ ChildEnds(g) \/ WorkerExit(g)
  <2>1. logging[g] = None /\ UNCHANGED logging /\ \E pc : WorkerGoes(g, pc)
    BY <1>3 DEF SetStatus, WorkerSets, SeeNew, Fork, ChildEnds, WorkerExit, WorkerAt, HeldAtLog,
       WorkerLog
  <2>2. \A h \in Grader \ {g} : worker_pc'[h] = worker_pc[h]
    BY <2>1 DEF WorkerGoes
  <2>3. HeldAtLog'
    BY <2>1, <2>2, <1>0 DEF HeldAtLog
  <2> QED
    BY <2>1, <2>3, <1>0, SameLog DEF MainIsFrozen
<1> QED
  BY <1>1, <1>2, <1>3 DEF Worker

LEMMA RestKeepsLog ==
  ASSUME LogInv, InfoStatus \/ InfoGraders \/ Submit \/ RestLock \/ RestUnlock
  PROVE  LogInv'
<1> USE FramesAreFour DEF LogInv
<1>0. UNCHANGED <<mutex_of, main_pc, worker_pc, handler_pc, interrupted>>
  BY DEF InfoStatus, InfoGraders, Submit, RestLock, RestUnlock, restFrame, mainVars, workerVars,
     handlerVars
<1>1. CASE RestLock
  <2>1. RestAt("log_add") /\ Lock(Rest, "pool") /\ "pool" \in Unit /\ UNCHANGED rest_pc
    BY <1>1 DEF RestLock, Unit, restVars
  <2>2. /\ LogTyped' /\ Exclusive'
        /\ \A e \in Frame \ {Rest} : logging'[e] = logging[e]
    BY <2>1, <1>0, LockKeeps
  <2> QED
    BY <2>1, <2>2, <1>0 DEF MainIsFrozen, HeldAtLog, RestAt
<1>2. CASE RestUnlock
  <2>1. /\ LogTyped' /\ Exclusive' /\ logging'[Rest] = None
        /\ \A e \in Frame \ {Rest} : logging'[e] = logging[e]
    BY <1>2, <1>0, UnlockKeeps DEF RestUnlock
  <2> QED
    BY <2>1, <1>0 DEF MainIsFrozen, HeldAtLog
<1>3. CASE InfoStatus \/ InfoGraders \/ Submit
  <2>1. UNCHANGED logging /\ logging[Rest] = None
    BY <1>3 DEF InfoStatus, InfoGraders, Submit, RestAt, HeldAtLog
  <2> QED
    BY <2>1, <1>0, SameLog DEF MainIsFrozen, HeldAtLog
<1> QED
  BY <1>1, <1>2, <1>3

LEMMA HandlerKeepsLog ==
  ASSUME LogInv, handler_pc \in HandlerPlaces, Signal \/ HandlerLock \/ HandlerStep
  PROVE  LogInv'
<1> USE FramesAreFour DEF LogInv
<1>0. UNCHANGED <<mutex_of, main_pc, worker_pc, rest_pc>>
  BY DEF Signal, HandlerLock, HandlerStep, HandlerEnter, HandlerUnlock, SignalGrader, Terminate,
     SetTerminated, JoinWorker, AllJoined, Shutdown, Exit, handlerFrame, mainVars, workerVars,
     restVars
<1>1. CASE Signal
  <2>1. logging[Handler] = None /\ UNCHANGED logging /\ interrupted' = logging[Main]
    BY <1>1 DEF Signal, HandlerAt, HeldAtLog, HandlerLog
  <2> QED
    BY <2>1, <1>0, SameLog DEF MainIsFrozen, HeldAtLog
<1>2. CASE HandlerLock
  <2>1. PICK pc \in DOMAIN HandlerLog, unit \in Unit :
             HandlerAt(pc) /\ Lock(Handler, unit) /\ UNCHANGED <<handler_pc, interrupted>>
    BY <1>2 DEF HandlerLock, handlerFrame
  <2>2. /\ LogTyped' /\ Exclusive'
        /\ \A e \in Frame \ {Handler} : logging'[e] = logging[e]
    BY <2>1, <1>0, LockKeeps
  <2> QED
    BY <2>1, <2>2, <1>0 DEF MainIsFrozen, HeldAtLog, HandlerAt
<1>3. CASE HandlerUnlock
  <2>1. PICK pc \in DOMAIN HandlerLog : HandlerAt(pc) /\ Unlock(Handler) /\ UNCHANGED interrupted
    BY <1>3 DEF HandlerUnlock, handlerFrame
  <2>2. /\ LogTyped' /\ Exclusive' /\ logging'[Handler] = None
        /\ \A e \in Frame \ {Handler} : logging'[e] = logging[e]
    BY <2>1, <1>0, UnlockKeeps
  <2>3. handler_pc # "none"
    BY <2>1 DEF HandlerAt, HandlerLog
  <2> QED
    BY <2>1, <2>2, <2>3, <1>0 DEF MainIsFrozen, HeldAtLog
<1>4. CASE \/ HandlerEnter \/ SignalGrader \/ Terminate \/ SetTerminated
           \/ JoinWorker \/ AllJoined \/ Shutdown \/ Exit
  <2>1. /\ logging[Handler] = None /\ UNCHANGED <<logging, interrupted>>
        /\ handler_pc # "none"
    BY <1>4 DEF HandlerEnter, SignalGrader, Terminate, SetTerminated, JoinWorker, AllJoined,
       Shutdown, Exit, HandlerAt, HeldAtLog, HandlerLog, handlerFrame
  <2> QED
    BY <2>1, <1>0, SameLog DEF MainIsFrozen, HeldAtLog
<1> QED
  BY <1>1, <1>2, <1>3, <1>4 DEF HandlerStep

-------------------------------------------------------------------------------
(* The vector, and the graders the handler has signalled.                  *)

LEMMA GraderNumbers ==
  NumGraders \in Nat /\ NumGraders > 0 /\ \A g : g \in Grader <=> (g \in Nat /\ g < NumGraders)
  BY NumGradersAssumption DEF Grader

LEMMA MainKeepsWay == ASSUME WayInv, MainStep PROVE WayInv'
<1> USE GraderNumbers DEF WayInv
<1>0. handler_pc = "none" /\ UNCHANGED <<overwritten, stuck, handlerVars>>
  BY DEF MainStep, MainLock, MainUnlock, NewPool, NewServer, Serve, StartPool, CreateThread,
     EmplaceGrader, SetRunning, Collect, Assign, HandOver, MainAt, mainFrame
<1>a. \A g \in Grader : status[g] # "TERMINATED" /\ g \notin overwritten
  BY <1>0 DEF SignalInv, Told
<1>b. ASSUME UNCHANGED graders, \A g \in Grader : status'[g] # "TERMINATED"
      PROVE  SignalInv'
  BY <1>0, <1>a, <1>b DEF SignalInv, Signalling, Told, handlerVars
<1>c. ASSUME \A g \in Grader : status'[g] # "TERMINATED",
             \A g \in Grader : worker_pc'[g] = "exited" => worker_pc[g] = "exited"
      PROVE  FinalInv'
  BY <1>0, <1>a, <1>c DEF FinalInv
<1>1. CASE MainLock \/ NewPool \/ NewServer \/ Serve \/ StartPool \/ SetRunning
  <2>1. /\ UNCHANGED <<worker_pc, status, main_at, graders>>
        /\ main_pc # "emplace"
        /\ main_pc' = main_pc \/ main_pc' \notin {"emplace", "log_grade", "hand_over"}
    BY <1>1 DEF MainLock, NewPool, NewServer, Serve, StartPool, SetRunning, MainAt, MainLog,
       mainVars
  <2>2. PlacesTyped'
    BY <2>1, <1>0 DEF PlacesTyped, Busy, handlerVars
  <2>3. VectorInv'
    BY <2>1 DEF VectorInv
  <2>4. SignalInv' /\ FinalInv'
    BY <2>1, <1>a, <1>b, <1>c DEF PlacesTyped
  <2> QED
    BY <2>2, <2>3, <2>4
<1>2. CASE MainUnlock
  <2>1. PICK pc \in DOMAIN MainLog : /\ MainAt(pc) /\ main_pc' = MainLog[pc].next
                                     /\ UNCHANGED <<worker_pc, status, main_at, graders>>
    BY <1>2 DEF MainUnlock
  <2>2. main_pc # "emplace" /\ main_pc' # "emplace" /\ main_pc' # "log_grade"
        /\ (main_pc' = "hand_over" => main_pc = "log_grade")
    BY <2>1 DEF MainLog, MainAt
  <2>3. PlacesTyped'
    BY <2>1, <2>2, <1>0 DEF PlacesTyped, Busy, handlerVars
  <2>4. VectorInv'
    BY <2>1, <2>2 DEF VectorInv
  <2>5. SignalInv' /\ FinalInv'
    BY <2>1, <1>a, <1>b, <1>c
  <2> QED
    BY <2>3, <2>4, <2>5
<1>3. CASE CreateThread
  <2>1. /\ graders < NumGraders /\ graders \in Grader /\ main_pc' = "emplace"
        /\ worker_pc' = [worker_pc EXCEPT ![graders] = "log_start"]
        /\ main_pc # "emplace" /\ UNCHANGED <<status, main_at, graders>>
    BY <1>3 DEF CreateThread, MainAt, VectorInv
  <2>2. PlacesTyped'
    BY <2>1, <1>0 DEF PlacesTyped, Places, Busy, VectorInv, handlerVars
  <2>3. VectorInv'
    BY <2>1 DEF VectorInv, PlacesTyped
  <2>4. SignalInv' /\ FinalInv'
    BY <2>1, <1>a, <1>b, <1>c DEF PlacesTyped
  <2> QED
    BY <2>2, <2>3, <2>4
<1>4. CASE EmplaceGrader
  <2>1. /\ main_pc = "emplace" /\ main_pc' = "create" /\ graders' = graders + 1
        /\ UNCHANGED <<worker_pc, status, main_at>>
    BY <1>4 DEF EmplaceGrader, MainAt
  <2>2. PlacesTyped'
    BY <2>1, <1>0 DEF PlacesTyped, Busy, handlerVars
  <2>3. VectorInv'
    BY <2>1 DEF VectorInv
  <2>4. SignalInv'
    BY <2>1, <1>0, <1>a DEF SignalInv, VectorInv, Signalling, Told, handlerVars
  <2>5. FinalInv'
    BY <2>1, <1>a, <1>c
  <2> QED
    BY <2>2, <2>3, <2>4, <2>5
<1>5. CASE \E g \in Grader : Collect(g) \/ Assign(g)
  <2>1. /\ main_pc' = "log_grade" => main_at' \in Grader
        /\ main_pc # "emplace" /\ main_pc' \in {"loop", "log_grade"}
        /\ \A h \in Grader : status'[h] \in {status[h], "IDLE"}
        /\ status' \in [Grader -> GRADER_STATUS]
        /\ UNCHANGED <<worker_pc, graders>>
    BY <1>5 DEF Collect, Assign, MainAt, mainVars, PlacesTyped, GRADER_STATUS
  <2>2. PlacesTyped'
    BY <2>1, <1>0 DEF PlacesTyped, Busy, handlerVars
  <2>3. VectorInv'
    BY <2>1 DEF VectorInv
  <2>4. SignalInv' /\ FinalInv'
    BY <2>1, <1>a, <1>b, <1>c DEF PlacesTyped
  <2> QED
    BY <2>2, <2>3, <2>4
<1>6. CASE HandOver
  <2>1. /\ main_pc # "emplace" /\ main_pc' = "loop" /\ status' = [status EXCEPT ![main_at] = "NEW"]
        /\ UNCHANGED <<worker_pc, graders>>
    BY <1>6 DEF HandOver, MainAt
  <2>2. PlacesTyped'
    BY <2>1, <1>0 DEF PlacesTyped, Busy, GRADER_STATUS, handlerVars
  <2>3. VectorInv'
    BY <2>1 DEF VectorInv
  <2>4. SignalInv' /\ FinalInv'
    BY <2>1, <1>a, <1>b, <1>c DEF PlacesTyped
  <2> QED
    BY <2>2, <2>3, <2>4
<1> QED
  BY <1>1, <1>2, <1>3, <1>4, <1>5, <1>6 DEF MainStep

(* A worker leaves its place for another, and never for none.              *)
LEMMA WorkerKeepsWay ==
  ASSUME WayInv, NEW g \in Grader, WorkerLock(g) \/ Worker(g)
  PROVE  WayInv'
<1> USE DEF WayInv
<1>0. UNCHANGED <<main_pc, main_at, graders, handler_pc, handler_at>>
  BY WorkerLeaves DEF workerFrame, mainVars, handlerVars
<1>1. /\ worker_pc' \in [Grader -> Places] /\ status' \in [Grader -> GRADER_STATUS]
      /\ stuck' \in [Grader -> BOOLEAN]
      /\ \A h \in Grader : worker_pc[h] = "none" <=> worker_pc'[h] = "none"
      /\ \A h \in Grader : status'[h] = "BUSY" => Busy(h)'
      /\ \A h \in Grader : Told(h) <=> Told(h)'
      /\ FinalInv'
  <2>1. CASE WorkerLock(g)
    BY <2>1 DEF WorkerLock, workerVars, PlacesTyped, Busy, Told, FinalInv
  <2>2. CASE WorkerUnlock(g)
    <3>1. PICK pc \in DOMAIN WorkerLog : \E next \in WorkerLog[pc].next :
               /\ WorkerAt(g, pc) /\ WorkerGoes(g, next)
               /\ UNCHANGED <<status, overwritten, stuck>>
      BY <2>2 DEF WorkerUnlock
    <3>2. PICK next \in WorkerLog[pc].next :
               WorkerGoes(g, next) /\ UNCHANGED <<status, overwritten, stuck>>
      BY <3>1
    <3>3. /\ next \in Places \ {"none", "exited"}
          /\ pc \in {"log_new", "log_done"} => next \in {"fork", "log_done", "set_done"}
      BY DEF WorkerLog, Places
    <3>4. worker_pc[g] = pc /\ pc # "none"
      BY <3>1 DEF WorkerAt, WorkerLog
    <3>5. Busy(g) => next \in {"fork", "log_done", "set_done"}
      BY <3>3, <3>4 DEF Busy, WorkerLog
    <3> QED
      BY <3>2, <3>3, <3>4, <3>5 DEF WorkerGoes, PlacesTyped, Busy, Told, FinalInv
  <2>3. CASE SetStatus(g)
    <3>1. PICK pc \in DOMAIN WorkerSets :
               /\ WorkerAt(g, pc) /\ WorkerGoes(g, WorkerSets[pc].next) /\ UNCHANGED stuck
               /\ status' = [status EXCEPT ![g] = WorkerSets[pc].status]
               /\ overwritten' = overwritten \cup (IF status[g] = "TERMINATED" THEN {g} ELSE {})
      BY <2>3 DEF SetStatus
    <3>2. /\ WorkerSets[pc].next \in Places \ {"none"} /\ WorkerSets[pc].next # "exited"
          /\ WorkerSets[pc].status \in GRADER_STATUS \ {"TERMINATED"}
          /\ WorkerSets[pc].status = "BUSY" => WorkerSets[pc].next = "log_new"
          /\ worker_pc[g] # "none"
      BY <3>1 DEF WorkerSets, WorkerAt, Places, GRADER_STATUS
    <3>3. \A h \in Grader : Told(h) <=> Told(h)'
      BY <3>1, <3>2 DEF Told, PlacesTyped
    <3>4. FinalInv'
      BY <3>1, <3>2 DEF FinalInv, WorkerGoes, PlacesTyped
    <3> QED
      BY <3>1, <3>2, <3>3, <3>4 DEF WorkerGoes, PlacesTyped, Busy
  <2>4. CASE SeeNew(g) \/ ChildEnds(g) \/ WorkerExit(g)
    BY <2>4 DEF SeeNew, ChildEnds, WorkerExit, WorkerAt, WorkerGoes, PlacesTyped, Places, Busy,
       Told, FinalInv
  <2>5. CASE Fork(g)
    <3>1. (\E unit \in {"file", "script"} : Held(mutex_of[unit])) \in BOOLEAN
      BY Zenon
    <3> QED
      BY <3>1, <2>5 DEF Fork, WorkerAt, WorkerGoes, PlacesTyped, Places, Busy, Told,
       FinalInv
  <2> QED
    BY <2>1, <2>2, <2>3, <2>4, <2>5 DEF Worker
<1>2. PlacesTyped'
  BY <1>0, <1>1 DEF PlacesTyped
<1>3. VectorInv'
  BY <1>0, <1>1, GraderNumbers DEF VectorInv
<1>4. SignalInv'
  BY <1>0, <1>1 DEF SignalInv
<1> QED
  BY <1>1, <1>2, <1>3, <1>4

LEMMA HandlerKeepsWay ==
  ASSUME WayInv, Signal \/ HandlerLock \/ HandlerStep
  PROVE  WayInv'
<1> USE GraderNumbers DEF WayInv
<1>0. UNCHANGED <<main_pc, main_at, graders, worker_pc, overwritten, stuck>>
  BY DEF Signal, HandlerLock, HandlerStep, HandlerEnter, HandlerUnlock, SignalGrader, Terminate,
     SetTerminated, JoinWorker, AllJoined, Shutdown, Exit, handlerFrame, mainVars, workerVars
<1>1. VectorInv'
  BY <1>0 DEF VectorInv
<1> SUFFICES /\ handler_pc' \in HandlerPlaces /\ status' \in [Grader -> GRADER_STATUS]
             /\ \A g \in Grader : status'[g] \in {status[g], "TERMINATED"}
             /\ SignalInv' /\ FinalInv'
  BY <1>0, <1>1 DEF PlacesTyped, Busy
<1> USE DEF PlacesTyped, Told, FinalInv
<1>2. CASE Signal
  BY <1>2, <1>0 DEF Signal, HandlerAt, HandlerGoes, HandlerPlaces, SignalInv, Signalling, mainVars,
     workerVars
<1>3. CASE HandlerEnter
  BY <1>3, <1>0 DEF HandlerEnter, Crashes, HandlerAt, HandlerGoes, HandlerPlaces, SignalInv,
     Signalling
<1>4. CASE HandlerLock
  BY <1>4, <1>0 DEF HandlerLock, SignalInv
<1>5. CASE HandlerUnlock
  <2>1. PICK pc \in DOMAIN HandlerLog :
             /\ HandlerAt(pc) /\ UNCHANGED status
             /\ HandlerGoes(HandlerLog[pc].next, handler_at + HandlerLog[pc].step)
    BY <1>5 DEF HandlerUnlock
  <2>2. CASE pc = "log_receive"
    BY <2>1, <2>2, <1>0 DEF HandlerLog, HandlerAt, HandlerGoes, HandlerPlaces, SignalInv, Signalling
  <2>3. CASE pc = "log_signal"
    BY <2>1, <2>3, <1>0 DEF HandlerLog, HandlerAt, HandlerGoes, HandlerPlaces, SignalInv, Signalling
  <2>4. CASE pc = "log_terminated"
    <3>1. handler_pc = "log_terminated" /\ handler_pc' = "signal" /\ handler_at' = handler_at + 1
      BY <2>1, <2>4 DEF HandlerLog, HandlerAt, HandlerGoes
    <3>2. \A g \in Grader : g < handler_at + 1 <=> (g < handler_at \/ g = handler_at)
      BY GraderNumbers DEF SignalInv, VectorInv
    <3>3. handler_at' \in 0 .. graders
      BY <3>1 DEF SignalInv, VectorInv, Signalling
    <3>4. \A g \in Grader : g < handler_at + 1 <=> Told(g)
      BY <3>1, <3>2 DEF SignalInv, Signalling
    <3> QED
      BY <3>1, <3>3, <3>4, <2>1, <1>0 DEF HandlerPlaces, SignalInv, Signalling
  <2>5. CASE pc \in {"log_cleanup", "log_stopping", "log_stopped"}
    BY <2>1, <2>5, <1>0 DEF HandlerLog, HandlerAt, HandlerGoes, HandlerPlaces, SignalInv, Signalling
  <2> QED
    BY <2>2, <2>3, <2>4, <2>5 DEF HandlerLog
<1>6. CASE SignalGrader
  BY <1>6, <1>0 DEF SignalGrader, Crashes, HandlerAt, HandlerGoes, HandlerPlaces, SignalInv,
     VectorInv, Signalling
<1>7. CASE Terminate \/ SetTerminated
  <2>1. handler_at \in Grader
    BY <1>7 DEF Terminate, SetTerminated, HandlerAt, SignalInv, VectorInv, Signalling
  <2>2. CASE Terminate
    BY <2>1, <2>2, <1>0 DEF Terminate, HandlerAt, HandlerGoes, HandlerPlaces, SignalInv, Signalling
  <2>3. CASE SetTerminated
    BY <2>1, <2>3, <1>0 DEF SetTerminated, HandlerAt, HandlerGoes, HandlerPlaces, SignalInv,
       Signalling, GRADER_STATUS
  <2> QED
    BY <1>7, <2>2, <2>3
<1>8. CASE JoinWorker
  BY <1>8, <1>0 DEF JoinWorker, HandlerAt, HandlerGoes, HandlerPlaces, SignalInv, VectorInv,
     Signalling
<1>9. CASE AllJoined \/ Shutdown \/ Exit
  BY <1>9, <1>0 DEF AllJoined, Shutdown, Exit, Crashes, HandlerAt, HandlerGoes, HandlerPlaces,
     SignalInv, Signalling
<1> QED
  BY <1>2, <1>3, <1>4, <1>5, <1>6, <1>7, <1>8, <1>9 DEF HandlerStep

LEMMA StepKeepsFull == ASSUME FullInv, [Next]_vars PROVE FullInv'
<1> USE DEF FullInv
<1>1. CASE MainStep
  BY <1>1, MainKeepsLog, MainKeepsWay
<1>2. CASE \E g \in Grader : WorkerLock(g) \/ Worker(g)
  BY <1>2, WorkerKeepsLog, WorkerKeepsWay DEF WayInv, PlacesTyped
<1>3. CASE InfoStatus \/ InfoGraders \/ Submit \/ RestLock \/ RestUnlock
  <2>1. UNCHANGED <<mainVars, status, workerVars, handlerVars>>
    BY <1>3 DEF InfoStatus, InfoGraders, Submit, RestLock, RestUnlock, restFrame
  <2>2. WayInv'
    BY <2>1 DEF mainVars, workerVars, handlerVars, WayInv, PlacesTyped, VectorInv, SignalInv,
       FinalInv, Told, Busy
  <2> QED
    BY <1>3, <2>2, RestKeepsLog
<1>4. CASE Signal \/ HandlerLock \/ HandlerStep
  BY <1>4, HandlerKeepsLog, HandlerKeepsWay DEF WayInv, PlacesTyped
<1>5. CASE UNCHANGED vars
  BY <1>5 DEF vars, mainVars, workerVars, restVars, handlerVars, LogInv, LogTyped, Exclusive,
     HeldAtLog, MainIsFrozen, WayInv, PlacesTyped, VectorInv, SignalInv, FinalInv, Told, Busy
<1> QED
  BY <1>1, <1>2, <1>3, <1>4, <1>5 DEF Next

LEMMA InitIsFull == Init => FullInv
<1> SUFFICES ASSUME Init PROVE FullInv
  OBVIOUS
<1>1. LogInv
  BY FramesAreFour DEF Init, LogInv, LogTyped, Exclusive, HeldAtLog, MainIsFrozen
<1>2. WayInv
  BY GraderNumbers DEF Init, WayInv, PlacesTyped, Places, HandlerPlaces, GRADER_STATUS, VectorInv,
     SignalInv, Signalling, FinalInv, Told
<1> QED
  BY <1>1, <1>2 DEF FullInv

LEMMA FullHolds == Spec => []FullInv
<1>1. FullInv /\ [Next]_vars => FullInv'
  BY StepKeepsFull
<1> QED
  BY <1>1, InitIsFull, PTL DEF Spec

-------------------------------------------------------------------------------
(* Who can go on: what the guards of its actions say, without ENABLED.     *)

AtLog(f) ==
  \/ f = Main /\ handler_pc = "none" /\ main_pc \in DOMAIN MainLog
  \/ f = Handler /\ handler_pc \in DOMAIN HandlerLog
  \/ f = Rest /\ rest_pc = "log_add"
  \/ f \in Grader /\ worker_pc[f] \in DOMAIN WorkerLog

(* Another frame has the mutex of unit, and can unlock it.                 *)
WaitsForLog(f, unit) ==
  \E e \in Frame \ {f} : logging[e] = mutex_of[unit] /\ AtLog(e)

(* Whichever of its log calls it is at.                                    *)
MayLock(units) == \A unit \in units : ~Held(mutex_of[unit])

WorkerCanGo(g) ==
  \/ /\ worker_pc[g] \in DOMAIN WorkerLog
     /\ (logging[g] # None \/ MayLock(WorkerLog[worker_pc[g]].units))
  \/ worker_pc[g] \in DOMAIN WorkerSets
  \/ worker_pc[g] = "loop" /\ status[g] \in {"NEW", "TERMINATED"}
  \/ worker_pc[g] = "fork"
  \/ worker_pc[g] = "waitpid" /\ ~stuck[g]

HandlerCanGo ==
  \/ /\ handler_pc \in DOMAIN HandlerLog
     /\ (logging[Handler] # None \/ MayLock(HandlerLog[handler_pc].units))
  \/ handler_pc \in {"enter", "signal", "set_terminated", "shutdown", "exit"}
  \/ handler_pc = "await" /\ status[handler_at] # "BUSY"
  \/ handler_pc = "join" /\ (handler_at = graders \/ worker_pc[handler_at] = "exited")

(* A log call under way is always one that can end, unless it is main's    *)
(* and the signal has met it.                                              *)
LogCallsEnd ==
  \A f \in Frame : logging[f] # None => (AtLog(f) \/ (f = Main /\ interrupted # None))

(* A grading is held up by a stuck child, by main's log call under the     *)
(* signal, or for as long as another frame logs.                           *)
GradingGoesOn ==
  \A g \in Grader :
    Busy(g) => \/ WorkerCanGo(g) \/ (\E unit \in Unit : WaitsForLog(g, unit))
               \/ stuck[g] \/ interrupted # None

(* After the signal there is somebody who can bring the process nearer to  *)
(* its end, unless there is an obstacle.                                   *)
WayOut ==
  (process = "up" /\ handler_pc # "none") =>
    \/ HandlerCanGo \/ (\E g \in Grader : WorkerCanGo(g)) \/ logging[Rest] # None
    \/ Obstacle

(* A worker that has replaced its TERMINATED never leaves its loop, for    *)
(* which the handler waits.                                                *)
OverwrittenStays ==
  \A g \in overwritten : worker_pc[g] # "exited" /\ status[g] # "TERMINATED"

(* A child is stuck only if another frame was in a log call when it was    *)
(* forked.                                                                 *)
StuckBehindOther ==
  \A g \in Grader :
    (stuck'[g] /\ ~stuck[g]) => \E unit \in {"file", "script"} :
      \E e \in Frame \ {g} : logging[e] = mutex_of[unit]

LEMMA HolderIsAtLog ==
  ASSUME FullInv, NEW f \in Frame, logging[f] # None
  PROVE  AtLog(f) \/ (f = Main /\ interrupted # None)
<1>1. CASE f = Main
  BY <1>1 DEF FullInv, LogInv, HeldAtLog, MainIsFrozen, AtLog
<1>2. CASE f \in Grader \cup {Handler, Rest}
  BY <1>2 DEF FullInv, LogInv, HeldAtLog, AtLog
<1> QED
  BY <1>1, <1>2 DEF Frame

(* Who finds a mutex held waits for one that comes free.                   *)
LEMMA HeldByOther ==
  ASSUME FullInv, NEW f \in Frame, logging[f] = None, NEW unit \in Unit,
         Held(mutex_of[unit])
  PROVE  WaitsForLog(f, unit) \/ interrupted # None
<1>1. PICK e \in Frame : logging[e] = mutex_of[unit]
  BY DEF Held
<1>2. mutex_of[unit] # None
  BY BuildsAssumption DEF FullInv, LogInv, LogTyped
<1> QED
  BY <1>1, <1>2, HolderIsAtLog DEF WaitsForLog

(* A worker that has a thread, and is not spinning, goes on or waits for a *)
(* log call.                                                               *)
LEMMA WorkerGoesOn ==
  ASSUME FullInv, NEW g \in Grader, worker_pc[g] \notin {"none", "exited"},
         worker_pc[g] = "loop" => status[g] = "TERMINATED", ~stuck[g], interrupted = None
  PROVE  WorkerCanGo(g) \/ \E unit \in Unit : WaitsForLog(g, unit)
<1>1. CASE worker_pc[g] \in {"fork", "waitpid", "loop"}
  BY <1>1 DEF WorkerCanGo
<1>2. CASE worker_pc[g] \in DOMAIN WorkerSets
  BY <1>2 DEF WorkerCanGo
<1>3. CASE worker_pc[g] \in DOMAIN WorkerLog
  <2>1. CASE logging[g] # None \/ MayLock(WorkerLog[worker_pc[g]].units)
    BY <1>3, <2>1 DEF WorkerCanGo
  <2>2. CASE logging[g] = None /\ ~MayLock(WorkerLog[worker_pc[g]].units)
    <3>1. PICK unit \in WorkerLog[worker_pc[g]].units : Held(mutex_of[unit])
      BY <2>2 DEF MayLock
    <3>2. unit \in Unit
      BY <1>3, <3>1 DEF WorkerLog, Unit
    <3> QED
      BY <2>2, <3>1, <3>2, HeldByOther, FramesAreFour
  <2> QED
    BY <2>1, <2>2
<1> QED
  BY <1>1, <1>2, <1>3 DEF WorkerLog, WorkerSets, FullInv, WayInv, PlacesTyped, Places

LEMMA BusyGoesOn == FullInv => GradingGoesOn
<1> SUFFICES ASSUME FullInv, NEW g \in Grader, Busy(g), ~stuck[g], interrupted = None
             PROVE  WorkerCanGo(g) \/ \E unit \in Unit : WaitsForLog(g, unit)
  BY DEF GradingGoesOn
<1>1. worker_pc[g] \notin {"none", "exited", "loop"}
  BY DEF Busy
<1> QED
  BY <1>1, WorkerGoesOn

(* The handler waits at a log call, for a grading or for a thread to end:  *)
(* behind each there is a worker that can go on, or a log call.            *)
LEMMA ThereIsAWayOut == FullInv => WayOut
<1> SUFFICES ASSUME FullInv, handler_pc # "none", ~Obstacle, ~HandlerCanGo,
                    logging[Rest] = None
             PROVE  \E g \in Grader : WorkerCanGo(g)
  BY DEF WayOut
<1> USE FramesAreFour
<1>0. interrupted = None /\ overwritten = {} /\ \A g \in Grader : ~stuck[g]
  BY DEF Obstacle
<1>1. ASSUME NEW f \in Frame, NEW unit \in Unit, WaitsForLog(f, unit),
             f = Handler \/ handler_pc \notin DOMAIN HandlerLog
      PROVE  \E g \in Grader : WorkerCanGo(g)
  <2>1. PICK e \in Frame \ {f} : logging[e] = mutex_of[unit] /\ AtLog(e)
    BY <1>1 DEF WaitsForLog
  <2>2. logging[e] # None
    BY <2>1, BuildsAssumption DEF FullInv, LogInv, LogTyped
  <2>3. e \in Grader /\ worker_pc[e] \in DOMAIN WorkerLog
    BY <2>1, <2>2, <1>1 DEF AtLog
  <2> QED
    BY <2>2, <2>3 DEF WorkerCanGo
<1>2. CASE handler_pc \in DOMAIN HandlerLog
  <2>1. PICK unit \in HandlerLog[handler_pc].units : logging[Handler] = None /\ Held(mutex_of[unit])
    BY <1>2 DEF HandlerCanGo, MayLock
  <2>2. unit \in Unit
    BY <1>2, <2>1 DEF HandlerLog, Unit
  <2>3. WaitsForLog(Handler, unit)
    BY <2>1, <2>2, <1>0, HeldByOther
  <2> QED
    BY <2>2, <2>3, <1>1
<1>3. CASE handler_pc \in {"await", "join"}
  <2>1. handler_at \in Grader /\ worker_pc[handler_at] \notin {"none", "exited"}
        /\ (worker_pc[handler_at] = "loop" => status[handler_at] = "TERMINATED")
    <3>1. CASE handler_pc = "await"
      <4>1. handler_at \in Grader /\ status[handler_at] = "BUSY"
        BY <3>1, GraderNumbers DEF HandlerCanGo, FullInv, WayInv, VectorInv, SignalInv, Signalling
      <4> QED
        BY <4>1 DEF FullInv, WayInv, PlacesTyped, Busy
    <3>2. CASE handler_pc = "join"
      <4>1. handler_at \in Grader /\ handler_at < graders
        BY <3>2, GraderNumbers DEF HandlerCanGo, FullInv, WayInv, VectorInv, SignalInv
      <4> QED
        BY <3>2, <4>1, <1>0 DEF HandlerCanGo, FullInv, WayInv, VectorInv, SignalInv, Signalling,
           Told
    <3> QED
      BY <3>1, <3>2, <1>3
  <2>2. WorkerCanGo(handler_at) \/ \E unit \in Unit : WaitsForLog(handler_at, unit)
    BY <2>1, <1>0, WorkerGoesOn
  <2>3. handler_pc \notin DOMAIN HandlerLog
    BY <1>3 DEF HandlerLog
  <2> QED
    BY <2>1, <2>2, <2>3, <1>1
<1> QED
  BY <1>2, <1>3 DEF HandlerCanGo, FullInv, WayInv, PlacesTyped, HandlerPlaces, HandlerLog

(* Every mutex of the log that is held comes free: its holder is inside a  *)
(* log call and on no other's top, but for main under the handler          *)
(* (logger.hpp:22-28, rest/grader.cpp:44-50).                              *)
THEOREM LocksComeFree == Spec => [](Exclusive /\ LogCallsEnd)
<1>1. FullInv => Exclusive /\ LogCallsEnd
  BY HolderIsAtLog DEF FullInv, LogInv, LogCallsEnd
<1> QED
  BY <1>1, FullHolds, PTL

(* What GradingEnds rests on: a grading that cannot go on is behind a      *)
(* stuck child, main's frozen log call, or a log call that ends            *)
(* (grader.cpp:110-116, script.cpp:32-41).                                 *)
THEOREM GradingIsHeldUpByLogOnly == Spec => []GradingGoesOn
  BY BusyGoesOn, FullHolds, PTL

(* What SignalEndsProcess rests on: from the signal on, handler, workers   *)
(* and requests never all wait for each other (grader_pool.cpp:109-123).   *)
THEOREM HandlerHasAWayOut == Spec => []WayOut
  BY ThereIsAWayOut, FullHolds, PTL

(* The third obstacle is for ever: the handler passes every grader once,   *)
(* so nobody writes TERMINATED again and the worker's thread does not end  *)
(* (grader.cpp:81-88, 98-119, grader_pool.cpp:112-123).                    *)
THEOREM OverwrittenIsForEver == Spec => []OverwrittenStays
<1>1. FullInv /\ overwritten \subseteq Grader => OverwrittenStays
  BY DEF FullInv, WayInv, FinalInv, OverwrittenStays
<1>2. Init => overwritten \subseteq Grader
  BY DEF Init
<1>3. overwritten \subseteq Grader /\ [Next]_vars => (overwritten \subseteq Grader)'
  BY DEF Next, MainStep, MainLock, MainUnlock, NewPool, NewServer, Serve, StartPool, CreateThread,
     EmplaceGrader, SetRunning, Collect, Assign, HandOver, mainFrame, WorkerLock, Worker,
     WorkerUnlock, SetStatus, SeeNew, Fork, ChildEnds, WorkerExit, workerVars, InfoStatus,
     InfoGraders, Submit, RestLock, RestUnlock, restFrame, Signal, HandlerLock, HandlerStep,
     HandlerEnter, HandlerUnlock, SignalGrader, Terminate, SetTerminated, JoinWorker, AllJoined,
     Shutdown, Exit, handlerFrame, vars
<1> QED
  BY <1>1, <1>2, <1>3, FullHolds, PTL DEF Spec

(* A child inherits a locked mutex from another frame's log call only: its *)
(* own worker holds none when it forks (script.cpp:32-36, grader.cpp:110). *)
THEOREM OwnLogNeverSticks == Spec => [][StuckBehindOther]_vars
<1>1. FullInv /\ [Next]_vars => [StuckBehindOther]_vars
  <2> SUFFICES ASSUME FullInv, [Next]_vars, NEW g \in Grader, stuck'[g], ~stuck[g]
               PROVE  \E unit \in {"file", "script"} : \E e \in Frame \ {g} :
                        logging[e] = mutex_of[unit]
    BY DEF StuckBehindOther
  <2>1. \E h \in Grader : Fork(h)
    <3>1. stuck' # stuck
      OBVIOUS
    <3> QED
      BY <3>1 DEF Next, MainStep, MainLock, MainUnlock, NewPool, NewServer, Serve, StartPool,
         CreateThread, EmplaceGrader, SetRunning, Collect, Assign, HandOver, mainFrame, WorkerLock,
         Worker, WorkerUnlock, SetStatus, SeeNew, ChildEnds, WorkerExit, workerVars, InfoStatus,
         InfoGraders, Submit, RestLock, RestUnlock, restFrame, Signal, HandlerLock, HandlerStep,
         HandlerEnter, HandlerUnlock, SignalGrader, Terminate, SetTerminated, JoinWorker, AllJoined,
         Shutdown, Exit, handlerFrame, vars
  <2>2. Fork(g)
    BY <2>1 DEF Fork, FullInv, WayInv, PlacesTyped
  <2>3. PICK unit \in {"file", "script"} : Held(mutex_of[unit])
    BY <2>2 DEF Fork, FullInv, WayInv, PlacesTyped
  <2>4. logging[g] = None
    BY <2>2 DEF Fork, WorkerAt, FullInv, LogInv, HeldAtLog, WorkerLog
  <2>5. mutex_of[unit] # None
    BY BuildsAssumption DEF Unit, FullInv, LogInv, LogTyped
  <2> QED
    BY <2>3, <2>4, <2>5 DEF Held
<1> QED
  BY <1>1, FullHolds, PTL DEF Spec

-------------------------------------------------------------------------------
(* What is left to do after the signal.                                    *)

(* The steps a worker has before it at its place, with its log calls still *)
(* to lock, and nine more for a submission it will see as NEW.             *)
WorkerRank == [none |-> 0, log_start |-> 6, set_init |-> 5, log_init |-> 3, set_idle |-> 2,
               loop |-> 1, set_busy |-> 9, log_new |-> 7, fork |-> 6, waitpid |-> 5,
               log_done |-> 3, set_done |-> 2, exited |-> 0]

WorkerLeft(g) ==
  WorkerRank[worker_pc[g]]
    + (IF worker_pc[g] \in DOMAIN WorkerLog /\ logging[g] = None THEN 1 ELSE 0)
    + (IF worker_pc[g] = "loop" /\ status[g] = "NEW" THEN 9 ELSE 0)

(* Those of the handler: nine for every grader to signal, one to join it.  *)
HandlerRank == [none |-> 0, enter |-> 13, log_receive |-> 11, signal |-> 10, log_signal |-> 8,
                await |-> 7, log_cleanup |-> 5, set_terminated |-> 4, log_terminated |-> 2,
                join |-> 7, log_stopping |-> 5, shutdown |-> 4, log_stopped |-> 2, exit |-> 1]

HandlerLeft ==
  HandlerRank[handler_pc]
    + (IF handler_pc \in DOMAIN HandlerLog /\ logging[Handler] = None THEN 1 ELSE 0)
    + (IF handler_pc \in Signalling \cup {"enter", "log_receive"}
       THEN 9 * (graders - handler_at) + graders ELSE 0)
    + (IF handler_pc = "join" THEN graders - handler_at ELSE 0)

(* All of them as a set, of which a process that has ended has none.       *)
Left ==
  IF process # "up" THEN {}
  ELSE {s \in Grader \X (1 .. 10) : s[2] <= WorkerLeft(s[1])}
         \cup {Handler} \X (1 .. HandlerLeft)

RestStep == InfoStatus \/ InfoGraders \/ Submit \/ RestLock \/ RestUnlock

(* After the signal nothing is added to what is left, and whoever makes a  *)
(* step but a request takes something away from it.                        *)
UsesUp ==
  handler_pc # "none" =>
    (Left' \subseteq Left /\ (Left' # Left \/ RestStep))

LeftTyped == (\A g \in Grader : WorkerLeft(g) \in 0 .. 10) /\ HandlerLeft \in Nat

LEMMA LeftIsTyped == FullInv => LeftTyped
<1> SUFFICES ASSUME FullInv PROVE LeftTyped
  OBVIOUS
<1> USE DEF FullInv, WayInv
<1>1. \A g \in Grader : worker_pc[g] \in Places
  BY DEF PlacesTyped
<1>2. \A g \in Grader : WorkerLeft(g) \in 0 .. 10
  BY <1>1 DEF WorkerLeft, WorkerRank, Places, WorkerLog
<1>3. /\ graders \in Nat /\ handler_at \in Nat /\ handler_at <= graders
      /\ handler_pc \in HandlerPlaces
  BY GraderNumbers DEF VectorInv, SignalInv, PlacesTyped
<1>4. HandlerLeft \in Nat
  BY <1>3 DEF HandlerLeft, HandlerRank, HandlerPlaces
<1> QED
  BY <1>2, <1>4 DEF LeftTyped

LEMMA LeftIsFinite == FullInv => IsFiniteSet(Left)
<1> SUFFICES ASSUME FullInv PROVE IsFiniteSet(Left)
  OBVIOUS
<1>1. IsFiniteSet(Grader)
  BY NumGradersAssumption, FS_Interval DEF Grader
<1>2. IsFiniteSet({s \in Grader \X (1 .. 10) : s[2] <= WorkerLeft(s[1])})
  <2>1. IsFiniteSet(1 .. 10)
    BY FS_Interval, 1 \in Int, 10 \in Int
  <2>2. IsFiniteSet(Grader \X (1 .. 10))
    BY <1>1, <2>1, FS_Product
  <2> QED
    BY <2>2, FS_Subset
<1>3. IsFiniteSet({Handler} \X (1 .. HandlerLeft))
  <2>1. IsFiniteSet(1 .. HandlerLeft)
    BY FS_Interval, LeftIsTyped DEF LeftTyped
  <2>2. IsFiniteSet({Handler})
    BY FS_Singleton
  <2> QED
    BY <2>1, <2>2, FS_Product
<1>4. IsFiniteSet({})
  BY FS_EmptySet
<1> QED
  BY <1>2, <1>3, <1>4, FS_Union DEF Left

(* One worker's or the handler's share grows smaller, the others stay.     *)
LEMMA WorkerTakesAway ==
  ASSUME FullInv, NEW g \in Grader, process = "up", process' = "up",
         WorkerLeft(g)' < WorkerLeft(g), WorkerLeft(g)' \in Nat,
         \A h \in Grader \ {g} : WorkerLeft(h)' = WorkerLeft(h),
         HandlerLeft' = HandlerLeft
  PROVE  Left' \subseteq Left /\ Left' # Left
<1>1. WorkerLeft(g) \in 1 .. 10
  BY LeftIsTyped DEF LeftTyped
<1>2. \A s \in Grader \X (1 .. 10) : s[2] <= WorkerLeft(s[1])' => s[2] <= WorkerLeft(s[1])
  <2> SUFFICES ASSUME NEW s \in Grader \X (1 .. 10), s[2] <= WorkerLeft(s[1])'
               PROVE  s[2] <= WorkerLeft(s[1])
    OBVIOUS
  <2>1. CASE s[1] = g
    BY <2>1, <1>1
  <2>2. CASE s[1] # g
    BY <2>2
  <2> QED
    BY <2>1, <2>2
<1>3. <<g, WorkerLeft(g)>> \in Left
  BY <1>1 DEF Left
<1>4. <<g, WorkerLeft(g)>> \notin Left'
  BY <1>1, FramesAreFour DEF Left
<1>5. Left' \subseteq Left
  BY <1>2 DEF Left
<1> QED
  BY <1>3, <1>4, <1>5

LEMMA HandlerTakesAway ==
  ASSUME FullInv, process = "up", process' = "up",
         HandlerLeft' < HandlerLeft, HandlerLeft' \in Nat,
         \A h \in Grader : WorkerLeft(h)' <= WorkerLeft(h) /\ WorkerLeft(h)' \in Nat
  PROVE  Left' \subseteq Left /\ Left' # Left
<1>1. HandlerLeft \in Nat
  BY LeftIsTyped DEF LeftTyped
<1>2. <<Handler, HandlerLeft>> \in Left
  BY <1>1 DEF Left
<1>3. <<Handler, HandlerLeft>> \notin Left'
  BY <1>1, FramesAreFour DEF Left
<1>4. \A s \in Grader \X (1 .. 10) : s[2] <= WorkerLeft(s[1])' => s[2] <= WorkerLeft(s[1])
  BY LeftIsTyped DEF LeftTyped
<1>5. Left' \subseteq Left
  BY <1>1, <1>4 DEF Left
<1> QED
  BY <1>2, <1>3, <1>5

(* A process that ends or crashes has nothing left to do; before, the      *)
(* handler has.                                                            *)
LEMMA EndTakesAway ==
  ASSUME FullInv, process = "up", process' # "up", handler_pc # "none"
  PROVE  Left' \subseteq Left /\ Left' # Left
<1>1. HandlerLeft \in Nat /\ HandlerLeft > 0
  <2>1. handler_pc \in HandlerPlaces \ {"none"} /\ graders \in Nat /\ handler_at \in Nat
        /\ handler_at <= graders
    BY GraderNumbers DEF FullInv, WayInv, PlacesTyped, VectorInv, SignalInv
  <2> QED
    BY <2>1 DEF HandlerLeft, HandlerRank, HandlerPlaces
<1>2. Left' = {}
  BY DEF Left
<1>3. <<Handler, 1>> \in Left
  BY <1>1 DEF Left
<1> QED
  BY <1>2, <1>3

LEMMA WorkerUsesUp ==
  ASSUME FullInv, FullInv', NEW g \in Grader, WorkerLock(g) \/ Worker(g), handler_pc # "none"
  PROVE  Left' \subseteq Left /\ Left' # Left
<1> USE FramesAreFour
<1>0. UNCHANGED <<process, graders, handler_pc, handler_at, mutex_of>> /\ process = "up"
  <2>1. UNCHANGED workerFrame
    BY WorkerLeaves
  <2>2. process = "up"
    BY DEF WorkerLock, Worker, WorkerUnlock, SetStatus, SeeNew, Fork, ChildEnds,
       WorkerExit, WorkerAt
  <2> QED
    BY <2>1, <2>2 DEF workerFrame, mainVars, handlerVars
<1>1. /\ worker_pc \in [Grader -> Places] /\ status \in [Grader -> GRADER_STATUS]
      /\ LogTyped /\ Exclusive /\ HeldAtLog
  BY DEF FullInv, LogInv, WayInv, PlacesTyped
<1>2. \A e \in Frame \ {g} : logging'[e] = logging[e]
  <2>1. CASE WorkerLock(g)
    BY <2>1, <1>1 DEF WorkerLock, Lock, LogTyped
  <2>2. CASE Worker(g)
    BY <2>2, <1>1 DEF Worker, WorkerUnlock, Unlock, SetStatus, SeeNew, Fork, ChildEnds, WorkerExit,
       LogTyped
  <2> QED
    BY <2>1, <2>2
<1>3. \A h \in Grader \ {g} : worker_pc'[h] = worker_pc[h] /\ status'[h] = status[h]
  BY <1>1 DEF WorkerLock, Worker, WorkerUnlock, SetStatus, SeeNew, Fork, ChildEnds, WorkerExit,
     WorkerGoes, workerVars
<1>4. \A h \in Grader \ {g} : WorkerLeft(h)' = WorkerLeft(h)
  BY <1>2, <1>3 DEF WorkerLeft
<1>5. HandlerLeft' = HandlerLeft
  BY <1>0, <1>2 DEF HandlerLeft
<1>6. WorkerLeft(g)' < WorkerLeft(g)
  <2> USE DEF WorkerLeft, WorkerRank, WorkerLog
  <2>1. CASE WorkerLock(g)
    <3>1. PICK unit \in Unit : Lock(g, unit) /\ worker_pc[g] \in DOMAIN WorkerLog
                               /\ UNCHANGED <<worker_pc, status>>
      BY <2>1 DEF WorkerLock, WorkerAt, workerVars
    <3>2. logging[g] = None /\ logging'[g] # None
      BY <3>1, <1>0, <1>1, LockKeeps
    <3>3. worker_pc[g] \in {"log_start", "log_init", "log_new", "log_done"}
      BY <3>1
    <3> QED
      BY <3>1, <3>2, <3>3
  <2>2. CASE WorkerUnlock(g)
    <3>1. PICK pc \in DOMAIN WorkerLog : \E next \in WorkerLog[pc].next :
               worker_pc[g] = pc /\ worker_pc'[g] = next
               /\ logging[g] # None /\ logging'[g] = None /\ UNCHANGED status
      BY <2>2, <1>1 DEF WorkerUnlock, WorkerAt, WorkerGoes, Unlock, LogTyped
    <3>2. PICK next \in WorkerLog[pc].next :
               worker_pc[g] = pc /\ worker_pc'[g] = next
               /\ logging[g] # None /\ logging'[g] = None /\ UNCHANGED status
      BY <3>1
    <3>3. CASE pc = "log_start"
      BY <3>2, <3>3
    <3>4. CASE pc = "log_init"
      BY <3>2, <3>4
    <3>5. CASE pc = "log_new"
      BY <3>2, <3>5
    <3>6. CASE pc = "log_done"
      BY <3>2, <3>6
    <3> QED
      BY <3>3, <3>4, <3>5, <3>6
  <2>3. CASE SetStatus(g)
    <3>1. PICK pc \in DOMAIN WorkerSets :
               /\ worker_pc[g] = pc /\ worker_pc'[g] = WorkerSets[pc].next
               /\ status'[g] = WorkerSets[pc].status
      BY <2>3, <1>1 DEF SetStatus, WorkerAt, WorkerGoes
    <3> QED
      BY <3>1 DEF WorkerSets
  <2>4. CASE SeeNew(g)
    <3>1. worker_pc[g] = "loop" /\ worker_pc'[g] = "set_busy" /\ status[g] = "NEW"
      BY <2>4, <1>1 DEF SeeNew, WorkerAt, WorkerGoes
    <3> QED
      BY <3>1
  <2>5. CASE Fork(g)
    <3>1. worker_pc[g] = "fork" /\ worker_pc'[g] = "waitpid"
      BY <2>5, <1>1 DEF Fork, WorkerAt, WorkerGoes
    <3> QED
      BY <3>1
  <2>6. CASE ChildEnds(g)
    <3>1. worker_pc[g] = "waitpid" /\ worker_pc'[g] = "log_done"
      BY <2>6, <1>1 DEF ChildEnds, WorkerAt, WorkerGoes
    <3> QED
      BY <3>1
  <2>7. CASE WorkerExit(g)
    <3>1. worker_pc[g] = "loop" /\ worker_pc'[g] = "exited"
      BY <2>7, <1>1 DEF WorkerExit, WorkerAt, WorkerGoes
    <3> QED
      BY <3>1
  <2> QED
    BY <2>1, <2>2, <2>3, <2>4, <2>5, <2>6, <2>7 DEF Worker
<1>7. LeftTyped'
  BY LeftIsTyped, PTL
<1> QED
  BY <1>0, <1>4, <1>5, <1>6, <1>7, WorkerTakesAway DEF LeftTyped

LEMMA HandlerUsesUp ==
  ASSUME FullInv, FullInv', HandlerLock \/ HandlerStep, handler_pc # "none"
  PROVE  Left' \subseteq Left /\ Left' # Left
<1> USE FramesAreFour
<1>0. /\ UNCHANGED <<graders, worker_pc, mutex_of>> /\ process = "up"
  BY DEF HandlerLock, HandlerStep, HandlerEnter, HandlerUnlock, SignalGrader, Terminate,
     SetTerminated, JoinWorker, AllJoined, Shutdown, Exit, handlerFrame, mainVars, workerVars,
     HandlerAt
<1>1. LogTyped /\ Exclusive /\ HeldAtLog
  BY DEF FullInv, LogInv
<1>2. \A e \in Frame \ {Handler} : logging'[e] = logging[e]
  <2>1. CASE HandlerLock
    BY <2>1, <1>1 DEF HandlerLock, Lock, LogTyped
  <2>2. CASE HandlerStep
    BY <2>2, <1>1 DEF HandlerStep, HandlerEnter, HandlerUnlock, Unlock, SignalGrader, Terminate,
       SetTerminated, JoinWorker, AllJoined, Shutdown, Exit, LogTyped
  <2> QED
    BY <2>1, <2>2
<1>3. \A h \in Grader : status'[h] \in {status[h], "TERMINATED"}
  BY DEF FullInv, WayInv, PlacesTyped, HandlerLock, HandlerStep, HandlerEnter, HandlerUnlock,
     SignalGrader, Terminate, SetTerminated, JoinWorker, AllJoined, Shutdown, Exit
<1>4. LeftTyped /\ LeftTyped'
  BY LeftIsTyped, PTL
<1>5. \A h \in Grader : WorkerLeft(h)' <= WorkerLeft(h)
  <2> SUFFICES ASSUME NEW h \in Grader PROVE WorkerLeft(h)' <= WorkerLeft(h)
    OBVIOUS
  <2>1. worker_pc'[h] = worker_pc[h] /\ logging'[h] = logging[h] /\ worker_pc[h] \in Places
    BY <1>0, <1>2 DEF FullInv, WayInv, PlacesTyped
  <2> QED
    BY <2>1, <1>3 DEF WorkerLeft, WorkerRank, Places
<1>6. /\ graders \in Nat /\ handler_at \in Nat /\ handler_at <= graders
      /\ handler_pc \in Signalling \ {"signal"} => handler_at < graders
      /\ handler_pc = "enter" => handler_at = 0
  BY GraderNumbers DEF FullInv, WayInv, VectorInv, SignalInv
<1>7. ASSUME process' = "up" PROVE HandlerLeft' < HandlerLeft
  <2> USE <1>0, <1>6 DEF HandlerLeft, HandlerRank, Signalling, HandlerLog, HandlerAt, HandlerGoes
  <2>1. CASE HandlerLock
    <3>1. PICK unit \in Unit : Lock(Handler, unit) /\ handler_pc \in DOMAIN HandlerLog
                               /\ UNCHANGED <<handler_pc, handler_at>>
      BY <2>1 DEF HandlerLock
    <3>2. logging[Handler] = None /\ logging'[Handler] # None
      BY <3>1, <1>0, <1>1, LockKeeps
    <3>3. handler_pc \in {"log_receive", "log_signal", "log_cleanup", "log_terminated",
                          "log_stopping", "log_stopped"}
      BY <3>1
    <3> QED
      BY <3>1, <3>2, <3>3
  <2>2. CASE HandlerUnlock
    <3>1. PICK pc \in DOMAIN HandlerLog :
               /\ handler_pc = pc /\ handler_pc' = HandlerLog[pc].next
               /\ handler_at' = handler_at + HandlerLog[pc].step
               /\ logging[Handler] # None /\ logging'[Handler] = None
      BY <2>2, <1>1 DEF HandlerUnlock, Unlock, LogTyped
    <3>2. CASE pc = "log_receive"
      BY <3>1, <3>2
    <3>3. CASE pc = "log_signal"
      BY <3>1, <3>3
    <3>4. CASE pc = "log_terminated"
      BY <3>1, <3>4
    <3>5. CASE pc \in {"log_cleanup", "log_stopping", "log_stopped"}
      BY <3>1, <3>5
    <3> QED
      BY <3>2, <3>3, <3>4, <3>5
  <2>3. CASE HandlerEnter
    <3>1. logging[Handler] = None /\ UNCHANGED logging /\ handler_pc = "enter"
      BY <2>3, <1>1 DEF HandlerEnter, HeldAtLog
    <3> QED
      BY <2>3, <3>1, <1>7 DEF HandlerEnter, Crashes
  <2>4. CASE SignalGrader
    <3>1. logging[Handler] = None /\ UNCHANGED logging /\ handler_pc = "signal"
      BY <2>4, <1>1 DEF SignalGrader, HeldAtLog
    <3> QED
      BY <2>4, <3>1, <1>7 DEF SignalGrader, Crashes
  <2>5. CASE Terminate \/ SetTerminated
    <3>1. logging[Handler] = None /\ UNCHANGED logging /\ handler_pc \in {"await", "set_terminated"}
      BY <2>5, <1>1 DEF Terminate, SetTerminated, HeldAtLog
    <3> QED
      BY <2>5, <3>1 DEF Terminate, SetTerminated
  <2>6. CASE JoinWorker \/ AllJoined
    <3>1. logging[Handler] = None /\ UNCHANGED logging /\ handler_pc = "join"
      BY <2>6, <1>1 DEF JoinWorker, AllJoined, HeldAtLog
    <3> QED
      BY <2>6, <3>1 DEF JoinWorker, AllJoined
  <2>7. CASE Shutdown
    <3>1. logging[Handler] = None /\ UNCHANGED logging /\ handler_pc = "shutdown"
      BY <2>7, <1>1 DEF Shutdown, HeldAtLog
    <3> QED
      BY <2>7, <3>1, <1>7 DEF Shutdown, Crashes
  <2>8. CASE Exit
    BY <2>8, <1>7 DEF Exit
  <2> QED
    BY <2>1, <2>2, <2>3, <2>4, <2>5, <2>6, <2>7, <2>8 DEF HandlerStep
<1>8. CASE process' = "up"
  BY <1>8, <1>0, <1>7, <1>4, <1>5, HandlerTakesAway DEF LeftTyped
<1>9. CASE process' # "up"
  BY <1>9, <1>0, EndTakesAway
<1> QED
  BY <1>8, <1>9

LEMMA RestUsesNothing ==
  ASSUME FullInv, RestStep, handler_pc # "none"
  PROVE  Left' \subseteq Left
<1> USE FramesAreFour
<1>1. /\ UNCHANGED <<graders, worker_pc, status, mutex_of, handler_pc, handler_at>>
      /\ process = "up"
  BY DEF RestStep, InfoStatus, InfoGraders, Submit, RestLock, RestUnlock, restFrame, mainVars,
     workerVars, handlerVars, RestAt
<1>2. \A e \in Frame \ {Rest} : logging'[e] = logging[e]
  BY DEF RestStep, InfoStatus, InfoGraders, Submit, RestLock, RestUnlock, Lock, Unlock, FullInv,
     LogInv, LogTyped
<1>3. \A h \in Grader : WorkerLeft(h)' = WorkerLeft(h)
  BY <1>1, <1>2 DEF WorkerLeft
<1>4. HandlerLeft' = HandlerLeft
  BY <1>1, <1>2 DEF HandlerLeft
<1> QED
  BY <1>1, <1>3, <1>4 DEF Left

(* What SignalEndsProcess rests on besides: what is left to do is finite,  *)
(* and every step of handler and workers uses some of it up, whatever the  *)
(* clients do meanwhile (grader_pool.cpp:109-123, rest/grader.cpp:44-50).  *)
THEOREM SignalUsesUp == Spec => []IsFiniteSet(Left) /\ [][UsesUp]_vars
<1>1. FullInv /\ FullInv' /\ [Next]_vars => [UsesUp]_vars
  <2> SUFFICES ASSUME FullInv, FullInv', Next, handler_pc # "none"
               PROVE  Left' \subseteq Left /\ (Left' # Left \/ RestStep)
    BY DEF UsesUp
  <2>1. CASE MainStep \/ Signal
    BY <2>1 DEF MainStep, MainLock, MainUnlock, NewPool, NewServer, Serve, StartPool,
       CreateThread, EmplaceGrader, SetRunning, Collect, Assign, HandOver, MainAt, Signal, HandlerAt
  <2>2. CASE \E g \in Grader : WorkerLock(g) \/ Worker(g)
    BY <2>2, WorkerUsesUp
  <2>3. CASE HandlerLock \/ HandlerStep
    BY <2>3, HandlerUsesUp
  <2>4. CASE RestStep
    BY <2>4, RestUsesNothing
  <2> QED
    BY <2>1, <2>2, <2>3, <2>4 DEF Next, RestStep
<1> QED
  BY <1>1, LeftIsFinite, FullHolds, PTL DEF Spec

===============================================================================
