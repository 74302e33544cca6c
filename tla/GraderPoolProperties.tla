------------------------- MODULE GraderPoolProperties -------------------------
(***************************************************************************)
(* What GraderPool must satisfy: its invariants, action properties and     *)
(* liveness properties, and the mapping under which it implements JobPool. *)
(***************************************************************************)
EXTENDS GraderPool

(* Type invariant. *)
TypeOK ==
  /\ process \in {"up", "exited", "aborted"}
  /\ pool_status \in GRADER_POOL_STATUS
  /\ waiting_pool \in Pool /\ grading_pool \in Pool /\ graded_pool \in Pool
  /\ graders \in 0 .. NumGraders
  /\ main_pc \in {"create", "emplace", "loop", "all_of", "return", "returned",
       "scan", "collect", "ungrade", "release", "release_write", "idle",
       "get_first", "get_first_test", "start_grading", "unqueue", "hand_over",
       "hand_over_write", "hand_over_new"}
  /\ main_at \in 0 .. NumGraders
  /\ main_sub \in Pointer
  /\ grader_status \in [Grader -> GRADER_STATUS]
  /\ grader_submission \in [Grader -> Pointer]
  /\ worker_pc \in [Grader -> {"none", "start", "init", "loop", "new", "grading", "exited"}]
  /\ rest_pc \in {"idle", "push", "insert", "ask_graded", "ask_grading", "ask_waiting"}
  /\ rest_sub \in Pointer
  /\ rest_id \in SubmissionID \cup {NoID}
  /\ killer_pc \in {"none", "terminate", "set_terminated", "join", "stopped"}
  /\ killer_at \in 0 .. NumGraders
  /\ add_result \in [Submission -> {"pending", "added", "ignored"}]
  /\ answer \in [SubmissionID -> SUBMISSION_STATUS \cup {"none"}]
  /\ shown \subseteq SUBMISSION_STATUS

(* No submission is ever held by two graders: the workers' folders and     *)
(* result files are told apart by grader and by submission only            *)
(* (grader_pool.cpp:38-43, submission_pool.cpp:16-28).                     *)
AtMostOneGrader ==
  \A g, h \in Grader :
    (grader_submission[g] # NoSubmission /\ grader_submission[g] = grader_submission[h]) => g = h

(* A submission is collected into graded_pool once, although DONE stays    *)
(* readable until grade(nullptr) resets it and a killer writes the same    *)
(* field (grader_pool.cpp:32-36).                                          *)
GradedOnce == IsInjective(graded_pool.order)

(* While a submission's scripts run a client who asks for its id is told   *)
(* GRADING, through every move of other submissions.  The one exception    *)
(* is an id that was submitted again: once another object of the id has    *)
(* been collected the client is told GRADED, and sent to a result file     *)
(* this run may still write (grader_pool.cpp:32-43, 58-63).                *)
RunningIsNotGraded ==
  \A g \in Grader : worker_pc[g] \in {"new", "grading"} =>
    LET s == grader_submission[g]
        collected == Range(graded_pool.order)
        again == \E t \in collected \ {s} : IdOf[t] = IdOf[s]
    IN  s \notin collected /\ StatusNow(IdOf[s]) = IF again THEN "GRADED" ELSE "GRADING"

(* No null submission is dereferenced: neither by the worker, nor by the   *)
(* collecting scheduler, nor by grade(nullptr), whose IDLE case would      *)
(* (grader.cpp:45-53, grader_pool.cpp:33-35).                              *)
NullNeverUsed ==
  /\ \A g \in Grader : worker_pc[g] \in {"new", "grading"} => grader_submission[g] # NoSubmission
  /\ main_pc \in {"collect", "ungrade", "release"} =>
       grader_submission[main_at] # NoSubmission /\ grader_status[main_at] # "IDLE"

(* A worker's submission is not replaced while its scripts run, so what is *)
(* collected at the end is what was graded (grader.cpp:112-115).           *)
SubmissionIsStable ==
  [][\A g \in Grader : (worker_pc[g] = "grading" /\ worker_pc'[g] = "grading") =>
       grader_submission'[g] = grader_submission[g]]_vars

(* When signal(KILL) has returned, the thread of every grader in the       *)
(* vector has ended (grader_pool.cpp:112-128).                             *)
StoppedMeansJoined ==
  pool_status = "TERMINATED" => \A g \in Grader : g < graders => worker_pc[g] = "exited"

(* A submission that was accepted stays known under its id: at every       *)
(* moment one of the three pools has it, through every move from pool to   *)
(* pool (grader_pool.cpp:33-34, 40-41).                                    *)
NeverForgotten ==
  \A s \in Submission : add_result[s] = "added" =>
    \/ Has(waiting_pool, IdOf[s])
    \/ Has(grading_pool, IdOf[s])
    \/ Has(graded_pool, IdOf[s])

(* The three looks of a query are not one, but what it answers was true at *)
(* some moment while it was asked.  Only WAITING and NOT_EXISTS may never  *)
(* have been, and only when the scheduler has begun or has ended the       *)
(* grading of the id between the looks (grader_pool.cpp:33-34, 40-41,      *)
(* 58-63).                                                                 *)
AnswerWasTrue ==
  [][(rest_id # NoID /\ rest_id' = NoID) =>
       \/ answer'[rest_id] \in shown
       \/ /\ answer'[rest_id] \in {"WAITING", "NOT_EXISTS"}
          /\ "GRADING" \in shown /\ shown # {"GRADING"}]_vars

(* A client that was told GRADED is never told anything else, whatever is  *)
(* submitted later under the same id (grader_pool.cpp:58-63).              *)
GradedIsFinal ==
  [][\A id \in SubmissionID : answer[id] = "GRADED" => answer'[id] = "GRADED"]_vars

(* Once a grader holds a submission, it is graded, unless the pool is      *)
(* killed or the process ends (grader.cpp:108-119, grader_pool.cpp:32-36). *)
HeldIsGraded ==
  \A s \in Submission : \A g \in Grader :
    (grader_submission[g] = s) ~>
      (s \in Range(graded_pool.order) \/ killer_pc # "none" \/ process # "up")

(* signal(KILL) gets past every spin on BUSY, and out of every join of a   *)
(* worker that still reads TERMINATED: only a worker or a scheduler that   *)
(* overwrites TERMINATED keeps it (grader.cpp:71-79, 87,                   *)
(* grader_pool.cpp:114-122).                                               *)
KillEnds ==
  (killer_pc = "terminate") ~>
    \/ killer_pc = "stopped"
    \/ process # "up"
    \/ \E g \in Grader : g < graders /\ killer_pc = "join" /\ ~is_terminated(g)

(* What the test of the pool expects: with nobody killing it, a submission *)
(* add_submission returned 0 for is graded                                 *)
(* (test/grader/grader_pool.cpp:36-41).                                    *)
AcceptedIsGraded ==
  \A s \in Submission : (add_result[s] = "added") ~> (s \in Range(graded_pool.order))

(* What the test of the pool expects: stop(), called when a submission has *)
(* been graded, returns with the pool TERMINATED                           *)
(* (test/grader/grader_pool.cpp:42-43).                                    *)
StopReturns ==
  []((killer_pc = "none" /\ Size(graded_pool) > 0) =>
       []((killer_pc = "terminate") => <>(pool_status = "TERMINATED" \/ process # "up")))

-------------------------------------------------------------------------------
(* A GraderPool is a JobPool.  The submission get_first has popped but not *)
(* looked at is still the head of the queue; the one it returned belongs   *)
(* to the grader the scheduler stands at; a graded one to nobody.          *)
PoppedQueue ==
  IF main_pc = "get_first_test" THEN <<main_sub>> \o waiting_pool.order ELSE waiting_pool.order

Handing(g) ==
  /\ main_at = g
  /\ main_pc \in {"start_grading", "unqueue", "hand_over", "hand_over_write", "hand_over_new"}

Held(g) ==
  IF Handing(g) THEN main_sub
  ELSE IF grader_submission[g] \in Range(graded_pool.order) THEN NoSubmission
  ELSE grader_submission[g]

Pushed ==
  {s \in Submission : add_result[s] = "added" \/ (rest_pc = "insert" /\ rest_sub = s)}

Jobs == INSTANCE JobPool WITH
  Job       <- Submission,
  Slot      <- Grader,
  NoJob     <- NoSubmission,
  submitted <- Pushed,
  queue     <- PoppedQueue,
  slot      <- [g \in Grader |-> Held(g)],
  finished  <- graded_pool.order,
  stopping  <- killer_pc # "none"

(* The pool with its threads implements the abstract one (grader_pool.cpp, *)
(* grader.cpp and submission_pool.cpp as a whole).                         *)
ImplementsJobPool == Jobs!Spec
===============================================================================
