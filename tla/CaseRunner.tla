------------------------------ MODULE CaseRunner ------------------------------
(***************************************************************************)
(* The three processes that judge one test case after another:             *)
(*                                                                         *)
(*   judge     grade_script (src/sandbox/run/run.cpp:103-131)              *)
(*   checker   its child, RunConfigCompareStringEqual::grade               *)
(*             (src/sandbox/run/equal_string.cpp)                          *)
(*   program   the checker's child, the submitted program in its sandbox   *)
(*                                                                         *)
(* The program writes `size` units into a pipe the checker reads only      *)
(* after the program has ended, and is killed when it has used as much CPU *)
(* time as enter_sandbox (src/sandbox/run/run_sandbox.cpp) allows.  A      *)
(* checker that gives up early leaves its program behind, so every test    *)
(* has a program and a pipe of its own.                                    *)
(***************************************************************************)
EXTENDS EqualString, Integers, FiniteSets

CONSTANTS
  Cases,        \* sequences of tests: records [run, solution], where a run is
                \* [out, size, ending, user, sys] (CPU times in ms) and a
                \* solution a stream, or Missing
  TimeMs,       \* the configured time limit
  Capacity,     \* units a pipe holds
  Missing,
  CheckerMayDie \* a signal may end a checker (it dereferences the null
                \* run_config of a task without `run`, or is killed for memory)

Signal == {"SIGSEGV", "SIGXCPU", "SIGSYS", "SIGPIPE"}
Stream == [words : Seq(Word), trailing : BOOLEAN]

(* What a program does when nothing stops it.  The filter lets it send no  *)
(* signal, so SIGXCPU and SIGPIPE come from its limit and its pipe only.   *)
Run ==
  [out : Stream, size : Nat, ending : {"exit 0", "exit 1"} \cup (Signal \ {"SIGXCPU", "SIGPIPE"}),
   user : Nat, sys : Nat]

ASSUME BoundsAssumption == TimeMs \in Nat \ {0} /\ Capacity \in Nat \ {0}
ASSUME CasesAssumption == Cases \subseteq Seq([run : Run, solution : Stream \cup {Missing}])
ASSUME CheckerAssumption == CheckerMayDie \in BOOLEAN

VARIABLES
  test,                          \* the test the judge is at
  judge_pc, fds,                 \* descriptors the judge has open
  checker, checker_result,       \* of each test's checker: state, CaseResult
  cases,                         \* what each test's program does, its solution
  program, left, pipe, reader,   \* of each test: the program's state, the units
                                 \* it has still to write, the units in the pipe,
                                 \* whether the read end is open
  result                         \* what grade_script returned for each test

judgeVars == <<test, judge_pc, fds, result>>
checkerVars == <<checker, checker_result>>
programVars == <<program, left, pipe>>
vars == <<judgeVars, checkerVars, programVars, reader, cases>>

AnyTest == UNION {DOMAIN c : c \in Cases}
Test == DOMAIN cases
Input(t) == cases[t].run
Sol(t) == cases[t].solution

NoResult == [status |-> "none", time_ms |-> 0]
SystemError == [status |-> "SYSTEM_ERROR", time_ms |-> 0]

Init ==
  /\ cases \in Cases
  /\ test = 1 /\ judge_pc = "ready" /\ fds = 0
  /\ checker = [t \in Test |-> "none"]
  /\ checker_result = [t \in Test |-> NoResult]
  /\ program = [t \in Test |-> "none"]
  /\ left = [t \in Test |-> Input(t).size]
  /\ pipe = [t \in Test |-> 0]
  /\ reader = [t \in Test |-> FALSE]
  /\ result = [t \in Test |-> NoResult]

-------------------------------------------------------------------------------
(* grade_script.  pipe() succeeds.                                         *)

ForkChecker ==
  /\ judge_pc = "ready" /\ test <= Len(cases)
  /\ fds' = fds + 2
  /\ checker' = [checker EXCEPT ![test] = "start"]
  /\ judge_pc' = "waitpid"
  /\ UNCHANGED <<test, result, checker_result, programVars, reader, cases>>

(* waitpid(-1) finds no child and leaves wstatus unset: the early return   *)
(* may be taken or not, and without it an empty pipe is read.              *)
CannotForkChecker ==
  /\ judge_pc = "ready" /\ test <= Len(cases)
  /\ fds' \in {fds, fds + 2}
  /\ checker' = [checker EXCEPT ![test] = "not forked"]
  /\ result' = [result EXCEPT ![test] = SystemError]
  /\ test' = test + 1
  /\ UNCHANGED <<judge_pc, checker_result, programVars, reader, cases>>

(* A fault: both ends of the pipe stay open. *)
Fault_ReadResult ==
  /\ judge_pc = "waitpid" /\ checker[test] = "exited"
  /\ result' = [result EXCEPT ![test] = checker_result[test]]
  /\ judge_pc' = "ready" /\ test' = test + 1
  /\ UNCHANGED <<fds, checkerVars, programVars, reader, cases>>

ReadResult ==
  /\ judge_pc = "waitpid" /\ checker[test] = "exited"
  /\ result' = [result EXCEPT ![test] = checker_result[test]]
  /\ fds' = fds - 2
  /\ judge_pc' = "ready" /\ test' = test + 1
  /\ UNCHANGED <<checkerVars, programVars, reader, cases>>

(* A fault: the judge waits again until its child has exited. *)
Fault_WaitAgain ==
  /\ judge_pc = "waitpid" /\ checker[test] = "killed"
  /\ UNCHANGED vars

(* !WIFEXITED: the early return closes neither end of the pipe.            *)
CheckerWasKilled ==
  /\ judge_pc = "waitpid" /\ checker[test] = "killed"
  /\ result' = [result EXCEPT ![test] = SystemError]
  /\ judge_pc' = "ready" /\ test' = test + 1
  /\ UNCHANGED <<fds, checkerVars, programVars, reader, cases>>

-------------------------------------------------------------------------------
(* RunConfigCompareStringEqual::grade, in the checker of test t.           *)

Return(t, case_result) ==
  /\ checker' = [checker EXCEPT ![t] = "exited"]
  /\ checker_result' = [checker_result EXCEPT ![t] = case_result]

CannotFork(t) ==
  /\ checker[t] = "start"
  /\ Return(t, SystemError)
  /\ UNCHANGED <<judgeVars, programVars, reader, cases>>

ForkProgram(t) ==
  /\ checker[t] = "start"
  /\ program' = [program EXCEPT ![t] = "running"]
  /\ reader' = [reader EXCEPT ![t] = TRUE]
  /\ checker' = [checker EXCEPT ![t] = "open_solution"]
  /\ UNCHANGED <<judgeVars, checker_result, left, pipe, cases>>

(* Without a solution the checker returns without waiting for its child.   *)
OpenSolution(t) ==
  /\ checker[t] = "open_solution"
  /\ IF Sol(t) = Missing
       THEN Return(t, SystemError) /\ reader' = [reader EXCEPT ![t] = FALSE]
       ELSE checker' = [checker EXCEPT ![t] = "waitpid"] /\ UNCHANGED <<checker_result, reader>>
  /\ UNCHANGED <<judgeVars, programVars, cases>>

(* Any exit code is OK: only a signal counts as an error.                  *)
interpret_wstatus(status) ==
  CASE status = "SIGSEGV" -> "MEMORY_ERROR"
    [] status = "SIGXCPU" -> "TIMEOUT"
    [] status \in Signal \ {"SIGSEGV", "SIGXCPU"} -> "RUNTIME_ERROR"
    [] OTHER -> "OK"

(* RLIMIT_CPU, rounded down. *)
Fault_CpuLimit == (TimeMs \div 1000) * 1000

(* RLIMIT_CPU counts whole seconds: what the program may use, in ms.       *)
CpuLimit == ((TimeMs + 999) \div 1000) * 1000

TimedOut(run) == run.user + run.sys >= CpuLimit

(* The sum of the tv_usec fields only: the whole seconds are dropped.  The *)
(* program that ran into its limit has used just as much.                  *)
create_result_from_process(t) ==
  LET user == IF TimedOut(Input(t)) THEN CpuLimit - Input(t).sys ELSE Input(t).user
  IN  (user % 1000) + (Input(t).sys % 1000)

Compared(t) ==
  [status |-> CheckOutput(interpret_wstatus(program[t]), Input(t).out, Sol(t)),
   time_ms |-> create_result_from_process(t)]

(* A fault: the output is checked without waiting for the program. *)
Fault_CheckAtOnce(t) ==
  /\ checker[t] = "waitpid"
  /\ Return(t, Compared(t))
  /\ reader' = [reader EXCEPT ![t] = FALSE]
  /\ UNCHANGED <<judgeVars, programVars, cases>>

CheckResult(t) ==
  /\ checker[t] = "waitpid"
  /\ program[t] \notin {"none", "running"}
  /\ Return(t, Compared(t))
  /\ reader' = [reader EXCEPT ![t] = FALSE]
  /\ UNCHANGED <<judgeVars, programVars, cases>>

(* A signal ends the checker; its program loses its reader.                *)
CheckerDies(t) ==
  /\ CheckerMayDie
  /\ checker[t] \in {"start", "open_solution", "waitpid"}
  /\ checker' = [checker EXCEPT ![t] = "killed"]
  /\ reader' = [reader EXCEPT ![t] = FALSE]
  /\ UNCHANGED <<judgeVars, checker_result, programVars, cases>>

-------------------------------------------------------------------------------
(* The program of test t, behind execute_script.                           *)

WriteOutput(t) ==
  /\ program[t] = "running" /\ left[t] > 0
  /\ reader[t] /\ pipe[t] < Capacity
  /\ pipe' = [pipe EXCEPT ![t] = @ + 1]
  /\ left' = [left EXCEPT ![t] = @ - 1]
  /\ UNCHANGED <<judgeVars, checkerVars, program, reader, cases>>

BrokenPipe(t) ==
  /\ program[t] = "running" /\ left[t] > 0 /\ ~reader[t]
  /\ program' = [program EXCEPT ![t] = "SIGPIPE"]
  /\ UNCHANGED <<judgeVars, checkerVars, left, pipe, reader, cases>>

(* SIGXCPU ends a program whose CPU time has reached the soft limit.       *)
Ending(t) == IF TimedOut(Input(t)) THEN "SIGXCPU" ELSE Input(t).ending

(* A program ends when all is written; a signal may end it earlier.        *)
EndProgram(t) ==
  /\ program[t] = "running"
  /\ left[t] = 0 \/ Ending(t) \in Signal
  /\ program' = [program EXCEPT ![t] = Ending(t)]
  /\ UNCHANGED <<judgeVars, checkerVars, left, pipe, reader, cases>>

-------------------------------------------------------------------------------
Judge == ForkChecker \/ CannotForkChecker \/ ReadResult \/ CheckerWasKilled
Checker(t) == CannotFork(t) \/ ForkProgram(t) \/ OpenSolution(t) \/ CheckResult(t)
Program(t) == WriteOutput(t) \/ BrokenPipe(t) \/ EndProgram(t)

Next == Judge \/ \E t \in Test : Checker(t) \/ CheckerDies(t) \/ Program(t)

Spec == Init /\ [][Next]_vars

(* The kernel runs every process that can run.  A program ends of its own  *)
(* or by its CPU limit unless it is blocked; a blocked one uses no CPU.    *)
FairSpec ==
  /\ Spec /\ WF_vars(Judge)
  /\ \A t \in AnyTest :
       WF_vars(t \in Test /\ Checker(t)) /\ WF_vars(t \in Test /\ Program(t))

-------------------------------------------------------------------------------
(* What a test has deserved.  What ended the program counts before its     *)
(* output, and any exit code is as good as 0.                              *)
Unjudged(t) ==
  checker[t] \in {"not forked", "killed"} \/ program[t] = "none" \/ Sol(t) = Missing

Deserved(t) ==
  CASE Unjudged(t) -> "SYSTEM_ERROR"
    [] ~Unjudged(t) /\ TimedOut(Input(t)) -> "TIMEOUT"
    [] ~Unjudged(t) /\ Ending(t) = "SIGSEGV" -> "MEMORY_ERROR"
    [] ~Unjudged(t) /\ Ending(t) = "SIGSYS" -> "RUNTIME_ERROR"
    [] OTHER -> IF Input(t).out.words = Sol(t).words THEN "OK" ELSE "FAILED"

(* The verdict on every test the judge is done with is the one it has      *)
(* deserved, whatever the order of the three processes: SYSTEM_ERROR when  *)
(* and only when a process could not be forked, the checker was killed or  *)
(* the solution is missing, and otherwise what its program did             *)
(* (run.cpp:62-72, 119-130; equal_string.cpp:72-95).                       *)
VerdictIsRight == \A t \in Test : t < test => result[t].status = Deserved(t)

(* No program is answered with TIMEOUT within its configured time, and one *)
(* that is judged has not used a second more; what is reported is what it  *)
(* used while its user and its system time are both below a second         *)
(* (run_sandbox.cpp:62-67, 75-85; run.cpp:62-72).                          *)
TimesAreRight ==
  \A t \in Test :
    LET used == Input(t).user + Input(t).sys IN
      /\ result[t].status = "TIMEOUT" => used >= TimeMs
      /\ result[t].status \in {"OK", "FAILED"} =>
           /\ used < TimeMs + 1000
           /\ Input(t).user < 1000 /\ Input(t).sys < 1000 => result[t].time_ms = used

(* A program is still running when the judge has gone on to the next test  *)
(* only if its test was answered with SYSTEM_ERROR: no test that counts is *)
(* timed beside another's program (equal_string.cpp:61-66, 74).            *)
LeftBehindOnlyOnError ==
  \A t \in Test :
    (t < test /\ program[t] = "running") => result[t].status = "SYSTEM_ERROR"

(* Between two tests the judge holds no descriptor but the pairs of        *)
(* checkers that were killed, and perhaps of those that could not be       *)
(* forked (run.cpp:105-128).                                               *)
FdsReturned ==
  LET Pairs(states) == 2 * Cardinality({t \in Test : checker[t] \in states}) IN
    judge_pc = "ready" => fds \in Pairs({"killed"}) .. Pairs({"killed", "not forked"})

(* A test is waited for without end only when its program has filled the   *)
(* pipe the checker does not read before the program has ended, and so     *)
(* only when the output exceeds the pipe (equal_string.cpp:68-74).         *)
BlockedOnPipe(t) ==
  /\ checker[t] = "waitpid" /\ program[t] = "running"
  /\ left[t] > 0 /\ pipe[t] = Capacity

TestEnds ==
  \A t \in AnyTest :
    (test = t /\ t \in Test) ~>
      (test > t \/ (t \in Test /\ BlockedOnPipe(t) /\ Input(t).size > Capacity))
===============================================================================
