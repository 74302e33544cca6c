--------------------------- MODULE CaseRunnerProofs ---------------------------
(***************************************************************************)
(* Theorems of EqualString for any two streams, and of CaseRunner for any  *)
(* number of tests, any programs, limits and pipe, and their proofs.       *)
(***************************************************************************)
EXTENDS CaseRunner, LeastNumber, FiniteSetTheorems

-------------------------------------------------------------------------------
(* The comparison.  Its loop is a function that may be undefined, so the   *)
(* first number of reads it ends at is found first.                        *)

AtEnd(out, sol, k) == Eof(out, k) /\ Eof(sol, k)

Stops(out, sol, k) == AtEnd(out, sol, k) \/ WordAt(out, k + 1) # WordAt(sol, k + 1)

Answer(out, sol, k) ==
  IF AtEnd(out, sol, k) THEN [result |-> "OK", reads |-> k]
  ELSE [result |-> "FAILED", reads |-> k + 1]

StopFrom(out, sol, k, n) ==
  /\ n \in Nat /\ k <= n /\ Stops(out, sol, n)
  /\ \A i \in Nat : k <= i /\ i < n => ~Stops(out, sol, i)

FirstStop(out, sol, k) == CHOOSE n : StopFrom(out, sol, k, n)

LEMMA FirstStopExists ==
  ASSUME NEW out \in Stream, NEW sol \in Stream, NEW k \in Nat
  PROVE  StopFrom(out, sol, k, FirstStop(out, sol, k))
<1> DEFINE S == {n \in Nat : k <= n /\ Stops(out, sol, n)}
<1>1. PICK p \in Nat, q \in Nat : p = Len(out.words) /\ q = Len(sol.words)
  BY DEF Stream
<1>2. k + 1 + p + q \in S
  <2>1. k + 1 + p + q > p /\ k + 1 + p + q > q
    OBVIOUS
  <2>2. Eof(out, k + 1 + p + q) /\ Eof(sol, k + 1 + p + q)
    BY <1>1, <2>1 DEF Eof
  <2> QED  BY <2>2 DEF Stops, AtEnd
<1>3. PICK n \in S : \A m \in S : n <= m
  BY <1>2, LeastElement
<1>4. StopFrom(out, sol, k, n)
  BY <1>3 DEF StopFrom
<1> QED  BY <1>4 DEF FirstStop

LEMMA FirstStopIsOne ==
  ASSUME NEW out, NEW sol, NEW k \in Nat, NEW m, NEW n,
         StopFrom(out, sol, k, m), StopFrom(out, sol, k, n)
  PROVE  m = n
  BY DEF StopFrom

LEMMA FirstStopStep ==
  ASSUME NEW out \in Stream, NEW sol \in Stream, NEW k \in Nat
  PROVE  FirstStop(out, sol, k) =
           IF Stops(out, sol, k) THEN k ELSE FirstStop(out, sol, k + 1)
<1>1. CASE Stops(out, sol, k)
  <2>1. StopFrom(out, sol, k, k)
    BY <1>1 DEF StopFrom
  <2> QED  BY <1>1, <2>1, FirstStopExists, FirstStopIsOne
<1>2. CASE ~Stops(out, sol, k)
  <2>1. StopFrom(out, sol, k + 1, FirstStop(out, sol, k + 1))
    BY FirstStopExists
  <2>2. StopFrom(out, sol, k, FirstStop(out, sol, k + 1))
    BY <1>2, <2>1 DEF StopFrom
  <2> QED  BY <1>2, <2>2, FirstStopExists, FirstStopIsOne
<1> QED  BY <1>1, <1>2

LEMMA CompareAnswers ==
  ASSUME NEW out \in Stream, NEW sol \in Stream
  PROVE  Compare(out, sol) = Answer(out, sol, FirstStop(out, sol, 0))
<1> DEFINE Body(g, k) == IF AtEnd(out, sol, k) THEN [result |-> "OK", reads |-> k]
                         ELSE IF WordAt(out, k + 1) # WordAt(sol, k + 1)
                           THEN [result |-> "FAILED", reads |-> k + 1]
                         ELSE g[k + 1]
           loop == CHOOSE g : g = [k \in Nat |-> Body(g, k)]
           g0 == [k \in Nat |-> Answer(out, sol, FirstStop(out, sol, k))]
           n0 == FirstStop(out, sol, 0)
<1>1. Compare(out, sol) = loop[0]
  BY DEF Compare, AtEnd
<1>2. g0 = [k \in Nat |-> Body(g0, k)]
  <2>1. ASSUME NEW k \in Nat PROVE g0[k] = Body(g0, k)
    <3>1. g0[k + 1] = Answer(out, sol, FirstStop(out, sol, k + 1))
      OBVIOUS
    <3>2. g0[k] = Answer(out, sol, FirstStop(out, sol, k))
      OBVIOUS
    <3> QED  BY <3>1, <3>2, FirstStopStep DEF Stops, Answer
  <2> QED  BY <2>1
<1>3. loop = [k \in Nat |-> Body(loop, k)]
  BY <1>2
<1> HIDE DEF loop
<1>4. ASSUME NEW k \in Nat
      PROVE  loop[k] = IF Stops(out, sol, k) THEN Answer(out, sol, k) ELSE loop[k + 1]
  BY <1>3 DEF Stops, Answer
<1>5. StopFrom(out, sol, 0, n0)
  BY FirstStopExists
<1> HIDE DEF n0
<1>6. loop[n0] = loop[0]
  <2> DEFINE S == {i \in Nat : i <= n0 /\ loop[i] # loop[0]}
  <2> SUFFICES ASSUME loop[n0] # loop[0] PROVE FALSE
    OBVIOUS
  <2>1. n0 \in S
    BY <1>5 DEF StopFrom
  <2>2. PICK i \in S : \A m \in S : i <= m
    BY <2>1, LeastElement
  <2>3. i \in Nat /\ i # 0 /\ i - 1 \in Nat /\ i <= n0
    OBVIOUS
  <2>4. loop[i - 1] = loop[0]
    BY <2>2, <2>3, <1>5 DEF StopFrom
  <2>5. ~Stops(out, sol, i - 1)
    BY <2>3, <1>5 DEF StopFrom
  <2>6. loop[i - 1] = loop[i]
    BY <2>3, <2>5, <1>4
  <2> QED  BY <2>4, <2>6
<1>7. loop[n0] = Answer(out, sol, n0)
  BY <1>4, <1>5 DEF StopFrom
<1> QED  BY <1>1, <1>6, <1>7 DEF n0

LEMMA EndIsPastWords ==
  ASSUME NEW out \in Stream, NEW k \in Nat, Eof(out, k)
  PROVE  Len(out.words) <= k
<1>1. Len(out.words) \in Nat
  BY DEF Stream
<1> QED  BY <1>1 DEF Eof

LEMMA WordsAgree ==
  ASSUME NEW out \in Stream, NEW sol \in Stream, NEW n \in Nat,
         Len(out.words) <= n, Len(sol.words) <= n,
         \A i \in 1 .. n : WordAt(out, i) = WordAt(sol, i)
  PROVE  out.words = sol.words
<1> DEFINE u == out.words
           v == sol.words
<1>1. u \in Seq(Word) /\ v \in Seq(Word) /\ Len(u) \in Nat /\ Len(v) \in Nat
  BY DEF Stream
<1>2. \A i \in 1 .. n :
        (IF i <= Len(u) THEN u[i] ELSE NoWord) = (IF i <= Len(v) THEN v[i] ELSE NoWord)
  BY DEF WordAt
<1>3. Len(u) <= n /\ Len(v) <= n
  OBVIOUS
<1> HIDE DEF u, v
<1>4. Len(u) = Len(v)
  <2>1. CASE Len(u) < Len(v)
    <3>1. Len(v) \in 1 .. n /\ v[Len(v)] \in Word
      BY <1>1, <1>3, <2>1
    <3> QED  BY <1>1, <1>2, <2>1, <3>1, NoWordAssumption
  <2>2. CASE Len(v) < Len(u)
    <3>1. Len(u) \in 1 .. n /\ u[Len(u)] \in Word
      BY <1>1, <1>3, <2>2
    <3> QED  BY <1>1, <1>2, <2>2, <3>1, NoWordAssumption
  <2> QED  BY <1>1, <2>1, <2>2
<1>5. \A i \in 1 .. Len(u) : u[i] = v[i]
  BY <1>1, <1>2, <1>3, <1>4
<1>6. u = v
  BY <1>1, <1>4, <1>5
<1> QED  BY <1>6 DEF u, v

(* The output of a program that has ended well is accepted exactly when    *)
(* its words are those of the solution, whatever whitespace the two end    *)
(* with; the verdict on any other program is kept (equal_string.cpp:78-    *)
(* 95).                                                                    *)
THEOREM OutputIsChecked ==
  ASSUME NEW out \in Stream, NEW sol \in Stream, NEW status
  PROVE  CheckOutput(status, out, sol) =
           IF status # "OK" THEN status
           ELSE IF out.words = sol.words THEN "OK" ELSE "FAILED"
<1> DEFINE n == FirstStop(out, sol, 0)
<1>1. CASE status # "OK"
  <2>1. Len(out.words) \in Nat /\ Len(sol.words) \in Nat
    BY DEF Stream
  <2>2. Eof(out, 0) = FALSE /\ Eof(sol, 0) = FALSE
    BY <2>1 DEF Eof
  <2> QED  BY <1>1, <2>2 DEF CheckOutput
<1>2. CASE status = "OK"
  <2>1. StopFrom(out, sol, 0, n)
    BY FirstStopExists
  <2>2. Compare(out, sol) = Answer(out, sol, n)
    BY CompareAnswers
  <2> HIDE DEF n
  <2>3. CASE AtEnd(out, sol, n)
    <3>1. \A i \in 1 .. n : WordAt(out, i) = WordAt(sol, i)
      <4>1. ASSUME NEW i \in 1 .. n PROVE WordAt(out, i) = WordAt(sol, i)
        <5>1. i - 1 \in Nat /\ i - 1 < n /\ (i - 1) + 1 = i
          BY <2>1 DEF StopFrom
        <5> QED  BY <2>1, <5>1 DEF StopFrom, Stops
      <4> QED  BY <4>1
    <3>2. out.words = sol.words
      BY <2>1, <2>3, <3>1, EndIsPastWords, WordsAgree DEF AtEnd, StopFrom
    <3>3. Compare(out, sol).result = "OK" /\ Compare(out, sol).reads = n
      BY <2>2, <2>3 DEF Answer
    <3>4. Eof(out, n) = TRUE /\ Eof(sol, n) = TRUE
      BY <2>3 DEF AtEnd, Eof
    <3> QED  BY <1>2, <3>2, <3>3, <3>4 DEF CheckOutput
  <2>4. CASE ~AtEnd(out, sol, n)
    <3>1. WordAt(out, n + 1) # WordAt(sol, n + 1)
      BY <2>1, <2>4 DEF StopFrom, Stops
    <3>2. out.words # sol.words
      BY <3>1 DEF WordAt
    <3>3. Compare(out, sol).result = "FAILED"
      BY <2>2, <2>4 DEF Answer
    <3> QED  BY <1>2, <3>2, <3>3 DEF CheckOutput
  <2> QED  BY <2>3, <2>4
<1> QED  BY <1>1, <1>2

-------------------------------------------------------------------------------
(* The three processes: where each test's checker and program are, seen    *)
(* from the place of the judge, and what a checker has answered.           *)

CheckerState ==
  {"none", "start", "open_solution", "waitpid", "exited", "killed", "not forked"}

CaseRecord == [run : Run, solution : Stream \cup {Missing}]

(* Ending and Compared, of a test and the state its program has ended in. *)
EndOf(case) == IF TimedOut(case.run) THEN "SIGXCPU" ELSE case.run.ending

TimeOf(run) ==
  ((IF TimedOut(run) THEN CpuLimit - run.sys ELSE run.user) % 1000) + (run.sys % 1000)

VerdictOf(case, ended) ==
  [status |-> CheckOutput(interpret_wstatus(ended), case.run.out, case.solution),
   time_ms |-> TimeOf(case.run)]

Place ==
  /\ cases \in Cases /\ test \in Nat \ {0} /\ test <= Len(cases) + 1
  /\ judge_pc \in {"ready", "waitpid"}
  /\ judge_pc = "waitpid" =>
       test \in 1 .. Len(cases) /\ checker[test] \notin {"none", "not forked"}
  /\ checker \in [1 .. Len(cases) -> CheckerState]

PlaceOf(t) ==
  /\ t > test \/ (t = test /\ judge_pc = "ready") => checker[t] = "none"
  /\ t < test => checker[t] \in {"exited", "killed", "not forked"}

ProgramOf(t) ==
  /\ checker[t] \in {"none", "start", "not forked"} => program[t] = "none"
  /\ checker[t] \in {"open_solution", "waitpid"} => program[t] # "none" /\ reader[t]
  /\ checker[t] = "waitpid" => cases[t].solution # Missing
  /\ program[t] \in {"none", "running", EndOf(cases[t])}
       \/ (program[t] = "SIGPIPE" /\ ~reader[t])

Judged(t) ==
  /\ cases[t].solution # Missing /\ program[t] = EndOf(cases[t])
  /\ checker_result[t] = VerdictOf(cases[t], program[t])

ResultOf(t) ==
  /\ checker[t] = "exited" =>
       IF program[t] = "none" \/ cases[t].solution = Missing
         THEN checker_result[t] = SystemError ELSE Judged(t)
  /\ result[t] = IF t >= test THEN NoResult
                 ELSE IF checker[t] = "exited" THEN checker_result[t] ELSE SystemError

Arrays ==
  /\ DOMAIN program = 1 .. Len(cases) /\ DOMAIN reader = 1 .. Len(cases)
  /\ DOMAIN checker_result = 1 .. Len(cases) /\ DOMAIN result = 1 .. Len(cases)

RunnerInv ==
  /\ Place /\ Arrays
  /\ \A t \in 1 .. Len(cases) : PlaceOf(t) /\ ProgramOf(t) /\ ResultOf(t)

LEMMA TestType ==
  ASSUME cases \in Cases
  PROVE  /\ Len(cases) \in Nat /\ DOMAIN cases = 1 .. Len(cases)
         /\ \A t \in 1 .. Len(cases) : cases[t] \in CaseRecord
<1>1. cases \in Seq(CaseRecord)
  BY CasesAssumption DEF CaseRecord
<1> QED  BY <1>1

LEMMA CpuLimitType == CpuLimit \in Nat /\ TimeMs <= CpuLimit /\ CpuLimit < TimeMs + 1000
  BY BoundsAssumption DEF CpuLimit

LEMMA EndingType ==
  ASSUME NEW case \in CaseRecord
  PROVE  /\ EndOf(case) \in {"exit 0", "exit 1", "SIGSEGV", "SIGXCPU", "SIGSYS"}
         /\ EndOf(case) = "SIGXCPU" <=> TimedOut(case.run)
  BY DEF EndOf, CaseRecord, Run, Signal

LEMMA InitRunnerInv == Init => RunnerInv
<1> SUFFICES ASSUME Init PROVE RunnerInv
  OBVIOUS
<1>1. /\ Len(cases) \in Nat /\ DOMAIN cases = 1 .. Len(cases)
  BY TestType DEF Init
<1>2. Place
  BY <1>1 DEF Init, Place, CheckerState, Test
<1>3. ASSUME NEW t \in 1 .. Len(cases) PROVE PlaceOf(t) /\ ProgramOf(t) /\ ResultOf(t)
  BY <1>1 DEF Init, PlaceOf, ProgramOf, ResultOf, Test
<1> QED
  BY <1>1, <1>2, <1>3 DEF Init, RunnerInv, Arrays, Test

LEMMA JudgeRunnerInv == RunnerInv /\ Judge => RunnerInv'
<1> SUFFICES ASSUME RunnerInv, Judge PROVE RunnerInv'
  OBVIOUS
<1>1. Place /\ Arrays /\ Len(cases) \in Nat
  BY TestType DEF RunnerInv, Place
<1>2. \A t \in 1 .. Len(cases) : PlaceOf(t) /\ ProgramOf(t) /\ ResultOf(t)
  BY DEF RunnerInv
<1>3. test \in 1 .. Len(cases) /\ test \in Nat
  <2>1. CASE judge_pc = "ready"
    <3>1. test \in Nat \ {0} /\ test <= Len(cases)
      BY <1>1, <2>1
      DEF Judge, ForkChecker, CannotForkChecker, ReadResult, CheckerWasKilled, Place
    <3> QED  BY <1>1, <3>1
  <2>2. CASE judge_pc = "waitpid"
    BY <1>1, <2>2 DEF Place
  <2> QED  BY <1>1, <2>1, <2>2 DEF Place
<1>8. test + 1 \in Nat \ {0} /\ test + 1 <= Len(cases) + 1
  BY <1>1, <1>3
<1>9. ASSUME NEW t \in 1 .. Len(cases)
      PROVE  /\ t > test + 1 \/ t = test + 1 => t > test /\ t # test
             /\ t >= test + 1 <=> t >= test /\ t # test
             /\ t < test + 1 <=> t < test \/ t = test
             /\ t = test => t >= test /\ ~(t > test) /\ ~(t < test)
  BY <1>1, <1>3
<1> USE <1>1, <1>3, <1>8 DEF programVars, checkerVars
<1>4. CASE ForkChecker
  <2> USE <1>4 DEF ForkChecker
  <2>1. Place'
    BY DEF Place, CheckerState
  <2>2. Arrays'
    BY DEF Arrays
  <2>3. ASSUME NEW t \in 1 .. Len(cases) PROVE PlaceOf(t)' /\ ProgramOf(t)' /\ ResultOf(t)'
    <3>1. CASE t = test
      BY <1>2, <1>9, <3>1 DEF PlaceOf, ProgramOf, ResultOf, Judged, Place, Arrays
    <3>2. CASE t # test
      BY <1>2, <1>9, <3>2 DEF PlaceOf, ProgramOf, ResultOf, Judged, Place, Arrays
    <3> QED  BY <3>1, <3>2
  <2> QED  BY <2>1, <2>2, <2>3 DEF RunnerInv
<1>5. CASE CannotForkChecker
  <2> USE <1>5 DEF CannotForkChecker
  <2>1. Place'
    BY DEF Place, CheckerState
  <2>2. Arrays'
    BY DEF Arrays
  <2>3. ASSUME NEW t \in 1 .. Len(cases) PROVE PlaceOf(t)' /\ ProgramOf(t)' /\ ResultOf(t)'
    <3>1. CASE t = test
      BY <1>2, <1>9, <3>1 DEF PlaceOf, ProgramOf, ResultOf, Judged, Place, Arrays
    <3>2. CASE t # test
      BY <1>2, <1>9, <3>2 DEF PlaceOf, ProgramOf, ResultOf, Judged, Place, Arrays
    <3> QED  BY <3>1, <3>2
  <2> QED  BY <2>1, <2>2, <2>3 DEF RunnerInv
<1>6. CASE ReadResult
  <2> USE <1>6 DEF ReadResult
  <2>1. Place'
    BY DEF Place, CheckerState
  <2>2. Arrays'
    BY DEF Arrays
  <2>3. ASSUME NEW t \in 1 .. Len(cases) PROVE PlaceOf(t)' /\ ProgramOf(t)' /\ ResultOf(t)'
    <3>1. CASE t = test
      BY <1>2, <1>9, <3>1 DEF PlaceOf, ProgramOf, ResultOf, Judged, Place, Arrays
    <3>2. CASE t # test
      BY <1>2, <1>9, <3>2 DEF PlaceOf, ProgramOf, ResultOf, Judged, Place, Arrays
    <3> QED  BY <3>1, <3>2
  <2> QED  BY <2>1, <2>2, <2>3 DEF RunnerInv
<1>7. CASE CheckerWasKilled
  <2> USE <1>7 DEF CheckerWasKilled
  <2>1. Place'
    BY DEF Place, CheckerState
  <2>2. Arrays'
    BY DEF Arrays
  <2>3. ASSUME NEW t \in 1 .. Len(cases) PROVE PlaceOf(t)' /\ ProgramOf(t)' /\ ResultOf(t)'
    <3>1. CASE t = test
      BY <1>2, <1>9, <3>1 DEF PlaceOf, ProgramOf, ResultOf, Judged, Place, Arrays
    <3>2. CASE t # test
      BY <1>2, <1>9, <3>2 DEF PlaceOf, ProgramOf, ResultOf, Judged, Place, Arrays
    <3> QED  BY <3>1, <3>2
  <2> QED  BY <2>1, <2>2, <2>3 DEF RunnerInv
<1> QED  BY <1>4, <1>5, <1>6, <1>7 DEF Judge

LEMMA CaseIsRecord ==
  ASSUME cases \in Cases, NEW t \in 1 .. Len(cases)
  PROVE  /\ Compared(t) = VerdictOf(cases[t], program[t])
         /\ Ending(t) = EndOf(cases[t])
  BY DEF Compared, VerdictOf, Ending, EndOf, TimeOf, create_result_from_process, Input, Sol

LEMMA CheckerRunnerInv ==
  ASSUME RunnerInv, NEW t \in Test, Checker(t) \/ CheckerDies(t)
  PROVE  RunnerInv'
<1>1. Place /\ Arrays /\ Len(cases) \in Nat /\ t \in 1 .. Len(cases)
  BY TestType DEF RunnerInv, Place, Test
<1>2. \A u \in 1 .. Len(cases) : PlaceOf(u) /\ ProgramOf(u) /\ ResultOf(u)
  BY DEF RunnerInv
<1>3. UNCHANGED <<cases, test, judge_pc, result>>
  BY DEF Checker, CannotFork, ForkProgram, OpenSolution, CheckResult, CheckerDies, judgeVars
<1>4. /\ t = test /\ judge_pc = "waitpid"
      /\ t >= test /\ ~(t < test) /\ ~(t > test)
      /\ Compared(t) = VerdictOf(cases[t], program[t])
  <2>1. checker[t] \in {"start", "open_solution", "waitpid"}
    BY DEF Checker, CannotFork, ForkProgram, OpenSolution, CheckResult, CheckerDies
  <2>2. ~(t < test) /\ ~(t > test) /\ ~(t = test /\ judge_pc = "ready")
    BY <1>1, <1>2, <2>1 DEF PlaceOf
  <2>3. test \in Nat /\ judge_pc \in {"ready", "waitpid"} /\ cases \in Cases
    BY <1>1 DEF Place
  <2>4. t \in Nat
    BY <1>1
  <2>5. t = test /\ t >= test
    BY <2>2, <2>3, <2>4
  <2> QED  BY <1>1, <2>2, <2>3, <2>5, CaseIsRecord
<1> USE <1>1, <1>3 DEF programVars, checkerVars, judgeVars, Return
<1>5. CASE CannotFork(t)
  <2> USE <1>5 DEF CannotFork
  <2>1. Place' /\ Arrays'
    BY DEF Place, CheckerState, Arrays
  <2>2. ASSUME NEW u \in 1 .. Len(cases) PROVE PlaceOf(u)' /\ ProgramOf(u)' /\ ResultOf(u)'
    <3>1. CASE u = t
      BY <1>2, <1>4, <3>1 DEF PlaceOf, ProgramOf, ResultOf, Judged, Place, Arrays
    <3>2. CASE u # t
      BY <1>2, <3>2 DEF PlaceOf, ProgramOf, ResultOf, Judged, Place, Arrays
    <3> QED  BY <3>1, <3>2
  <2> QED  BY <2>1, <2>2 DEF RunnerInv
<1>6. CASE ForkProgram(t)
  <2> USE <1>6 DEF ForkProgram
  <2>1. Place' /\ Arrays'
    BY DEF Place, CheckerState, Arrays
  <2>2. ASSUME NEW u \in 1 .. Len(cases) PROVE PlaceOf(u)' /\ ProgramOf(u)' /\ ResultOf(u)'
    <3>1. CASE u = t
      BY <1>2, <1>4, <3>1 DEF PlaceOf, ProgramOf, ResultOf, Judged, Place, Arrays
    <3>2. CASE u # t
      BY <1>2, <3>2 DEF PlaceOf, ProgramOf, ResultOf, Judged, Place, Arrays
    <3> QED  BY <3>1, <3>2
  <2> QED  BY <2>1, <2>2 DEF RunnerInv
<1>7. CASE OpenSolution(t)
  <2> USE <1>7 DEF OpenSolution, Sol
  <2>1. Place' /\ Arrays'
    BY ZenonT(40) DEF Place, CheckerState, Arrays
  <2>2. ASSUME NEW u \in 1 .. Len(cases) PROVE PlaceOf(u)' /\ ProgramOf(u)' /\ ResultOf(u)'
    <3>1. CASE u = t
      <4>1. PlaceOf(u)'
        BY <1>2, <1>4, <3>1 DEF PlaceOf, Place, Arrays
      <4>2. ProgramOf(u)'
        BY <1>2, <1>4, <3>1 DEF PlaceOf, ProgramOf, Place, Arrays
      <4>3. ResultOf(u)'
        BY <1>2, <1>4, <3>1 DEF PlaceOf, ResultOf, Judged, Place, Arrays
      <4> QED  BY <4>1, <4>2, <4>3
    <3>2. CASE u # t
      BY <1>2, <3>2, ZenonT(40) DEF PlaceOf, ProgramOf, ResultOf, Judged, Place, Arrays
    <3> QED  BY <3>1, <3>2
  <2> QED  BY <2>1, <2>2 DEF RunnerInv
<1>8. CASE CheckResult(t)
  <2> USE <1>8 DEF CheckResult
  <2>1. Place' /\ Arrays'
    BY DEF Place, CheckerState, Arrays
  <2>2. ASSUME NEW u \in 1 .. Len(cases) PROVE PlaceOf(u)' /\ ProgramOf(u)' /\ ResultOf(u)'
    <3>1. CASE u = t
      BY <1>2, <1>4, <3>1 DEF PlaceOf, ProgramOf, ResultOf, Judged, Place, Arrays
    <3>2. CASE u # t
      BY <1>2, <3>2 DEF PlaceOf, ProgramOf, ResultOf, Judged, Place, Arrays
    <3> QED  BY <3>1, <3>2
  <2> QED  BY <2>1, <2>2 DEF RunnerInv
<1>9. CASE CheckerDies(t)
  <2> USE <1>9 DEF CheckerDies
  <2>1. Place' /\ Arrays'
    BY DEF Place, CheckerState, Arrays
  <2>2. ASSUME NEW u \in 1 .. Len(cases) PROVE PlaceOf(u)' /\ ProgramOf(u)' /\ ResultOf(u)'
    <3>1. CASE u = t
      BY <1>2, <1>4, <3>1 DEF PlaceOf, ProgramOf, ResultOf, Judged, Place, Arrays
    <3>2. CASE u # t
      BY <1>2, <3>2 DEF PlaceOf, ProgramOf, ResultOf, Judged, Place, Arrays
    <3> QED  BY <3>1, <3>2
  <2> QED  BY <2>1, <2>2 DEF RunnerInv
<1> QED  BY <1>5, <1>6, <1>7, <1>8, <1>9 DEF Checker

LEMMA ProgramRunnerInv ==
  ASSUME RunnerInv, NEW t \in Test, Program(t)
  PROVE  RunnerInv'
<1>1. Place /\ Arrays /\ Len(cases) \in Nat /\ t \in 1 .. Len(cases)
  BY TestType DEF RunnerInv, Place, Test
<1>2. \A u \in 1 .. Len(cases) : PlaceOf(u) /\ ProgramOf(u) /\ ResultOf(u)
  BY DEF RunnerInv
<1>3. UNCHANGED <<cases, test, judge_pc, result>>
  BY DEF Program, WriteOutput, BrokenPipe, EndProgram, judgeVars
<1>4. Ending(t) = EndOf(cases[t]) /\ EndOf(cases[t]) \notin {"none", "running"}
  BY <1>1, CaseIsRecord, EndingType, TestType DEF Place
<1> USE <1>1, <1>3 DEF programVars, checkerVars, judgeVars
<1>5. CASE WriteOutput(t)
  <2> USE <1>5 DEF WriteOutput
  <2>1. Place' /\ Arrays'
    BY DEF Place, CheckerState, Arrays
  <2>2. ASSUME NEW u \in 1 .. Len(cases) PROVE PlaceOf(u)' /\ ProgramOf(u)' /\ ResultOf(u)'
    <3>1. CASE u = t
      BY <1>2, <1>4, <3>1 DEF PlaceOf, ProgramOf, ResultOf, Judged, Place, Arrays
    <3>2. CASE u # t
      BY <1>2, <3>2 DEF PlaceOf, ProgramOf, ResultOf, Judged, Place, Arrays
    <3> QED  BY <3>1, <3>2
  <2> QED  BY <2>1, <2>2 DEF RunnerInv
<1>6. CASE BrokenPipe(t)
  <2> USE <1>6 DEF BrokenPipe
  <2>1. Place' /\ Arrays'
    BY DEF Place, CheckerState, Arrays
  <2>2. ASSUME NEW u \in 1 .. Len(cases) PROVE PlaceOf(u)' /\ ProgramOf(u)' /\ ResultOf(u)'
    <3>1. CASE u = t
      BY <1>2, <1>4, <3>1 DEF PlaceOf, ProgramOf, ResultOf, Judged, Place, Arrays
    <3>2. CASE u # t
      BY <1>2, <3>2 DEF PlaceOf, ProgramOf, ResultOf, Judged, Place, Arrays
    <3> QED  BY <3>1, <3>2
  <2> QED  BY <2>1, <2>2 DEF RunnerInv
<1>7. CASE EndProgram(t)
  <2> USE <1>7 DEF EndProgram
  <2>1. Place' /\ Arrays'
    BY DEF Place, CheckerState, Arrays
  <2>2. ASSUME NEW u \in 1 .. Len(cases) PROVE PlaceOf(u)' /\ ProgramOf(u)' /\ ResultOf(u)'
    <3>1. CASE u = t
      BY <1>2, <1>4, <3>1 DEF PlaceOf, ProgramOf, ResultOf, Judged, Place, Arrays
    <3>2. CASE u # t
      BY <1>2, <3>2 DEF PlaceOf, ProgramOf, ResultOf, Judged, Place, Arrays
    <3> QED  BY <3>1, <3>2
  <2> QED  BY <2>1, <2>2 DEF RunnerInv
<1> QED  BY <1>5, <1>6, <1>7 DEF Program

LEMMA AlwaysRunnerInv == Spec => []RunnerInv
<1>1. RunnerInv /\ UNCHANGED vars => RunnerInv'
  BY ZenonT(40)
  DEF RunnerInv, Place, Arrays, PlaceOf, ProgramOf, ResultOf, Judged, vars, judgeVars, checkerVars,
     programVars
<1>2. RunnerInv /\ [Next]_vars => RunnerInv'
  BY <1>1, JudgeRunnerInv, CheckerRunnerInv, ProgramRunnerInv DEF Next
<1> QED  BY <1>2, InitRunnerInv, PTL DEF Spec

LEMMA VerdictStatus ==
  ASSUME NEW case \in CaseRecord, case.solution # Missing
  PROVE  /\ VerdictOf(case, EndOf(case)).status =
              IF interpret_wstatus(EndOf(case)) # "OK" THEN interpret_wstatus(EndOf(case))
              ELSE IF case.run.out.words = case.solution.words THEN "OK" ELSE "FAILED"
         /\ VerdictOf(case, EndOf(case)).time_ms = TimeOf(case.run)
<1> DEFINE ended == interpret_wstatus(EndOf(case))
<1>1. case.run.out \in Stream /\ case.solution \in Stream
  BY DEF CaseRecord, Run
<1>2. CheckOutput(ended, case.run.out, case.solution) =
        IF ended # "OK" THEN ended
        ELSE IF case.run.out.words = case.solution.words THEN "OK" ELSE "FAILED"
  BY <1>1, OutputIsChecked
<1> QED  BY <1>2 DEF VerdictOf

LEMMA InterpretEnding ==
  ASSUME NEW case \in CaseRecord
  PROVE  /\ interpret_wstatus(EndOf(case)) \in
              {"OK", "TIMEOUT", "MEMORY_ERROR", "RUNTIME_ERROR"}
         /\ interpret_wstatus(EndOf(case)) = "OK" <=> EndOf(case) \notin Signal
         /\ interpret_wstatus(EndOf(case)) = "TIMEOUT" <=> TimedOut(case.run)
  BY EndingType DEF interpret_wstatus, Signal

LEMMA AnsweredTest ==
  ASSUME RunnerInv, NEW t \in Test, result[t].status \notin {"none", "SYSTEM_ERROR"}
  PROVE  /\ cases[t] \in CaseRecord /\ cases[t].solution # Missing
         /\ program[t] = EndOf(cases[t])
         /\ result[t] = VerdictOf(cases[t], EndOf(cases[t]))
<1>1. cases[t] \in CaseRecord /\ t \in 1 .. Len(cases)
  BY TestType DEF RunnerInv, Place, Test
<1>2. result[t] # NoResult /\ result[t] # SystemError
  BY DEF NoResult, SystemError
<1> QED  BY <1>1, <1>2 DEF RunnerInv, ResultOf, Judged

(* The verdict on every test is the one its program has deserved, for any  *)
(* programs and solutions and whatever the order of the three processes    *)
(* (run.cpp:62-72, 119-130; equal_string.cpp:72-95).                       *)
THEOREM VerdictsAreRight == Spec => []VerdictIsRight
<1>1. ASSUME RunnerInv, NEW t \in Test, t < test
      PROVE  result[t].status = Deserved(t)
  <2>1. /\ cases \in Cases /\ t \in 1 .. Len(cases) /\ cases[t] \in CaseRecord
        /\ Ending(t) = EndOf(cases[t]) /\ ~(t >= test)
    <3>1. cases \in Cases /\ test \in Nat
      BY <1>1 DEF RunnerInv, Place
    <3>2. t \in 1 .. Len(cases) /\ cases[t] \in CaseRecord /\ Len(cases) \in Nat
      BY <3>1, TestType DEF Test
    <3>3. Ending(t) = EndOf(cases[t])
      BY <3>1, <3>2, CaseIsRecord
    <3> QED  BY <1>1, <3>1, <3>2, <3>3
  <2>2. PlaceOf(t) /\ ProgramOf(t) /\ ResultOf(t)
    BY <1>1, <2>1 DEF RunnerInv
  <2>3. checker[t] \in {"exited", "killed", "not forked"}
    BY <1>1, <2>2 DEF PlaceOf
  <2>4. CASE Unjudged(t)
    <3>1. result[t] = SystemError
      BY <2>1, <2>2, <2>3, <2>4 DEF Unjudged, ResultOf, ProgramOf, Sol
    <3> QED  BY <2>4, <3>1 DEF Deserved, SystemError
  <2>5. CASE ~Unjudged(t)
    <3>1. /\ cases[t].solution # Missing /\ program[t] = EndOf(cases[t])
          /\ result[t] = VerdictOf(cases[t], EndOf(cases[t]))
      BY <2>1, <2>2, <2>3, <2>5 DEF Unjudged, ResultOf, Judged, Sol
    <3>2. /\ EndOf(cases[t]) \in {"exit 0", "exit 1", "SIGSEGV", "SIGXCPU", "SIGSYS"}
          /\ EndOf(cases[t]) = "SIGXCPU" <=> TimedOut(cases[t].run)
      BY <2>1, EndingType
    <3>3. result[t].status =
            IF interpret_wstatus(EndOf(cases[t])) # "OK" THEN interpret_wstatus(EndOf(cases[t]))
            ELSE IF cases[t].run.out.words = cases[t].solution.words THEN "OK" ELSE "FAILED"
      BY <2>1, <3>1, VerdictStatus
    <3>4. CASE EndOf(cases[t]) = "SIGXCPU"
      BY <2>1, <2>5, <3>2, <3>3, <3>4 DEF Deserved, interpret_wstatus, Signal, Input
    <3>5. CASE EndOf(cases[t]) \in {"SIGSEGV", "SIGSYS"}
      BY <2>1, <2>5, <3>2, <3>3, <3>5 DEF Deserved, interpret_wstatus, Signal, Input
    <3>6. CASE EndOf(cases[t]) \in {"exit 0", "exit 1"}
      BY <2>1, <2>5, <3>2, <3>3, <3>6 DEF Deserved, interpret_wstatus, Signal, Input, Sol
    <3> QED  BY <3>2, <3>4, <3>5, <3>6
  <2> QED  BY <2>4, <2>5
<1>2. RunnerInv => VerdictIsRight
  BY <1>1 DEF VerdictIsRight
<1> QED  BY <1>2, AlwaysRunnerInv, PTL

(* No program is answered with TIMEOUT within its time, one that is judged *)
(* has used less than a second more, and its time is reported as it is     *)
(* while both parts of it are below a second; for any limit                *)
(* (run_sandbox.cpp:62-67, 75-85; run.cpp:62-72).                          *)
THEOREM ReportedTimesAreRight == Spec => []TimesAreRight
<1>1. ASSUME NEW run \in Run
      PROVE  /\ TimedOut(run) => run.user + run.sys >= TimeMs
             /\ ~TimedOut(run) => run.user + run.sys < TimeMs + 1000
             /\ ~TimedOut(run) /\ run.user < 1000 /\ run.sys < 1000 =>
                  TimeOf(run) = run.user + run.sys
  <2>1. run.user \in Nat /\ run.sys \in Nat /\ TimeMs \in Nat
    BY BoundsAssumption DEF Run
  <2>2. ASSUME NEW n \in Nat, n < 1000 PROVE n % 1000 = n
    BY <2>2
  <2>3. PICK user \in Nat, sys \in Nat : user = run.user /\ sys = run.sys
    BY <2>1
  <2>4. TimedOut(run) <=> user + sys >= CpuLimit
    BY <2>3 DEF TimedOut
  <2>5. ~TimedOut(run) => TimeOf(run) = (user % 1000) + (sys % 1000)
    BY <2>3 DEF TimeOf
  <2>6. /\ user + sys >= CpuLimit => user + sys >= TimeMs
        /\ ~(user + sys >= CpuLimit) => user + sys < TimeMs + 1000
    BY <2>1, CpuLimitType
  <2> QED  BY <2>2, <2>3, <2>4, <2>5, <2>6
<1>2. ASSUME RunnerInv, NEW t \in Test, result[t].status \in {"TIMEOUT", "OK", "FAILED"}
      PROVE  /\ Input(t) \in Run
             /\ result[t].status = "TIMEOUT" <=> TimedOut(Input(t))
             /\ result[t].time_ms = TimeOf(Input(t))
  <2>1. cases[t] \in CaseRecord /\ Input(t) = cases[t].run
    BY <1>2, AnsweredTest DEF Input
  <2>2. Input(t) \in Run
    BY <2>1 DEF CaseRecord
  <2>3. /\ cases[t].solution # Missing
        /\ result[t] = VerdictOf(cases[t], EndOf(cases[t]))
    BY <1>2, AnsweredTest
  <2>4. result[t].time_ms = TimeOf(Input(t))
    BY <2>1, <2>3, VerdictStatus
  <2>5. result[t].status = "TIMEOUT" <=> TimedOut(Input(t))
    BY <1>2, <2>1, <2>3, VerdictStatus, InterpretEnding
  <2> QED  BY <2>2, <2>4, <2>5
<1>3. RunnerInv => TimesAreRight
  BY <1>1, <1>2 DEF TimesAreRight
<1> QED  BY <1>3, AlwaysRunnerInv, PTL

(* A program that still runs beside another test belongs to a test that    *)
(* was answered with SYSTEM_ERROR, however many tests there are            *)
(* (equal_string.cpp:61-66, 74).                                           *)
THEOREM CountedTestsRunAlone == Spec => []LeftBehindOnlyOnError
<1>1. ASSUME RunnerInv, NEW t \in Test, t < test, program[t] = "running"
      PROVE  result[t].status = "SYSTEM_ERROR"
  <2>1. cases[t] \in CaseRecord /\ t \in 1 .. Len(cases) /\ test \in Nat
    BY <1>1, TestType DEF RunnerInv, Place, Test
  <2>2. ~(t >= test)
    BY <1>1, <2>1
  <2>3. EndOf(cases[t]) # "running"
    BY <2>1, EndingType
  <2>4. result[t] = SystemError
    BY <1>1, <2>1, <2>2, <2>3 DEF RunnerInv, ResultOf, Judged
  <2> QED  BY <2>4 DEF SystemError
<1>2. RunnerInv => LeftBehindOnlyOnError
  BY <1>1 DEF LeftBehindOnlyOnError
<1> QED  BY <1>2, AlwaysRunnerInv, PTL

-------------------------------------------------------------------------------
(* The judge's descriptors: each test behind it has cost a pair at most,   *)
(* and only if its checker was killed or could not be forked.              *)

Behind(n, state, states) == {t \in 1 .. n - 1 : state[t] \in states}

CardBehind(n, state, states) == Cardinality(Behind(n, state, states))

Pending == IF judge_pc = "waitpid" THEN 2 ELSE 0

FdsInv ==
  /\ fds \in Nat
  /\ 2 * CardBehind(test, checker, {"killed"}) + Pending <= fds
  /\ fds <= 2 * CardBehind(test, checker, {"killed", "not forked"}) + Pending

LEMMA BehindType ==
  ASSUME NEW n \in Nat \ {0}, NEW state, NEW states
  PROVE  IsFiniteSet(Behind(n, state, states)) /\ CardBehind(n, state, states) \in Nat
<1>1. n - 1 \in Int /\ 1 \in Int
  OBVIOUS
<1>2. IsFiniteSet(1 .. n - 1)
  BY <1>1, FS_Interval
<1>3. IsFiniteSet(Behind(n, state, states))
  BY <1>2, FS_Subset DEF Behind
<1> QED  BY <1>3, FS_CardinalityType DEF CardBehind

LEMMA BehindNext ==
  ASSUME NEW n \in Nat \ {0}, NEW state, NEW states
  PROVE  CardBehind(n + 1, state, states) =
           IF state[n] \in states THEN CardBehind(n, state, states) + 1
           ELSE CardBehind(n, state, states)
<1>1. 1 .. (n + 1) - 1 = (1 .. n - 1) \cup {n} /\ n \notin 1 .. n - 1
  OBVIOUS
<1>2. CASE state[n] \in states
  <2>1. Behind(n + 1, state, states) = Behind(n, state, states) \cup {n}
    BY <1>1, <1>2 DEF Behind
  <2>2. n \notin Behind(n, state, states)
    BY <1>1 DEF Behind
  <2> QED  BY <1>2, <2>1, <2>2, BehindType, FS_AddElement DEF CardBehind
<1>3. CASE state[n] \notin states
  <2>1. Behind(n + 1, state, states) = Behind(n, state, states)
    BY <1>1, <1>3 DEF Behind
  <2> QED  BY <1>3, <2>1 DEF CardBehind
<1> QED  BY <1>2, <1>3

LEMMA BehindStays ==
  ASSUME NEW n \in Nat \ {0}, NEW f, NEW g, NEW states, \A t \in 1 .. n - 1 : g[t] = f[t]
  PROVE  /\ CardBehind(n, g, states) = CardBehind(n, f, states)
         /\ CardBehind(n + 1, g, states) =
              IF g[n] \in states THEN CardBehind(n, f, states) + 1
              ELSE CardBehind(n, f, states)
<1>1. Behind(n, g, states) = Behind(n, f, states)
  BY DEF Behind
<1>2. CardBehind(n, g, states) = CardBehind(n, f, states)
  BY <1>1 DEF CardBehind
<1> QED  BY <1>2, BehindNext

LEMMA InitFdsInv == Init => FdsInv
<1> SUFFICES ASSUME Init PROVE FdsInv
  OBVIOUS
<1>1. test = 1 /\ fds = 0 /\ Pending = 0
  BY DEF Init, Pending
<1>2. \A states : Behind(1, checker, states) = {}
  BY DEF Behind
<1>3. /\ CardBehind(1, checker, {"killed"}) = 0
      /\ CardBehind(1, checker, {"killed", "not forked"}) = 0
  BY <1>2, FS_EmptySet DEF CardBehind
<1>4. 0 \in Nat /\ 2 * 0 + 0 <= 0 /\ 0 <= 2 * 0 + 0
  OBVIOUS
<1> QED  BY <1>1, <1>3, <1>4 DEF FdsInv

LEMMA NextFdsInv == RunnerInv /\ FdsInv /\ [Next]_vars => FdsInv'
<1> SUFFICES ASSUME RunnerInv, FdsInv, [Next]_vars PROVE FdsInv'
  OBVIOUS
<1>1. /\ test \in Nat \ {0} /\ judge_pc \in {"ready", "waitpid"} /\ Len(cases) \in Nat
      /\ checker \in [1 .. Len(cases) -> CheckerState]
      /\ judge_pc = "waitpid" => test \in 1 .. Len(cases)
  BY TestType DEF RunnerInv, Place
<1>2. PICK k \in Nat, l \in Nat :
        /\ k = CardBehind(test, checker, {"killed"})
        /\ l = CardBehind(test, checker, {"killed", "not forked"})
  BY <1>1, BehindType
<1>3. fds \in Nat /\ 2 * k + Pending <= fds /\ fds <= 2 * l + Pending
  BY <1>2 DEF FdsInv
<1>4. ASSUME NEW g, \A t \in 1 .. test - 1 : g[t] = checker[t]
      PROVE  /\ CardBehind(test, g, {"killed"}) = k
             /\ CardBehind(test, g, {"killed", "not forked"}) = l
             /\ CardBehind(test + 1, g, {"killed"}) = IF g[test] = "killed" THEN k + 1 ELSE k
             /\ CardBehind(test + 1, g, {"killed", "not forked"}) =
                  IF g[test] \in {"killed", "not forked"} THEN l + 1 ELSE l
  <2>1. ASSUME NEW states
        PROVE  /\ CardBehind(test, g, states) = CardBehind(test, checker, states)
               /\ CardBehind(test + 1, g, states) =
                    IF g[test] \in states THEN CardBehind(test, checker, states) + 1
                    ELSE CardBehind(test, checker, states)
    BY <1>1, <1>4, BehindStays
  <2> QED  BY <1>2, <2>1
<1>5. ASSUME UNCHANGED <<test, judge_pc, fds>>,
             \A t \in 1 .. test - 1 : checker'[t] = checker[t]
      PROVE  FdsInv'
  <2>1. /\ CardBehind(test, checker', {"killed"}) = k
        /\ CardBehind(test, checker', {"killed", "not forked"}) = l
    BY <1>4, <1>5
  <2>2. Pending' = Pending
    BY <1>5 DEF Pending
  <2> QED  BY <1>3, <1>5, <2>1, <2>2 DEF FdsInv
<1>6. CASE ForkChecker
  <2>1. /\ judge_pc = "ready" /\ judge_pc' = "waitpid" /\ test' = test /\ fds' = fds + 2
        /\ \A t \in 1 .. test - 1 : checker'[t] = checker[t]
    BY <1>1, <1>6 DEF ForkChecker
  <2>2. /\ CardBehind(test, checker', {"killed"}) = k
        /\ CardBehind(test, checker', {"killed", "not forked"}) = l
    BY <1>4, <2>1
  <2>3. Pending = 0 /\ Pending' = 2
    BY <2>1 DEF Pending
  <2>4. fds + 2 \in Nat /\ 2 * k + 2 <= fds + 2 /\ fds + 2 <= 2 * l + 2
    BY <1>3, <2>3
  <2> QED  BY <2>1, <2>2, <2>3, <2>4 DEF FdsInv
<1>7. CASE CannotForkChecker
  <2>1. /\ judge_pc = "ready" /\ judge_pc' = "ready" /\ test' = test + 1
        /\ fds' \in {fds, fds + 2}
        /\ checker' = [checker EXCEPT ![test] = "not forked"]
        /\ test <= Len(cases)
    BY <1>7 DEF CannotForkChecker
  <2>2. /\ checker'[test] = "not forked"
        /\ \A t \in 1 .. test - 1 : checker'[t] = checker[t]
    <3>1. test \in DOMAIN checker
      <4>1. test \in Nat \ {0} /\ Len(cases) \in Nat /\ test <= Len(cases)
        BY <1>1, <2>1
      <4>2. test \in 1 .. Len(cases)
        BY <4>1
      <4> QED  BY <1>1, <4>2
    <3>2. \A t \in 1 .. test - 1 : t \in DOMAIN checker /\ t # test
      <4>1. ASSUME NEW t \in 1 .. test - 1 PROVE t \in 1 .. Len(cases) /\ t # test
        <5>1. test \in Nat \ {0} /\ Len(cases) \in Nat /\ test <= Len(cases)
          BY <1>1, <2>1
        <5> QED  BY <5>1
      <4> QED  BY <1>1, <4>1
    <3> QED  BY <2>1, <3>1, <3>2
  <2>3. /\ CardBehind(test + 1, checker', {"killed"}) = k
        /\ CardBehind(test + 1, checker', {"killed", "not forked"}) = l + 1
    BY <1>4, <2>1, <2>2
  <2>4. Pending = 0 /\ Pending' = 0
    BY <2>1 DEF Pending
  <2>5. fds' \in Nat /\ 2 * k + 0 <= fds' /\ fds' <= 2 * (l + 1) + 0
    <3>1. fds \in Nat /\ 2 * k <= fds /\ fds <= 2 * l
      BY <1>3, <2>4
    <3>2. fds' = fds \/ fds' = fds + 2
      BY <2>1
    <3> QED  BY <3>1, <3>2
  <2> QED  BY <2>1, <2>3, <2>4, <2>5 DEF FdsInv
<1>8. CASE ReadResult
  <2>1. /\ judge_pc = "waitpid" /\ judge_pc' = "ready" /\ test' = test + 1
        /\ fds' = fds - 2 /\ checker' = checker /\ checker[test] = "exited"
    BY <1>8 DEF ReadResult, checkerVars
  <2>2. /\ CardBehind(test + 1, checker', {"killed"}) = k
        /\ CardBehind(test + 1, checker', {"killed", "not forked"}) = l
    BY <1>4, <2>1
  <2>3. Pending = 2 /\ Pending' = 0
    BY <2>1 DEF Pending
  <2>4. fds - 2 \in Nat /\ 2 * k + 0 <= fds - 2 /\ fds - 2 <= 2 * l + 0
    BY <1>3, <2>3
  <2> QED  BY <2>1, <2>2, <2>3, <2>4 DEF FdsInv
<1>9. CASE CheckerWasKilled
  <2>1. /\ judge_pc = "waitpid" /\ judge_pc' = "ready" /\ test' = test + 1
        /\ fds' = fds /\ checker' = checker /\ checker[test] = "killed"
    BY <1>9 DEF CheckerWasKilled, checkerVars
  <2>2. /\ CardBehind(test + 1, checker', {"killed"}) = k + 1
        /\ CardBehind(test + 1, checker', {"killed", "not forked"}) = l + 1
    BY <1>4, <2>1
  <2>3. Pending = 2 /\ Pending' = 0
    BY <2>1 DEF Pending
  <2>4. 2 * (k + 1) + 0 <= fds /\ fds <= 2 * (l + 1) + 0
    BY <1>3, <2>3
  <2> QED  BY <1>3, <2>1, <2>2, <2>3, <2>4 DEF FdsInv
<1>10. ASSUME NEW t \in Test, Checker(t) \/ CheckerDies(t) PROVE FdsInv'
  <2>1. /\ UNCHANGED <<test, judge_pc, fds>>
        /\ checker[t] \in {"start", "open_solution", "waitpid"}
        /\ \A u : u # t /\ u \in 1 .. Len(cases) => checker'[u] = checker[u]
    BY <1>1, <1>10 DEF Checker, CannotFork, ForkProgram, OpenSolution, CheckResult, CheckerDies,
      Return, judgeVars
  <2>2. test <= Len(cases) + 1 /\ t \in 1 .. Len(cases) /\ PlaceOf(t)
    BY TestType DEF RunnerInv, Place, Test
  <2>3. ~(t < test)
    BY <2>1, <2>2 DEF PlaceOf
  <2>4. \A u \in 1 .. test - 1 : checker'[u] = checker[u]
    BY <1>1, <2>1, <2>2, <2>3
  <2> QED  BY <1>5, <2>1, <2>4
<1>11. ASSUME NEW t \in Test, Program(t) PROVE FdsInv'
  <2>1. UNCHANGED <<test, judge_pc, fds, checker>>
    BY <1>11 DEF Program, WriteOutput, BrokenPipe, EndProgram, judgeVars, checkerVars
  <2> QED  BY <1>5, <2>1
<1>12. CASE UNCHANGED vars
  <2>1. UNCHANGED <<test, judge_pc, fds, checker>>
    BY <1>12 DEF vars, judgeVars, checkerVars
  <2> QED  BY <1>5, <2>1
<1> QED  BY <1>6, <1>7, <1>8, <1>9, <1>10, <1>11, <1>12 DEF Next, Judge

(* Between two tests the judge holds the descriptors of checkers that were *)
(* killed, or could not be forked, and no others, however many tests there *)
(* are (run.cpp:105-128).                                                  *)
THEOREM DescriptorsAreReturned == Spec => []FdsReturned
<1>1. ASSUME RunnerInv, FdsInv, judge_pc = "ready", NEW states,
             states \in {{"killed"}, {"killed", "not forked"}}
      PROVE  Behind(test, checker, states) = {t \in Test : checker[t] \in states}
  <2>1. /\ test \in Nat /\ test <= Len(cases) + 1 /\ Len(cases) \in Nat
        /\ Test = 1 .. Len(cases)
    BY <1>1, TestType DEF RunnerInv, Place, Test
  <2>2. 1 .. test - 1 = {t \in Test : t < test}
    BY <2>1
  <2>3. \A t \in Test : checker[t] \in states => t < test
    <3>1. ASSUME NEW t \in Test, checker[t] \in states PROVE t < test
      <4>1. PlaceOf(t) /\ t \in Nat
        <5>1. t \in 1 .. Len(cases)
          BY <2>1
        <5>2. PlaceOf(t)
          BY <1>1, <5>1 DEF RunnerInv
        <5>3. t \in Nat
          BY <2>1, <5>1
        <5> QED  BY <5>2, <5>3
      <4>3. checker[t] # "none"
        BY <1>1, <3>1
      <4>2. ~(t > test \/ t = test)
        BY <1>1, <4>1, <4>3 DEF PlaceOf
      <4> QED  BY <2>1, <4>1, <4>2
    <3> QED  BY <3>1
  <2> QED  BY <2>2, <2>3 DEF Behind
<1>2. ASSUME RunnerInv, FdsInv, judge_pc = "ready"
      PROVE  fds \in 2 * Cardinality({t \in Test : checker[t] \in {"killed"}})
                     .. 2 * Cardinality({t \in Test : checker[t] \in {"killed", "not forked"}})
  <2>1. /\ CardBehind(test, checker, {"killed"}) =
             Cardinality({t \in Test : checker[t] \in {"killed"}})
        /\ CardBehind(test, checker, {"killed", "not forked"}) =
             Cardinality({t \in Test : checker[t] \in {"killed", "not forked"}})
    BY <1>1, <1>2 DEF CardBehind
  <2>2. test \in Nat \ {0}
    BY <1>2 DEF RunnerInv, Place
  <2>3. PICK k \in Nat, l \in Nat :
          /\ k = CardBehind(test, checker, {"killed"})
          /\ l = CardBehind(test, checker, {"killed", "not forked"})
    BY <2>2, BehindType
  <2>4. fds \in Nat /\ 2 * k <= fds /\ fds <= 2 * l
    <3>1. Pending = 0
      BY <1>2 DEF Pending
    <3>2. fds \in Nat /\ 2 * k + 0 <= fds /\ fds <= 2 * l + 0
      BY <1>2, <2>3, <3>1 DEF FdsInv
    <3> QED  BY <3>2
  <2>5. fds \in 2 * k .. 2 * l
    BY <2>4
  <2>6. /\ k = Cardinality({t \in Test : checker[t] \in {"killed"}})
        /\ l = Cardinality({t \in Test : checker[t] \in {"killed", "not forked"}})
    BY <2>1, <2>3
  <2> QED  BY <2>5, <2>6
<1>3. RunnerInv /\ FdsInv => FdsReturned
  BY <1>2 DEF FdsReturned
<1>4. RunnerInv /\ FdsInv /\ [Next]_vars => FdsInv'
  BY NextFdsInv
<1> QED  BY <1>3, <1>4, AlwaysRunnerInv, InitFdsInv, PTL DEF Spec

-------------------------------------------------------------------------------
(* What keeps a test from ending: nobody works for ever, and nobody waits  *)
(* for another but for a program that waits for its pipe.                  *)

(* The steps a test may still take of the judge, its checker, its program. *)
Process == {"judge", "checker", "program"} \X Test

JudgeSteps(t) ==
  IF t < test THEN 0 ELSE IF t = test /\ judge_pc = "waitpid" THEN 1 ELSE 2

CheckerSteps(t) ==
  CASE checker[t] = "none" -> 4
    [] checker[t] = "start" -> 3
    [] checker[t] = "open_solution" -> 2
    [] checker[t] = "waitpid" -> 1
    [] OTHER -> 0

ProgramSteps(t) ==
  CASE program[t] = "none" -> left[t] + 2
    [] program[t] = "running" -> left[t] + 1
    [] OTHER -> 0

StepsLeft(who, t) ==
  CASE who = "judge" -> JudgeSteps(t)
    [] who = "checker" -> CheckerSteps(t)
    [] who = "program" -> ProgramSteps(t)

Todo == UNION {{p} \X (1 .. StepsLeft(p[1], p[2])) : p \in Process}

PipesOf(t) ==
  /\ left[t] \in Nat /\ pipe[t] \in 0 .. Capacity
  /\ left[t] + pipe[t] = cases[t].run.size

PipeInv ==
  /\ DOMAIN left = 1 .. Len(cases) /\ DOMAIN pipe = 1 .. Len(cases)
  /\ \A t \in 1 .. Len(cases) : PipesOf(t)

LEMMA InitPipeInv == Init => PipeInv
<1> SUFFICES ASSUME Init PROVE PipeInv
  OBVIOUS
<1>1. /\ cases \in Cases /\ left = [t \in Test |-> cases[t].run.size]
      /\ pipe = [t \in Test |-> 0]
  BY DEF Init, Input
<1>2. Test = 1 .. Len(cases) /\ \A t \in 1 .. Len(cases) : cases[t] \in CaseRecord
  BY <1>1, TestType DEF Test
<1>3. \A t \in 1 .. Len(cases) : cases[t].run.size \in Nat
  BY <1>2 DEF CaseRecord, Run
<1>4. 0 \in 0 .. Capacity
  BY BoundsAssumption
<1> QED  BY <1>1, <1>2, <1>3, <1>4 DEF PipeInv, PipesOf

LEMMA NextPipeInv == PipeInv /\ [Next]_vars => PipeInv'
<1> SUFFICES ASSUME PipeInv, [Next]_vars PROVE PipeInv'
  OBVIOUS
<1>1. ASSUME UNCHANGED <<left, pipe, cases>> PROVE PipeInv'
  BY <1>1 DEF PipeInv, PipesOf
<1>2. CASE Judge
  BY <1>1, <1>2 DEF Judge, ForkChecker, CannotForkChecker, ReadResult, CheckerWasKilled, programVars
<1>3. ASSUME NEW t \in Test, Checker(t) \/ CheckerDies(t) PROVE PipeInv'
  BY <1>1, <1>3 DEF Checker, CannotFork, ForkProgram, OpenSolution, CheckResult, CheckerDies,
     programVars
<1>4. ASSUME NEW t \in Test, Program(t) PROVE PipeInv'
  <2>1. CASE BrokenPipe(t) \/ EndProgram(t)
    BY <1>1, <2>1 DEF BrokenPipe, EndProgram
  <2>2. CASE WriteOutput(t)
    <3>1. /\ pipe' = [pipe EXCEPT ![t] = pipe[t] + 1] /\ left' = [left EXCEPT ![t] = left[t] - 1]
          /\ left[t] > 0 /\ pipe[t] < Capacity /\ cases' = cases
      BY <2>2 DEF WriteOutput
    <3>2. ASSUME NEW u \in 1 .. Len(cases) PROVE PipesOf(u)'
      <4>1. CASE u = t
        <5>1. PICK l \in Nat, p \in Nat, n \in Nat :
                l = left[t] /\ p = pipe[t] /\ n = cases[t].run.size /\ l + p = n
          BY <3>2, <4>1 DEF PipeInv, PipesOf
        <5>2. left'[t] = l - 1 /\ pipe'[t] = p + 1
          BY <3>1, <3>2, <4>1, <5>1 DEF PipeInv
        <5>3. l > 0 /\ p < Capacity /\ Capacity \in Nat
          BY <3>1, <5>1, BoundsAssumption
        <5>4. l - 1 \in Nat /\ p + 1 \in 0 .. Capacity
          BY <5>3
        <5>5. l + p = n
          BY <5>1
        <5>6. (l - 1) + (p + 1) = l + p
          BY <5>4
        <5>7. (l - 1) + (p + 1) = n
          BY <5>5, <5>6
        <5> QED  BY <3>1, <4>1, <5>1, <5>2, <5>4, <5>7 DEF PipesOf
      <4>2. CASE u # t
        <5>1. left'[u] = left[u] /\ pipe'[u] = pipe[u] /\ PipesOf(u)
          BY <3>1, <3>2, <4>2 DEF PipeInv
        <5> QED  BY <3>1, <5>1 DEF PipesOf
      <4> QED  BY <4>1, <4>2
    <3> QED  BY <3>1, <3>2 DEF PipeInv
  <2> QED  BY <1>4, <2>1, <2>2 DEF Program
<1>5. CASE UNCHANGED vars
  BY <1>1, <1>5 DEF vars, programVars
<1> QED  BY <1>2, <1>3, <1>4, <1>5 DEF Next

LEMMA AlwaysPipeInv == Spec => [](RunnerInv /\ PipeInv)
  BY InitPipeInv, NextPipeInv, AlwaysRunnerInv, PTL DEF Spec

(* The judge waits for a checker that can go on, or whose program can.     *)
CanGoOn(t) ==
  \/ checker[t] \in {"start", "open_solution", "exited", "killed"}
  \/ checker[t] = "waitpid" /\ program[t] \notin {"none", "running"}
  \/ program[t] = "running" /\ (left[t] = 0 \/ (reader[t] /\ pipe[t] < Capacity))

NobodyWaitsOtherwise ==
  judge_pc = "waitpid" =>
    CanGoOn(test) \/ (BlockedOnPipe(test) /\ Input(test).size > Capacity)

(* Nobody waits for ever for another but behind a full pipe: while the     *)
(* judge waits, its checker has a step, or its program has ended or has a  *)
(* step of its own, or the program has written all that fits and its       *)
(* output exceeds the pipe (run.cpp:119-123, equal_string.cpp:61-74).      *)
THEOREM OnlyFullPipeBlocks == Spec => []NobodyWaitsOtherwise
<1>1. ASSUME RunnerInv, PipeInv, judge_pc = "waitpid", ~CanGoOn(test)
      PROVE  BlockedOnPipe(test) /\ Input(test).size > Capacity
  <2>1. /\ test \in 1 .. Len(cases) /\ checker[test] \in CheckerState
        /\ checker[test] \notin {"none", "not forked"}
    BY <1>1 DEF RunnerInv, Place
  <2>2. checker[test] = "waitpid"
    BY <1>1, <2>1 DEF CanGoOn, CheckerState
  <2>3. ProgramOf(test) /\ PipesOf(test)
    BY <1>1, <2>1 DEF RunnerInv, PipeInv
  <2>4. program[test] = "running" /\ reader[test]
    BY <1>1, <2>2, <2>3 DEF CanGoOn, ProgramOf
  <2>5. left[test] # 0 /\ ~(pipe[test] < Capacity)
    BY <1>1, <2>4 DEF CanGoOn
  <2>6. left[test] > 0 /\ pipe[test] = Capacity /\ cases[test].run.size > Capacity
    <3>1. PICK l \in Nat, p \in Nat, c \in Nat :
            l = left[test] /\ p = pipe[test] /\ c = Capacity /\ p <= c
      BY <2>3, BoundsAssumption DEF PipesOf
    <3>2. l > 0 /\ p = c /\ l + p > c
      BY <2>5, <3>1
    <3> QED  BY <2>3, <3>1, <3>2 DEF PipesOf
  <2> QED  BY <2>2, <2>4, <2>6 DEF BlockedOnPipe, Input
<1>2. RunnerInv /\ PipeInv => NobodyWaitsOtherwise
  BY <1>1 DEF NobodyWaitsOtherwise
<1> QED  BY <1>2, AlwaysPipeInv, PTL

(* Fewer steps left of one process, and not more of any other.             *)
LEMMA TodoShrinks ==
  ASSUME NEW P, NEW f \in [P -> Nat], NEW g \in [P -> Nat],
         \A p \in P : g[p] <= f[p], \E p \in P : g[p] < f[p]
  PROVE  LET Work(h) == UNION {{p} \X (1 .. h[p]) : p \in P}
         IN  Work(g) \subseteq Work(f) /\ Work(g) # Work(f)
<1> DEFINE Work(h) == UNION {{p} \X (1 .. h[p]) : p \in P}
<1>1. ASSUME NEW h, NEW p \in P, NEW i PROVE <<p, i>> \in Work(h) <=> i \in 1 .. h[p]
  OBVIOUS
<1>2. ASSUME NEW x \in Work(g) PROVE x \in Work(f)
  <2>1. PICK p \in P : x \in {p} \X (1 .. g[p])
    OBVIOUS
  <2>2. x = <<p, x[2]>> /\ x[2] \in 1 .. g[p]
    BY <2>1
  <2>3. x[2] \in 1 .. f[p]
    BY <2>2
  <2> QED  BY <2>2, <2>3
<1>3. PICK p \in P : g[p] < f[p]
  OBVIOUS
<1>4. f[p] \in 1 .. f[p] /\ f[p] \notin 1 .. g[p]
  BY <1>3
<1>5. <<p, f[p]>> \in Work(f) /\ <<p, f[p]>> \notin Work(g)
  BY <1>1, <1>4
<1> QED  BY <1>2, <1>5

LEMMA TodoIsFinite ==
  ASSUME NEW P, IsFiniteSet(P), NEW f \in [P -> Nat]
  PROVE  IsFiniteSet(UNION {{p} \X (1 .. f[p]) : p \in P})
<1> DEFINE part == [p \in P |-> {p} \X (1 .. f[p])]
           parts == {{p} \X (1 .. f[p]) : p \in P}
<1>1. part \in Surjection(P, parts)
  BY DEF Surjection
<1>2. ASSUME NEW p \in P PROVE IsFiniteSet({p} \X (1 .. f[p]))
  <2>1. IsFiniteSet({p})
    BY FS_Singleton
  <2>2. IsFiniteSet(1 .. f[p])
    BY FS_Interval
  <2> QED  BY <2>1, <2>2, FS_Product
<1>3. \A part1 \in parts : IsFiniteSet(part1)
  BY <1>2
<1> HIDE DEF part, parts
<1>4. IsFiniteSet(parts)
  BY <1>1, FS_Surjection
<1>5. IsFiniteSet(UNION parts)
  BY <1>3, <1>4, FS_UNION
<1> QED  BY <1>5 DEF parts

Ranks == [p \in Process |-> StepsLeft(p[1], p[2])]

LEMMA StepsType ==
  ASSUME RunnerInv, PipeInv
  PROVE  /\ Ranks \in [Process -> Nat] /\ IsFiniteSet(Process)
         /\ Todo = UNION {{p} \X (1 .. Ranks[p]) : p \in Process}
<1>1. Test = 1 .. Len(cases) /\ Len(cases) \in Nat
  BY TestType DEF RunnerInv, Place, Test
<1>2. ASSUME NEW t \in Test, NEW who \in {"judge", "checker", "program"}
      PROVE  StepsLeft(who, t) \in Nat
  <2>1. left[t] \in Nat /\ left[t] + 1 \in Nat /\ left[t] + 2 \in Nat
    BY <1>1 DEF PipeInv, PipesOf
  <2>2. JudgeSteps(t) \in Nat /\ CheckerSteps(t) \in Nat /\ ProgramSteps(t) \in Nat
    BY <2>1 DEF JudgeSteps, CheckerSteps, ProgramSteps
  <2> QED  BY <2>2 DEF StepsLeft
<1>3. Ranks \in [Process -> Nat]
  BY <1>2 DEF Ranks, Process
<1>4. IsFiniteSet(Process)
  <2>1. IsFiniteSet({"judge", "checker", "program"})
    <3>1. IsFiniteSet({"judge"} \cup ({"checker"} \cup {"program"}))
      BY FS_Singleton, FS_Union
    <3>2. {"judge", "checker", "program"} = {"judge"} \cup ({"checker"} \cup {"program"})
      OBVIOUS
    <3> QED  BY <3>1, <3>2
  <2>2. IsFiniteSet(Test)
    BY <1>1, FS_Interval
  <2> QED  BY <2>1, <2>2, FS_Product DEF Process
<1>5. Todo = UNION {{p} \X (1 .. Ranks[p]) : p \in Process}
  BY DEF Todo, Ranks
<1> QED  BY <1>3, <1>4, <1>5

(* The step of one process: nobody's steps grow, and one's fall.           *)
Advances(t) ==
  \/ JudgeSteps(t)' < JudgeSteps(t)
  \/ CheckerSteps(t)' < CheckerSteps(t)
  \/ ProgramSteps(t)' < ProgramSteps(t)

Forward ==
  /\ \A t \in Test : /\ JudgeSteps(t)' <= JudgeSteps(t)
                     /\ CheckerSteps(t)' <= CheckerSteps(t)
                     /\ ProgramSteps(t)' <= ProgramSteps(t)
  /\ \E t \in Test : Advances(t)

LEMMA SameSteps ==
  ASSUME RunnerInv, PipeInv, NEW t \in Test
  PROVE  /\ UNCHANGED <<test, judge_pc>> => JudgeSteps(t)' <= JudgeSteps(t)
         /\ checker'[t] = checker[t] => CheckerSteps(t)' <= CheckerSteps(t)
         /\ program'[t] = program[t] /\ left'[t] = left[t] => ProgramSteps(t)' <= ProgramSteps(t)
<1>1. t \in 1 .. Len(cases)
  BY TestType DEF RunnerInv, Place, Test
<1>2. left[t] \in Nat /\ left[t] + 1 \in Nat /\ left[t] + 2 \in Nat
  BY <1>1 DEF PipeInv, PipesOf
<1> QED  BY <1>2 DEF JudgeSteps, CheckerSteps, ProgramSteps

LEMMA JudgeForward ==
  ASSUME RunnerInv, PipeInv, Judge
  PROVE  Forward
<1>1. /\ test \in Nat \ {0} /\ Len(cases) \in Nat /\ Test = 1 .. Len(cases)
      /\ judge_pc \in {"ready", "waitpid"} /\ checker \in [1 .. Len(cases) -> CheckerState]
  BY TestType DEF RunnerInv, Place, Test
<1>2. UNCHANGED <<program, left>>
  BY DEF Judge, ForkChecker, CannotForkChecker, ReadResult, CheckerWasKilled, programVars
<1>3. /\ test \in Test
      /\ \/ judge_pc = "ready" /\ test' = test /\ judge_pc' = "waitpid"
         \/ test' = test + 1 /\ judge_pc' = "ready"
      /\ \/ checker' = checker
         \/ /\ judge_pc = "ready"
            /\ \/ checker' = [checker EXCEPT ![test] = "start"]
               \/ checker' = [checker EXCEPT ![test] = "not forked"]
  <2>1. CASE ForkChecker \/ CannotForkChecker
    <3>1. judge_pc = "ready" /\ test \in Test
      <4>1. judge_pc = "ready" /\ test <= Len(cases)
        BY <2>1 DEF ForkChecker, CannotForkChecker
      <4> QED  BY <1>1, <4>1
    <3>2. CASE ForkChecker
      BY <3>1, <3>2 DEF ForkChecker
    <3>3. CASE CannotForkChecker
      BY <3>1, <3>3 DEF CannotForkChecker
    <3> QED  BY <2>1, <3>2, <3>3
  <2>2. CASE ReadResult \/ CheckerWasKilled
    <3>1. test \in Test
      BY <1>1, <2>2 DEF ReadResult, CheckerWasKilled, RunnerInv, Place
    <3> QED  BY <2>2, <3>1 DEF ReadResult, CheckerWasKilled, checkerVars
  <2> QED  BY <2>1, <2>2 DEF Judge
<1>4. judge_pc = "ready" => checker[test] = "none"
  BY <1>1, <1>3 DEF RunnerInv, PlaceOf
<1>5. ASSUME NEW t \in Test
      PROVE  /\ JudgeSteps(t)' <= JudgeSteps(t)
             /\ t = test => JudgeSteps(t)' < JudgeSteps(t)
  <2>1. t \in Nat /\ test \in Nat
    BY <1>1
  <2>2. CASE judge_pc = "ready" /\ test' = test /\ judge_pc' = "waitpid"
    BY <2>1, <2>2 DEF JudgeSteps
  <2>3. CASE test' = test + 1 /\ judge_pc' = "ready"
    <3>1. /\ t < test => t < test + 1
          /\ t = test => t < test + 1 /\ ~(t < test)
      BY <2>1
    <3> QED  BY <1>1, <2>3, <3>1 DEF JudgeSteps
  <2> QED  BY <1>3, <2>2, <2>3
<1>6. ASSUME NEW t \in Test PROVE CheckerSteps(t)' <= CheckerSteps(t)
  <2>1. CASE checker' = checker \/ t # test
    <3>1. checker'[t] = checker[t]
      BY <1>1, <1>3, <2>1
    <3> QED  BY <3>1, SameSteps
  <2>2. CASE checker' # checker /\ t = test
    <3>1. checker[t] = "none" /\ checker'[t] \in {"start", "not forked"}
      BY <1>1, <1>3, <1>4, <2>2
    <3>2. CheckerSteps(t) = 4
      BY <3>1 DEF CheckerSteps
    <3>3. checker'[t] = "start" => CheckerSteps(t)' = 3
      BY DEF CheckerSteps
    <3>4. checker'[t] = "not forked" => CheckerSteps(t)' = 0
      BY DEF CheckerSteps
    <3>5. CheckerSteps(t)' \in {0, 3}
      BY <3>1, <3>3, <3>4
    <3> QED  BY <3>2, <3>5
  <2> QED  BY <2>1, <2>2
<1>7. ASSUME NEW t \in Test PROVE ProgramSteps(t)' <= ProgramSteps(t)
  BY <1>2, SameSteps
<1> QED  BY <1>3, <1>5, <1>6, <1>7 DEF Forward, Advances

LEMMA CheckerForward ==
  ASSUME RunnerInv, PipeInv, NEW t \in Test, Checker(t) \/ CheckerDies(t)
  PROVE  Forward
<1>1. /\ Test = 1 .. Len(cases) /\ checker \in [1 .. Len(cases) -> CheckerState]
      /\ DOMAIN program = Test
  BY TestType DEF RunnerInv, Place, Arrays, Test
<1>2. /\ UNCHANGED <<test, judge_pc, left>>
      /\ \/ program' = program
         \/ checker[t] = "start" /\ program' = [program EXCEPT ![t] = "running"]
      /\ \/ checker[t] = "start" /\ checker' = [checker EXCEPT ![t] = "open_solution"]
         \/ checker[t] = "open_solution" /\ checker' = [checker EXCEPT ![t] = "waitpid"]
         \/ /\ checker[t] \in {"start", "open_solution", "waitpid"}
            /\ \/ checker' = [checker EXCEPT ![t] = "exited"]
               \/ checker' = [checker EXCEPT ![t] = "killed"]
  BY DEF Checker, CannotFork, ForkProgram, OpenSolution, CheckResult, CheckerDies, Return,
     judgeVars, programVars
<1>3. ASSUME NEW u \in Test
      PROVE  /\ CheckerSteps(u)' <= CheckerSteps(u)
             /\ u = t => CheckerSteps(u)' < CheckerSteps(u)
  <2>1. CASE u # t
    <3>1. checker'[u] = checker[u]
      BY <1>1, <1>2, <2>1
    <3> QED  BY <2>1, <3>1, SameSteps
  <2>2. CASE u = t
    <3>1. \/ checker[u] = "start" /\ checker'[u] = "open_solution"
          \/ checker[u] = "open_solution" /\ checker'[u] = "waitpid"
          \/ /\ checker[u] \in {"start", "open_solution", "waitpid"}
             /\ checker'[u] \in {"exited", "killed"}
      BY <1>1, <1>2, <2>2
    <3> QED  BY <3>1 DEF CheckerSteps
  <2> QED  BY <2>1, <2>2
<1>4. ASSUME NEW u \in Test PROVE ProgramSteps(u)' <= ProgramSteps(u)
  <2>1. CASE program' = program \/ u # t
    <3>1. program'[u] = program[u] /\ left'[u] = left[u]
      BY <1>1, <1>2, <2>1
    <3> QED  BY <3>1, SameSteps
  <2>2. CASE program' # program /\ u = t
    <3>1. program[u] = "none" /\ program'[u] = "running" /\ left'[u] = left[u]
      BY <1>1, <1>2, <2>2 DEF RunnerInv, ProgramOf
    <3>2. left[u] \in Nat
      BY <1>1 DEF PipeInv, PipesOf
    <3> QED  BY <3>1, <3>2 DEF ProgramSteps
  <2> QED  BY <2>1, <2>2
<1>5. ASSUME NEW u \in Test PROVE JudgeSteps(u)' <= JudgeSteps(u)
  BY <1>2, SameSteps
<1> QED  BY <1>3, <1>4, <1>5 DEF Forward, Advances

LEMMA ProgramForward ==
  ASSUME RunnerInv, PipeInv, NEW t \in Test, Program(t)
  PROVE  Forward
<1>1. /\ Test = 1 .. Len(cases) /\ DOMAIN program = Test /\ DOMAIN left = Test
      /\ \A u \in Test : left[u] \in Nat
  BY TestType DEF RunnerInv, Place, Arrays, Test, PipeInv, PipesOf
<1>2. Ending(t) \notin {"none", "running"}
  BY <1>1, CaseIsRecord, EndingType, TestType DEF RunnerInv, Place
<1>3. /\ UNCHANGED <<test, judge_pc, checker>> /\ program[t] = "running"
      /\ \/ program' = program /\ left' = [left EXCEPT ![t] = left[t] - 1]
         \/ /\ left' = left
            /\ \/ program' = [program EXCEPT ![t] = "SIGPIPE"]
               \/ program' = [program EXCEPT ![t] = Ending(t)]
  BY DEF Program, WriteOutput, BrokenPipe, EndProgram, judgeVars, checkerVars
<1>4. ASSUME NEW u \in Test
      PROVE  /\ ProgramSteps(u)' <= ProgramSteps(u)
             /\ u = t => ProgramSteps(u)' < ProgramSteps(u)
  <2>1. CASE u # t
    <3>1. program'[u] = program[u] /\ left'[u] = left[u]
      BY <1>1, <1>3, <2>1
    <3> QED  BY <2>1, <3>1, SameSteps
  <2>2. CASE u = t
    <3>1. PICK l \in Nat : l = left[u]
      BY <1>1
    <3>2. /\ program[u] = "running"
          /\ \/ program'[u] = "running" /\ left'[u] = l - 1
             \/ program'[u] \notin {"none", "running"}
      BY <1>1, <1>2, <1>3, <2>2, <3>1
    <3> QED  BY <3>1, <3>2 DEF ProgramSteps
  <2> QED  BY <2>1, <2>2
<1>5. ASSUME NEW u \in Test
      PROVE  JudgeSteps(u)' <= JudgeSteps(u) /\ CheckerSteps(u)' <= CheckerSteps(u)
  BY <1>3, SameSteps
<1> QED  BY <1>4, <1>5 DEF Forward, Advances

UsesUp == Todo' \subseteq Todo /\ Todo' # Todo

LEMMA ForwardUsesUp ==
  ASSUME RunnerInv, PipeInv, Forward, cases' = cases, (Ranks \in [Process -> Nat])'
  PROVE  UsesUp
<1>1. Process' = Process
  BY DEF Process, Test
<1>2. /\ Ranks \in [Process -> Nat] /\ Ranks' \in [Process -> Nat]
      /\ Todo = UNION {{p} \X (1 .. Ranks[p]) : p \in Process}
  BY <1>1, StepsType
<1>3. Todo' = UNION {{p} \X (1 .. Ranks'[p]) : p \in Process}
  BY <1>1 DEF Todo, Ranks
<1>4. ASSUME NEW who \in {"judge", "checker", "program"}, NEW t \in Test
      PROVE  /\ <<who, t>> \in Process
             /\ Ranks[<<who, t>>] = StepsLeft(who, t)
             /\ Ranks'[<<who, t>>] = StepsLeft(who, t)'
  BY <1>1 DEF Process, Ranks
<1>5. ASSUME NEW p \in Process PROVE Ranks'[p] <= Ranks[p]
  <2>1. PICK who \in {"judge", "checker", "program"}, t \in Test : p = <<who, t>>
    BY DEF Process
  <2>2. StepsLeft(who, t)' <= StepsLeft(who, t)
    BY DEF Forward, StepsLeft
  <2> QED  BY <1>4, <2>1, <2>2
<1>6. \E p \in Process : Ranks'[p] < Ranks[p]
  <2>1. PICK t \in Test : Advances(t)
    BY DEF Forward
  <2>2. \E who \in {"judge", "checker", "program"} : StepsLeft(who, t)' < StepsLeft(who, t)
    BY <2>1 DEF Advances, StepsLeft
  <2> QED  BY <1>4, <2>2
<1> HIDE DEF Ranks, Process, Todo
<1>7. LET Work(h) == UNION {{p} \X (1 .. h[p]) : p \in Process}
      IN  Work(Ranks') \subseteq Work(Ranks) /\ Work(Ranks') # Work(Ranks)
  BY <1>2, <1>5, <1>6, TodoShrinks
<1> QED  BY <1>2, <1>3, <1>7 DEF UsesUp

LEMMA AlwaysRanked ==
  Spec => [](RunnerInv /\ PipeInv /\ Ranks \in [Process -> Nat] /\ IsFiniteSet(Todo))
<1>1. RunnerInv /\ PipeInv => Ranks \in [Process -> Nat] /\ IsFiniteSet(Todo)
  BY StepsType, TodoIsFinite
<1> QED  BY <1>1, AlwaysPipeInv, PTL

(* Nobody works for ever: what is left to do of all tests is a finite set  *)
(* of which every step of judge, checker or program takes something, and   *)
(* to which none adds anything.  So no process goes round in a loop, and a *)
(* test that does not end stands still (run.cpp:103-131,                   *)
(* equal_string.cpp:57-99).                                                *)
THEOREM WorkIsUsedUp == Spec => []IsFiniteSet(Todo) /\ [][UsesUp]_vars
<1>1. ASSUME RunnerInv, PipeInv, (Ranks \in [Process -> Nat])', [Next]_vars
      PROVE  [UsesUp]_vars
  <2>1. CASE Judge
    <3>1. cases' = cases
      BY <2>1 DEF Judge, ForkChecker, CannotForkChecker, ReadResult, CheckerWasKilled
    <3> QED  BY <1>1, <2>1, <3>1, JudgeForward, ForwardUsesUp
  <2>2. ASSUME NEW t \in Test, Checker(t) \/ CheckerDies(t) PROVE [UsesUp]_vars
    <3>1. cases' = cases
      BY <2>2 DEF Checker, CannotFork, ForkProgram, OpenSolution, CheckResult, CheckerDies
    <3> QED  BY <1>1, <2>2, <3>1, CheckerForward, ForwardUsesUp
  <2>3. ASSUME NEW t \in Test, Program(t) PROVE [UsesUp]_vars
    <3>1. cases' = cases
      BY <2>3 DEF Program, WriteOutput, BrokenPipe, EndProgram
    <3> QED  BY <1>1, <2>3, <3>1, ProgramForward, ForwardUsesUp
  <2> QED  BY <1>1, <2>1, <2>2, <2>3 DEF Next
<1> QED  BY <1>1, AlwaysRanked, PTL DEF Spec
===============================================================================
