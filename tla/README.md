# Verification of the grader

TLA+ models of the grader in `src/`: a pool of grader threads behind a REST
server, the scripts a grader runs in an overlay workspace, the installation of
the tasks they belong to, and the sandbox that grades a submission test by test.
TLC checks every model on small instances. TLAPS proves, for every value of the
constants, every safety property the runs find to hold, that the pool implements its
abstract specification, and of each liveness property the part that needs no
fairness: that nobody waits for what cannot come, and that the work is finite.

## 1. The system

| Component | State | Operations | Interacts with |
|---|---|---|---|
| submission pool (`submission_pool.cpp`) | queue of pointers, map from id to pointer | `add`, `remove`, `get_first`, `get`, `size` | three of them in the grader pool; no lock |
| grader pool (`grader_pool.cpp`) | pool status, vector of graders, waiting / grading / graded pool | `start` (creates threads, then schedules), `add_submission`, `get_submission_status`, `signal`, `stop` | main thread runs `start`; REST thread adds and asks; a killer signals |
| grader (`grader.cpp`) | `status` and `submission`, plain fields | `start_grader` (its thread), `grade` (scheduler), `signal` (killer) | three threads write `status` |
| workspace (`grade_script.cpp`, `script.cpp`, `file.cpp`) | folders `run/<id>` and `grader/<id>`, an overlay mount, `submissions/<id>`, `results/<id>` | `grade_submission` and its parts | worker thread; the SIGINT handler removes the same folders |
| task (`task.cpp`) | `tasks/<id>/config.yaml` | `load_task`, `get_judge_option` | read by every grading, written by `task install` |
| REST server (`rest/`) | one thread | `/submit`, `/get_result`, `/info` | writes `submissions/<id>`, calls the pool, reads `results/<id>` |
| server main (`rest/grader.cpp`) | `main_pool`, `server` | `main`, SIGINT handler | the handler runs on the scheduler's thread |
| sandbox (`sandbox/`) | configuration, groups, dependencies, policy, results | `update` for each file, `find_topo_order`, `grade`, `grade_group`, the report | a process of its own, started by a task's script |
| test case (`sandbox/run/`) | two pipes, three processes | `grade_script`, the string checker, the program | fork, waitpid, signals |
| task manager (`task-manager/`) | files of `tasks/<id>` | `task install`: copy, run the install script | a process of its own; writes what the graders read |
| logger (`logger.hpp`) | a mutex per program or per translation unit | a log call | every thread, the signal handler, forked children |
| setup, submission parser | folders; none | | |

What is hard about it:

* **No locks.** Scheduler, workers, REST thread and killer share plain fields
  and containers. A status read in a `switch` is written many steps later.
* **A kill at any moment**, from a signal handler on top of the scheduler
  (server) or from another thread (test program).
* **Ids and objects differ.** A client may submit one id twice; the queue holds
  objects, the map and the files are keyed by id.
* **Failures that go on.** The results of copies, of scripts and of `rm -rf` are
  dropped; an `umount` or an `rm` that fails leaves the workspace of one submission
  to the next, and so does a process that ends in the middle: nothing is emptied
  when it starts again.
* **Files read while they are written**: an upload while `cp` copies the former
  one, a result while it is fetched, `config.yaml` while a task is reinstalled.
* **A mutex in odd places**: the log's, in a signal handler and across `fork`.
* **Processes that wait for each other** through a pipe of limited size.

What makes each component correct: a submission is graded at most once, by one
grader, and in order; it never drops out of all pools; nothing is collected
before its scripts have ended; a pool that says TERMINATED has no threads left;
a result belongs to the id it is filed under; every grading ends in DONE;
groups are graded after what they depend on and answered with their worst test;
a verdict does not depend on the order in which processes run. `PROJECT.json`
lists the hazards one by one, with the properties aimed at each.

## 2. Modules

| Module | Models | Lines of thought |
|---|---|---|
| `SubmissionPool` | `SubmissionPool` | a pool is a record `[order, index]`; one operator per container operation |
| `GraderPool` | `GraderPool`, `Grader`, their threads | an action is one access to shared memory; `*_pc` variables are the program counters of main, worker, rest, killer |
| `JobPool` | abstract specification | what a pool promises: submit, discard, assign, finish, stop, abandon |
| `GraderPoolProperties` | | invariants, action and liveness properties, refinement mapping to `JobPool` |
| `GraderPoolProofs`, `GraderPoolRefinementProofs`, `GraderWorkspaceProofs`, `CaseRunnerProofs`, `SandboxGradingProofs`, `ServerProcessProofs`, `TaskInstallProofs` | | inductive invariants and theorems |
| `LeastNumber` | | every set of numbers has a least one: the form in which the proofs do induction |
| `ServerProcess` | `main`, SIGINT handler, `/info`, logger, `fork` | the whole process from its first line to its exit; a log call is lock, unlock |
| `GraderWorkspace` | `grade_submission`, overlay, folders, uploads and results, handler's clean-up, crash and restart | one action per file system call with an outcome of its own |
| `TaskInstall` | `task install` beside gradings of the task | a file is the package it comes from, or torn |
| `SandboxConfig` | `SubmissionConfig::update`, `Group::update`, `Constraint::update`, test ranges | pure operators: a YAML map is a function |
| `SandboxGrading` | `sandbox` from its arguments to its report | the files one after another; the recursion of `valid_DAG` is a stack of frames; then the loops of `grade` and `grade_group` |
| `EqualString`, `CaseRunner` | the string checker; judge, checker and program | streams are word lists with or without a final newline; pipes are counters |
| `MC*` | | values for the constants |

`GraderPool` leaves out what `ServerProcess` and `GraderWorkspace` have, and the
other way round: the three look at the same threads with different shared state.
`GraderPool` has the statuses that threads overwrite, `ServerProcess` the order of
the start, the pointers and the mutexes, `GraderWorkspace` the folders.

An operator `Fault_X` stands before the definition it damages and is used by no
specification: it is that definition with a plausible mistake, and each property
of each run is known to fail when one such operator replaces its original.

### How state and actions correspond to the code

*GraderPool.* `grader_status`, `grader_submission`, `waiting_pool`,
`grading_pool`, `graded_pool` and `pool_status` are the fields of the same names.
The loop of `start` is `TestPoolStatus`, `TestTerminated` (one grader of
`all_of` at a time), then `assign_submission_to_grader` as `ScanGrader` ..
`EndScan`. Each `grade()` is split where its `switch` reads the status and where
it writes (`Release`/`ReleaseWrite`, `HandOver`/`HandOverPointer`/`HandOverNew`),
because a killer can write in between; `add` is split between `push` and
`insert`, `get_first` between `pop` and the test of its loop,
`get_submission_status` between its looks into the three pools. `shown` is a
history variable: what the three pools together said of the id a client asks for,
from the request to the answer. `SignalOnMain`
chooses the program: TRUE is `grader-server`, where the handler stops the
scheduler and later exits; FALSE is the test program, where `start` runs on a
thread of its own and the thread that submits calls `stop`. A container torn by
two threads (undefined behaviour of `std::queue`, `std::map`, `std::vector`
without a lock) is out of scope: each container operation is atomic.

*ServerProcess.* `main_pc` walks through `main`, `start_server` and
`GraderPool::start`; `handler_pc` is the handler's frame on top of main's, so no
step of main is possible once the signal has come, and a mutex main holds stays
locked. `logging[f]` is the mutex of the log call the frame `f` is in, from `lock`
to `unlock`; `mutex_of` says which mutex a translation unit locks. A frame often
logs several times in a row, between two things that another thread can see; one
log call stands for these, with all units whose mutex it may be: of a grading,
those of `grade_script.cpp` and `file.cpp` before its scripts and after them. That is the
linker's choice: `g_log_mutex` is `static` in a header, but the function template
that uses it may be merged across units, so both extremes are initial states.
`Fork` takes the copy of the mutexes; `stuck` is a child whose copy is locked.
`status` is the one field of the code: main writes IDLE and NEW, the handler
TERMINATED, and the worker INIT, IDLE, BUSY and DONE over whatever stands there;
`overwritten` (history) are the workers that have replaced a TERMINATED. A request
for `/info` reads the graders one after another; the model lets it end after any
of them, which is all the properties tell apart.
`began` is what a request for `/info` has read as the pool's status. A vector read
while it grows (undefined behaviour) may be read as before, as after, or crash.

*GraderWorkspace.* A file is named by the submission it was uploaded with, a
result by the file it was computed from, so a stale result is visible as one
whose id is foreign; `Torn` is a file that is being written. `mounts` counts the
overlays stacked on `run/<id>`; `attached` says whether the top one still has its
upper directory, which the handler may have removed. `failed`, `uncleared`,
`dropped`, `cut` and `seen` are history variables. Which submission a grader gets is nondeterministic
here: `GraderPool` decides that. The three scripts of a task are one step: they
end, having written a result from the submission file they see, or a part of
one, or none. `file.cpp`'s calls are modelled by their effect. The `cp` of the
submission and that of the result may fail at once or in the middle, or not be
started by `system()`; `rm -rf`, in `cleanup_workspace` and in the handler, may
not be started or leave any part of what it was to remove. `Restart` is any end
of the process and its next start: memory is lost, folders and mounts stay.

*TaskInstall.* `disk` is the folder `tasks/<id>`. `cp -r` opens and writes one
file after another in any order and may skip one, which makes it return an error
at its end; `todo` and `writing` are what it has still to do. `exit_code` is what
`task` returned. A grading reads `config.yaml`, then its scripts read the other
files of that package one by one. `base` is a history variable: the package whose
undisturbed install the grading has seen from its beginning on.

*SandboxConfig, SandboxGrading.* Groups are numbered in the order `std::map`
iterates. A frame is one call of `valid_DAG`; `parent` is the set of groups on
the stack. A test's verdict is any status `grade_script` returns. Times and
memory are left out: `CaseResult::add` takes their maxima just as it does the
status's. A group list is a sequence of ranges; `Bad` is an item `stoi` refuses.
(A number too large for `stoi` throws `out_of_range`, which nobody catches: the
sandbox ends without a report. This is left out.)

*CaseRunner.* The judge, a checker and a program per test. A program writes
`size` units and then ends in one of several ways, or is killed at its limit of
CPU time; a checker that returns without waiting leaves its program behind. Both
`fork`s may fail; after the judge's, the uninitialised `wstatus` takes either
branch. A limit of 0, which the code takes for a task that sets none, is excluded by
an assumption: what the kernel makes of it is not modelled.

## 3. Runs

All bounds are sizes of constant sets; no state constraint cuts a behaviour off.
Deadlock is not checked: every system here really stops (no submission left, the
process exited, the grading done), and what must not stop is a liveness property.

| Run | Instance | Shows |
|---|---|---|
| `pool_test` | 2 graders, 2 submissions, test program, kill; fair | type, no double grading (`AtMostOneGrader`, `GradedOnce`), nothing replaced while it runs, no null used, joined when TERMINATED, implements `JobPool`; `stop` ends unless TERMINATED was overwritten |
| `pool_server` | 2 graders, 2 submissions, server, kill; fair | what is held is graded; a kill ends unless TERMINATED was overwritten |
| `pool_queries` | 2 graders, 3 submissions (2 of one id), queries, no kill | no accepted id is forgotten; what runs is answered with GRADING, until another object of its id has been collected; an answer was true at some moment of the query, but for WAITING and `NOT_EXISTS` when the scheduler moved the id between the looks; `GRADED` is final |
| `accepted_lost` | 1 grader, 1 submission; fair | **violation**: an accepted submission is not graded |
| `stop_hangs` | 1 grader, 1 submission, kill; fair | **violation**: `stop` does not return |
| `workspace` | 1 grader, 2 submissions of 2 ids (1 may be refused), 1 restart; fair | a foreign result only after an `umount` or `rm` that failed or a crash; overlays are leaked by failed `umount`s and crashes only; GRADED without a result only after an error or a `cp` that was not started; a torn result only when the id was uploaded twice or a `cp` or a script ended half-way; the handler removes folders under running scripts only if it looked at the grader between the scheduler's write of NEW and the worker's write of BUSY; every grading ends in DONE |
| `default_option` | 1 submission of an unknown option | **violation**: the default option is not used |
| `sandbox_grading` | every dependency relation of 1 to 3 groups with lists of up to 2, unknown names included; 3 acyclic groups with overlapping tests under 4 policies, and none; 2 and 3 files that override one another, their `run` with `time`, `time-ms` and `memory`; verdicts OK, FAILED and TIMEOUT; fair | the last file decides; the search ends, orders topologically, rejects only invalid; results of groups, skipping of tests and groups; the report shows every group and no hole |
| `test_case` | 1 test, 0-2 words of 2, 4 endings, CPU times around a limit of 1.5 s; 2 tests, pipe of 2, outputs 0-3; fair | every test gets exactly the verdict it deserves, and its time is right, in every order; what a test leaves to the next, and when it ends |
| `server_process` | 2 graders, merged and separate mutexes; fair | a signal or a request crashes the process during its start only; `/info` is complete once RUNNING; the signal ends the process unless it met main in a log call, a child is stuck or a worker has replaced its TERMINATED; a grading ends unless its child is stuck or the signal met main in a log call |
| `task_install` | 3 installs of 3 packages (versions 1, 2, broken), 2 gradings | 0 means installed (unless the script failed); an undisturbed task serves exactly its version with its own files |
| `install_reports` | 1 install | **violation**: a failing install script is not reported |

Why the bounds are enough to see the interesting cases: the races of the pool
are between one scheduler, one worker and one killer over one status field, and
two graders and two submissions add every race between graders; a second object
under one id is what separates ids from objects, and it takes a third submission
to have another id beside them, and a second grader to have one run after the
other has been collected. Queries are checked without a kill, which touches no
pool; the theorems hold with it. Two gradings on one grader are one that leaves
something and one that finds it, on top of a failed clean-up or a crash. Graders
share no folder but `submissions` and `results`; two uploads of one id, and two
gradings that write one `results/<id>` at once, are in the model and in its
theorems, but not in the instance, in which they would be more than TLC can do
beside every failure of the clean-up. One restart is a crash in every state and
a new process on what it left. The start of the server treats every grader alike; two
are a first and a last. Three installs are an older version, an aborted one and
the last. Three groups contain chains,
diamonds, self-loops and cycles of length two and three. A CPU time of
1.4, 1.9 or 2.6 s lies below, between and above a limit of 1.5 s and the 2 s it is
rounded up to. An output one unit
longer than the pipe blocks just as any longer one does.

### Findings

1. `accepted_lost`: `SubmissionPool::get_first` (`submission_pool.cpp:25`) loops
   *while* the submission it popped is in the index, so it discards exactly the
   live ones, returns nothing, and the scheduler's `value()` throws. The pool
   grades a submission only in the rare schedule where the pop comes between
   `push` and `insert`. The test of the pool waits for the opposite.
   The condition is modelled as it stands; everything `GraderPool` shows about
   graded submissions is about those schedules, and would remain to be checked
   again after a repair (with the condition negated, `Discard` of `JobPool`
   would serve stale entries only).
2. `stop_hangs`: `status` is written by three threads without comparison. A
   `TERMINATED` is overwritten by the `IDLE` of `grade(nullptr)` (or by NEW, BUSY
   or DONE), and `pthread_join` waits for ever. `KillEnds` shows that nothing
   else holds a kill up.
3. `default_option`: `get_judge_option` tests the wrong iterator. In addition
   `from_yaml` returns early unless `judge` is a map, so the branch that would
   make a plain script the default is never taken; a default exists only as a
   key named `default`.

4. `install_reports`: the child of `Script::execute` (`script.cpp:35`) drops the
   result of its commands and exits with 0, and the parent ignores `wstatus`: the
   branch of `install.cpp:23-26` for a failing install script is reached only
   when `fork` fails.

`SignalEndsProcess` and `GradingEnds` name two deadlocks of the logger's mutex in
their conclusions: a handler that logs on top of a log call of main
(`interrupted`), and a child forked while another thread logs (`stuck`).
`SignalEndsProcess` names a third obstacle, the one of finding 2 in the server: a
worker that has read NEW before the handler looked writes BUSY, and later DONE,
over TERMINATED, and the handler's join waits for it for ever. Nothing in the
repository says of the server that these cannot happen, so they are no findings,
but each can be seen by removing its disjunct. `RunningIsNotGraded` names what a
second submission of an id does: a client is told GRADED, and sent to a result
file that the second run still writes. `StoppedMeansJoined` says nothing of a
grader that a kill during `start` did not find in the vector, which `GraderPool`
leaves running beside a TERMINATED pool, nor of an overwritten TERMINATED, with
which `signal` never returns. `CrashOnlyInStartup` and
`QuietTaskServes` are of the same kind: the process does crash on a signal during
its start, and an install under a running grading does end the server or mix two
packages.

### Fairness

`Fairness` of `GraderPool` is weak fairness of each thread: the kernel runs a
thread that can run. Nobody has to submit, ask or kill. That includes the end of
a grading: it assumes that every script of a task ends, since `grade_submission`
waits without a limit. `GraderWorkspace` and `SandboxGrading` assume the same of
their workers and of their one thread, `CaseRunner` of each process; there a blocked write is *not*
enabled, and `TestEnds` says that it is the only thing that keeps a test for ever.
`ServerProcess` has weak fairness of main, of each worker and of the handler, and
of the end of a request's log call; nobody has to send a request. It adds strong
fairness of the `lock` of a worker's or the handler's log call. `std::mutex` is
not fair, but no thread logs in a loop of its own: every log call of another
thread takes a request or a submission, so a mutex that is free again and again
is got. `TaskInstall` has no fairness and no liveness property.
`KillEnds` in the test program uses that the finite set of submissions runs out:
a scheduler that always has another submission could keep the killer spinning.

## 4. Proofs

All theorems are checked by TLAPS and hold for every value of the constants; the
only assumptions are the named ones of the modules about them.

| Module | Theorem | States |
|---|---|---|
| `GraderPoolProofs` | `TypeCorrect` | `Spec => []TypeOK` |
| | `NoNullDereference` | `Spec => []NullNeverUsed` |
| | `StopJoinsAll` | `Spec => []StoppedMeansJoined` |
| | `OneGraderPerSubmission` | `Spec => []AtMostOneGrader` |
| | `CollectedOnce` | `Spec => []GradedOnce` |
| | `AcceptedIsKnown` | `Spec => []NeverForgotten` |
| | `RunningIsToldGrading` | `Spec => []RunningIsNotGraded` |
| | `AnswersWereTrue` | `Spec => AnswerWasTrue` |
| | `GradedStays` | `Spec => GradedIsFinal` |
| `GraderPoolRefinementProofs` | `CollectedIsGraded` | `Spec => SubmissionIsStable` |
| | `PoolImplementsJobPool` | `Spec => ImplementsJobPool` |
| | `KillWaitsForRunners` | `signal(KILL)` can go on, or waits for a grader that can, unless TERMINATED was overwritten |
| | `HeldIsNotSetBack` | until a kill, a held submission is in somebody's hand and moves only towards its collection |
| `GraderWorkspaceProofs` | `WorkspaceTypes` | `Spec => []TypeOK` |
| | `OverlaysAreFailures` | `Spec => []MountsAreFailures` |
| | `HandlerSparesScripts` | `Spec => RunningIsSpared` |
| | `ResultsAreOwn` | `Spec => []ForeignResultOnlyIfUnclean` |
| | `MissingResultIsFailure` | `Spec => []NoResultOnlyAfterFailure` |
| | `GradedResultsAreWhole` | `Spec => []GradedIsWhole` |
| | `NothingStopsAGrading` | a grading can always go on, and each step of it leads towards DONE |
| `CaseRunnerProofs` | `OutputIsChecked` | what the string checker's loop returns for any two texts |
| | `VerdictsAreRight` | `Spec => []VerdictIsRight` |
| | `ReportedTimesAreRight` | `Spec => []TimesAreRight` |
| | `CountedTestsRunAlone` | `Spec => []LeftBehindOnlyOnError` |
| | `DescriptorsAreReturned` | `Spec => []FdsReturned` |
| | `OnlyFullPipeBlocks` | a judge that waits, waits for a process that can go on, or behind a full pipe |
| | `WorkIsUsedUp` | what the processes have left to do is finite and shrinks with every step |
| `SandboxGradingProofs` | `LastFileIsRight` | `Spec => []LastFileDecides` |
| | `OrderIsRight` | `Spec => []OrderIsTopological` |
| | `DependenciesAreDecided` | a group's dependencies have their results when its turn comes |
| | `RejectedIsInvalid` | `Spec => []RejectsOnlyInvalid` |
| | `ResultIsWorst` | `Spec => []GroupIsWorstOfOwnTests` |
| | `SkippedBehindDependency` | `Spec => []SkippedIffDependencyFailed` |
| | `NothingIsRunAfterFailure` | `Spec => []NothingRunAfterFailure` |
| | `NothingIsUnreported` | `Spec => []ReportIsComplete` |
| | `EveryStepGoesDown` | every step goes down a ladder of four numbers |
| | `LadderEnds` | nobody goes down that ladder for ever |
| `ServerProcessProofs` | `CrashesInStartup` | `Spec => []CrashOnlyInStartup` |
| | `CompleteWhenRunning` | `Spec => []InfoIsComplete` |
| | `LocksComeFree` | a mutex has one holder, who is in a log call that can end, but for main under the handler |
| | `GradingIsHeldUpByLogOnly` | a grading can go on, or is behind such a log call or one of the two deadlocks |
| | `HandlerHasAWayOut` | after the signal somebody can go on, but for the three obstacles |
| | `OverwrittenIsForEver` | a worker that has replaced its TERMINATED never ends |
| | `OwnLogNeverSticks` | a child is stuck by another frame's log call only |
| | `SignalUsesUp` | after the signal what is left to do is finite and shrinks |
| `TaskInstallProofs` | `InstalledWhenZero` | `Spec => []ZeroMeansInstalled` |
| | `UndisturbedServes` | `Spec => []QuietTaskServes` |

*The pool.* Any number of graders, any submissions with any ids, both programs.
The argument is in layers, each inductive on top of the one before, with
one lemma per thread (main, worker, rest, killer) and one case per action:

1. `TypeInv`: `TypeOK`; the loop variables are in range wherever an element is
   indexed by them; the pools and the scheduler hold no null pointer.
2. `ControlInv`: the killer's join has passed exited workers only (`Joined`), and
   a grader that is DONE has its worker in its loop, with a submission
   (`DoneIsLooping`). Without the second, the scheduler's collection could meet
   a null pointer, and a new submission could replace one that is being graded.
3. `OwnerInv`: a submission not yet pushed is nowhere (`FreshIsNowhere`); every
   other one is at exactly one place among the queue, the scheduler's variable,
   the graders and the discarded ones (`OnePlace`); what has been graded is
   apart from what is still in the queue or being handed over (`GradedApart`).
   `AtMostOneGrader` alone is not inductive: it is the uniqueness of the queue's
   entries, and that a popped one is in no other place, that preserve it.
4. `ServeInv` (in `GraderPoolRefinementProofs`): a grader seen IDLE holds nothing,
   or what has been collected (`IdleIsFree`), and stays so while the scheduler
   serves it, because only a killer writes its status then (`ServedIsFree`).
   `SubmissionIsStable` follows from it.
5. What clients are told. `RegisterInv` follows the indexes, which are what
   `get_submission_status` reads: an object that a grader has been given is found
   under its id in `grading_pool`, until one of that id has been collected and the
   id is in `graded_pool` for good. `RunningIsNotGraded` is this with `OwnerInv`.
   `ShownInv` follows a query through the scheduler's moves: what the pools say now
   is in `shown`, an id that got into `graded_pool` meanwhile was GRADING meanwhile,
   and nothing enters `waiting_pool` while the only thread that adds is asking.
6. The refinement. The initial states map to `JobPool`'s; each action maps to one
   step of `JobPool`: the push is Submit, the end of `get_first` Discard or
   Assign, the collection Finish, a hand-over that meets a terminated grader
   Abandon, the kill Stop; or it changes none of the mapped state, which
   `MovesNoJob` collects for the many actions that only move a program counter.

*The workspace.* Any number of graders, submissions, ids and restarts.
`TypeOK` is not inductive: a result is copied under the id of a submission that
the grader has only because of where its worker is, and an overlay is unmounted
that only the place says is there. `TypeInv` adds that (`StatusOfPc`, `Holding`,
`MountsCount`). `KillerInv` adds what the handler has seen: it outlives the look
because nobody hands out work once the handler runs. `OwnInv` says, while every
umount and the `rm` after it have worked and the process has not been restarted, that file, result and
copy in a workspace are of the grader's own id, and that a workspace is empty
between gradings. `ResultInv` follows an outcome OK from the copy to DONE.
`WholeInv` speaks of one submission that is alone under its id (`Alone`):
the file uploaded under the id is whole once written, and so is everything that
is copied from it, unless its copy or a script ended half-way (`cut`); the scheduler and other graders cannot interfere, since what
they hold has another id.

*A test.* Any tests with any texts, times and endings, any limit and any pipe.
`RunnerInv` gives, for each test, where its checker and program are in terms of
the judge's place, and what the answer is made of (`ResultOf`: what the
checker has judged if it exited, SYSTEM_ERROR if not); `VerdictsAreRight` then rests
on the two pure results, `OutputIsChecked` and `ReportedTimesAreRight`.
`OutputIsChecked` is about a loop whose number of turns depends on the final
newlines: the proof takes the first turn at which the loop stops (`LeastElement`)
and compares the words up to there. `FdsInv` counts the descriptors by the
checkers behind the judge that were killed or not forked.

*The order of groups and the grading.* Any files, tests, policies and verdicts;
assumed are that the keys of files have values of their types, that groups are
the numbers 1 to n (their order is the order of `std::map`), that the null
`run_config` is no record, and that `grade_script` never answers SKIP. Four layers:

1. `MergeInv`: whatever files are merged, the groups of the configuration are the
   names that were mentioned, and `group_order` lists each once.
2. `SaysInv`: the configuration is what the files read so far say all together.
   `LastFileDecides` compares the merge, which goes forward and overwrites, with a
   reference that looks back for the last file with a key; the step from one to the
   other are lemmas on `LastSaid`, `Sections`, `Mentions` and `FirstMention` of a
   sequence of files and of that sequence with one more.
3. `SearchInv`: the stack is a path of dependencies (`Chain`); what a frame has
   been told TRUE of is in the order (`Settled`); the order is closed under
   dependencies, each behind what it needs (`Closed`); what is visited is the stack
   and the order. When `valid_DAG` meets a group of the stack, the groups from
   there on form a cycle, a set in which every group depends on one of the set:
   so FALSE is never returned for a valid topology.
4. `GradeInv`: of every group dealt with, `GradedIn` says how its result comes
   from its own tests (those no earlier graded group has), `SkipMeans` what
   `skip` knows, `DecidedIn` when it is SKIP, and `SkippedBehind` why a test is.
   `ReportIsComplete` needs the last: a test shown as skipped must have been skipped
   behind a failed one, and is no hole of the map.

*The process.* `CrashOnlyInStartup` says nothing of the pointers, so it is
strengthened by `PointerInv`: each is set once main is past its assignment.
`RunningInv` says the same of what `began` has read: RUNNING implies that main has
left the start, and main never goes back. Workers keep both because they write
nothing of main's or of a request's. `LogInv` is about the mutexes: a frame that
is in a log call is at a place that logs, two log calls under way have two
mutexes, and main, once the handler is on top of it, stays in the log call it was
in. So a frame that waits for a mutex waits for a log call that its holder can
end, which is `LocksComeFree`; `OwnLogNeverSticks` is the same fact seen by `fork`.
`WayInv` has the places of the threads, says that a grader in the vector has a
thread, and that a grader the handler has passed is TERMINATED for as long as its
worker has not replaced that; after the signal nobody writes NEW, so a worker that
has replaced it makes at most one more grading and then spins.

*The installation.* `CopyInv` gives, for each step of an install, the files that
are in place: all but `todo` and `writing` during the copy (unless it has
failed), all after it, all that the script does not make while it runs.
`GradingInv` gives what an undisturbed grading has read and still finds; it rests
on `CopyInv`, because what `LoadTask` sees of an installed task is its package.

*Liveness without fairness.* TLAPS cannot reason from fairness here, but what
makes these systems end is only in part the fairness of the kernel. The rest is
that nobody waits for what cannot come, and that the work is finite: two safety
properties, proved for every value of the constants. From them and the fairness of
`FairSpec` to `<>`, TLC goes alone.

* *Sandbox* (`Terminates`). `Left` is four numbers: the part of the program; the
  groups not visited, or not graded; the roots and frames left, or whether a group
  is open; the dependencies or the tests left. Every step goes down in
  lexicographic order: a call pushes a frame, but visits a group. `RootInv` bounds
  the roots. `LadderEnds` takes least elements, four times.
* *Test* (`TestEnds`). `PipeInv` says that what is in a pipe and what the program
  has still to write make its output. So a writer that waits has filled the pipe,
  and a checker that waits has a writer. `Todo` is the set of steps the processes
  have left, numbered; it is finite, and every step takes one out.
* *Process* (`SignalEndsProcess`, `GradingEnds`). Who waits at a mutex waits for a
  log call that ends; the handler waits for workers, which wait for nothing else;
  what both have left to do is a finite set that requests do not add to, and that
  no overwritten TERMINATED adds to either. The obstacles stand in these theorems
  as they do in the properties.
* *Pool* (`KillEnds`, `HeldIsGraded`). `ThreadInv` ties a grader's status to the
  place of its worker: one the killer waits for is running. A held submission has
  a rank, by status and place of its grader's worker, that only falls.
* *Workspace* (`EveryGradingIsDone`). `StepsLeft` counts at most twelve steps to
  DONE from every place, whatever fails on the way.

Only model-checked: the liveness properties themselves, for which the use of
fairness remains; in `HeldIsGraded` also that the scheduler's round reaches every
grader, and in `KillEnds` that the steps of a kill are used up, which in the test
program needs that the scheduler runs out of submissions. The four violated
properties have nothing to prove.

## 5. Plan

Done in this order: `SubmissionPool` and `GraderPool` (the core), `JobPool` and
the properties, the proofs of the core, `SandboxGrading`, `EqualString` and
`CaseRunner`, `GraderWorkspace`; then `SandboxConfig` with the report, limits and
times, uploads, results and restart of `GraderWorkspace`, `ServerProcess`,
`TaskInstall` and the proofs of these two; then the proofs of the queries and of
the refinement of the pool, of the workspace, of a test and of the sandbox; last
`LastFileDecides` and the part of liveness that needs no fairness. What is left:

1. The scheduler's round and the killer's loop as descents, for the rest of
   `HeldIsGraded` and `KillEnds`.
2. `GraderPool` and `GraderWorkspace` composed, with the scheduler deciding which
   submission a workspace gets. Today the workspace takes any, which is more than
   the scheduler does.

## 6. Not modelled

Vendored and third-party code (`test/catch.hpp`, pistache, jsoncpp, yaml-cpp);
parsing and formatting, and requests refused for their format; `setup` (a
straight line of `mkdir` and `symlink`); destructors (the pools live as long as
the process); the system call filter and the memory limits (`run_sandbox.cpp`:
they appear as the signals that end a program; `memory_mb << 20` overflows an
`int` from 2048 MB on); the arguments of `execvp` (`run.cpp:95-100`: the array
has no null at its end, and the program no name of its own, which the models
cannot see); torn containers and other outcomes of data races inside the standard
library, but for the vector of graders; a second SIGINT, which another thread may
take while the handler runs; a SIGINT that meets main inside `malloc` or in
`std::cerr` itself; the signal that a terminal sends to the running scripts too;
a server started with no grader, whose `start` returns at once; scripts that
outlive a process that has ended; two `task install` at once.
