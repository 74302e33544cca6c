---------------------------- MODULE SandboxGrading ----------------------------
(***************************************************************************)
(* The sandbox program (src/sandbox/sandbox.cpp): merges its configuration *)
(* files, orders the groups of a task by their dependencies with a depth-  *)
(* first search, grades group after group under a policy                   *)
(* (SubmissionConfig::grade, src/sandbox/submission_config.cpp) and prints *)
(* a TestResult.                                                           *)
(*                                                                         *)
(* Groups are numbered in the order std::map iterates over their names;    *)
(* NoGroup is the empty name grade_group gets when a task has no groups,   *)
(* and, as a dependency, a name no group has.  A CaseResult is its status: *)
(* the maxima of time and memory are taken like that of the status.        *)
(***************************************************************************)
EXTENDS SandboxConfig

CONSTANTS
  Arguments,      \* the sequences of files the program may be called with
  Verdicts        \* what grade_script may return for a test

NoGroup == 0

(* GRADE_STATUS, from least to most. *)
Precedent == <<"SKIP", "OK", "FAILED", "TIMEOUT", "MEMORY_ERROR", "RUNTIME_ERROR", "SYSTEM_ERROR">>
GRADE_STATUS == Range(Precedent)
Rank(status) == CHOOSE i \in DOMAIN Precedent : Precedent[i] = status

ASSUME ArgumentsAssumption ==
  \A files \in Arguments :
    /\ files \in Seq(Range(files)) /\ \A yaml \in Range(files) : IsFile(yaml)
    /\ LET names == UNION {Names(files[i]) : i \in DOMAIN files}
       IN  \E n \in 0 .. Cardinality(names) : names = 1 .. n
ASSUME VerdictsAssumption == Verdicts \subseteq GRADE_STATUS \ {"SKIP"}

VARIABLES
  files, read, config,     \* the files, how many are merged, into what
  phase,                   \* "update", "topo", "grading", "group", "done", "exited"
  root, valid, stack, visited,   \* the search: all_of's position and verdict,
                                 \* the calls of valid_DAG, the visited groups
  order,
  turn, at, skip, worst,   \* the loops of grade and of grade_group
  test_result, group_result

merging == <<files, read, config>>
search == <<root, valid, stack, visited, order>>
grading == <<turn, at, skip, worst, test_result, group_result>>
vars == <<merging, phase, search, grading>>

Group == DOMAIN config.groups
deps == [g \in Group |-> config.groups[g].deps]
tests == [g \in Group |-> config.groups[g].tests]
policy == config.policy

Init ==
  /\ files \in Arguments /\ read = 0 /\ config = NewConfig
  /\ phase = "update"
  /\ root = 1 /\ valid = TRUE /\ stack = <<>> /\ visited = {} /\ order = <<>>
  /\ turn = 1 /\ at = 1 /\ skip = FALSE /\ worst = "OK"
  /\ test_result = <<>> /\ group_result = <<>>

-------------------------------------------------------------------------------
(* main: the files are merged in the order of the arguments.               *)

UpdateFile ==
  /\ phase = "update" /\ read < Len(files)
  /\ config' = Update(config, files[read + 1])
  /\ read' = read + 1
  /\ UNCHANGED <<files, phase, search, grading>>

(* Without groups every test is graded, under the empty name.              *)
StartGrading ==
  /\ phase = "update" /\ read = Len(files)
  /\ phase' = IF Group = {} THEN "grading" ELSE "topo"
  /\ order' = IF Group = {} THEN <<NoGroup>> ELSE <<>>
  /\ UNCHANGED <<merging, root, valid, stack, visited, grading>>

-------------------------------------------------------------------------------
(* find_topo_order.  A frame is one call of valid_DAG: the group, the next *)
(* dependency all_of looks at, and what all_of has found so far.           *)

Top == stack[Len(stack)]

(* A fault: the groups on the way down are not taken off on the way up. *)
Fault_parent == visited

parent == {stack[i].group : i \in DOMAIN stack}

(* A fault: all_of calls the same dependency again. *)
Fault_AnsweredAgain(frames, result) ==
  IF frames = <<>> THEN frames
  ELSE [frames EXCEPT ![Len(frames)].result = result]

(* The caller's all_of goes on, or stops at the first false.               *)
Answered(frames, result) ==
  IF frames = <<>> THEN frames
  ELSE [frames EXCEPT ![Len(frames)].next = @ + 1, ![Len(frames)].result = result]

(* valid_DAG(g), called from the frame on top or, for a root, from none.   *)
Call(g) ==
  IF g \notin Group \/ g \in parent THEN
    /\ stack' = Answered(stack, FALSE)
    /\ valid' = IF stack = <<>> THEN FALSE ELSE valid
    /\ UNCHANGED visited
  ELSE IF g \in visited THEN
    /\ stack' = Answered(stack, TRUE)
    /\ UNCHANGED <<valid, visited>>
  ELSE
    /\ stack' = Append(stack, [group |-> g, next |-> 1, result |-> TRUE])
    /\ visited' = visited \cup {g}
    /\ UNCHANGED valid

VisitRoot ==
  /\ phase = "topo" /\ stack = <<>> /\ valid /\ root <= Cardinality(Group)
  /\ Call(root)
  /\ root' = root + 1
  /\ UNCHANGED <<merging, phase, order, grading>>

VisitDependency ==
  /\ phase = "topo" /\ stack # <<>>
  /\ Top.result /\ Top.next <= Len(deps[Top.group])
  /\ Call(deps[Top.group][Top.next])
  /\ UNCHANGED <<merging, phase, root, order, grading>>

(* A fault: a group is put into the order before its dependencies. *)
Fault_LeaveFirst ==
  /\ phase = "topo" /\ stack # <<>>
  /\ ~Top.result \/ Top.next > Len(deps[Top.group])
  /\ order' = <<Top.group>> \o order
  /\ stack' = Answered(SubSeq(stack, 1, Len(stack) - 1), Top.result)
  /\ valid' = IF Len(stack) = 1 THEN Top.result ELSE valid
  /\ UNCHANGED <<merging, phase, root, visited, grading>>

LeaveGroup ==
  /\ phase = "topo" /\ stack # <<>>
  /\ ~Top.result \/ Top.next > Len(deps[Top.group])
  /\ order' = Append(order, Top.group)
  /\ stack' = Answered(SubSeq(stack, 1, Len(stack) - 1), Top.result)
  /\ valid' = IF Len(stack) = 1 THEN Top.result ELSE valid
  /\ UNCHANGED <<merging, phase, root, visited, grading>>

(* An invalid topology makes the process exit(1) before any test is run.   *)
EndSearch ==
  /\ phase = "topo" /\ stack = <<>>
  /\ ~valid \/ root > Cardinality(Group)
  /\ phase' = IF valid THEN "grading" ELSE "exited"
  /\ UNCHANGED <<merging, search, grading>>

-------------------------------------------------------------------------------
(* grade: the loop over the ordered groups.                                *)

TestsIn(g) == IF g = NoGroup THEN [i \in 1 .. config.number_cases |-> i] ELSE tests[g]
DepsIn(g) == IF g = NoGroup THEN {} ELSE Range(deps[g])

(* set_test_result and set_group_result, in a std::map.                    *)
Put(results, id, result) ==
  [x \in DOMAIN results \cup {id} |-> IF x = id THEN result ELSE results[x]]

(* A fault: only the first dependency is looked at. *)
Fault_DependencyFailed(g) ==
  g # NoGroup /\ deps[g] # <<>> /\ group_result[deps[g][1]] # "OK"

DependencyFailed(g) == \E d \in DepsIn(g) : group_result[d] # "OK"

StartGroup ==
  /\ phase = "grading" /\ turn <= Len(order)
  /\ LET g == order[turn] IN
       IF "SKIP_GROUP" \in policy /\ DependencyFailed(g)
         THEN /\ group_result' = Put(group_result, g, "SKIP")
              /\ turn' = turn + 1
              /\ UNCHANGED <<phase, at, skip, worst>>
         ELSE /\ phase' = "group"
              /\ at' = 1 /\ skip' = FALSE /\ worst' = "OK"
              /\ UNCHANGED <<turn, group_result>>
  /\ UNCHANGED <<merging, search, test_result>>

(* grade_group.  A test that an earlier group has graded is passed over:   *)
(* it counts neither for this group's result nor for skip.                 *)
CurrentTest == TestsIn(order[turn])[at]

PassOver ==
  /\ phase = "group" /\ at <= Len(TestsIn(order[turn]))
  /\ CurrentTest \in DOMAIN test_result
  /\ at' = at + 1
  /\ UNCHANGED <<merging, phase, search, turn, skip, worst, test_result, group_result>>

(* The checker of a test without a run_config dies.                        *)
Outcomes == IF skip THEN {"SKIP"} ELSE IF config.run_config = NoRun THEN {"SYSTEM_ERROR"} ELSE Verdicts

Worse(s, t) == IF Rank(s) < Rank(t) THEN t ELSE s

(* A fault: the last test decides. *)
Fault_GradeTestLast ==
  /\ phase = "group" /\ at <= Len(TestsIn(order[turn]))
  /\ CurrentTest \notin DOMAIN test_result
  /\ \E verdict \in Outcomes :
       /\ test_result' = Put(test_result, CurrentTest, verdict)
       /\ skip' = (skip \/ ("SKIP_TEST" \in policy /\ verdict # "OK"))
       /\ worst' = verdict
  /\ at' = at + 1
  /\ UNCHANGED <<merging, phase, search, turn, group_result>>

(* A fault: only the next test is skipped. *)
Fault_GradeTestSkipsOne ==
  /\ phase = "group" /\ at <= Len(TestsIn(order[turn]))
  /\ CurrentTest \notin DOMAIN test_result
  /\ \E verdict \in Outcomes :
       /\ test_result' = Put(test_result, CurrentTest, verdict)
       /\ skip' = ("SKIP_TEST" \in policy /\ verdict \notin {"OK", "SKIP"})
       /\ worst' = Worse(worst, verdict)
  /\ at' = at + 1
  /\ UNCHANGED <<merging, phase, search, turn, group_result>>

GradeTest ==
  /\ phase = "group" /\ at <= Len(TestsIn(order[turn]))
  /\ CurrentTest \notin DOMAIN test_result
  /\ \E verdict \in Outcomes :
       /\ test_result' = Put(test_result, CurrentTest, verdict)
       /\ skip' = (skip \/ ("SKIP_TEST" \in policy /\ verdict # "OK"))
       /\ worst' = Worse(worst, verdict)
  /\ at' = at + 1
  /\ UNCHANGED <<merging, phase, search, turn, group_result>>

EndGroup ==
  /\ phase = "group" /\ at > Len(TestsIn(order[turn]))
  /\ group_result' = Put(group_result, order[turn], worst)
  /\ turn' = turn + 1
  /\ phase' = "grading"
  /\ UNCHANGED <<merging, search, at, skip, worst, test_result>>

Finish ==
  /\ phase = "grading" /\ turn > Len(order)
  /\ phase' = "done"
  /\ UNCHANGED <<merging, search, grading>>

(* The lines printed for groups; what is not in a map is shown as SKIP.    *)
Lines(groups) ==
  LET value_or(f, x) == IF x \in DOMAIN f THEN f[x] ELSE "SKIP"
      line(g) == [group |-> g, result |-> value_or(group_result, g),
                  tests |-> IF value_or(group_result, g) = "SKIP" THEN <<>> ELSE
                    [i \in DOMAIN tests[g] |-> <<tests[g][i], value_or(test_result, tests[g][i])>>]]
  IN  [i \in DOMAIN groups |-> line(groups[i])]

(* A fault: the groups are printed in the order they were graded in. *)
Fault_Report == Lines(order)

(* By group_order, so nothing is printed when there are no groups.         *)
Report == Lines(config.group_order)

Next ==
  \/ UpdateFile \/ StartGrading
  \/ VisitRoot \/ VisitDependency \/ LeaveGroup \/ EndSearch
  \/ StartGroup \/ PassOver \/ GradeTest \/ EndGroup \/ Finish

Spec == Init /\ [][Next]_vars

(* One thread runs grade; the scripts end, or are killed by their limits.  *)
FairSpec == Spec /\ WF_vars(Next)

-------------------------------------------------------------------------------
(* The files together mean what each key says on its own: the last file    *)
(* that has it decides, in one run_config and for every group one list of  *)
(* tests and one of dependencies; a limit is the last of time and time-ms; *)
(* the groups are in the order of their first mention                      *)
(* (submission_config.cpp:50-83, group.cpp:54-59, run.cpp:44-56).          *)
LastFileDecides ==
  phase # "update" =>
    LET runs == Sections(files, "run")
        limits == [i \in DOMAIN runs |-> Limit(runs[i])]
        mentions == Mentions(files)
        Said(g, key) == LastSaid(SaidOf(g, mentions), key, <<>>)
        groups == config.group_order
    IN  /\ config.number_cases = LastSaid(files, "num-tests", 0)
        /\ policy = PolicyOf(LastSaid(files, "policy", "GRADE_ALL"))
        /\ config.run_config =
             IF \A i \in DOMAIN files : "run" \notin DOMAIN files[i] THEN NoRun
             ELSE [script |-> LastSaid(runs, "script", NoScript),
                   time_ms |-> LastSaid(limits, "ms", 0),
                   memory_mb |-> LastSaid(runs, "memory", 0)]
        /\ \A i, j \in DOMAIN groups :
             i < j => FirstMention(groups[i], mentions) < FirstMention(groups[j], mentions)
        /\ \A g \in Group :
             deps[g] = Said(g, "deps") /\ Range(tests[g]) = TestsOf(Said(g, "tests"))

(* A topology is valid when every dependency is a group and every set of   *)
(* groups has a member that depends on no member of it.                    *)
ValidTopology ==
  /\ \A g \in Group : Range(deps[g]) \subseteq Group
  /\ \A S \in (SUBSET Group) \ {{}} : \E g \in S : Range(deps[g]) \cap S = {}

(* An accepted order has every group once, after all its dependencies: so  *)
(* get_group_result(dep).value() never throws (submission_config.cpp:14-44,*)
(* 123-129).                                                               *)
OrderIsTopological ==
  (phase \in {"grading", "group", "done"} /\ Group # {}) =>
    /\ IsInjective(order) /\ Range(order) = Group
    /\ \A i \in DOMAIN order : \A d \in Range(deps[order[i]]) :
         \E j \in DOMAIN order : j < i /\ order[j] = d

(* Only a cycle or an unknown dependency makes the sandbox give up: a      *)
(* group reached on two paths does not (submission_config.cpp:21-24, 117). *)
RejectsOnlyInvalid == phase = "exited" => ~ValidTopology

(* The search ends on every graph, cyclic ones too, and grading after it   *)
(* (submission_config.cpp:19-43, 85-137).                                  *)
Terminates == <>(phase \in {"done", "exited"})

(* The tests that count for the i-th group: no earlier group that was      *)
(* graded lists them.                                                      *)
OwnTests(i) ==
  {t \in Range(TestsIn(order[i])) :
     \A j \in 1 .. i - 1 :
       t \in Range(TestsIn(order[j])) => group_result[order[j]] = "SKIP"}

(* A graded group's result is the worst result of its own tests, OK if it  *)
(* has none; and each of them has a result                                 *)
(* (submission_config.cpp:85-101, run.cpp:37-41).                          *)
GroupIsWorstOfOwnTests ==
  phase = "done" => \A i \in DOMAIN order :
    LET result == group_result[order[i]] IN
      result # "SKIP" =>
        /\ \A t \in OwnTests(i) : Rank(test_result[t]) <= Rank(result)
        /\ result = "OK" \/ \E t \in OwnTests(i) : test_result[t] = result

(* Under SKIP_GROUP a group is skipped exactly when a group it depends on  *)
(* failed or was itself skipped (submission_config.cpp:125-133).           *)
SkippedIffDependencyFailed ==
  (phase = "done" /\ "SKIP_GROUP" \in policy) => \A g \in Group :
    group_result[g] = "SKIP" <=> \E d \in Range(deps[g]) : group_result[d] # "OK"

(* Under SKIP_TEST nothing of a group is run after its first own test that *)
(* is not OK (submission_config.cpp:94-95).                                *)
NothingRunAfterFailure ==
  (phase = "done" /\ "SKIP_TEST" \in policy) => \A i \in DOMAIN order :
    LET list == TestsIn(order[i]) IN
      \A m, n \in DOMAIN list :
        (/\ m < n /\ {list[m], list[n]} \subseteq OwnTests(i)
         /\ group_result[order[i]] # "SKIP"
         /\ \A k \in 1 .. n - 1 : list[k] # list[n]
         /\ test_result[list[m]] # "OK") => test_result[list[n]] = "SKIP"

(* The report has every group, in the order of the configuration and not   *)
(* of the grading, and SKIP in it is a decision, never a hole: a test is   *)
(* shown as skipped only behind a failed one of a group that lists both    *)
(* (test_result.cpp:7-19, submission_config.cpp:94-97, 131).               *)
ReportIsComplete ==
  (phase = "done" /\ Group # {}) =>
    /\ [i \in DOMAIN Report |-> Report[i].group] = config.group_order
    /\ \A i \in DOMAIN Report : LET shown == Report[i].tests IN
         /\ Report[i].result = "SKIP" => "SKIP_GROUP" \in policy
         /\ \A n \in DOMAIN shown : shown[n][2] = "SKIP" =>
              /\ "SKIP_TEST" \in policy
              /\ \E g \in Group : \E m, k \in DOMAIN tests[g] :
                   /\ m < k /\ tests[g][k] = shown[n][1]
                   /\ test_result[tests[g][m]] \notin {"OK", "SKIP"}
===============================================================================
