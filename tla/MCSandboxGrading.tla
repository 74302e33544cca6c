--------------------------- MODULE MCSandboxGrading ---------------------------
(***************************************************************************)
(* Instances of SandboxGrading for TLC: the topologies, test lists and     *)
(* policies a task may be configured with, in one file or in several.      *)
(***************************************************************************)
EXTENDS SandboxGrading, TLC

Name == 1 .. 3
Numbers(list) == [i \in DOMAIN list |-> [from |-> list[i], to |-> list[i]]]

File(n, dependencies, lists, bits) ==
  ("run" :> ("time" :> 1)) @@ ("num-tests" :> 4)
    @@ ("policy" :> CHOOSE name \in DOMAIN GRADE_POLICY_MAPPING : GRADE_POLICY_MAPPING[name] = bits)
    @@ ("groups" :> [i \in 1 .. n |->
          [name |-> n + 1 - i,
           value |-> [deps |-> dependencies[n + 1 - i], tests |-> Numbers(lists[n + 1 - i])]]])

OneFile(n, Deps(_), Tests, Policies) ==
  {<<File(n, d, t, p)>> :
     d \in {f \in [1 .. n -> UNION {Deps(g) : g \in 1 .. n}] : \A g \in 1 .. n : f[g] \in Deps(g)},
     t \in [1 .. n -> Tests], p \in Policies}

(* Up to two names, a group's own and an unknown one included.             *)
AnyDeps(g) ==
  LET Known == Name \cup {NoGroup} IN
    {<<>>} \cup {<<d>> : d \in Known}
      \cup ({<<d, e>> : d \in Known, e \in Known} \ {<<d, d>> : d \in Known})

(* Dependencies that make a DAG whose groups are not numbered in its order. *)
DagDeps(g) ==
  {<<>>} \cup {<<d>> : d \in {h \in Name : h > g}}
    \cup {<<d, e>> : d \in {h \in Name : h > g}, e \in {h \in Name : h > g}}

(* Lists that overlap within and between groups.                           *)
SomeTests == {<<>>, <<1, 2>>, <<2, 1, 2, 3>>, <<3>>}

(* Every topology of one to three groups; every policy on the valid ones   *)
(* of three groups, and without groups.                                    *)
Topologies == UNION {OneFile(n, AnyDeps, {<<>>}, {{}}) : n \in Name}
Policies == OneFile(3, DagDeps, SomeTests, GRADE_POLICY) \cup OneFile(0, AnyDeps, {}, GRADE_POLICY)

(* Three files that set the run, each with its own keys, or leave it: the  *)
(* time in seconds, in milliseconds, in both, and the memory.              *)
RunParts ==
  {<<>>,
   ("run" :> ("script" :> "a.out")) @@ ("num-tests" :> 2),
   "run" :> ("time-ms" :> 300),
   "run" :> (("time" :> 2) @@ ("time-ms" :> 300)),
   "run" :> (("time" :> 3) @@ ("memory" :> 64)),
   "num-tests" :> 1}

(* Two files that mention groups, in any order, with policies and ranges.  *)
Entry(g, value) == [name |-> g, value |-> value]
GroupParts ==
  [groups : {<<Entry(2, "tests" :> <<[from |-> 1, to |-> 3]>>), Entry(1, "deps" :> <<2>>)>>,
             <<Entry(1, "tests" :> <<[from |-> 2, to |-> 2], [from |-> 3, to |-> 1]>>)>>,
             <<Entry(1, ("tests" :> <<[from |-> 1, to |-> 1], Bad>>) @@ ("deps" :> <<>>))>>},
   policy : {"SKIP", "SKIP_TEST", "skip"}]

SeveralFiles ==
  {<<f, g, h>> : f \in RunParts, g \in RunParts, h \in RunParts}
    \cup {<<f, g>> : f \in GroupParts, g \in GroupParts}

AllArguments == Topologies \cup Policies \cup SeveralFiles
===============================================================================
