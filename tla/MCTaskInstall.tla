----------------------------- MODULE MCTaskInstall -----------------------------
(***************************************************************************)
(* Instances of TaskInstall for TLC: a task in two versions, of which the  *)
(* second has lost a file and got another, and one of whose packages has a *)
(* config.yaml that cannot be parsed.                                      *)
(***************************************************************************)
EXTENDS TaskInstall, TLC

First == [version |-> 1, files |-> {"config", "main"}, generated |-> {"tests"}, wellformed |-> TRUE]
Second == [version |-> 2, files |-> {"config", "grade"}, generated |-> {"tests"}, wellformed |-> TRUE]
NoScript == [Second EXCEPT !.generated = {}, !.wellformed = FALSE]

ThreePackages == ("first" :> First) @@ ("second" :> Second) @@ ("broken" :> NoScript)

TwoGradings == ("g1" :> 1) @@ ("g2" :> 2)
===============================================================================
