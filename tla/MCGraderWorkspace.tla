------------------------- MODULE MCGraderWorkspace -------------------------
(***************************************************************************)
(* Instances of GraderWorkspace for TLC: one task with a default and a     *)
(* special option, and requests that it serves and refuses.                *)
(***************************************************************************)
EXTENDS GraderWorkspace, TLC

CONSTANTS s1, s2, a, b

OneTask == [sum |-> [version |-> 1, options |-> {"default", "fast"}]]

Served == [task |-> "sum", version |-> 1, option |-> "fast"]
UnknownTask == [Served EXCEPT !.task = "product"]
OtherVersion == [Served EXCEPT !.version = 2]
UnknownOption == [Served EXCEPT !.option = "slow"]

(* One submission is served; the other is served or refused, for any       *)
(* reason.                                                                 *)
Mixed ==
  [s \in Submission |->
     IF s = s1 THEN {Served} ELSE {Served, UnknownTask, OtherVersion, UnknownOption}]

AskSlow == [s \in Submission |-> {UnknownOption}]

TwoIds == (s1 :> a) @@ (s2 :> b)
OneId == [s \in Submission |-> a]
=============================================================================
