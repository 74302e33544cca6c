----------------------------- MODULE MCGraderPool -----------------------------
(***************************************************************************)
(* Instances of GraderPool for TLC: the sets of submissions, and which of  *)
(* them share an id.                                                       *)
(***************************************************************************)
EXTENDS GraderPoolProperties

CONSTANTS s1, s2, s3, a, b

TwoSubmissions == {s1, s2}
ThreeSubmissions == {s1, s2, s3}

(* s1 and s2 are submitted under the same id, as by a client that retries. *)
RetriedId == [s \in {s1, s2, s3} |-> IF s = s3 THEN b ELSE a]
OneId == [s \in {s1} |-> a]
DistinctIds == [s \in {s1, s2} |-> IF s = s1 THEN a ELSE b]
===============================================================================
