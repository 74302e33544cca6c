---------------------------- MODULE SubmissionPool ----------------------------
(***************************************************************************)
(* The container the grader pool keeps submissions in                      *)
(* (include/grader/submission_pool.hpp, src/grader/submission_pool.cpp):   *)
(* a queue of pointers and a map from submission ids to pointers.  A pool  *)
(* is a record; get_first, whose loop another thread can interleave with,  *)
(* is a family of steps of GraderPool built from Size, Front, Pop and Has. *)
(*                                                                         *)
(* A member of Submission is one Submission object on the heap.  Two       *)
(* objects may carry the same id, since nothing in the program rejects a   *)
(* client that submits an id twice.                                        *)
(***************************************************************************)
EXTENDS Sequences

CONSTANTS
  Submission,     \* Submission objects
  SubmissionID,   \* the ids they carry
  IdOf,           \* get_submission_id() of each object
  NoSubmission    \* nullptr

ASSUME IdOfAssumption == IdOf \in [Submission -> SubmissionID]
ASSUME NoSubmissionAssumption == NoSubmission \notin Submission

Pointer == Submission \cup {NoSubmission}

Pool == [order : Seq(Submission), index : [SubmissionID -> Pointer]]

EmptyPool ==
  [order |-> <<>>, index |-> [id \in SubmissionID |-> NoSubmission]]

(* The map has an entry for the id: index.find(id) != index.end(). *)
Has(pool, id) == pool.index[id] # NoSubmission

(* The two statements of add.  insert leaves an existing entry alone. *)
Push(pool, s) == [pool EXCEPT !.order = Append(@, s)]

Insert(pool, s) ==
  IF Has(pool, IdOf[s]) THEN pool ELSE [pool EXCEPT !.index[IdOf[s]] = s]

Add(pool, s) == Insert(Push(pool, s), s)

(* remove erases the map's entry and leaves the queue alone. *)
Remove(pool, id) == [pool EXCEPT !.index[id] = NoSubmission]

(* size() is the length of the queue, not of the map. *)
Size(pool) == Len(pool.order)

(* A fault: pop that takes the newest entry (a stack in place of a queue). *)
Fault_FrontIsBack(pool) == pool.order[Len(pool.order)]

Front(pool) == Head(pool.order)

(* A fault: the entry is read and left in the queue. *)
Fault_PopKeeps(pool) == pool

Pop(pool) == [pool EXCEPT !.order = Tail(@)]
===============================================================================
