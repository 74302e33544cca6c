------------------------------- MODULE JobPool --------------------------------
(***************************************************************************)
(* What a GraderPool promises its callers, whatever its threads do: a      *)
(* submission is queued once, in order of arrival it is discarded or given *)
(* to one free grader, and that grader finishes it once.  A submission a   *)
(* grader holds is abandoned only when the pool is being stopped.          *)
(*                                                                         *)
(* Discard is in the promise because the program does discard submissions  *)
(* it has accepted (AcceptedIsGraded in GraderPool); what it never does is *)
(* grade one twice, on two graders, or out of order.                       *)
(***************************************************************************)
EXTENDS Sequences, Naturals

CONSTANTS Job, Slot, NoJob

VARIABLES
  submitted,   \* the jobs that ever came in
  queue,       \* those not looked at yet, oldest first
  slot,        \* the job each grader holds
  finished,    \* jobs in the order they were finished
  stopping     \* the pool was told to stop

vars == <<submitted, queue, slot, finished, stopping>>

Init ==
  /\ submitted = {}
  /\ queue = <<>>
  /\ slot = [g \in Slot |-> NoJob]
  /\ finished = <<>>
  /\ stopping = FALSE

Submit(s) ==
  /\ s \notin submitted
  /\ submitted' = submitted \cup {s}
  /\ queue' = Append(queue, s)
  /\ UNCHANGED <<slot, finished, stopping>>

Discard ==
  /\ queue # <<>>
  /\ queue' = Tail(queue)
  /\ UNCHANGED <<submitted, slot, finished, stopping>>

Assign(g) ==
  /\ queue # <<>>
  /\ slot[g] = NoJob
  /\ slot' = [slot EXCEPT ![g] = Head(queue)]
  /\ queue' = Tail(queue)
  /\ UNCHANGED <<submitted, finished, stopping>>

Finish(g) ==
  /\ slot[g] # NoJob
  /\ finished' = Append(finished, slot[g])
  /\ slot' = [slot EXCEPT ![g] = NoJob]
  /\ UNCHANGED <<submitted, queue, stopping>>

Stop ==
  /\ stopping' = TRUE
  /\ UNCHANGED <<submitted, queue, slot, finished>>

Abandon(g) ==
  /\ stopping
  /\ slot' = [slot EXCEPT ![g] = NoJob]
  /\ UNCHANGED <<submitted, queue, finished, stopping>>

Next ==
  \/ \E s \in Job : Submit(s)
  \/ Discard
  \/ \E g \in Slot : Assign(g) \/ Finish(g) \/ Abandon(g)
  \/ Stop

Spec == Init /\ [][Next]_vars
===============================================================================
