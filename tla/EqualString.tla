----------------------------- MODULE EqualString ------------------------------
(***************************************************************************)
(* The comparison of a program's output with the solution file             *)
(* (src/sandbox/run/equal_string.cpp:78-95): two std::istreams are read    *)
(* word by word with >> until both have hit their end.  A stream is its    *)
(* words and whether whitespace follows the last one: without it the read  *)
(* of the last word already sets eof.                                      *)
(***************************************************************************)
EXTENDS Naturals, Sequences

CONSTANTS Word, NoWord       \* NoWord: the empty string of a read that failed

ASSUME NoWordAssumption == NoWord \notin Word

(* What the k-th >> gives, and eof() after k reads. *)
WordAt(stream, k) == IF k <= Len(stream.words) THEN stream.words[k] ELSE NoWord

Eof(stream, k) ==
  \/ k > Len(stream.words)
  \/ k = Len(stream.words) /\ k > 0 /\ ~stream.trailing

(* A fault: the loop ends when either stream does. *)
Fault_Compare(out, sol) ==
  LET loop[k \in Nat] ==
        IF Eof(out, k) \/ Eof(sol, k) THEN [result |-> "OK", reads |-> k]
        ELSE IF WordAt(out, k + 1) # WordAt(sol, k + 1)
          THEN [result |-> "FAILED", reads |-> k + 1]
        ELSE loop[k + 1]
  IN  loop[0]

(* The loop, after k reads of each stream: the result and the reads made.  *)
Compare(out, sol) ==
  LET loop[k \in Nat] ==
        IF Eof(out, k) /\ Eof(sol, k) THEN [result |-> "OK", reads |-> k]
        ELSE IF WordAt(out, k + 1) # WordAt(sol, k + 1)
          THEN [result |-> "FAILED", reads |-> k + 1]
        ELSE loop[k + 1]
  IN  loop[0]

(* The status of the process is kept unless it is OK; eof() is compared    *)
(* once more at the end, also of streams that were never read.             *)
CheckOutput(status, out, sol) ==
  LET compared == IF status = "OK" THEN Compare(out, sol) ELSE [result |-> status, reads |-> 0]
  IN  IF Eof(out, compared.reads) # Eof(sol, compared.reads) THEN "FAILED" ELSE compared.result
===============================================================================
