----------------------------- MODULE MCCaseRunner -----------------------------
(***************************************************************************)
(* Instances of CaseRunner for TLC: one test with every output, solution   *)
(* and end of the program, and two tests that write less and more than a   *)
(* pipe holds.                                                             *)
(***************************************************************************)
EXTENDS CaseRunner

CONSTANTS MaxWords, MaxSize

Streams == [words : UNION {[1 .. n -> Word] : n \in 0 .. MaxWords}, trailing : BOOLEAN]
Blank == [words |-> <<>>, trailing |-> FALSE]

Quick(outs, sizes, endings) ==
  [out : outs, size : sizes, ending : endings, user : {40}, sys : {20}]

(* Every way to end, and CPU times below, above and between the configured *)
(* limit and the second it is rounded up to.                               *)
OneRun ==
  Quick(Streams, {0, 1}, {"exit 0", "exit 1", "SIGSEGV", "SIGSYS"})
    \cup [out : Streams, size : {1}, ending : {"exit 0"}, user : {900, 1400, 2100}, sys : {50, 500}]

OneTest == {<<t>> : t \in [run : OneRun, solution : Streams \cup {Missing}]}

(* Two tests: the words do not matter, the sizes and the ends do.          *)
BlankRun ==
  Quick({Blank}, 0 .. MaxSize, {"exit 0"})
    \cup [out : {Blank}, size : 0 .. MaxSize, ending : {"exit 0"}, user : {5000}, sys : {20}]
BlankTest == [run : BlankRun, solution : {Blank, Missing}]
TwoTests == {<<t, u>> : t \in BlankTest, u \in BlankTest}

AllCases == OneTest \cup TwoTests
===============================================================================
