--------------------------- MODULE MCServerProcess ---------------------------
(***************************************************************************)
(* Instances of ServerProcess for TLC: the linker has merged the copies of *)
(* the log function, or every unit has kept its own.                       *)
(***************************************************************************)
EXTENDS ServerProcess

Merged == [unit \in Unit |-> "server"]
OwnMutex == [unit \in Unit |-> unit]

TwoBuilds == {Merged, OwnMutex}
===============================================================================
