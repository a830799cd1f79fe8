---------------------------- MODULE MCMergeQueue ----------------------------
(***************************************************************************)
(* Instances of MergeQueue for TLC.  The server's Manager has a ticker and *)
(* handlers that call CheckQueue, the consumer's Manager its own callers.  *)
(***************************************************************************)
EXTENDS MergeQueue

CONSTANTS srv, con, tick, http

\* Both goroutines call the server's Manager.
OneManager == [c \in Callers |-> srv]

\* The ticker calls the server's Manager, the other goroutine the consumer's.
TwoManagers == [c \in Callers |-> IF c = tick THEN srv ELSE con]

\* Everything users and platform may do: "readd" covers "add", "remove" "withdraw".
EveryOp == OpNames \ {"withdraw", "add"}
=============================================================================
