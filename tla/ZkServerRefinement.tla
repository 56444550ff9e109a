------------------------- MODULE ZkServerRefinement -------------------------
(* ZkServer implements ZkPromise: what callers and monitoring see of it.   *)
EXTENDS ZkServer

(* A call that has been taken in is pending until its reply is written or  *)
(* its connection ends, whatever its handler has done so far.              *)
StatusOf(c) ==
  CASE pc[c] \in InProcess -> "pending" [] pc[c] = "done" -> "answered"
    [] pc[c] = "lost" -> "failed" [] pc[c] = "new" -> "new"

AnswerOf(c) == IF pc[c] = "done" THEN reply[c] ELSE "none"

Promise ==
  INSTANCE ZkPromise WITH
    up <- main \in {"select", "shutdown"},
    status <- [c \in Calls |-> StatusOf(c)],
    asked <- request,
    answer <- [c \in Calls |-> AnswerOf(c)],
    verified <- counts["verified"],
    failures <- counts["failed"]

(* Every step of main, of the tasks on the workers and of the clients is a *)
(* step ZkPromise allows or one it cannot see.                             *)
ImplementsPromise == Promise!PSpec
=============================================================================
