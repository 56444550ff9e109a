----------------------------- MODULE MCZkServer -----------------------------
(* An instance of ZkServer for TLC: two calls of any of the kinds below,   *)
(* and one GET request, on two workers.                                    *)
EXTENDS ZkServerRefinement

CONSTANTS c1, c2, p1

Kinds ==
  {[path |-> "verify", body |-> "false"], [path |-> "generate", body |-> "malformed"],
   [path |-> "other", body |-> "true"]}
=============================================================================
