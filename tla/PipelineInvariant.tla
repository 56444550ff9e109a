------------------------- MODULE PipelineInvariant -------------------------
(***************************************************************************)
(* The inductive invariant behind the safety properties of Pipeline, kept  *)
(* apart from the proofs so that TLC can check it first.                   *)
(***************************************************************************)
EXTENDS Pipeline

Undecided == {"new", "ner", "zk", "llm"}
Stored == {"pubTx", "pubFlagged", "pubSar", "countOk", "countFlagged",
           "countSar", "reply"}

(* response.Flagged has its final value.                                   *)
Settled(r) == verdict[r] = "clean" \/ (verdict[r] = "suspicious" /\ resp[r].flagged)

(* Which verdict and response a handler can have at each stage.            *)
StageInv(r) ==
  /\ pc[r] \in {"new", "ner"} => verdict[r] = "unknown"
  /\ pc[r] \in {"zk", "llm"} => verdict[r] = "suspicious" /\ ~resp[r].flagged
  /\ pc[r] \in Working \ Undecided => Settled(r)
  /\ verdict[r] # "suspicious" => ~(resp[r].flagged \/ resp[r].sar \/ resp[r].zk)
  /\ resp[r].sar => resp[r].flagged

(* Nothing of a request is outside its handler before it is settled, and   *)
(* its response has stopped changing by then.                              *)
EscapeInv(r) ==
  Visible(r) \/ r \in storeFailed => Settled(r) /\ pc[r] \notin Undecided \cup {"store"}

(* What the HTTP status says of the stage.                                 *)
StatusInv(r) ==
  /\ pc[r] = "done" <=> status[r] # 0
  /\ status[r] \in {400, 500} => verdict[r] = "unknown"

(* The handler goes past the store only with its result, and speaks only   *)
(* past the store.                                                         *)
SpokenInv(r) ==
  pc[r] \in Stored \/ Announced(r) \/ status[r] = 200
    => r \in storeFailed \/ r \in applied

(* An executed statement left a row that never goes away again, and a row  *)
(* belongs to a request whose statement was executed.                      *)
RecordInv ==
  /\ \A r \in applied : rows[TxOf[r]].by # None
  /\ \A id \in TxIds :
       /\ rows[id].by = None => ~rows[id].flagged /\ ~rows[id].sar
       /\ rows[id].by # None => rows[id].by \in applied

(* How far a handler is through its increments.                            *)
CountInv(r) ==
  /\ r \in okCount => pc[r] \in {"countFlagged", "countSar", "reply", "done"}
  /\ pc[r] \in {"countFlagged", "countSar", "reply"} => r \in okCount
  /\ pc[r] \in {"countSar", "reply"} /\ resp[r].flagged => r \in flagCount

(* The inductive invariant: a handler's response is settled before anything*)
(* of it escapes, and it speaks only with the store's result in hand       *)
(* (ProcessTransaction).                                                   *)
IInv ==
  /\ TypeOK
  /\ \A r \in Requests :
       StageInv(r) /\ EscapeInv(r) /\ StatusInv(r) /\ SpokenInv(r) /\ CountInv(r)
  /\ RecordInv
  /\ RowIsOneOutcome
  /\ sarCount \subseteq flagCount /\ flagCount \subseteq okCount
  /\ stmts \cap applied = {}
=============================================================================
