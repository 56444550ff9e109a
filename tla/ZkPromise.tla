----------------------------- MODULE ZkPromise -----------------------------
(***************************************************************************)
(* What the Rust ZK service promises its callers and its monitoring,       *)
(* without listeners, tasks and workers: while the service is up it takes  *)
(* calls; a call is answered once, with the reply its request deserves, or *)
(* its caller learns that the connection has ended; a verdict on a proof is*)
(* on record, a rejection among the failures, before anyone is told.       *)
(***************************************************************************)
CONSTANTS Calls, Requests, NoRequest, ReplyTo(_)

VARIABLES
  up,        \* the service is taking calls or finishing them
  status,    \* status[c]: "new", "pending", "answered" or "failed"
  asked,     \* asked[c]: the request of call c
  answer,    \* answer[c]: what its caller was told
  verified,  \* verifications on record in the running service
  failures   \* those of them that failed

pvars == <<up, status, asked, answer, verified, failures>>

Verdict == {"valid", "invalid"}
Verification(c) == asked[c].path = "verify" /\ ReplyTo(asked[c]) \in Verdict
Rejected(c) == Verification(c) /\ ReplyTo(asked[c]) = "invalid"

PInit ==
  /\ up = FALSE
  /\ status = [c \in Calls |-> "new"]
  /\ asked = [c \in Calls |-> NoRequest]
  /\ answer = [c \in Calls |-> "none"]
  /\ verified = {} /\ failures = {}

ComeUp ==
  /\ ~up /\ up' = TRUE
  /\ UNCHANGED <<status, asked, answer, verified, failures>>

(* Nothing survives: neither the pending calls nor the record.             *)
GoDown ==
  /\ up /\ up' = FALSE
  /\ status' = [c \in Calls |-> IF status[c] = "pending" THEN "failed" ELSE status[c]]
  /\ verified' = {} /\ failures' = {}
  /\ UNCHANGED <<asked, answer>>

Take(c) ==
  /\ up /\ status[c] = "new"
  /\ status' = [status EXCEPT ![c] = "pending"]
  /\ \E q \in Requests : asked' = [asked EXCEPT ![c] = q]
  /\ UNCHANGED <<up, answer, verified, failures>>

Record(c) ==
  /\ up /\ status[c] = "pending" /\ Verification(c)
  /\ verified' = verified \cup {c}
  /\ UNCHANGED <<up, status, asked, answer, failures>>

RecordFailure(c) ==
  /\ up /\ status[c] = "pending" /\ Rejected(c) /\ c \in verified
  /\ failures' = failures \cup {c}
  /\ UNCHANGED <<up, status, asked, answer, verified>>

Answer(c) ==
  /\ up /\ status[c] = "pending"
  /\ Verification(c) => c \in verified
  /\ Rejected(c) => c \in failures
  /\ status' = [status EXCEPT ![c] = "answered"]
  /\ answer' = [answer EXCEPT ![c] = ReplyTo(asked[c])]
  /\ UNCHANGED <<up, asked, verified, failures>>

Fail(c) ==
  /\ status[c] \in {"new", "pending"}
  /\ status' = [status EXCEPT ![c] = "failed"]
  /\ UNCHANGED <<up, asked, answer, verified, failures>>

PNext ==
  \/ ComeUp \/ GoDown
  \/ \E c \in Calls :
       Take(c) \/ Record(c) \/ RecordFailure(c) \/ Answer(c) \/ Fail(c)

PSpec == PInit /\ [][PNext]_pvars
=============================================================================
