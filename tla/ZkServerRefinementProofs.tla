---------------------- MODULE ZkServerRefinementProofs ----------------------
(***************************************************************************)
(* The Rust process implements ZkPromise, for every value of the constants.*)
(***************************************************************************)
EXTENDS ZkServerRefinement, ZkServerProofs

Up == main \in {"select", "shutdown"}
Statuses == [c \in Calls |-> StatusOf(c)]
AnswersGiven == [c \in Calls |-> AnswerOf(c)]

(* The initial states of the process are initial states of ZkPromise.      *)
LEMMA PromiseInit == Init => Promise!PInit
BY DEF Init, Promise!PInit, StatusOf, AnswerOf, Counter, Tally, InProcess

(* A step in which no call moves and no counter of proofs changes, and     *)
(* after which the service is up if it was, is invisible.                  *)
LEMMA Invisible ==
  ASSUME UNCHANGED <<Statuses, AnswersGiven, request, counts["verified"], counts["failed"]>>,
         Up' <=> Up
  PROVE  [Promise!PNext]_Promise!pvars
BY DEF Promise!pvars, Up, Statuses, AnswersGiven

LEMMA Frame ==
  ASSUME pc' = pc, reply' = reply
  PROVE  Statuses' = Statuses /\ AnswersGiven' = AnswersGiven
BY DEF Statuses, AnswersGiven, StatusOf, AnswerOf

(* A call that changes neither its status nor, when answered, its reply.   *)
LEMMA SameStatus ==
  ASSUME TypeOK, NEW c \in Calls, pc[c] \in InProcess, pc'[c] \in InProcess,
         \A d \in Calls \ {c} : pc'[d] = pc[d] /\ reply'[d] = reply[d]
  PROVE  Statuses' = Statuses /\ AnswersGiven' = AnswersGiven
<1>1. \A d \in Calls : StatusOf(d)' = StatusOf(d)
  BY DEF StatusOf, InProcess
<1>2. \A d \in Calls : AnswerOf(d)' = AnswerOf(d)
  BY DEF AnswerOf, InProcess
<1> QED
  BY <1>1, <1>2 DEF Statuses, AnswersGiven

(* A call that moves to another status without an answer.                  *)
LEMMA MovedStatus ==
  ASSUME TypeOK, NEW c \in Calls, pc[c] # "done", pc'[c] # "done",
         \A d \in Calls \ {c} : pc'[d] = pc[d], reply' = reply
  PROVE  Statuses' = [Statuses EXCEPT ![c] = StatusOf(c)'] /\ AnswersGiven' = AnswersGiven
<1>1. \A d \in Calls \ {c} : StatusOf(d)' = StatusOf(d)
  BY DEF StatusOf
<1>2. \A d \in Calls : AnswerOf(d)' = AnswerOf(d)
  BY DEF AnswerOf
<1> QED
  BY <1>1, <1>2 DEF Statuses, AnswersGiven

(* Whoever is in the process is in a process that is up.                   *)
LEMMA InProcessIsUp ==
  ASSUME IInv, NEW c \in Calls, pc[c] \in InProcess
  PROVE  Up /\ c \in here /\ Statuses[c] = "pending"
<1>1. c \in here
  BY DEF IInv, CallInv
<1>2. StatusOf(c) = "pending"
  BY DEF StatusOf, InProcess
<1> QED
  BY <1>1, <1>2 DEF IInv, Up, Statuses

(* The end of the process.                                                 *)
LEMMA VanishStep == ASSUME IInv, Vanish PROVE [Promise!PNext]_Promise!pvars
<1> USE DEF Vanish
<1>1. TypeOK
  BY DEF IInv
<1>2. Statuses' = [c \in Calls |-> IF Statuses[c] = "pending" THEN "failed" ELSE Statuses[c]]
  <2>1. \A c \in Calls :
          StatusOf(c)' = IF StatusOf(c) = "pending" THEN "failed" ELSE StatusOf(c)
    <3> SUFFICES ASSUME NEW c \in Calls
                 PROVE  StatusOf(c)' = IF StatusOf(c) = "pending" THEN "failed" ELSE StatusOf(c)
      OBVIOUS
    <3>1. CASE pc[c] \in InProcess
      <4>1. pc'[c] = "lost"
        BY <3>1
      <4> QED
        BY <3>1, <4>1 DEF StatusOf, InProcess
    <3>2. CASE pc[c] \in {"new", "done", "lost"}
      <4>1. pc'[c] = pc[c]
        BY <3>2 DEF InProcess
      <4> QED
        BY <3>2, <4>1 DEF StatusOf, InProcess
    <3> QED
      BY <1>1, <3>1, <3>2 DEF TypeOK
  <2> QED
    BY <2>1 DEF Statuses
<1>3. AnswersGiven' = AnswersGiven
  <2>1. \A c \in Calls : AnswerOf(c)' = AnswerOf(c)
    BY <1>1 DEF AnswerOf, InProcess, TypeOK
  <2> QED
    BY <2>1 DEF AnswersGiven
<1>4. ~Up' /\ counts'["verified"] = {} /\ counts'["failed"] = {} /\ request' = request
  BY DEF Up, Counter, Tally
<1>5. CASE Up
  <2>1. Promise!GoDown
    <3>1. (main \in {"select", "shutdown"}) = TRUE /\ (main \in {"select", "shutdown"})' = FALSE
      BY <1>4, <1>5 DEF Up
    <3>2. [c \in Calls |-> StatusOf(c)]' =
            [c \in Calls |-> IF [d \in Calls |-> StatusOf(d)][c] = "pending" THEN "failed"
                             ELSE [d \in Calls |-> StatusOf(d)][c]]
      BY <1>2 DEF Statuses
    <3>3. [c \in Calls |-> AnswerOf(c)]' = [c \in Calls |-> AnswerOf(c)]
      BY <1>3 DEF AnswersGiven
    <3> HIDE DEF Vanish
    <3> QED
      BY <1>4, <3>1, <3>2, <3>3 DEF Promise!GoDown
  <2> QED
    BY <2>1 DEF Promise!PNext
<1>6. CASE ~Up
  <2>1. here = {}
    BY <1>6 DEF Up, IInv
  <2>2. counts["verified"] = {} /\ counts["failed"] = {}
    BY <2>1 DEF IInv, CountInv, Counter, Tally
  <2>3. \A c \in Calls : pc[c] \notin InProcess
    BY <2>1 DEF IInv, CallInv
  <2>4. Statuses' = Statuses
    <3>1. pc' = pc
      BY <1>1, <2>3 DEF TypeOK
    <3> QED
      BY <1>1, <3>1, Frame
  <2> QED
    BY <1>3, <1>4, <1>6, <2>2, <2>4, Invisible
<1> QED
  BY <1>5, <1>6

(* Every step of the process is a step of ZkPromise or one it cannot see.  *)
LEMMA PromiseStep == IInv /\ [Next]_vars => [Promise!PNext]_Promise!pvars
<1> SUFFICES ASSUME IInv, [Next]_vars PROVE [Promise!PNext]_Promise!pvars
  OBVIOUS
<1>0. TypeOK
  BY DEF IInv
<1>1. CASE Boot \/ SetUpFails \/ GrpcBind \/ HttpBind \/ ServerEnds \/ Select
  <2>1. pc' = pc /\ reply' = reply /\ request' = request /\ counts' = counts /\ (Up' <=> Up)
    BY <1>1
    DEF Boot, SetUpFails, GrpcBind, HttpBind, ServerEnds, Select, callVars, Up
  <2> QED
    BY <2>1, Frame, Invisible
<1>2. CASE SetUp
  <2>1. /\ pc' = pc /\ reply' = reply /\ request' = request /\ counts' = counts
        /\ ~Up /\ Up'
    BY <1>2 DEF SetUp, callVars, Up
  <2>2. Promise!ComeUp
    BY <2>1, Frame DEF Promise!ComeUp, Up, Statuses, AnswersGiven
  <2> QED
    BY <2>2 DEF Promise!PNext
<1>3. CASE Exit \/ Kill
  BY <1>3, VanishStep DEF Exit, Kill
<1>4. ASSUME NEW c \in Calls, Arrive(c) PROVE [Promise!PNext]_Promise!pvars
  <2>1. /\ pc[c] = "new" /\ pc'[c] = "queued" /\ reply' = reply /\ counts' = counts
        /\ \A d \in Calls \ {c} : pc'[d] = pc[d]
        /\ main' = main /\ main = "select"
    BY <1>0, <1>4 DEF Arrive, mainVars, TypeOK
  <2>2. Statuses' = [Statuses EXCEPT ![c] = "pending"] /\ AnswersGiven' = AnswersGiven
    BY <1>0, <2>1, MovedStatus DEF StatusOf, InProcess
  <2>3. Statuses[c] = "new"
    BY <2>1 DEF Statuses, StatusOf, InProcess
  <2>4. \E q \in Requests : request' = [request EXCEPT ![c] = q]
    BY <1>4 DEF Arrive
  <2>5. Promise!Take(c)
    BY <2>1, <2>2, <2>3, <2>4 DEF Promise!Take, Statuses, AnswersGiven
  <2> QED
    BY <2>5 DEF Promise!PNext
<1>5. ASSUME NEW c \in Calls,
             Unavailable(c) \/ Reset(c) \/ (Deliver(c) /\ c \in left)
      PROVE  [Promise!PNext]_Promise!pvars
  <2>1. /\ pc[c] \in {"new"} \cup InProcess /\ pc'[c] = "lost"
        /\ reply' = reply /\ counts' = counts /\ request' = request
        /\ \A d \in Calls \ {c} : pc'[d] = pc[d]
        /\ main' = main
    BY <1>0, <1>5 DEF Unavailable, Reset, Deliver, mainVars, TypeOK, InProcess
  <2>2. Statuses' = [Statuses EXCEPT ![c] = "failed"] /\ AnswersGiven' = AnswersGiven
    BY <1>0, <2>1, MovedStatus DEF StatusOf, InProcess
  <2>3. Statuses[c] \in {"new", "pending"}
    BY <2>1 DEF Statuses, StatusOf, InProcess
  <2>4. Promise!Fail(c)
    BY <2>1, <2>2, <2>3 DEF Promise!Fail, Statuses, AnswersGiven
  <2> QED
    BY <2>4 DEF Promise!PNext
<1>6. ASSUME NEW c \in Calls, Poll(c) PROVE [Promise!PNext]_Promise!pvars
  <2>1. /\ pc[c] \in InProcess /\ pc'[c] \in InProcess /\ request' = request
        /\ \A d \in Calls \ {c} : pc'[d] = pc[d] /\ reply'[d] = reply[d]
        /\ (Up' <=> Up)
    BY <1>0, <1>6 DEF Poll, mainVars, InProcess, TypeOK, Up
  <2>2. counts'["verified"] = counts["verified"] /\ counts'["failed"] = counts["failed"]
    BY <1>6 DEF Poll, Increment, Counter, Tally
  <2> QED
    BY <1>0, <2>1, <2>2, SameStatus, Invisible
<1>7. ASSUME NEW c \in Calls, Work(c) PROVE [Promise!PNext]_Promise!pvars
  <2> DEFINE q == request[c]
             ks == IF ReplyTo(q) = "error" THEN {} ELSE TallyOf(q)
  <2>1. /\ pc[c] \in InProcess /\ pc'[c] \in InProcess /\ request' = request
        /\ \A d \in Calls \ {c} : pc'[d] = pc[d] /\ reply'[d] = reply[d]
        /\ main' = main /\ (Up' <=> Up)
    BY <1>0, <1>7 DEF Work, mainVars, InProcess, TypeOK, Up
  <2>2. \A k \in Counter :
          counts'[k] = IF k \in ks THEN counts[k] \cup {c} ELSE counts[k]
    BY <1>0, <1>7, IncrementType DEF Work, TypeOK
  <2>3. Statuses' = Statuses /\ AnswersGiven' = AnswersGiven
    BY <1>0, <2>1, SameStatus
  <2>4. counts'["failed"] = counts["failed"]
    BY <2>2, TallyType DEF Counter, Tally
  <2>5. CASE "verified" \in ks
    <3>1. counts'["verified"] = counts["verified"] \cup {c}
      BY <2>2, <2>5 DEF Counter, Tally
    <3>2. q.path = "verify" /\ ReplyTo(q) # "error"
      BY <2>5 DEF TallyOf
    <3>3. Handled(q) /\ q \in Request
      BY <1>0, <1>7 DEF IInv, CallInv, Work, TypeOK
    <3>4. Promise!Verification(c)
      BY <3>2, <3>3
      DEF Promise!Verification, Promise!Verdict, ReplyTo, Handled, Method, Request
    <3>5. Up /\ Statuses[c] = "pending"
      BY <2>1, InProcessIsUp
    <3>6. Promise!Record(c)
      BY <2>1, <2>3, <2>4, <3>1, <3>4, <3>5
      DEF Promise!Record, Up, Statuses, AnswersGiven
    <3> QED
      BY <3>6 DEF Promise!PNext
  <2>6. CASE "verified" \notin ks
    <3>1. counts'["verified"] = counts["verified"]
      BY <2>2, <2>6 DEF Counter, Tally
    <3> QED
      BY <2>1, <2>3, <2>4, <3>1, Invisible
  <2> QED
    BY <2>5, <2>6
<1>8. ASSUME NEW c \in Calls, CountFailure(c) PROVE [Promise!PNext]_Promise!pvars
  <2>1. /\ pc[c] = "failing" /\ pc[c] \in InProcess /\ pc'[c] \in InProcess
        /\ request' = request /\ main' = main
        /\ \A d \in Calls \ {c} : pc'[d] = pc[d] /\ reply'[d] = reply[d]
    BY <1>0, <1>8 DEF CountFailure, mainVars, InProcess, TypeOK
  <2>2. counts'["failed"] = counts["failed"] \cup {c} /\ counts'["verified"] = counts["verified"]
    BY <1>8 DEF CountFailure, Increment, Counter, Tally
  <2>3. Statuses' = Statuses /\ AnswersGiven' = AnswersGiven
    BY <1>0, <2>1, SameStatus
  <2>4. Up /\ Statuses[c] = "pending" /\ c \in here
    BY <2>1, InProcessIsUp
  <2>5. request[c].path = "verify" /\ ReplyTo(request[c]) = "invalid"
    BY <2>1 DEF IInv, CallInv
  <2>6. c \in counts["verified"]
    <3>1. CountedAs(c, "verified")
      BY <1>0, <2>1, <2>5, InvalidIsVerified, CountedCases DEF Tally, TypeOK
    <3> QED
      BY <2>1, <2>4, <3>1 DEF IInv, CountInv, Counter, Tally
  <2>7. Promise!Rejected(c)
    BY <2>5 DEF Promise!Rejected, Promise!Verification, Promise!Verdict
  <2>8. Promise!RecordFailure(c)
    BY <2>1, <2>2, <2>3, <2>4, <2>6, <2>7
    DEF Promise!RecordFailure, Up, Statuses, AnswersGiven
  <2> QED
    BY <2>8 DEF Promise!PNext
<1>9. ASSUME NEW c \in Calls, Deliver(c), c \notin left PROVE [Promise!PNext]_Promise!pvars
  <2>1. /\ pc[c] = "settled" /\ pc'[c] = "done" /\ reply' = reply /\ counts' = counts
        /\ request' = request /\ main' = main
        /\ \A d \in Calls \ {c} : pc'[d] = pc[d]
    BY <1>0, <1>9 DEF Deliver, mainVars, TypeOK
  <2>2. pc[c] \in InProcess
    BY <2>1 DEF InProcess
  <2>3. Up /\ Statuses[c] = "pending" /\ c \in here
    BY <2>2, InProcessIsUp
  <2>4. reply[c] = ReplyTo(request[c])
    BY <2>1 DEF IInv, CallInv
  <2>5. Statuses' = [Statuses EXCEPT ![c] = "answered"]
    <3>1. StatusOf(c)' = "answered"
      BY <2>1 DEF StatusOf, InProcess
    <3>2. \A d \in Calls \ {c} : StatusOf(d)' = StatusOf(d)
      BY <2>1 DEF StatusOf
    <3> QED
      BY <3>1, <3>2 DEF Statuses
  <2>6. AnswersGiven' = [AnswersGiven EXCEPT ![c] = ReplyTo(request[c])]
    <3>1. AnswerOf(c)' = ReplyTo(request[c])
      BY <2>1, <2>4 DEF AnswerOf
    <3>2. \A d \in Calls \ {c} : AnswerOf(d)' = AnswerOf(d)
      BY <2>1 DEF AnswerOf
    <3> QED
      BY <3>1, <3>2 DEF AnswersGiven
  <2>7. \A k \in Counter : c \in counts[k] <=> CountedAs(c, k)
    BY <2>1, <2>3 DEF IInv, CountInv
  <2>8. Promise!Rejected(c) => c \in counts["failed"]
    BY <2>1, <2>7, CountedCases
    DEF Promise!Rejected, Promise!Verification, Counter
  <2>9. Promise!Verification(c) => c \in counts["verified"]
    <3> SUFFICES ASSUME Promise!Verification(c) PROVE c \in counts["verified"]
      OBVIOUS
    <3>1. request[c].path = "verify" /\ ReplyTo(request[c]) \in {"valid", "invalid"}
      BY DEF Promise!Verification, Promise!Verdict
    <3>2. Handled(request[c])
      BY <3>1 DEF ReplyTo, Handled, Method
    <3>3. ~Refused(request[c])
      BY <1>0, <3>1, <3>2, ErrorIsRefusal DEF TypeOK
    <3>4. "verified" \in TallyOf(request[c])
      BY <3>1 DEF TallyOf
    <3>5. CountedAs(c, "verified")
      BY <2>1, <3>2, <3>3, <3>4, CountedCases DEF Tally
    <3> QED
      BY <2>7, <3>5 DEF Counter, Tally
  <2>10. Promise!Answer(c)
    BY <2>1, <2>3, <2>5, <2>6, <2>8, <2>9
    DEF Promise!Answer, Up, Statuses, AnswersGiven
  <2> QED
    BY <2>10 DEF Promise!PNext
<1>10. ASSUME NEW c \in Calls, Leave(c) PROVE [Promise!PNext]_Promise!pvars
  <2>1. pc' = pc /\ reply' = reply /\ request' = request /\ counts' = counts /\ (Up' <=> Up)
    BY <1>10 DEF Leave, mainVars, Up
  <2> QED
    BY <2>1, Frame, Invisible
<1>11. ASSUME NEW p \in Probes, ProbeArrives(p) \/ ProbeStep(p)
       PROVE  [Promise!PNext]_Promise!pvars
  <2>1. pc' = pc /\ reply' = reply /\ request' = request /\ counts' = counts /\ (Up' <=> Up)
    BY <1>11
    DEF ProbeArrives, ProbeStep, Healthy, Gather, Read, Gathered, mainVars, callVars, Up
  <2> QED
    BY <2>1, Frame, Invisible
<1>12. CASE UNCHANGED vars
  <2>1. pc' = pc /\ reply' = reply /\ request' = request /\ counts' = counts /\ (Up' <=> Up)
    BY <1>12 DEF vars, Up
  <2> QED
    BY <2>1, Frame, Invisible
<1> QED
  BY <1>1, <1>2, <1>3, <1>4, <1>5, <1>6, <1>7, <1>8, <1>9, <1>10, <1>11, <1>12
  DEF Next, MainStep, CallStep

(* The process keeps its promise: every call taken in is answered with the *)
(* reply it deserves, after its verdict is on record, or fails; nothing    *)
(* survives a restart (main, ZkService).                                   *)
THEOREM PromiseTheorem == Spec => ImplementsPromise
<1>1. Spec => []IInv
  BY ServerInvariance
<1> QED
  BY <1>1, PromiseInit, PromiseStep, PTL DEF Spec, ImplementsPromise, Promise!PSpec
=============================================================================
