--------------------------- MODULE ZkServerProofs ---------------------------
(***************************************************************************)
(* Proofs about ZkServer: its inductive invariant, what the counters and a *)
(* scrape of them say.                                                     *)
(***************************************************************************)
EXTENDS ZkServer, FiniteSetTheorems, TLAPS

(* Every request has a reply.                                              *)
LEMMA ReplyType == \A q \in Request : ReplyTo(q) \in Answers
<1> SUFFICES ASSUME NEW q \in Request PROVE ReplyTo(q) \in Answers
  OBVIOUS
<1>1. q.path \in Method \cup {"other"} /\ q.body \in Body
  BY DEF Request
<1>2. CASE q.path = "other"
  BY <1>2 DEF ReplyTo, Answers, Handled, Method
<1>3. CASE q.path \in Method /\ q.body = "garbled"
  BY <1>3 DEF ReplyTo, Answers, Handled, Method
<1>4. CASE Handled(q) /\ Refused(q)
  BY <1>4 DEF ReplyTo, Answers, Handled, Method
<1>5. CASE Handled(q) /\ ~Refused(q)
  BY <1>1, <1>5 DEF ReplyTo, Answers, Handled, Method
<1> QED
  BY <1>1, <1>2, <1>3, <1>4, <1>5 DEF Handled

(* What a handler that is not refused is tallied under.                    *)
LEMMA TallyType == \A q : TallyOf(q) \subseteq Tally
BY DEF TallyOf, Tally

-----------------------------------------------------------------------------
(* Workers.                                                                *)

LEMMA BusyFinite == IsFiniteSet(Busy) /\ Cardinality(Busy) \in Nat
<1>1. IsFiniteSet(Calls \cup Probes)
  BY ServerAssumption, FS_Union
<1>2. Busy \subseteq Calls \cup Probes
  BY DEF Busy
<1> QED
  BY <1>1, <1>2, FS_Subset, FS_CardinalityType

LEMMA BusyFiniteNext == IsFiniteSet(Busy') /\ Cardinality(Busy') \in Nat
<1>1. IsFiniteSet(Calls \cup Probes)
  BY ServerAssumption, FS_Union
<1>2. Busy' \subseteq Calls \cup Probes
  BY DEF Busy
<1> QED
  BY <1>1, <1>2, FS_Subset, FS_CardinalityType

(* A step after which no more workers are taken.                           *)
LEMMA BusyShrinks ==
  ASSUME Cardinality(Busy) <= Workers, Busy' \subseteq Busy
  PROVE  (Cardinality(Busy) <= Workers)'
<1>1. Cardinality(Busy') <= Cardinality(Busy)
  BY BusyFinite, FS_Subset
<1> QED
  BY <1>1, BusyFinite, BusyFiniteNext, ServerAssumption

(* A step that takes a free worker.                                        *)
LEMMA BusyGrows ==
  ASSUME NEW x, FreeWorker, Busy' \subseteq Busy \cup {x}
  PROVE  (Cardinality(Busy) <= Workers)'
<1>1. IsFiniteSet(Busy \cup {x}) /\ Cardinality(Busy \cup {x}) <= Cardinality(Busy) + 1
  BY BusyFinite, FS_AddElement
<1>2. Cardinality(Busy') <= Cardinality(Busy \cup {x})
  BY <1>1, FS_Subset
<1>3. Cardinality(Busy \cup {x}) \in Nat
  BY <1>1, FS_CardinalityType
<1> QED
  BY <1>1, <1>2, <1>3, BusyFinite, BusyFiniteNext, ServerAssumption DEF FreeWorker

-----------------------------------------------------------------------------
(* Types.                                                                  *)

LEMMA IncrementType ==
  ASSUME counts \in [Counter -> SUBSET Calls], NEW ks, NEW c \in Calls,
         Increment(ks, c)
  PROVE  /\ counts' \in [Counter -> SUBSET Calls]
         /\ \A k \in Counter :
              counts'[k] = IF k \in ks THEN counts[k] \cup {c} ELSE counts[k]
BY DEF Increment

LEMMA VanishType == ASSUME TypeOK, Vanish PROVE TypeOK'
<1> USE DEF TypeOK, Vanish
<1>1. pc' \in [Calls -> {"new", "done", "lost"} \cup InProcess]
  OBVIOUS
<1>2. probe' \in [Probes -> {"new", "queued", "reading", "done", "lost"}]
  OBVIOUS
<1>3. seen' \in [Probes -> [Counter -> SUBSET Calls]]
  BY DEF Unread
<1>4. counts' \in [Counter -> SUBSET Calls] /\ read' \in [Probes -> SUBSET Counter]
  OBVIOUS
<1> QED
  BY <1>1, <1>2, <1>3, <1>4

LEMMA TypeInit == Init => TypeOK
<1> SUFFICES ASSUME Init PROVE TypeOK
  OBVIOUS
<1>1. NoRequest \in Request
  BY DEF NoRequest, Request, Method, Body
<1>2. Unread \in [Counter -> SUBSET Calls]
  BY DEF Unread
<1> QED
  BY <1>1, <1>2, ServerAssumption DEF Init, TypeOK

LEMMA TypeStep == TypeOK /\ [Next]_vars => TypeOK'
<1> SUFFICES ASSUME TypeOK, [Next]_vars PROVE TypeOK'
  OBVIOUS
<1> USE DEF TypeOK
<1>1. CASE Boot
  BY <1>1, ServerAssumption DEF Boot, callVars, probeVars
<1>2. CASE SetUp \/ SetUpFails
  BY <1>2 DEF SetUp, SetUpFails, callVars, probeVars
<1>3. CASE GrpcBind \/ HttpBind
  BY <1>3 DEF GrpcBind, HttpBind, callVars, probeVars
<1>4. CASE ServerEnds
  BY <1>4 DEF ServerEnds, callVars, probeVars
<1>5. CASE Select
  BY <1>5 DEF Select, callVars, probeVars
<1>6. CASE Exit \/ Kill
  BY <1>6, VanishType DEF Exit, Kill
<1>7. ASSUME NEW c \in Calls, Arrive(c) PROVE TypeOK'
  BY <1>7, ServerAssumption DEF Arrive, mainVars, probeVars, InProcess
<1>8. ASSUME NEW c \in Calls, Unavailable(c) PROVE TypeOK'
  BY <1>8 DEF Unavailable, mainVars, probeVars
<1>9. ASSUME NEW c \in Calls, Poll(c) PROVE TypeOK'
  <2>1. counts' \in [Counter -> SUBSET Calls]
    BY <1>9, IncrementType DEF Poll
  <2>2. reply' \in [Calls -> {"none"} \cup Answers]
    BY <1>9, ReplyType DEF Poll
  <2>3. pc' \in [Calls -> {"new", "done", "lost"} \cup InProcess]
    BY <1>9 DEF Poll, InProcess
  <2> QED
    BY <1>9, <2>1, <2>2, <2>3 DEF Poll, mainVars, probeVars
<1>10. ASSUME NEW c \in Calls, Work(c) PROVE TypeOK'
  <2>1. counts' \in [Counter -> SUBSET Calls]
    BY <1>10, IncrementType DEF Work
  <2>2. reply' \in [Calls -> {"none"} \cup Answers]
    BY <1>10, ReplyType DEF Work
  <2>3. pc' \in [Calls -> {"new", "done", "lost"} \cup InProcess]
    BY <1>10 DEF Work, InProcess
  <2> QED
    BY <1>10, <2>1, <2>2, <2>3 DEF Work, mainVars, probeVars
<1>11. ASSUME NEW c \in Calls, CountFailure(c) PROVE TypeOK'
  <2>1. counts' \in [Counter -> SUBSET Calls]
    BY <1>11, IncrementType DEF CountFailure
  <2>2. pc' \in [Calls -> {"new", "done", "lost"} \cup InProcess]
    BY <1>11 DEF CountFailure, InProcess
  <2> QED
    BY <1>11, <2>1, <2>2 DEF CountFailure, mainVars, probeVars
<1>12. ASSUME NEW c \in Calls, Deliver(c) PROVE TypeOK'
  BY <1>12 DEF Deliver, mainVars, probeVars
<1>13. ASSUME NEW c \in Calls, Leave(c) \/ Reset(c) PROVE TypeOK'
  BY <1>13 DEF Leave, Reset, mainVars, probeVars
<1>14. ASSUME NEW p \in Probes, ProbeArrives(p) \/ Healthy(p) \/ Gather(p)
       PROVE  TypeOK'
  BY <1>14 DEF ProbeArrives, Healthy, Gather, mainVars, callVars
<1>15. ASSUME NEW p \in Probes, NEW k \in Counter, Read(p, k) PROVE TypeOK'
  BY <1>15 DEF Read, mainVars, callVars
<1>16. ASSUME NEW p \in Probes, Gathered(p) PROVE TypeOK'
  BY <1>16 DEF Gathered, Unread, mainVars, callVars
<1>17. CASE UNCHANGED vars
  BY <1>17 DEF vars
<1> QED
  BY <1>1, <1>2, <1>3, <1>4, <1>5, <1>6, <1>7, <1>8, <1>9, <1>10, <1>11, <1>12,
     <1>13, <1>14, <1>15, <1>16, <1>17
  DEF Next, MainStep, CallStep, ProbeStep

(* Type correctness of the process, its calls and its counters (main,      *)
(* ZkService), for every number of calls, probes, workers and restarts.    *)
THEOREM ServerTypeCorrect == Spec => []TypeOK
<1> QED
  BY TypeInit, TypeStep, PTL DEF Spec

-----------------------------------------------------------------------------
(* The phases of main.                                                     *)

PhaseInv ==
  /\ MainInv
  /\ here # {} => main \in {"select", "shutdown"}
  /\ \A c \in here : pc[c] # "new"

LEMMA PhaseStep == TypeOK /\ PhaseInv /\ [Next]_vars => PhaseInv'
<1> SUFFICES ASSUME TypeOK, PhaseInv, [Next]_vars PROVE PhaseInv'
  OBVIOUS
<1> USE DEF TypeOK, PhaseInv, MainInv
<1>1. CASE Boot \/ SetUp \/ SetUpFails
  BY <1>1 DEF Boot, SetUp, SetUpFails, callVars
<1>2. CASE GrpcBind \/ HttpBind \/ ServerEnds
  BY <1>2 DEF GrpcBind, HttpBind, ServerEnds, callVars
<1>3. CASE Select
  BY <1>3 DEF Select, callVars
<1>4. CASE Exit \/ Kill
  BY <1>4 DEF Exit, Kill, Vanish
<1>5. ASSUME NEW c \in Calls, Arrive(c) \/ Unavailable(c) PROVE PhaseInv'
  BY <1>5 DEF Arrive, Unavailable, mainVars
<1>6. ASSUME NEW c \in Calls, CallStep(c) \/ Leave(c) PROVE PhaseInv'
  BY <1>6
  DEF CallStep, Poll, Work, CountFailure, Deliver, Reset, Leave, mainVars
<1>7. ASSUME NEW p \in Probes, ProbeArrives(p) \/ ProbeStep(p) PROVE PhaseInv'
  BY <1>7
  DEF ProbeArrives, ProbeStep, Healthy, Gather, Read, Gathered, mainVars, callVars
<1>8. CASE UNCHANGED vars
  BY <1>8 DEF vars
<1> QED
  BY <1>1, <1>2, <1>3, <1>4, <1>5, <1>6, <1>7, <1>8 DEF Next, MainStep

(* No more tasks hold a worker than there are.                             *)
LEMMA WorkersStep ==
  TypeOK /\ Cardinality(Busy) <= Workers /\ [Next]_vars
    => (Cardinality(Busy) <= Workers)'
<1> SUFFICES ASSUME TypeOK, Cardinality(Busy) <= Workers, [Next]_vars
             PROVE  (Cardinality(Busy) <= Workers)'
  OBVIOUS
<1> USE DEF TypeOK
<1>1. CASE Boot \/ SetUp \/ SetUpFails \/ GrpcBind \/ HttpBind \/ ServerEnds \/ Select
  <2>1. Busy' = Busy
    BY <1>1
    DEF Boot, SetUp, SetUpFails, GrpcBind, HttpBind, ServerEnds, Select, callVars,
        probeVars, Busy
  <2> QED
    BY <2>1, BusyShrinks
<1>2. CASE Exit \/ Kill
  <2>1. Busy' \subseteq Busy
    BY <1>2 DEF Exit, Kill, Vanish, Busy, InProcess
  <2> QED
    BY <2>1, BusyShrinks
<1>3. ASSUME NEW c \in Calls, Poll(c) PROVE (Cardinality(Busy) <= Workers)'
  <2>1. Busy' \subseteq Busy \cup {c}
    BY <1>3 DEF Poll, Busy, probeVars
  <2> QED
    BY <1>3, <2>1, BusyGrows DEF Poll
<1>4. ASSUME NEW c \in Calls,
             Arrive(c) \/ Unavailable(c) \/ Work(c) \/ CountFailure(c) \/ Deliver(c)
               \/ Reset(c) \/ Leave(c)
      PROVE  (Cardinality(Busy) <= Workers)'
  <2>1. Busy' \subseteq Busy
    BY <1>4
    DEF Arrive, Unavailable, Work, CountFailure, Deliver, Reset, Leave, Busy, probeVars
  <2> QED
    BY <2>1, BusyShrinks
<1>5. ASSUME NEW p \in Probes, Gather(p) PROVE (Cardinality(Busy) <= Workers)'
  <2>1. Busy' \subseteq Busy \cup {p}
    BY <1>5 DEF Gather, Busy, callVars
  <2> QED
    BY <1>5, <2>1, BusyGrows DEF Gather
<1>6. ASSUME NEW p \in Probes,
             ProbeArrives(p) \/ Healthy(p) \/ (\E k \in Counter : Read(p, k)) \/ Gathered(p)
      PROVE  (Cardinality(Busy) <= Workers)'
  <2>1. Busy' \subseteq Busy
    BY <1>6 DEF ProbeArrives, Healthy, Read, Gathered, Busy, callVars
  <2> QED
    BY <2>1, BusyShrinks
<1>7. CASE UNCHANGED vars
  <2>1. Busy' = Busy
    BY <1>7 DEF vars, Busy
  <2> QED
    BY <2>1, BusyShrinks
<1> QED
  BY <1>1, <1>2, <1>3, <1>4, <1>5, <1>6, <1>7 DEF Next, MainStep, CallStep, ProbeStep

-----------------------------------------------------------------------------
(* Calls.                                                                  *)

LEMMA CallsStep ==
  ASSUME TypeOK, PhaseInv, \A c \in Calls : CallInv(c), [Next]_vars
  PROVE  \A c \in Calls : CallInv(c)'
<1> USE DEF TypeOK, CallInv
<1>1. CASE Boot \/ SetUp \/ SetUpFails \/ GrpcBind \/ HttpBind \/ ServerEnds \/ Select
  BY <1>1
  DEF Boot, SetUp, SetUpFails, GrpcBind, HttpBind, ServerEnds, Select, callVars
<1>2. CASE Exit \/ Kill
  BY <1>2 DEF Exit, Kill, Vanish, InProcess
<1>3. ASSUME NEW c \in Calls, Arrive(c) PROVE \A d \in Calls : CallInv(d)'
  <2>1. /\ pc'[c] = "queued" /\ c \in here' /\ here \subseteq here' /\ reply' = reply
        /\ \A d \in Calls \ {c} : pc'[d] = pc[d] /\ request'[d] = request[d]
    BY <1>3 DEF Arrive
  <2> QED
    BY <2>1 DEF InProcess
<1>4. ASSUME NEW c \in Calls, Unavailable(c) PROVE \A d \in Calls : CallInv(d)'
  BY <1>4 DEF Unavailable, InProcess
<1>5. ASSUME NEW c \in Calls, Poll(c) PROVE \A d \in Calls : CallInv(d)'
  <2>1. CASE Handled(request[c])
    BY <1>5, <2>1 DEF Poll, InProcess
  <2>2. CASE ~Handled(request[c])
    BY <1>5, <2>2 DEF Poll, InProcess
  <2> QED
    BY <2>1, <2>2
<1>6. ASSUME NEW c \in Calls, Work(c) PROVE \A d \in Calls : CallInv(d)'
  BY <1>6 DEF Work, InProcess
<1>7. ASSUME NEW c \in Calls, CountFailure(c) PROVE \A d \in Calls : CallInv(d)'
  BY <1>7 DEF CountFailure, InProcess
<1>8. ASSUME NEW c \in Calls, Deliver(c) PROVE \A d \in Calls : CallInv(d)'
  BY <1>8 DEF Deliver, InProcess
<1>9. ASSUME NEW c \in Calls, Reset(c) \/ Leave(c) PROVE \A d \in Calls : CallInv(d)'
  BY <1>9 DEF Reset, Leave, InProcess
<1>10. ASSUME NEW p \in Probes, ProbeArrives(p) \/ ProbeStep(p)
       PROVE  \A d \in Calls : CallInv(d)'
  BY <1>10 DEF ProbeArrives, ProbeStep, Healthy, Gather, Read, Gathered, callVars
<1>11. CASE UNCHANGED vars
  BY <1>11 DEF vars
<1> QED
  BY <1>1, <1>2, <1>3, <1>4, <1>5, <1>6, <1>7, <1>8, <1>9, <1>10, <1>11
  DEF Next, MainStep, CallStep

-----------------------------------------------------------------------------
(* Counters.                                                               *)

(* What a call has counted, counter by counter.                            *)
LEMMA CountedCases ==
  ASSUME NEW c
  PROVE  /\ CountedAs(c, "requests") <=> Handled(request[c]) /\ pc[c] # "queued"
         /\ \A k \in Tally : CountedAs(c, k) <=>
              /\ Handled(request[c]) /\ ~Refused(request[c]) /\ k \in TallyOf(request[c])
              /\ pc[c] \notin {"queued", "running"}
         /\ CountedAs(c, "failed") <=>
              /\ request[c].path = "verify" /\ ReplyTo(request[c]) = "invalid"
              /\ pc[c] \notin {"queued", "running", "failing"}
BY DEF CountedAs, Tally

(* A handled request gets an error exactly when it is refused.             *)
LEMMA ErrorIsRefusal ==
  ASSUME NEW q \in Request, Handled(q)
  PROVE  ReplyTo(q) = "error" <=> Refused(q)
BY DEF ReplyTo, Handled, Refused, Request, Method, Body

(* An invalid proof is that of a verification that was not refused.        *)
LEMMA InvalidIsVerified ==
  ASSUME NEW q \in Request, q.path = "verify", ReplyTo(q) = "invalid"
  PROVE  Handled(q) /\ ~Refused(q) /\ "verified" \in TallyOf(q)
<1>1. q.body \in Body
  BY DEF Request
<1>2. q.body # "garbled"
  BY DEF ReplyTo, Handled, Method
<1>3. Handled(q)
  BY <1>2 DEF Handled, Method
<1>4. ~Refused(q)
  BY <1>3 DEF ReplyTo
<1> QED
  BY <1>3, <1>4 DEF TallyOf

(* A step of one call that counts it where CountedAs says it must.         *)
LEMMA OneCallCounts ==
  ASSUME TypeOK, CountInv, NEW c \in Calls, c \in here, here' = here,
         request' = request, NEW ks,
         \A d \in Calls \ {c} : pc'[d] = pc[d],
         \A k \in Counter :
           counts'[k] = IF k \in ks THEN counts[k] \cup {c} ELSE counts[k],
         pc[c] # "lost",
         pc'[c] # "lost" =>
           \A k \in Counter : CountedAs(c, k)' <=> CountedAs(c, k) \/ k \in ks
  PROVE  CountInv'
<1> SUFFICES ASSUME NEW k \in Counter
             PROVE  /\ counts'[k] \subseteq here'
                    /\ \A d \in here' : pc'[d] # "lost" => (d \in counts'[k] <=> CountedAs(d, k)')
  BY DEF CountInv
<1>1. counts'[k] \subseteq here'
  BY DEF CountInv
<1>2. ASSUME NEW d \in here, pc'[d] # "lost"
      PROVE  d \in counts'[k] <=> CountedAs(d, k)'
  <2>1. CASE d = c
    BY <1>2, <2>1 DEF CountInv
  <2>2. CASE d # c
    <3>1. d \in Calls \ {c}
      BY <2>2 DEF TypeOK
    <3>2. CountedAs(d, k)' <=> CountedAs(d, k)
      BY <3>1 DEF CountedAs
    <3> QED
      BY <1>2, <2>2, <3>1, <3>2 DEF CountInv
  <2> QED
    BY <2>1, <2>2
<1> QED
  BY <1>1, <1>2

(* A step of one call that counts nothing.                                 *)
LEMMA OneCallMoves ==
  ASSUME TypeOK, CountInv, NEW c \in Calls, c \in here, here' = here,
         request' = request, counts' = counts,
         \A d \in Calls \ {c} : pc'[d] = pc[d],
         pc[c] # "lost",
         pc'[c] # "lost" => \A k \in Counter : CountedAs(c, k)' <=> CountedAs(c, k)
  PROVE  CountInv'
<1> DEFINE ks == {}
<1>1. \A k \in Counter : counts'[k] = IF k \in ks THEN counts[k] \cup {c} ELSE counts[k]
  OBVIOUS
<1>2. pc'[c] # "lost" =>
        \A k \in Counter : CountedAs(c, k)' <=> CountedAs(c, k) \/ k \in ks
  OBVIOUS
<1> HIDE DEF ks
<1> QED
  BY <1>1, <1>2, OneCallCounts

LEMMA CountsStep ==
  ASSUME TypeOK, PhaseInv, \A c \in Calls : CallInv(c), CountInv, [Next]_vars
  PROVE  CountInv'
<1> USE DEF TypeOK
<1>1. ASSUME UNCHANGED <<pc, request, here, counts>> PROVE CountInv'
  BY <1>1 DEF CountInv, CountedAs
<1>2. CASE Boot \/ SetUp \/ SetUpFails \/ GrpcBind \/ HttpBind \/ ServerEnds \/ Select
  BY <1>1, <1>2
  DEF Boot, SetUp, SetUpFails, GrpcBind, HttpBind, ServerEnds, Select, callVars
<1>3. CASE Exit \/ Kill
  BY <1>3 DEF Exit, Kill, Vanish, CountInv
<1>4. ASSUME NEW c \in Calls, Arrive(c) PROVE CountInv'
  <2>1. /\ pc'[c] = "queued" /\ here' = here \cup {c} /\ counts' = counts
        /\ \A d \in Calls \ {c} : pc'[d] = pc[d] /\ request'[d] = request[d]
    BY <1>4 DEF Arrive
  <2>2. c \notin here
    BY <1>4 DEF Arrive, PhaseInv
  <2>3. \A k \in Counter : ~CountedAs(c, k)'
    BY <2>1 DEF CountedAs, Counter, Tally
  <2>4. ASSUME NEW d \in here, NEW k \in Counter, pc'[d] # "lost"
        PROVE  d \in counts'[k] <=> CountedAs(d, k)'
    <3>1. d \in Calls \ {c}
      BY <2>2
    <3>2. CountedAs(d, k)' <=> CountedAs(d, k)
      BY <2>1, <3>1 DEF CountedAs
    <3> QED
      BY <2>1, <2>4, <3>1, <3>2 DEF CountInv
  <2>5. \A k \in Counter : c \notin counts'[k] /\ counts'[k] \subseteq here'
    BY <2>1, <2>2 DEF CountInv
  <2> QED
    BY <2>1, <2>3, <2>4, <2>5 DEF CountInv
<1>5. ASSUME NEW c \in Calls, Unavailable(c) PROVE CountInv'
  <2>1. c \notin here
    BY <1>5 DEF Unavailable, PhaseInv
  <2>2. /\ here' = here /\ counts' = counts /\ request' = request
        /\ \A d \in here : pc'[d] = pc[d]
    BY <1>5, <2>1 DEF Unavailable
  <2>3. \A d \in here, k \in Counter : CountedAs(d, k)' <=> CountedAs(d, k)
    BY <2>2 DEF CountedAs
  <2> QED
    BY <2>2, <2>3 DEF CountInv
<1>6. ASSUME NEW c \in Calls, pc[c] \in InProcess PROVE c \in here /\ pc[c] # "lost"
  BY <1>6 DEF CallInv, InProcess
<1>7. ASSUME NEW c \in Calls, Poll(c) PROVE CountInv'
  <2>1. c \in here /\ pc[c] = "queued" /\ here' = here /\ request' = request
    BY <1>6, <1>7 DEF Poll, InProcess
  <2>2. CASE Handled(request[c])
    <3>1. pc'[c] = "running" /\ \A d \in Calls \ {c} : pc'[d] = pc[d]
      BY <1>7, <2>2 DEF Poll
    <3>2. \A k \in Counter :
            counts'[k] = IF k \in {"requests"} THEN counts[k] \cup {c} ELSE counts[k]
      BY <1>7, <2>2, IncrementType DEF Poll
    <3>3. \A k \in Counter : CountedAs(c, k)' <=> CountedAs(c, k) \/ k \in {"requests"}
      BY <2>1, <2>2, <3>1 DEF CountedAs, Counter, Tally
    <3> QED
      BY <2>1, <3>1, <3>2, <3>3, OneCallCounts
  <2>3. CASE ~Handled(request[c])
    <3>1. pc'[c] = "settled" /\ \A d \in Calls \ {c} : pc'[d] = pc[d]
      BY <1>7, <2>3 DEF Poll
    <3>2. counts' = counts
      BY <1>7, <2>3 DEF Poll
    <3>3. ~(request[c].path = "verify" /\ ReplyTo(request[c]) = "invalid")
      BY <2>3, InvalidIsVerified
    <3>4. \A k \in Counter : CountedAs(c, k)' <=> CountedAs(c, k)
      BY <2>1, <2>3, <3>1, <3>3 DEF CountedAs, Counter, Tally
    <3> QED
      BY <2>1, <3>1, <3>2, <3>4, OneCallMoves
  <2> QED
    BY <2>2, <2>3
<1>8. ASSUME NEW c \in Calls, Work(c) PROVE CountInv'
  <2> DEFINE q == request[c]
             ks == IF ReplyTo(q) = "error" THEN {} ELSE TallyOf(q)
             v == IF q.path = "verify" /\ ReplyTo(q) = "invalid" THEN "failing" ELSE "settled"
  <2>1. c \in here /\ pc[c] = "running" /\ here' = here /\ request' = request
    BY <1>6, <1>8 DEF Work, InProcess
  <2>2. pc'[c] = v /\ \A d \in Calls \ {c} : pc'[d] = pc[d]
    BY <1>8 DEF Work
  <2>3. \A k \in Counter :
          counts'[k] = IF k \in ks THEN counts[k] \cup {c} ELSE counts[k]
    BY <1>8, IncrementType DEF Work
  <2>4. Handled(q) /\ (ReplyTo(q) = "error" <=> Refused(q))
    BY <2>1, ErrorIsRefusal DEF CallInv
  <2>5. v \in {"failing", "settled"} /\ ks \subseteq Tally
    BY TallyType
  <2>6. q.path = "verify" /\ ReplyTo(q) = "invalid" <=> v = "failing"
    OBVIOUS
  <2>7. \A k \in Counter : CountedAs(c, k)' <=> CountedAs(c, k) \/ k \in ks
    <3>1. CountedAs(c, "requests") /\ CountedAs(c, "requests")' /\ "requests" \notin ks
      BY <2>1, <2>2, <2>4, <2>5 DEF CountedAs, Tally
    <3>2. ~CountedAs(c, "failed") /\ ~CountedAs(c, "failed")' /\ "failed" \notin ks
      BY <2>1, <2>2, <2>5, <2>6 DEF CountedAs, Tally
    <3>3. ASSUME NEW k \in Tally PROVE ~CountedAs(c, k) /\ (CountedAs(c, k)' <=> k \in ks)
      <4>1. k # "requests" /\ k # "failed"
        BY DEF Tally
      <4> QED
        BY <2>1, <2>2, <2>4, <2>5, <4>1 DEF CountedAs
    <3> QED
      BY <3>1, <3>2, <3>3 DEF Counter
  <2> QED
    <3> HIDE DEF ks, v
    <3> QED
      BY <2>1, <2>2, <2>3, <2>5, <2>7, OneCallCounts
<1>9. ASSUME NEW c \in Calls, CountFailure(c) PROVE CountInv'
  <2>1. /\ c \in here /\ pc[c] = "failing" /\ here' = here /\ request' = request
        /\ pc'[c] = "settled" /\ \A d \in Calls \ {c} : pc'[d] = pc[d]
    BY <1>6, <1>9 DEF CountFailure, InProcess
  <2>2. \A k \in Counter :
          counts'[k] = IF k \in {"failed"} THEN counts[k] \cup {c} ELSE counts[k]
    BY <1>9, IncrementType DEF CountFailure
  <2>3. request[c].path = "verify" /\ ReplyTo(request[c]) = "invalid"
    BY <2>1 DEF CallInv
  <2>4. \A k \in Counter : CountedAs(c, k)' <=> CountedAs(c, k) \/ k \in {"failed"}
    BY <2>1, <2>3 DEF CountedAs, Counter, Tally
  <2> QED
    BY <2>1, <2>2, <2>4, OneCallCounts
<1>10. ASSUME NEW c \in Calls, Deliver(c) \/ Reset(c) PROVE CountInv'
  <2>1. /\ c \in here /\ pc[c] # "lost" /\ here' = here /\ request' = request
        /\ counts' = counts /\ \A d \in Calls \ {c} : pc'[d] = pc[d]
    BY <1>6, <1>10 DEF Deliver, Reset, InProcess
  <2>2. pc'[c] = "lost" \/ (pc[c] = "settled" /\ pc'[c] = "done")
    BY <1>10 DEF Deliver, Reset
  <2>3. pc'[c] # "lost" => \A k \in Counter : CountedAs(c, k)' <=> CountedAs(c, k)
    BY <2>1, <2>2 DEF CountedAs
  <2> QED
    BY <2>1, <2>3, OneCallMoves
<1>11. ASSUME NEW c \in Calls, Leave(c) PROVE CountInv'
  BY <1>1, <1>11 DEF Leave
<1>12. ASSUME NEW p \in Probes, ProbeArrives(p) \/ ProbeStep(p) PROVE CountInv'
  BY <1>1, <1>12 DEF ProbeArrives, ProbeStep, Healthy, Gather, Read, Gathered, callVars
<1>13. CASE UNCHANGED vars
  BY <1>1, <1>13 DEF vars
<1> QED
  BY <1>2, <1>3, <1>4, <1>5, <1>7, <1>8, <1>9, <1>10, <1>11, <1>12, <1>13
  DEF Next, MainStep, CallStep

(* Outside the end of the process counters only grow.                      *)
LEMMA CountsGrow ==
  ASSUME TypeOK, [Next]_vars, ~Vanish
  PROVE  \A k \in Counter : counts[k] \subseteq counts'[k]
<1> USE DEF TypeOK
<1>1. CASE Boot \/ SetUp \/ SetUpFails \/ GrpcBind \/ HttpBind \/ ServerEnds \/ Select
  BY <1>1 DEF Boot, SetUp, SetUpFails, GrpcBind, HttpBind, ServerEnds, Select
<1>2. ASSUME NEW c \in Calls,
             Arrive(c) \/ Unavailable(c) \/ Deliver(c) \/ Reset(c) \/ Leave(c)
      PROVE  counts' = counts
  BY <1>2 DEF Arrive, Unavailable, Deliver, Reset, Leave
<1>3. ASSUME NEW c \in Calls, Poll(c) \/ Work(c) \/ CountFailure(c)
      PROVE  \A k \in Counter : counts[k] \subseteq counts'[k]
  <2>1. ASSUME NEW ks, Increment(ks, c)
        PROVE  \A k \in Counter : counts[k] \subseteq counts'[k]
    BY <2>1 DEF Increment
  <2> QED
    BY <1>3, <2>1 DEF Poll, Work, CountFailure
<1>4. ASSUME NEW p \in Probes, ProbeArrives(p) \/ ProbeStep(p) PROVE counts' = counts
  BY <1>4 DEF ProbeArrives, ProbeStep, Healthy, Gather, Read, Gathered
<1>5. CASE UNCHANGED vars
  BY <1>5 DEF vars
<1> QED
  BY <1>1, <1>2, <1>3, <1>4, <1>5 DEF Next, MainStep, CallStep, Exit, Kill

(* The counters of a process form a chain, whatever its calls are doing.   *)
LEMMA OrderStep ==
  ASSUME TypeOK, \A c \in Calls : CallInv(c), CountInv, OrderInv, [Next]_vars
  PROVE  OrderInv'
<1> USE DEF TypeOK
<1>1. CASE UNCHANGED counts
  BY <1>1 DEF OrderInv
<1>2. CASE Vanish
  BY <1>2 DEF Vanish, OrderInv, Counter, Tally
<1>3. ASSUME NEW c \in Calls, Poll(c) PROVE OrderInv'
  <2>1. CASE Increment({"requests"}, c)
    <3>1. \A k \in Counter :
            counts'[k] = IF k \in {"requests"} THEN counts[k] \cup {c} ELSE counts[k]
      BY <2>1, IncrementType
    <3> QED
      BY <3>1 DEF OrderInv, Counter, Tally
  <2> QED
    BY <1>1, <1>3, <2>1 DEF Poll
<1>4. ASSUME NEW c \in Calls, Work(c) PROVE OrderInv'
  <2> DEFINE q == request[c]
             ks == IF ReplyTo(q) = "error" THEN {} ELSE TallyOf(q)
  <2>1. \A k \in Counter :
          counts'[k] = IF k \in ks THEN counts[k] \cup {c} ELSE counts[k]
    BY <1>4, IncrementType DEF Work
  <2>2. c \in here /\ pc[c] = "running"
    BY <1>4 DEF Work, CallInv, InProcess
  <2>3. c \in counts["requests"]
    <3>1. Handled(request[c]) /\ pc[c] # "queued" /\ pc[c] # "lost"
      BY <2>2 DEF CallInv
    <3>2. CountedAs(c, "requests")
      BY <3>1, CountedCases
    <3> QED
      BY <2>2, <3>1, <3>2 DEF CountInv, Counter
  <2>4. ks \subseteq Tally
    BY TallyType
  <2> QED
    <3> HIDE DEF ks
    <3> QED
      BY <2>1, <2>3, <2>4 DEF OrderInv, Counter, Tally
<1>5. ASSUME NEW c \in Calls, CountFailure(c) PROVE OrderInv'
  <2>1. \A k \in Counter :
          counts'[k] = IF k \in {"failed"} THEN counts[k] \cup {c} ELSE counts[k]
    BY <1>5, IncrementType DEF CountFailure
  <2>2. c \in here /\ pc[c] = "failing"
    BY <1>5 DEF CountFailure, CallInv, InProcess
  <2>3. CountedAs(c, "verified")
    BY <2>2, InvalidIsVerified, CountedCases DEF CallInv, Tally
  <2>4. c \in counts["verified"]
    BY <2>2, <2>3 DEF CountInv, Counter, Tally
  <2> QED
    BY <2>1, <2>4 DEF OrderInv, Counter, Tally
<1>6. ASSUME NEW c \in Calls,
             Arrive(c) \/ Unavailable(c) \/ Deliver(c) \/ Reset(c) \/ Leave(c)
      PROVE  OrderInv'
  BY <1>1, <1>6 DEF Arrive, Unavailable, Deliver, Reset, Leave
<1>7. ASSUME NEW p \in Probes, ProbeArrives(p) \/ ProbeStep(p) PROVE OrderInv'
  BY <1>1, <1>7 DEF ProbeArrives, ProbeStep, Healthy, Gather, Read, Gathered
<1>8. CASE Boot \/ SetUp \/ SetUpFails \/ GrpcBind \/ HttpBind \/ ServerEnds \/ Select
  BY <1>1, <1>8 DEF Boot, SetUp, SetUpFails, GrpcBind, HttpBind, ServerEnds, Select
<1>9. CASE UNCHANGED vars
  BY <1>1, <1>9 DEF vars
<1> QED
  BY <1>2, <1>3, <1>4, <1>5, <1>6, <1>7, <1>8, <1>9
  DEF Next, MainStep, CallStep, Exit, Kill

(* What a scrape has read is still in the counters.                        *)
LEMMA SeenStep == ASSUME TypeOK, SeenInv, [Next]_vars PROVE SeenInv'
<1> USE DEF TypeOK
<1>1. CASE Vanish
  BY <1>1 DEF Vanish, SeenInv, Unread
<1>2. ASSUME ~Vanish, seen' = seen PROVE SeenInv'
  BY <1>2, CountsGrow DEF SeenInv
<1>3. ASSUME NEW p \in Probes, NEW k \in Counter, Read(p, k) PROVE SeenInv'
  BY <1>3 DEF Read, SeenInv
<1>4. ASSUME NEW p \in Probes, Gathered(p) PROVE SeenInv'
  BY <1>4 DEF Gathered, SeenInv, Unread
<1>5. CASE Boot \/ SetUp \/ SetUpFails \/ GrpcBind \/ HttpBind \/ ServerEnds \/ Select
  <2>1. seen' = seen
    BY <1>5
    DEF Boot, SetUp, SetUpFails, GrpcBind, HttpBind, ServerEnds, Select, probeVars
  <2> QED
    BY <1>1, <1>2, <2>1
<1>6. ASSUME NEW c \in Calls,
             Arrive(c) \/ Unavailable(c) \/ CallStep(c) \/ Leave(c)
      PROVE  SeenInv'
  <2>1. seen' = seen
    BY <1>6
    DEF Arrive, Unavailable, CallStep, Poll, Work, CountFailure, Deliver, Reset, Leave,
        probeVars
  <2> QED
    BY <1>1, <1>2, <2>1
<1>7. ASSUME NEW p \in Probes, ProbeArrives(p) \/ Healthy(p) \/ Gather(p) PROVE SeenInv'
  <2>1. seen' = seen
    BY <1>7 DEF ProbeArrives, Healthy, Gather
  <2> QED
    BY <1>1, <1>2, <2>1
<1>8. CASE UNCHANGED vars
  <2>1. seen' = seen
    BY <1>8 DEF vars
  <2> QED
    BY <1>1, <1>2, <2>1
<1> QED
  BY <1>1, <1>3, <1>4, <1>5, <1>6, <1>7, <1>8
  DEF Next, MainStep, ProbeStep, Exit, Kill

-----------------------------------------------------------------------------
(* The inductive invariant.                                                *)

LEMMA ServerInit == Init => IInv
<1> SUFFICES ASSUME Init PROVE IInv
  OBVIOUS
<1> USE DEF Init
<1>1. TypeOK
  BY TypeInit
<1>2. MainInv /\ here = {}
  BY DEF MainInv
<1>3. Cardinality(Busy) <= Workers
  <2>1. Busy = {}
    BY DEF Busy
  <2> QED
    BY <2>1, FS_EmptySet, ServerAssumption
<1>4. \A c \in Calls : CallInv(c)
  BY DEF CallInv, InProcess
<1>5. CountInv /\ OrderInv /\ SeenInv
  BY DEF CountInv, OrderInv, SeenInv, Unread, Counter, Tally
<1> QED
  BY <1>1, <1>2, <1>3, <1>4, <1>5 DEF IInv

LEMMA ServerStep == IInv /\ [Next]_vars => IInv'
<1> SUFFICES ASSUME IInv, [Next]_vars PROVE IInv'
  OBVIOUS
<1>1. /\ TypeOK /\ PhaseInv /\ Cardinality(Busy) <= Workers
      /\ \A c \in Calls : CallInv(c)
      /\ CountInv /\ OrderInv /\ SeenInv
  BY DEF IInv, PhaseInv
<1>2. TypeOK' /\ PhaseInv' /\ (Cardinality(Busy) <= Workers)'
  BY <1>1, TypeStep, PhaseStep, WorkersStep
<1>3. \A c \in Calls : CallInv(c)'
  BY <1>1, CallsStep
<1>4. CountInv' /\ OrderInv' /\ SeenInv'
  BY <1>1, CountsStep, OrderStep, SeenStep
<1> QED
  BY <1>2, <1>3, <1>4 DEF IInv, PhaseInv

(* The phases of main, the workers taken and the counters of every call    *)
(* are as the code leaves them, for every number of calls, probes, workers *)
(* and restarts (main, ZkService).                                         *)
THEOREM ServerInvariance == Spec => []IInv
<1> QED
  BY ServerInit, ServerStep, PTL DEF Spec

(* An answer a client has was counted under its own names before           *)
(* (ZkService's handlers).                                                 *)
THEOREM AnswersTheorem == Spec => []AnswersAreCounted
<1>1. IInv => AnswersAreCounted
  <2> SUFFICES ASSUME IInv, NEW c \in here, pc[c] = "done"
               PROVE  /\ c \in counts["requests"]
                           <=> reply[c] \notin {"unimplemented", "undecodable"}
                      /\ \A k \in Tally :
                           c \in counts[k] <=> reply[c] # "error" /\ Handled(request[c])
                                               /\ k \in TallyOf(request[c])
                      /\ c \in counts["failed"]
                           <=> reply[c] = "invalid" /\ request[c].path = "verify"
    BY DEF AnswersAreCounted
  <2>1. c \in Calls /\ request[c] \in Request /\ reply[c] = ReplyTo(request[c])
    BY DEF IInv, TypeOK, CallInv
  <2>2. \A k \in Counter : c \in counts[k] <=> CountedAs(c, k)
    BY DEF IInv, CountInv
  <2>3. Handled(request[c]) <=> reply[c] \notin {"unimplemented", "undecodable"}
    BY <2>1 DEF ReplyTo, Handled, Refused, Request, Method, Body
  <2>4. c \in counts["requests"] <=> Handled(request[c])
    BY <2>2, CountedCases DEF Counter
  <2>5. ASSUME NEW k \in Tally
        PROVE  c \in counts[k] <=> /\ Handled(request[c]) /\ ~Refused(request[c])
                                   /\ k \in TallyOf(request[c])
    BY <2>2, CountedCases DEF Counter
  <2>6. Handled(request[c]) => (reply[c] = "error" <=> Refused(request[c]))
    BY <2>1, ErrorIsRefusal
  <2>7. c \in counts["failed"] <=> request[c].path = "verify" /\ reply[c] = "invalid"
    BY <2>1, <2>2, CountedCases DEF Counter
  <2> QED
    BY <2>3, <2>4, <2>5, <2>6, <2>7
<1> QED
  BY <1>1, ServerInvariance, PTL

(* However a scrape's reads interleave with the handlers, a failure it     *)
(* shows is one of a counted verification (metrics_handler).               *)
THEOREM ScrapeTheorem == Spec => []ScrapeCoherent
<1>1. IInv => ScrapeCoherent
  <2> SUFFICES ASSUME IInv, NEW p \in Probes
               PROVE  /\ seen[p]["failed"] \subseteq counts["verified"]
                      /\ \A k \in Tally : seen[p][k] \subseteq counts["requests"]
    BY DEF ScrapeCoherent
  <2>1. \A k \in Counter : seen[p][k] \subseteq counts[k]
    BY DEF IInv, SeenInv
  <2> QED
    BY <2>1 DEF IInv, OrderInv, Counter
<1> QED
  BY <1>1, ServerInvariance, PTL
=============================================================================
