------------------------------ MODULE ZkServer ------------------------------
(***************************************************************************)
(* The process of the Rust ZK service, services/rust-zk/src/main.rs: main  *)
(* runs the trusted setup, spawns the gRPC server and the HTTP server and  *)
(* ends when either of them does.  Their requests are Tokio tasks; no      *)
(* handler awaits anything, so that a request keeps a worker thread from   *)
(* its first step to its last, a proof included.  The generated server     *)
(* (src/proto/trinity.rs) decodes a request and picks the handler.         *)
(*                                                                         *)
(* A call's body is what the handler can tell of it: "garbled" does not    *)
(* decode, "malformed" decodes into bytes the handler refuses (bad sizes,  *)
(* no bytes to hash), "true" and "false" are well-formed and carry a proof *)
(* that does or does not verify.                                           *)
(***************************************************************************)
EXTENDS FiniteSets, Naturals

CONSTANTS
  Calls,     \* gRPC calls, each sent once
  Requests,  \* what may be sent
  Probes,    \* GET requests to the HTTP server
  Workers,   \* worker threads of the Tokio runtime
  Faults,    \* which of "setup", "bind", "accept" may fail
  Scraped,   \* the counters a scrape is watched reading (gather reads all)
  MaxBoots   \* bound on the starts of the process

Method == {"verify", "generate", "hash", "merkle", "health"}
Body == {"garbled", "malformed", "false", "true"}

(* "other": a path trinity.rs does not know.                               *)
Request == [path : Method \cup {"other"}, body : Body]

ASSUME ServerAssumption ==
  /\ IsFiniteSet(Calls) /\ IsFiniteSet(Probes)
  /\ Requests \subseteq Request
  /\ Workers \in Nat \ {0}
  /\ MaxBoots \in Nat

(* The Prometheus counters.  A call increments each at most once: their    *)
(* value is the set of calls that have.  "requests" is grpc_requests_total.*)
Tally == {"generated", "verified", "hashes", "merkles"}
Counter == Tally \cup {"requests", "failed"}
ASSUME ScrapedAssumption == Scraped \subseteq Counter

VARIABLES
  main,     \* "off", "setup", "select" or "shutdown"
  boots,    \* how often the process has started
  grpc,     \* the gRPC server's task: "none", "spawned", "serving", "ended"
  http,     \* the HTTP server's task, likewise
  pc,       \* pc[c]: where call c is
  request,  \* request[c]: its path and body
  reply,    \* reply[c]: what its handler returned
  left,     \* calls in the process whose client has given up waiting
  here,     \* calls that reached the process now running
  counts,   \* counts[k]: the calls counted by k
  probe,    \* probe[p]: where GET request p is
  read,     \* read[p]: the counters a GET /metrics has gathered so far
  seen      \* seen[p]: their values when it did

mainVars == <<main, boots, grpc, http>>
callVars == <<pc, request, reply, left, here>>
probeVars == <<probe, read, seen>>
vars == <<main, boots, grpc, http, pc, request, reply, left, here, counts,
          probe, read, seen>>

Unread == [k \in Counter |-> {}]
NoRequest == [path |-> "health", body |-> "garbled"]

Handled(q) == q.path \in Method /\ q.body # "garbled"
Refused(q) == q.body = "malformed" /\ q.path \in {"verify", "generate", "hash"}

(* The reply to a request: the five handlers, the decoder's status and the *)
(* Unimplemented status of an unknown path.  generate makes a proof of any *)
(* well-formed witness, a root of the wrong size does not match, health    *)
(* looks at nothing.                                                       *)
ReplyTo(q) ==
  CASE q.path = "other" -> "unimplemented"
    [] q.path # "other" /\ q.body = "garbled" -> "undecodable"
    [] Handled(q) /\ Refused(q) -> "error"
    [] Handled(q) /\ q.path = "generate" /\ ~Refused(q) -> "proof"
    [] Handled(q) /\ q.path = "hash" /\ ~Refused(q) -> "digest"
    [] Handled(q) /\ q.path = "health" -> "ok"
    [] Handled(q) /\ q.path \in {"verify", "merkle"} /\ ~Refused(q) ->
         IF q.body = "true" THEN "valid" ELSE "invalid"

Answers == {"unimplemented", "undecodable", "error", "proof", "digest", "ok",
            "valid", "invalid"}

(* The counters a handler increments when it has a result; the failures    *)
(* counter comes after.                                                    *)
TallyOf(q) ==
  CASE q.path = "generate" -> {"generated"} [] q.path = "verify" -> {"verified"}
    [] q.path = "hash" -> {"hashes"} [] q.path = "merkle" -> {"merkles"}
    [] OTHER -> {}

Increment(ks, c) ==
  counts' = [k \in Counter |-> IF k \in ks THEN counts[k] \cup {c} ELSE counts[k]]

InProcess == {"queued", "running", "failing", "settled"}
Busy == {c \in Calls : pc[c] \in {"running", "failing"}}
        \cup {p \in Probes : probe[p] = "reading"}
FreeWorker == Cardinality(Busy) < Workers

Init ==
  /\ main = "off" /\ boots = 0 /\ grpc = "none" /\ http = "none"
  /\ pc = [c \in Calls |-> "new"]
  /\ request = [c \in Calls |-> NoRequest]
  /\ reply = [c \in Calls |-> "none"]
  /\ left = {} /\ here = {}
  /\ counts = [k \in Counter |-> {}]
  /\ probe = [p \in Probes |-> "new"]
  /\ read = [p \in Probes |-> {}]
  /\ seen = [p \in Probes |-> Unread]

-----------------------------------------------------------------------------
(* main.                                                                   *)

Boot ==
  /\ main = "off" /\ boots < MaxBoots
  /\ main' = "setup" /\ boots' = boots + 1
  /\ UNCHANGED <<grpc, http, callVars, counts, probeVars>>

(* ZKComplianceVerifier::new, then both servers' tasks are spawned.        *)
SetUp ==
  /\ main = "setup"
  /\ main' = "select" /\ grpc' = "spawned" /\ http' = "spawned"
  /\ UNCHANGED <<boots, callVars, counts, probeVars>>

SetUpFails ==
  /\ main = "setup" /\ "setup" \in Faults
  /\ main' = "off"
  /\ UNCHANGED <<boots, grpc, http, callVars, counts, probeVars>>

(* A task binds its port and serves, or its port is taken and it returns.  *)
GrpcBind ==
  /\ main = "select" /\ grpc = "spawned"
  /\ grpc' \in {"serving"} \cup (IF "bind" \in Faults THEN {"ended"} ELSE {})
  /\ UNCHANGED <<main, boots, http, callVars, counts, probeVars>>

HttpBind ==
  /\ main = "select" /\ http = "spawned"
  /\ http' \in {"serving"} \cup (IF "bind" \in Faults THEN {"ended"} ELSE {})
  /\ UNCHANGED <<main, boots, grpc, callVars, counts, probeVars>>

(* A server returns with an error; calls it has taken in go on.            *)
ServerEnds ==
  /\ main = "select" /\ "accept" \in Faults
  /\ \/ grpc = "serving" /\ grpc' = "ended" /\ UNCHANGED http
     \/ http = "serving" /\ http' = "ended" /\ UNCHANGED grpc
  /\ UNCHANGED <<main, boots, callVars, counts, probeVars>>

(* Slip: join! instead of select!.                                         *)
SelectBoth ==
  /\ main = "select" /\ grpc = "ended" /\ http = "ended"
  /\ main' = "shutdown"
  /\ UNCHANGED <<boots, grpc, http, callVars, counts, probeVars>>

(* tokio::select! returns with the first task that ends, main returns, and *)
(* the runtime is dropped: no task takes another step, but a handler that  *)
(* has a worker keeps it to its end.                                       *)
Select ==
  /\ main = "select" /\ (grpc = "ended" \/ http = "ended")
  /\ main' = "shutdown"
  /\ UNCHANGED <<boots, grpc, http, callVars, counts, probeVars>>

(* The end of the process: its connections and counters are gone.          *)
Vanish ==
  /\ main' = "off" /\ grpc' = "none" /\ http' = "none"
  /\ pc' = [c \in Calls |-> IF pc[c] \in InProcess THEN "lost" ELSE pc[c]]
  /\ probe' = [p \in Probes |->
                 IF probe[p] \in {"queued", "reading"} THEN "lost" ELSE probe[p]]
  /\ left' = {} /\ here' = {}
  /\ counts' = [k \in Counter |-> {}]
  /\ read' = [p \in Probes |-> {}] /\ seen' = [p \in Probes |-> Unread]
  /\ UNCHANGED <<boots, request, reply>>

(* Slip: a graceful shutdown that waits for every call taken in.           *)
ExitWhenIdle ==
  /\ main = "shutdown" /\ \A c \in Calls : pc[c] \notin InProcess
  /\ Vanish

Exit == main = "shutdown" /\ Busy = {} /\ Vanish

(* No signal is handled: docker stop, or any other sudden death.           *)
Kill == main # "off" /\ Vanish

-----------------------------------------------------------------------------
(* gRPC calls.                                                             *)

Arrive(c) ==
  /\ pc[c] = "new" /\ main = "select" /\ grpc = "serving"
  /\ pc' = [pc EXCEPT ![c] = "queued"]
  /\ request' \in {[request EXCEPT ![c] = q] : q \in Requests}
  /\ here' = here \cup {c}
  /\ UNCHANGED <<mainVars, reply, left, counts, probeVars>>

Unavailable(c) ==
  /\ pc[c] = "new" /\ ~(main = "select" /\ grpc = "serving")
  /\ pc' = [pc EXCEPT ![c] = "lost"]
  /\ UNCHANGED <<mainVars, request, reply, left, here, counts, probeVars>>

(* A worker takes the call.  Only a request with a handler is counted, and *)
(* keeps the worker.                                                       *)
Poll(c) ==
  /\ pc[c] = "queued" /\ main = "select" /\ FreeWorker
  /\ IF Handled(request[c])
       THEN /\ pc' = [pc EXCEPT ![c] = "running"]
            /\ Increment({"requests"}, c)
            /\ UNCHANGED reply
       ELSE /\ pc' = [pc EXCEPT ![c] = "settled"]
            /\ reply' = [reply EXCEPT ![c] = ReplyTo(request[c])]
            /\ UNCHANGED counts
  /\ UNCHANGED <<mainVars, request, left, here, probeVars>>

(* Slip: the failure is counted first, the verification after it.          *)
WorkFailureFirst(c) ==
  LET q == request[c]  result == ReplyTo(q) IN
  /\ pc[c] = "running"
  /\ reply' = [reply EXCEPT ![c] = result]
  /\ IF q.path = "verify" /\ result = "invalid"
       THEN pc' = [pc EXCEPT ![c] = "failing"] /\ Increment({"failed"}, c)
       ELSE /\ pc' = [pc EXCEPT ![c] = "settled"]
            /\ Increment(IF result = "error" THEN {} ELSE TallyOf(q), c)
  /\ UNCHANGED <<mainVars, request, left, here, probeVars>>

(* Slip: every call of a handler is tallied, refused ones too.             *)
WorkTallyingErrors(c) ==
  LET q == request[c]  result == ReplyTo(q) IN
  /\ pc[c] = "running"
  /\ reply' = [reply EXCEPT ![c] = result]
  /\ Increment(TallyOf(q), c)
  /\ pc' = [pc EXCEPT ![c] =
       IF q.path = "verify" /\ result = "invalid" THEN "failing" ELSE "settled"]
  /\ UNCHANGED <<mainVars, request, left, here, probeVars>>

(* The handler has its result and counts it, unless it is an error.        *)
Work(c) ==
  LET q == request[c]  result == ReplyTo(q) IN
  /\ pc[c] = "running"
  /\ reply' = [reply EXCEPT ![c] = result]
  /\ Increment(IF result = "error" THEN {} ELSE TallyOf(q), c)
  /\ pc' = [pc EXCEPT ![c] =
       IF q.path = "verify" /\ result = "invalid" THEN "failing" ELSE "settled"]
  /\ UNCHANGED <<mainVars, request, left, here, probeVars>>

CountFailure(c) ==
  /\ pc[c] = "failing"
  /\ pc' = [pc EXCEPT ![c] = "settled"]
  /\ Increment({"failed"}, c)
  /\ UNCHANGED <<mainVars, request, reply, left, here, probeVars>>

(* The connection's task writes the reply, if anybody waits for it.        *)
Deliver(c) ==
  /\ pc[c] = "settled" /\ main = "select" /\ FreeWorker
  /\ pc' = [pc EXCEPT ![c] = IF c \in left THEN "lost" ELSE "done"]
  /\ left' = left \ {c}
  /\ UNCHANGED <<mainVars, request, reply, here, counts, probeVars>>

(* The client's deadline passes or it hangs up.                            *)
Leave(c) ==
  /\ pc[c] \in InProcess /\ c \notin left
  /\ left' = left \cup {c}
  /\ UNCHANGED <<mainVars, pc, request, reply, here, counts, probeVars>>

(* A stream that was reset before its body had arrived runs no handler.    *)
Reset(c) ==
  /\ pc[c] = "queued" /\ c \in left /\ main = "select"
  /\ pc' = [pc EXCEPT ![c] = "lost"]
  /\ left' = left \ {c}
  /\ UNCHANGED <<mainVars, request, reply, here, counts, probeVars>>

-----------------------------------------------------------------------------
(* HTTP requests.                                                          *)

ProbeArrives(p) ==
  /\ probe[p] = "new" /\ main = "select" /\ http = "serving"
  /\ probe' = [probe EXCEPT ![p] = "queued"]
  /\ UNCHANGED <<mainVars, callVars, counts, read, seen>>

(* GET /health: 200 whatever the state of the service.                     *)
Healthy(p) ==
  /\ probe[p] = "queued" /\ main = "select" /\ FreeWorker
  /\ probe' = [probe EXCEPT ![p] = "done"]
  /\ UNCHANGED <<mainVars, callVars, counts, read, seen>>

(* GET /metrics: gather reads one counter after another, in any order,     *)
(* while handlers on other workers go on counting.                         *)
Gather(p) ==
  /\ probe[p] = "queued" /\ main = "select" /\ FreeWorker
  /\ probe' = [probe EXCEPT ![p] = "reading"]
  /\ UNCHANGED <<mainVars, callVars, counts, read, seen>>

Read(p, k) ==
  /\ probe[p] = "reading" /\ k \in Scraped \ read[p]
  /\ read' = [read EXCEPT ![p] = @ \cup {k}]
  /\ seen' = [seen EXCEPT ![p][k] = counts[k]]
  /\ UNCHANGED <<mainVars, callVars, counts, probe>>

Gathered(p) ==
  /\ probe[p] = "reading" /\ read[p] = Scraped
  /\ probe' = [probe EXCEPT ![p] = "done"]
  /\ read' = [read EXCEPT ![p] = {}] /\ seen' = [seen EXCEPT ![p] = Unread]
  /\ UNCHANGED <<mainVars, callVars, counts>>

-----------------------------------------------------------------------------

MainStep == Select \/ Exit
CallStep(c) == Poll(c) \/ Work(c) \/ CountFailure(c) \/ Deliver(c) \/ Reset(c)
ProbeStep(p) ==
  Healthy(p) \/ Gather(p) \/ (\E k \in Counter : Read(p, k)) \/ Gathered(p)

Next ==
  \/ Boot \/ SetUp \/ SetUpFails \/ GrpcBind \/ HttpBind \/ ServerEnds
  \/ MainStep \/ Kill
  \/ \E c \in Calls : Arrive(c) \/ Unavailable(c) \/ CallStep(c) \/ Leave(c)
  \/ \E p \in Probes : ProbeArrives(p) \/ ProbeStep(p)

Spec == Init /\ [][Next]_vars

(* The operating system runs main and the workers, proofs end, and Tokio   *)
(* polls a task that is ready whenever workers keep becoming free.         *)
FairSpec ==
  /\ Spec
  /\ WF_vars(MainStep)
  /\ \A c \in Calls : WF_vars(CallStep(c))
  /\ \A p \in Probes : WF_vars(ProbeStep(p))

-----------------------------------------------------------------------------
(* Every variable stays in its type (main, ZkService, Metrics).            *)
TypeOK ==
  /\ main \in {"off", "setup", "select", "shutdown"}
  /\ boots \in 0..MaxBoots
  /\ grpc \in {"none", "spawned", "serving", "ended"}
  /\ http \in {"none", "spawned", "serving", "ended"}
  /\ pc \in [Calls -> {"new", "done", "lost"} \cup InProcess]
  /\ request \in [Calls -> Request]
  /\ reply \in [Calls -> {"none"} \cup Answers]
  /\ left \subseteq Calls /\ here \subseteq Calls
  /\ counts \in [Counter -> SUBSET Calls]
  /\ probe \in [Probes -> {"new", "queued", "reading", "done", "lost"}]
  /\ read \in [Probes -> SUBSET Counter]
  /\ seen \in [Probes -> [Counter -> SUBSET Calls]]

(* Whatever a client has been told was in the counters before it was told, *)
(* and nothing else is: a delivered verdict, proof or digest is tallied    *)
(* under its own name, a failed verification also as failed, and an error, *)
(* an undecodable request or an unknown path never (main.rs, every         *)
(* handler).                                                               *)
AnswersAreCounted ==
  \A c \in here : pc[c] = "done" =>
    /\ c \in counts["requests"] <=> reply[c] \notin {"unimplemented", "undecodable"}
    /\ \A k \in Tally :
         c \in counts[k] <=> reply[c] # "error" /\ Handled(request[c])
                             /\ k \in TallyOf(request[c])
    /\ c \in counts["failed"] <=> reply[c] = "invalid" /\ request[c].path = "verify"

(* A scrape reads its counters at different instants, so that it may show  *)
(* more failures than verifications; but a failure it shows is one of a    *)
(* verification counted by then, and a result that of a counted request    *)
(* (metrics_handler, Registry::gather).                                    *)
ScrapeCoherent ==
  \A p \in Probes : probe[p] = "reading" =>
    /\ seen[p]["failed"] \subseteq counts["verified"]
    /\ \A k \in Tally : seen[p][k] \subseteq counts["requests"]

(* No half of a service: once one server has ended, the process ends too,  *)
(* proofs in progress notwithstanding, and does not stay up answering      *)
(* health probes for a gRPC server that is gone (main, tokio::select!).    *)
HalfServiceExits ==
  main = "select" /\ (grpc = "ended" \/ http = "ended") ~> main = "off"

(* A call that was taken in is answered or its connection ends, however    *)
(* many proofs block the workers before it (ZkService's handlers).         *)
EveryCallEnds ==
  \A c \in Calls : pc[c] \in InProcess ~> pc[c] \in {"done", "lost"}

-----------------------------------------------------------------------------

MainInv ==
  /\ main \in {"off", "setup"} => grpc = "none" /\ http = "none"
  /\ main = "select" => grpc # "none" /\ http # "none"
  /\ main = "shutdown" => grpc = "ended" \/ http = "ended"

(* A call in the process is known to it; what it has counted follows from  *)
(* where it is.                                                            *)
CountedAs(c, k) ==
  LET q == request[c] IN
  CASE k = "requests" -> Handled(q) /\ pc[c] # "queued"
    [] k \in Tally -> /\ Handled(q) /\ ~Refused(q) /\ k \in TallyOf(q)
                      /\ pc[c] \notin {"queued", "running"}
    [] k = "failed" -> /\ q.path = "verify" /\ ReplyTo(q) = "invalid"
                       /\ pc[c] \notin {"queued", "running", "failing"}

CallInv(c) ==
  /\ pc[c] \in InProcess => c \in here
  /\ pc[c] \in {"running", "failing"} => Handled(request[c])
  /\ pc[c] = "failing" =>
       request[c].path = "verify" /\ ReplyTo(request[c]) = "invalid"
  /\ pc[c] \in {"failing", "settled", "done"} => reply[c] = ReplyTo(request[c])

CountInv ==
  \A k \in Counter :
    /\ counts[k] \subseteq here
    /\ \A c \in here : pc[c] # "lost" => (c \in counts[k] <=> CountedAs(c, k))

OrderInv ==
  /\ counts["failed"] \subseteq counts["verified"]
  /\ \A k \in Tally : counts[k] \subseteq counts["requests"]

SeenInv == \A p \in Probes, k \in Counter : seen[p][k] \subseteq counts[k]

(* The inductive invariant: the phases of main and its tasks, how many     *)
(* workers are taken, and which counters a call at each of its steps is in *)
(* (main, ZkService).                                                      *)
IInv ==
  /\ TypeOK
  /\ MainInv
  /\ here # {} => main \in {"select", "shutdown"}
  /\ \A c \in here : pc[c] # "new"
  /\ Cardinality(Busy) <= Workers
  /\ \A c \in Calls : CallInv(c)
  /\ CountInv
  /\ OrderInv
  /\ SeenInv
=============================================================================
