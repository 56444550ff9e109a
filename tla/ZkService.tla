----------------------------- MODULE ZkService -----------------------------
(***************************************************************************)
(* The ZK compliance check of suspicious transactions: verifyWithZK of the *)
(* Go backend (services/go-backend/main.go), a session of four RPCs under  *)
(* one deadline, against the Rust service (services/rust-zk/src/main.rs,   *)
(* lib.rs), which may die and come back between any two of them.           *)
(*                                                                         *)
(* Cryptography is by its contract: Poseidon is injective on the field, a  *)
(* proof verifies as module ZkCircuit says and under the keys it was made  *)
(* with.  The circuit is represented by its Statement, which ZkCircuit's   *)
(* checks show equivalent to its constraints.                              *)
(***************************************************************************)
EXTENDS ZkCircuit

CONSTANTS
  Sessions,      \* calls of verifyWithZK, one per suspicious transaction
  Amounts,       \* values of tx.Amount*100, in parts of a cent
  Parts,         \* parts of a cent: fine enough for every value in Amounts
  Senders,       \* sender names, as the little-endian number their bytes are
  EmptyName,     \* the sender name without any byte
  SetId,         \* zkSanctionsSetID, as such a number
  Threshold,     \* zkThresholdCents
  Poseidon,      \* hash_field
  MaxCrashes     \* bound on the crashes of the Rust service

ASSUME InputsAssumption ==
  /\ Amounts \subseteq Int
  /\ Parts \in Nat \ {0}
  /\ Senders \subseteq Nat /\ SetId \in Nat /\ EmptyName \notin Nat
  /\ Threshold \in Word
  /\ MaxCrashes \in Nat
ASSUME PoseidonAssumption ==
  /\ Poseidon \in [Field -> Field]
  /\ \A x, y \in Field : Poseidon[x] = Poseidon[y] => x = y

(* uint64(math.Max(0, math.Round(tx.Amount*100))).  A float64 is a multiple*)
(* of a power of two, so any set of amounts has some number of parts.  The *)
(* slip drops the fraction instead of rounding it.                         *)
CentsTruncated(a) == IF a <= 0 THEN 0 ELSE a \div Parts
Cents(a) == IF a <= 0 THEN 0 ELSE (2 * a + Parts) \div (2 * Parts)

(* Beyond uint64 the conversion is implementation-dependent; such amounts  *)
(* do not fit the amount column either and are left out.                   *)
ASSUME AmountsAssumption == \A a \in Amounts : Cents(a) \in Word

VARIABLES
  input,      \* input[s]: amount and sender of the transaction
  pc,         \* pc[s]: the RPC the session is in, "idle" before, "done" after
  senderHash, \* senderHash[s]: senderResp.Hash
  proof,      \* proof[s]: genResp.ProofBytes
  outcome,    \* outcome[s]: what verifyWithZK returned: true, false, error
  sent,       \* sent[s]: the RPC on its way to the service, or "none"
  reply,      \* reply[s]: the reply on its way back, or NoReply
  zkUp,       \* the Rust service is serving
  boots,      \* how often it has started
  keys,       \* its proving and verifying keys
  generatedBy, verifiedBy, failedBy
              \* trinity_zk_proofs_generated_total, proofs_verified_total and
              \* proof_verify_failures_total: who incremented them

clientVars == <<input, pc, senderHash, proof, outcome>>
metrics == <<generatedBy, verifiedBy, failedBy>>
serverVars == <<zkUp, boots, keys>>
vars == <<input, pc, senderHash, proof, outcome, sent, reply, zkUp, boots,
          keys, generatedBy, verifiedBy, failedBy>>

Rpc == {"hashSender", "hashRoot", "generate", "verify"}
(* Where a call is: with nobody, on its way to its handler, or between the *)
(* two increments of verify_compliance_proof.                              *)
Place == {"none", "failing"} \cup Rpc
Outcome == {"none", "true", "false", "error"}
Input == [amount : Amounts, sender : Senders \cup {EmptyName}]

Digest(name) == Poseidon[name % P]
RootHash == Digest(SetId)

(* publicData and privateData, as the session builds them.                 *)
PublicData == [threshold |-> Threshold, root |-> RootHash]
PrivateData(s) == [amount |-> Cents(input[s].amount), sender |-> senderHash[s]]

(* A proof is known by the keys it was made with and by whether it proves  *)
(* PublicData, the one statement sessions ask for.                         *)
NoProof == [keys |-> 0, proves |-> FALSE]
Proof == [keys : 0..(MaxCrashes + 1), proves : BOOLEAN]

NoReply == [error |-> FALSE, for |-> "none", hash |-> 0, proof |-> NoProof,
            valid |-> FALSE]
Reply == [error : BOOLEAN, for : Rpc \cup {"none"}, hash : Field,
          proof : Proof, valid : BOOLEAN]

(* Slip: the setup is seeded from the operating system's entropy.          *)
SetupWithEntropy(boot) == boot
(* setup_circuit: the seed is a constant, every start makes the same keys. *)
SetupCircuit(boot) == 1

Init ==
  /\ input \in [Sessions -> Input]
  /\ pc = [s \in Sessions |-> "idle"]
  /\ senderHash = [s \in Sessions |-> 0]
  /\ proof = [s \in Sessions |-> NoProof]
  /\ outcome = [s \in Sessions |-> "none"]
  /\ sent = [s \in Sessions |-> "none"]
  /\ reply = [s \in Sessions |-> NoReply]
  /\ zkUp = TRUE
  /\ boots = 1
  /\ keys = SetupCircuit(1)
  /\ generatedBy = {} /\ verifiedBy = {} /\ failedBy = {}

-----------------------------------------------------------------------------
(* The session in the Go backend.                                          *)

Call(s, rpc) ==
  /\ pc' = [pc EXCEPT ![s] = rpc]
  /\ sent' = [sent EXCEPT ![s] = rpc]

Return(s, result) ==
  /\ pc' = [pc EXCEPT ![s] = "done"]
  /\ outcome' = [outcome EXCEPT ![s] = result]

Start(s) ==
  /\ pc[s] = "idle"
  /\ Call(s, "hashSender")
  /\ UNCHANGED <<input, senderHash, proof, outcome, reply, serverVars, metrics>>

(* The answer of the RPC in progress; a reply whose Error is set ends the  *)
(* session.  Digests have the right size by construction of Poseidon.      *)
Receive(s) ==
  /\ pc[s] \in Rpc /\ reply[s].for = pc[s]
  /\ reply' = [reply EXCEPT ![s] = NoReply]
  /\ \/ /\ reply[s].error
        /\ Return(s, "error")
        /\ UNCHANGED <<sent, senderHash, proof>>
     \/ /\ ~reply[s].error /\ pc[s] = "hashSender"
        /\ senderHash' = [senderHash EXCEPT ![s] = reply[s].hash]
        /\ Call(s, "hashRoot")
        /\ UNCHANGED <<proof, outcome>>
     \/ /\ ~reply[s].error /\ pc[s] = "hashRoot"
        /\ Call(s, "generate")
        /\ UNCHANGED <<senderHash, proof, outcome>>
     \/ /\ ~reply[s].error /\ pc[s] = "generate"
        /\ proof' = [proof EXCEPT ![s] = reply[s].proof]
        /\ Call(s, "verify")
        /\ UNCHANGED <<senderHash, outcome>>
     \/ /\ ~reply[s].error /\ pc[s] = "verify"
        /\ Return(s, IF reply[s].valid THEN "true" ELSE "false")
        /\ UNCHANGED <<sent, senderHash, proof>>
  /\ UNCHANGED <<input, serverVars, metrics>>

(* The RPC fails in transport: the service is down, or died with the call. *)
RpcFails(s) ==
  /\ pc[s] \in Rpc /\ reply[s] = NoReply
  /\ sent[s] = "none" \/ ~zkUp
  /\ Return(s, "error")
  /\ sent' = [sent EXCEPT ![s] = "none"]
  /\ UNCHANGED <<input, senderHash, proof, reply, serverVars, metrics>>

(* The 15 s deadline passes or the request's context is cancelled.  The    *)
(* service may still execute a call it has been sent.                      *)
Expire(s) ==
  /\ pc[s] \in Rpc
  /\ Return(s, "error")
  /\ reply' = [reply EXCEPT ![s] = NoReply]
  /\ UNCHANGED <<input, senderHash, proof, sent, serverVars, metrics>>

-----------------------------------------------------------------------------
(* The handlers of the Rust service: each is synchronous, and its reply is *)
(* of no use to a client that has left.                                    *)

Answer(s, r) ==
  /\ sent' = [sent EXCEPT ![s] = "none"]
  /\ reply' = [reply EXCEPT ![s] = IF pc[s] = r.for THEN r ELSE @]

(* poseidon_hash: refuses empty input.                                     *)
HashReply(s) ==
  LET name == IF sent[s] = "hashSender" THEN input[s].sender ELSE SetId IN
  [NoReply EXCEPT !.for = sent[s], !.error = (name = EmptyName),
                  !.hash = IF name = EmptyName THEN 0 ELSE Digest(name)]

ServeHash(s) ==
  /\ zkUp /\ sent[s] \in {"hashSender", "hashRoot"}
  /\ Answer(s, HashReply(s))
  /\ UNCHANGED <<clientVars, serverVars, metrics>>

(* A proof is made of whatever witness comes in; only its verification     *)
(* tells whether the statement holds.                                      *)
ProofReply(s) ==
  [NoReply EXCEPT !.for = "generate",
     !.proof = [keys |-> keys, proves |-> Statement(PrivateData(s), PublicData)]]

ServeGenerate(s) ==
  /\ zkUp /\ sent[s] = "generate"
  /\ generatedBy' = generatedBy \cup {s}
  /\ Answer(s, ProofReply(s))
  /\ UNCHANGED <<clientVars, serverVars, verifiedBy, failedBy>>

Verifies(p) == p.proves /\ p.keys = keys
VerifyReply(s) ==
  [NoReply EXCEPT !.for = "verify", !.valid = Verifies(proof[s])]

(* Slip: only proofs that verify are counted as verified.                  *)
ServeVerifyCountingSuccesses(s) ==
  /\ zkUp /\ sent[s] = "verify"
  /\ IF Verifies(proof[s])
       THEN /\ verifiedBy' = verifiedBy \cup {s}
            /\ Answer(s, VerifyReply(s))
       ELSE /\ sent' = [sent EXCEPT ![s] = "failing"]
            /\ UNCHANGED <<verifiedBy, reply>>
  /\ UNCHANGED <<clientVars, serverVars, generatedBy, failedBy>>

(* proofs_verified counts every verification; one that fails is counted in *)
(* a second increment, which others may come before.                       *)
ServeVerify(s) ==
  /\ zkUp /\ sent[s] = "verify"
  /\ verifiedBy' = verifiedBy \cup {s}
  /\ IF Verifies(proof[s])
       THEN Answer(s, VerifyReply(s))
       ELSE sent' = [sent EXCEPT ![s] = "failing"] /\ UNCHANGED reply
  /\ UNCHANGED <<clientVars, serverVars, generatedBy, failedBy>>

CountFailure(s) ==
  /\ zkUp /\ sent[s] = "failing"
  /\ failedBy' = failedBy \cup {s}
  /\ Answer(s, VerifyReply(s))
  /\ UNCHANGED <<clientVars, serverVars, generatedBy, verifiedBy>>

(* The service dies with the calls it holds; replies already on their way  *)
(* may still arrive.                                                       *)
Crash ==
  /\ zkUp /\ boots <= MaxCrashes
  /\ zkUp' = FALSE
  /\ sent' = [s \in Sessions |-> "none"]
  /\ \E lost \in SUBSET Sessions :
       reply' = [s \in Sessions |-> IF s \in lost THEN NoReply ELSE reply[s]]
  /\ generatedBy' = {} /\ verifiedBy' = {} /\ failedBy' = {}
  /\ UNCHANGED <<clientVars, boots, keys>>

(* main runs the trusted setup again before it serves.                     *)
Restart ==
  /\ ~zkUp
  /\ zkUp' = TRUE
  /\ boots' = boots + 1
  /\ keys' = SetupCircuit(boots + 1)
  /\ UNCHANGED <<clientVars, sent, reply, metrics>>

Next ==
  \/ \E s \in Sessions :
       \/ Start(s) \/ Receive(s) \/ RpcFails(s) \/ Expire(s)
       \/ ServeHash(s) \/ ServeGenerate(s) \/ ServeVerify(s) \/ CountFailure(s)
  \/ Crash
  \/ Restart

Spec == Init /\ [][Next]_vars

-----------------------------------------------------------------------------
(* Every variable stays in its type (the locals of verifyWithZK, the calls *)
(* between the two processes and the state of the Rust service).           *)
TypeOK ==
  /\ input \in [Sessions -> Input]
  /\ pc \in [Sessions -> {"idle", "done"} \cup Rpc]
  /\ senderHash \in [Sessions -> Field]
  /\ proof \in [Sessions -> Proof]
  /\ outcome \in [Sessions -> Outcome]
  /\ sent \in [Sessions -> Place]
  /\ reply \in [Sessions -> Reply]
  /\ zkUp \in BOOLEAN
  /\ boots \in 1..(MaxCrashes + 1)
  /\ keys \in 1..(MaxCrashes + 1)
  /\ generatedBy \subseteq Sessions
  /\ verifiedBy \subseteq Sessions
  /\ failedBy \subseteq Sessions

(* What a verified proof is taken to say of a transaction: its amount is   *)
(* within the threshold or less than half a cent above it, and its sender  *)
(* is a name and not the one the set is hashed from.                       *)
Compliant(s) ==
  /\ 2 * input[s].amount < (2 * Threshold + 1) * Parts
  /\ input[s].sender # EmptyName
  /\ input[s].sender # SetId

(* Another name, but the same element of the field.                        *)
Collides(s) == input[s].sender # SetId /\ input[s].sender % P = SetId % P

(* The circuit can prove it.                                               *)
Holds(s) == Compliant(s) /\ ~Collides(s)

(* A verified proof never vouches for more than the circuit proves, through*)
(* the rounding of a float64 to cents, Poseidon, four RPCs, the deadline   *)
(* and restarts of the service between them (verifyWithZK,                 *)
(* generate_constraints).                                                  *)
VerifiedMeansCompliant ==
  \A s \in Sessions : outcome[s] = "true" => Compliant(s)

(* A compliant transaction is told "not verified" without an error only if *)
(* its sender's name collides with the set's in the field: not when the    *)
(* service restarted between proving and verifying (setup_circuit makes the*)
(* same keys again), nor by a wrapped difference.                          *)
RejectedMeansNotCompliant ==
  \A s \in Sessions : outcome[s] = "false" => ~Compliant(s) \/ Collides(s)

(* The service's verification counters tell true and false statements      *)
(* apart at every instant, verifications for clients that have left        *)
(* included: verified counts both kinds, failures the false ones, save one *)
(* whose second increment is yet to come.                                  *)
CountersTellStatements ==
  /\ failedBy \subseteq verifiedBy
  /\ \A s \in verifiedBy : s \in failedBy \/ sent[s] = "failing" <=> ~Holds(s)

(* main.go and circuit.rs: the circuit proves amount < threshold.          *)
VerifiedMeansBelowThreshold ==
  \A s \in Sessions : outcome[s] = "true" => input[s].amount < Threshold * Parts

(* README of rust-zk and circuit.rs: for an amount above the threshold or  *)
(* a sender equal to the root, proof generation fails.                     *)
NoProofUnlessCompliant ==
  \A s \in Sessions : proof[s] # NoProof => Compliant(s)

-----------------------------------------------------------------------------

(* One RPC at a time; a session that has returned may leave one behind.    *)
CallInv(s) ==
  /\ sent[s] \in Rpc => pc[s] \in {sent[s], "done"}
  /\ sent[s] = "failing" => zkUp /\ pc[s] \in {"verify", "done"}
  /\ reply[s].for # "none" => pc[s] = reply[s].for /\ sent[s] = "none"

HashedInv(s) ==
  pc[s] \in {"hashRoot", "generate", "verify"} \/ sent[s] \in {"generate", "verify"} =>
    /\ input[s].sender # EmptyName
    /\ senderHash[s] = Digest(input[s].sender)

ProofInv(s) ==
  /\ pc[s] = "verify" \/ sent[s] \in {"verify", "failing"} =>
       proof[s] = [keys |-> keys, proves |-> Holds(s)]
  /\ sent[s] = "failing" => s \in verifiedBy /\ ~Holds(s)

ReplyInv(s) ==
  /\ reply[s].for = "hashSender" /\ ~reply[s].error =>
       /\ input[s].sender # EmptyName
       /\ reply[s].hash = Digest(input[s].sender)
  /\ reply[s].for = "generate" =>
       reply[s].proof = [keys |-> keys, proves |-> Holds(s)]
  /\ reply[s].for = "verify" => reply[s].valid = Holds(s)

(* The inductive invariant behind these: what a session, a call and a      *)
(* reply carry at each of the four RPCs, and the one key pair of the setup *)
(* (verifyWithZK, ZkService).                                              *)
IInv ==
  /\ TypeOK
  /\ keys = SetupCircuit(boots)
  /\ ~zkUp => boots <= MaxCrashes
  /\ \A s \in Sessions : CallInv(s) /\ HashedInv(s) /\ ProofInv(s) /\ ReplyInv(s)
  /\ VerifiedMeansCompliant
  /\ RejectedMeansNotCompliant
  /\ CountersTellStatements
=============================================================================
