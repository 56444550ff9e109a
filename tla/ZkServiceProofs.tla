-------------------------- MODULE ZkServiceProofs --------------------------
(***************************************************************************)
(* Proofs about ZkService: the invariant IInv is inductive, and what the   *)
(* session returns is right for every field, threshold, set of inputs,     *)
(* number of sessions and number of restarts.                              *)
(***************************************************************************)
EXTENDS ZkService, ZkCircuitProofs

-----------------------------------------------------------------------------
(* Arithmetic of the statement.                                            *)

(* A quotient is at most t exactly when the number is below t + 1 times the*)
(* divisor.                                                                *)
LEMMA QuotientAtMost ==
  ASSUME NEW n \in Int, NEW d \in Nat \ {0}, NEW t \in Int
  PROVE  n \div d <= t <=> n < (t + 1) * d
<1> DEFINE q == n \div d
<1>1. q \in Int /\ q * d <= n /\ n < (q + 1) * d
  OBVIOUS
<1> HIDE DEF q
<1>2. ASSUME q <= t PROVE n < (t + 1) * d
  <2>1. (q + 1) * d <= (t + 1) * d BY <1>1, <1>2
  <2> QED BY <1>1, <2>1
<1>3. ASSUME t < q PROVE ~(n < (t + 1) * d)
  <2>1. (t + 1) * d <= q * d BY <1>1, <1>3
  <2> QED BY <1>1, <2>1
<1>4. q <= t <=> n < (t + 1) * d BY <1>1, <1>2, <1>3
<1> QED BY <1>4 DEF q

(* Rounding to cents keeps an amount within a whole threshold exactly when *)
(* it is less than half a cent above it, however fine the amounts are.     *)
LEMMA CentsWithin ==
  ASSUME NEW a \in Int, NEW t \in Nat
  PROVE  Cents(a) <= t <=> 2 * a < (2 * t + 1) * Parts
<1>0. Parts \in Nat \ {0} BY InputsAssumption
<1>1. (2 * t + 1) * Parts \in Nat /\ (2 * t + 1) * Parts >= 1 BY <1>0
<1>2. CASE a <= 0 BY <1>1, <1>2 DEF Cents
<1>3. CASE ~(a <= 0)
  <2>1. Cents(a) = (2 * a + Parts) \div (2 * Parts) BY <1>3 DEF Cents
  <2>2. 2 * a + Parts \in Int /\ 2 * Parts \in Nat \ {0} BY <1>0
  <2>3. (2 * a + Parts) \div (2 * Parts) <= t <=> 2 * a + Parts < (t + 1) * (2 * Parts)
    BY <2>2, QuotientAtMost
  <2>4. (t + 1) * (2 * Parts) = (2 * t + 1) * Parts + Parts BY <1>0
  <2> QED BY <1>0, <1>1, <2>1, <2>3, <2>4
<1> QED BY <1>2, <1>3

(* A 64-bit number is a field element.                                     *)
LEMMA WordInField == Word \subseteq Field
<1> DEFINE W == Power[Bits]
<1>1. W \in Nat /\ 2 * W <= P /\ P \in Nat BY FieldSize, FieldAssumption
<1>2. 0..(W - 1) \subseteq 0..(P - 1)
  <2> HIDE DEF W
  <2> QED BY <1>1
<1> QED BY <1>2 DEF Word, Field

(* The field has an element zero.                                          *)
LEMMA FieldNonEmpty == P \in Nat /\ P > 0 /\ 0 \in Field
<1> DEFINE W == Power[Bits]
<1>1. W \in Nat \ {0} /\ 2 * W <= P /\ P \in Nat BY FieldSize, FieldAssumption
<1>2. P > 0
  <2> HIDE DEF W
  <2> QED BY <1>1
<1> QED BY <1>1, <1>2 DEF Field

(* A Poseidon digest is a field element.                                   *)
LEMMA DigestType == ASSUME NEW n \in Nat PROVE Digest(n) \in Field /\ n % P \in Field
<1>1. n % P \in Field BY FieldNonEmpty DEF Field
<1> QED BY <1>1, PoseidonAssumption DEF Digest

(* Names with one digest are the same field element.                       *)
LEMMA DigestInjective ==
  ASSUME NEW m \in Nat, NEW n \in Nat
  PROVE  Digest(m) = Digest(n) <=> m % P = n % P
BY DigestType, PoseidonAssumption DEF Digest

(* Once a session holds the right digest, the statement it asks a proof of *)
(* is that its transaction is compliant and its sender does not collide.   *)
LEMMA StatementIsCompliance ==
  ASSUME TypeOK, NEW s \in Sessions,
         input[s].sender # EmptyName,
         senderHash[s] = Digest(input[s].sender)
  PROVE  Statement(PrivateData(s), PublicData) <=> Holds(s)
<1>1. /\ input[s].amount \in Amounts /\ input[s].amount \in Int
      /\ input[s].sender \in Nat
  BY InputsAssumption DEF TypeOK, Input
<1>2. Cents(input[s].amount) \in Word /\ Threshold \in Word
  BY <1>1, AmountsAssumption, InputsAssumption
<1>3. Minus(Threshold, Cents(input[s].amount)) < Power[Bits]
        <=> Cents(input[s].amount) <= Threshold
  BY <1>2, RangeIsOrder
<1>4. Threshold \in Nat BY <1>2, WordInField DEF Field
<1>5. Cents(input[s].amount) <= Threshold <=> 2 * input[s].amount < (2 * Threshold + 1) * Parts
  BY <1>1, <1>4, CentsWithin
<1>6. senderHash[s] # RootHash <=> input[s].sender % P # SetId % P
  BY <1>1, DigestInjective, InputsAssumption DEF RootHash
<1>7. senderHash[s] # RootHash <=> input[s].sender # SetId /\ ~Collides(s)
  BY <1>6 DEF Collides
<1> QED
  BY <1>3, <1>5, <1>7 DEF Statement, PrivateData, PublicData, Holds, Compliant

-----------------------------------------------------------------------------
(* The invariant.                                                          *)

SessionInv(s) ==
  /\ CallInv(s) /\ HashedInv(s) /\ ProofInv(s) /\ ReplyInv(s)
  /\ outcome[s] = "true" => Compliant(s)
  /\ outcome[s] = "false" => ~Compliant(s) \/ Collides(s)
  /\ s \in verifiedBy => (s \in failedBy \/ sent[s] = "failing" <=> ~Holds(s))

(* IInv, session by session.                                               *)
LEMMA IInvBySession ==
  IInv <=> /\ TypeOK
           /\ keys = 1
           /\ ~zkUp => boots <= MaxCrashes
           /\ failedBy \subseteq verifiedBy
           /\ \A s \in Sessions : SessionInv(s)
BY DEF IInv, SessionInv, VerifiedMeansCompliant, RejectedMeansNotCompliant,
       CountersTellStatements, SetupCircuit, TypeOK

(* The same for the state after a step.                                    *)
LEMMA IInvBySessionNext ==
  ASSUME TypeOK', keys' = 1, ~zkUp' => boots' <= MaxCrashes,
         failedBy' \subseteq verifiedBy',
         \A s \in Sessions : SessionInv(s)'
  PROVE  IInv'
BY DEF IInv, SessionInv, VerifiedMeansCompliant, RejectedMeansNotCompliant,
       CountersTellStatements, SetupCircuit, TypeOK

(* The placeholders have the types of what they stand for.                 *)
LEMMA NoReplyType == NoReply \in Reply /\ NoProof \in Proof
BY FieldNonEmpty, InputsAssumption DEF NoReply, NoProof, Reply, Proof

(* Before the first session the invariant holds.                           *)
LEMMA ZkInitially == Init => IInv
<1> SUFFICES ASSUME Init PROVE IInv OBVIOUS
<1>1. TypeOK
  BY NoReplyType, FieldNonEmpty, InputsAssumption
  DEF Init, TypeOK, Outcome, Place, Rpc, SetupCircuit
<1>2. ASSUME NEW s \in Sessions PROVE SessionInv(s)
  BY DEF Init, SessionInv, CallInv, HashedInv, ProofInv, ReplyInv, NoReply, Rpc
<1>3. keys = 1 /\ zkUp /\ failedBy \subseteq verifiedBy BY DEF Init, SetupCircuit
<1> QED BY <1>1, <1>2, <1>3, IInvBySession

(* A step that changes nothing of session t keeps its invariant.           *)
LEMMA OtherSession ==
  ASSUME NEW t \in Sessions, SessionInv(t), UNCHANGED <<input, keys>>, zkUp => zkUp',
         pc'[t] = pc[t], senderHash'[t] = senderHash[t], proof'[t] = proof[t],
         outcome'[t] = outcome[t], sent'[t] = sent[t], reply'[t] = reply[t],
         (t \in verifiedBy)' <=> t \in verifiedBy,
         (t \in failedBy)' <=> t \in failedBy
  PROVE  SessionInv(t)'
<1>1. /\ Compliant(t)' = Compliant(t) /\ Collides(t)' = Collides(t)
      /\ Holds(t)' = Holds(t)
    BY DEF Compliant, Collides, Holds
<1>2. CallInv(t)' BY DEF SessionInv, CallInv
<1>3. HashedInv(t)' BY DEF SessionInv, HashedInv, Digest
<1>4. ProofInv(t)' BY <1>1 DEF SessionInv, ProofInv
<1>5. ReplyInv(t)' BY <1>1 DEF SessionInv, ReplyInv, Digest
<1> QED BY <1>1, <1>2, <1>3, <1>4, <1>5 DEF SessionInv

(* A session that starts keeps the invariant.                              *)
LEMMA StartStep ==
  ASSUME IInv, NEW s \in Sessions, Start(s) PROVE IInv'
<1> USE DEF Start, Call, serverVars, metrics
<1>1. /\ TypeOK /\ keys = 1 /\ failedBy \subseteq verifiedBy
      /\ ~zkUp => boots <= MaxCrashes
  BY IInvBySession
<1>2. SessionInv(s) BY IInvBySession
<1>3. /\ Compliant(s)' = Compliant(s) /\ Collides(s)' = Collides(s)
      /\ Holds(s)' = Holds(s)
    BY DEF Compliant, Collides, Holds
<1>4. TypeOK' BY <1>1 DEF TypeOK, Place, Rpc
<1>5. SessionInv(s)'
  <2>1. pc'[s] = "hashSender" /\ sent'[s] = "hashSender" BY <1>1 DEF TypeOK
  <2>2. reply[s].for = "none"
    BY <1>1, <1>2 DEF SessionInv, CallInv, TypeOK, Reply, Rpc
  <2>3. CallInv(s)' BY <2>1, <2>2 DEF CallInv
  <2>4. HashedInv(s)' /\ ProofInv(s)' /\ ReplyInv(s)'
    BY <2>1, <2>2 DEF HashedInv, ProofInv, ReplyInv
  <2>5. sent[s] # "failing" BY <1>2 DEF SessionInv, CallInv
  <2> QED BY <1>2, <1>3, <2>1, <2>3, <2>4, <2>5 DEF SessionInv
<1>6. ASSUME NEW t \in Sessions \ {s} PROVE SessionInv(t)'
  <2>1. SessionInv(t) BY IInvBySession
  <2> QED BY <1>1, <2>1, OtherSession DEF TypeOK
<1> QED BY <1>1, <1>4, <1>5, <1>6, IInvBySessionNext

(* A failed RPC ends its session with an error and keeps the invariant.    *)
LEMMA RpcFailsStep ==
  ASSUME IInv, NEW s \in Sessions, RpcFails(s) PROVE IInv'
<1> USE DEF RpcFails, Return, serverVars, metrics
<1>1. /\ TypeOK /\ keys = 1 /\ failedBy \subseteq verifiedBy
      /\ ~zkUp => boots <= MaxCrashes
  BY IInvBySession
<1>2. SessionInv(s) BY IInvBySession
<1>3. /\ Compliant(s)' = Compliant(s) /\ Collides(s)' = Collides(s)
      /\ Holds(s)' = Holds(s)
    BY DEF Compliant, Collides, Holds
<1>4. TypeOK' BY <1>1 DEF TypeOK, Place, Outcome
<1>5. SessionInv(s)'
  <2>1. /\ pc'[s] = "done" /\ outcome'[s] = "error"
        /\ sent'[s] = "none" /\ reply'[s].for = "none" /\ sent[s] # "failing"
    BY <1>1, <1>2 DEF TypeOK, NoReply, SessionInv, CallInv
  <2>2. CallInv(s)' BY <2>1 DEF CallInv, Rpc
  <2>3. HashedInv(s)' BY <1>2, <2>1 DEF SessionInv, HashedInv, Digest
  <2>4. ProofInv(s)' BY <1>2, <1>3, <2>1 DEF SessionInv, ProofInv
  <2>5. ReplyInv(s)' BY <2>1 DEF ReplyInv
  <2> QED BY <1>2, <1>3, <2>1, <2>2, <2>3, <2>4, <2>5 DEF SessionInv
<1>6. ASSUME NEW t \in Sessions \ {s} PROVE SessionInv(t)'
  <2>1. SessionInv(t) BY IInvBySession
  <2> QED BY <1>1, <2>1, OtherSession DEF TypeOK
<1> QED BY <1>1, <1>4, <1>5, <1>6, IInvBySessionNext

(* A session that gives up may leave its call with the service.            *)
LEMMA ExpireStep ==
  ASSUME IInv, NEW s \in Sessions, Expire(s) PROVE IInv'
<1> USE DEF Expire, Return, serverVars, metrics
<1>1. /\ TypeOK /\ keys = 1 /\ failedBy \subseteq verifiedBy
      /\ ~zkUp => boots <= MaxCrashes
  BY IInvBySession
<1>2. SessionInv(s) BY IInvBySession
<1>3. /\ Compliant(s)' = Compliant(s) /\ Collides(s)' = Collides(s)
      /\ Holds(s)' = Holds(s)
    BY DEF Compliant, Collides, Holds
<1>4. TypeOK' BY <1>1, NoReplyType DEF TypeOK, Place, Outcome
<1>5. SessionInv(s)'
  <2>1. /\ pc'[s] = "done" /\ outcome'[s] = "error"
        /\ sent'[s] = sent[s] /\ reply'[s].for = "none"
    BY <1>1, <1>2 DEF TypeOK, NoReply
  <2>2. CallInv(s)' BY <1>2, <2>1 DEF SessionInv, CallInv
  <2>3. HashedInv(s)' BY <1>2, <2>1 DEF SessionInv, HashedInv, Digest
  <2>4. ProofInv(s)' BY <1>2, <1>3, <2>1 DEF SessionInv, ProofInv
  <2>5. ReplyInv(s)' BY <2>1 DEF ReplyInv
  <2> QED BY <1>2, <1>3, <2>1, <2>2, <2>3, <2>4, <2>5 DEF SessionInv
<1>6. ASSUME NEW t \in Sessions \ {s} PROVE SessionInv(t)'
  <2>1. SessionInv(t) BY IInvBySession
  <2> QED BY <1>1, <2>1, OtherSession DEF TypeOK
<1> QED BY <1>1, <1>4, <1>5, <1>6, IInvBySessionNext

(* What a handler's answer does to the calls.                              *)
LEMMA AnswerEffect ==
  ASSUME TypeOK, NEW s \in Sessions, SessionInv(s), NEW r \in Reply,
         \/ sent[s] \in Rpc /\ r.for = sent[s]
         \/ sent[s] = "failing" /\ r.for = "verify",
         Answer(s, r)
  PROVE  /\ sent' \in [Sessions -> Place]
         /\ reply' \in [Sessions -> Reply]
         /\ sent'[s] = "none"
         /\ \/ pc[s] = r.for /\ reply'[s] = r
            \/ pc[s] = "done" /\ reply'[s] = reply[s] /\ reply[s].for = "none"
         /\ \A t \in Sessions \ {s} : sent'[t] = sent[t] /\ reply'[t] = reply[t]
<1>1. pc[s] \in {r.for, "done"} /\ reply[s].for = "none"
  BY DEF SessionInv, CallInv, TypeOK, Reply, Rpc
<1>2. r.for # "done" BY DEF Rpc
<1> QED BY <1>1, <1>2 DEF Answer, TypeOK, Place

(* What the service answers to poseidon_hash.                              *)
LEMMA HashReplyFields ==
  ASSUME TypeOK, NEW s \in Sessions, sent[s] \in {"hashSender", "hashRoot"}
  PROVE  /\ HashReply(s) \in Reply
         /\ HashReply(s).for = sent[s]
         /\ sent[s] = "hashSender" /\ ~HashReply(s).error =>
              /\ input[s].sender # EmptyName
              /\ HashReply(s).hash = Digest(input[s].sender)
<1> DEFINE name == IF sent[s] = "hashSender" THEN input[s].sender ELSE SetId
           err == name = EmptyName
           hash == IF name = EmptyName THEN 0 ELSE Digest(name)
<1>1. name = EmptyName \/ name \in Nat
  BY InputsAssumption DEF TypeOK, Input
<1>2. err \in BOOLEAN /\ hash \in Field BY <1>1, DigestType, FieldNonEmpty
<1>3. sent[s] \in Rpc BY DEF Rpc
<1>4. HashReply(s) = [NoReply EXCEPT !.for = sent[s], !.error = err, !.hash = hash]
  BY DEF HashReply
<1>5. sent[s] = "hashSender" /\ ~err =>
        input[s].sender # EmptyName /\ hash = Digest(input[s].sender)
  OBVIOUS
<1> HIDE DEF err, hash
<1>6. /\ HashReply(s) \in Reply /\ HashReply(s).for = sent[s]
      /\ HashReply(s).error = err /\ HashReply(s).hash = hash
  BY <1>2, <1>3, <1>4, NoReplyType DEF NoReply, Reply
<1> QED BY <1>5, <1>6

(* The proof the service makes says whether its session is compliant.      *)
LEMMA ProofReplyFields ==
  ASSUME TypeOK, keys = 1, NEW s \in Sessions, SessionInv(s), sent[s] = "generate"
  PROVE  /\ ProofReply(s) \in Reply
         /\ ProofReply(s).for = "generate"
         /\ ProofReply(s).proof = [keys |-> keys, proves |-> Holds(s)]
<1>1. Statement(PrivateData(s), PublicData) <=> Holds(s)
  BY StatementIsCompliance DEF SessionInv, HashedInv
<1> DEFINE p == [keys |-> keys, proves |-> Statement(PrivateData(s), PublicData)]
<1>2. p \in Proof
  BY InputsAssumption DEF Proof, Statement
<1>3. p = [keys |-> keys, proves |-> Holds(s)]
  BY <1>1 DEF Statement, Holds, Compliant
<1>4. ProofReply(s) = [NoReply EXCEPT !.for = "generate", !.proof = p]
  BY DEF ProofReply
<1> HIDE DEF p
<1>5. ProofReply(s) \in Reply /\ ProofReply(s).for = "generate" /\ ProofReply(s).proof = p
  BY <1>2, <1>4, NoReplyType DEF NoReply, Reply, Rpc
<1> QED BY <1>3, <1>5

(* The answer to verify_compliance_proof is whether its session is         *)
(* compliant.                                                              *)
LEMMA VerifyReplyFields ==
  ASSUME TypeOK, NEW s \in Sessions, SessionInv(s), sent[s] \in {"verify", "failing"}
  PROVE  /\ VerifyReply(s) \in Reply
         /\ VerifyReply(s).for = "verify"
         /\ VerifyReply(s).valid = Verifies(proof[s])
         /\ Verifies(proof[s]) = Holds(s)
<1>1. proof[s] = [keys |-> keys, proves |-> Holds(s)]
  BY DEF SessionInv, ProofInv
<1> DEFINE c == Holds(s)
           v == Verifies(proof[s])
<1>2. c \in BOOLEAN /\ v \in BOOLEAN BY DEF Holds, Compliant, Verifies
<1>3. v = c
  <2>1. proof[s].proves = c /\ proof[s].keys = keys BY <1>1
  <2>2. v <=> proof[s].proves BY <2>1 DEF Verifies
  <2> HIDE DEF c, v
  <2> QED BY <1>2, <2>1, <2>2
<1>4. VerifyReply(s) = [NoReply EXCEPT !.for = "verify", !.valid = v]
  BY DEF VerifyReply
<1>5. VerifyReply(s) \in Reply /\ VerifyReply(s).for = "verify" /\ VerifyReply(s).valid = v
  <2> HIDE DEF v
  <2> QED BY <1>2, <1>4, NoReplyType DEF NoReply, Reply, Rpc
<1> QED BY <1>3, <1>5

(* Serving poseidon_hash keeps the invariant.                              *)
LEMMA ServeHashStep ==
  ASSUME IInv, NEW s \in Sessions, ServeHash(s) PROVE IInv'
<1> USE DEF ServeHash, clientVars, serverVars, metrics
<1>1. /\ TypeOK /\ keys = 1 /\ failedBy \subseteq verifiedBy
      /\ ~zkUp => boots <= MaxCrashes
  BY IInvBySession
<1>2. SessionInv(s) BY IInvBySession
<1>3. /\ Compliant(s)' = Compliant(s) /\ Collides(s)' = Collides(s)
      /\ Holds(s)' = Holds(s)
    BY DEF Compliant, Collides, Holds
<1>4. /\ HashReply(s) \in Reply
      /\ HashReply(s).for = sent[s]
      /\ sent[s] = "hashSender" /\ ~HashReply(s).error =>
           /\ input[s].sender # EmptyName
           /\ HashReply(s).hash = Digest(input[s].sender)
  BY <1>1, HashReplyFields
<1>5. /\ sent' \in [Sessions -> Place]
      /\ reply' \in [Sessions -> Reply]
      /\ sent'[s] = "none"
      /\ \/ pc[s] = HashReply(s).for /\ reply'[s] = HashReply(s)
         \/ pc[s] = "done" /\ reply'[s] = reply[s] /\ reply[s].for = "none"
      /\ \A t \in Sessions \ {s} : sent'[t] = sent[t] /\ reply'[t] = reply[t]
  BY <1>1, <1>2, <1>4, AnswerEffect DEF Rpc
<1>6. TypeOK' BY <1>1, <1>5 DEF TypeOK
<1>7. SessionInv(s)'
  <2>1. CallInv(s)' BY <1>4, <1>5 DEF CallInv, Rpc
  <2>2. HashedInv(s)' BY <1>2, <1>5 DEF SessionInv, HashedInv, Digest
  <2>3. ProofInv(s)' BY <1>2, <1>3, <1>5 DEF SessionInv, ProofInv
  <2>4. ReplyInv(s)' BY <1>3, <1>4, <1>5 DEF ReplyInv, Digest
  <2>5. sent[s] # "failing" /\ sent'[s] # "failing" BY <1>5
  <2> QED BY <1>2, <1>3, <2>1, <2>2, <2>3, <2>4, <2>5 DEF SessionInv
<1>8. ASSUME NEW t \in Sessions \ {s} PROVE SessionInv(t)'
  <2>1. SessionInv(t) BY IInvBySession
  <2> QED BY <1>1, <1>5, <2>1, OtherSession DEF TypeOK
<1> QED BY <1>1, <1>6, <1>7, <1>8, IInvBySessionNext

(* Serving generate_compliance_proof keeps the invariant.                  *)
LEMMA ServeGenerateStep ==
  ASSUME IInv, NEW s \in Sessions, ServeGenerate(s) PROVE IInv'
<1> USE DEF ServeGenerate, clientVars, serverVars
<1>1. /\ TypeOK /\ keys = 1 /\ failedBy \subseteq verifiedBy
      /\ ~zkUp => boots <= MaxCrashes
  BY IInvBySession
<1>2. SessionInv(s) BY IInvBySession
<1>3. /\ Compliant(s)' = Compliant(s) /\ Collides(s)' = Collides(s)
      /\ Holds(s)' = Holds(s)
    BY DEF Compliant, Collides, Holds
<1>4. /\ ProofReply(s) \in Reply
      /\ ProofReply(s).for = "generate"
      /\ ProofReply(s).proof = [keys |-> keys, proves |-> Holds(s)]
  BY <1>1, <1>2, ProofReplyFields
<1>5. /\ sent' \in [Sessions -> Place]
      /\ reply' \in [Sessions -> Reply]
      /\ sent'[s] = "none"
      /\ \/ pc[s] = ProofReply(s).for /\ reply'[s] = ProofReply(s)
         \/ pc[s] = "done" /\ reply'[s] = reply[s] /\ reply[s].for = "none"
      /\ \A t \in Sessions \ {s} : sent'[t] = sent[t] /\ reply'[t] = reply[t]
  BY <1>1, <1>2, <1>4, AnswerEffect DEF Rpc
<1>6. TypeOK' BY <1>1, <1>5 DEF TypeOK
<1>7. SessionInv(s)'
  <2>1. CallInv(s)' BY <1>4, <1>5 DEF CallInv, Rpc
  <2>2. HashedInv(s)' BY <1>2, <1>5 DEF SessionInv, HashedInv, Digest
  <2>3. ProofInv(s)' BY <1>2, <1>3, <1>5 DEF SessionInv, ProofInv
  <2>4. ReplyInv(s)' BY <1>3, <1>4, <1>5 DEF ReplyInv, Digest
  <2>5. sent[s] # "failing" /\ sent'[s] # "failing" BY <1>5
  <2> QED BY <1>2, <1>3, <2>1, <2>2, <2>3, <2>4, <2>5 DEF SessionInv
<1>8. ASSUME NEW t \in Sessions \ {s} PROVE SessionInv(t)'
  <2>1. SessionInv(t) BY IInvBySession
  <2> QED BY <1>1, <1>5, <2>1, OtherSession DEF TypeOK
<1> QED BY <1>1, <1>6, <1>7, <1>8, IInvBySessionNext

(* The first increment of verify_compliance_proof keeps the invariant: a   *)
(* proof that verifies is answered, one that does not is still to be       *)
(* counted as a failure.                                                   *)
LEMMA ServeVerifyStep ==
  ASSUME IInv, NEW s \in Sessions, ServeVerify(s) PROVE IInv'
<1> USE DEF ServeVerify, clientVars, serverVars
<1>1. /\ TypeOK /\ keys = 1 /\ failedBy \subseteq verifiedBy
      /\ ~zkUp => boots <= MaxCrashes
  BY IInvBySession
<1>2. SessionInv(s) BY IInvBySession
<1>3. /\ Compliant(s)' = Compliant(s) /\ Collides(s)' = Collides(s)
      /\ Holds(s)' = Holds(s)
    BY DEF Compliant, Collides, Holds
<1>4. /\ VerifyReply(s) \in Reply
      /\ VerifyReply(s).for = "verify"
      /\ VerifyReply(s).valid = Verifies(proof[s])
      /\ Verifies(proof[s]) = Holds(s)
  BY <1>1, <1>2, VerifyReplyFields
<1>5. /\ pc[s] \in {"verify", "done"} /\ reply[s].for = "none"
      /\ proof[s] = [keys |-> keys, proves |-> Holds(s)]
      /\ s \in failedBy => ~Holds(s)
  BY <1>1, <1>2 DEF SessionInv, CallInv, ProofInv, Rpc, TypeOK, Reply
<1>6. CASE Verifies(proof[s])
  <2>1. /\ sent' \in [Sessions -> Place]
        /\ reply' \in [Sessions -> Reply]
        /\ sent'[s] = "none"
        /\ \/ pc[s] = VerifyReply(s).for /\ reply'[s] = VerifyReply(s)
           \/ pc[s] = "done" /\ reply'[s] = reply[s] /\ reply[s].for = "none"
        /\ \A t \in Sessions \ {s} : sent'[t] = sent[t] /\ reply'[t] = reply[t]
    BY <1>1, <1>2, <1>4, <1>6, AnswerEffect DEF Rpc
  <2>2. TypeOK' BY <1>1, <2>1 DEF TypeOK
  <2>3. CallInv(s)' BY <1>4, <2>1 DEF CallInv, Rpc
  <2>4. HashedInv(s)' BY <1>2, <2>1 DEF SessionInv, HashedInv, Digest
  <2>5. ProofInv(s)' BY <1>2, <1>3, <2>1 DEF SessionInv, ProofInv
  <2>6. ReplyInv(s)' BY <1>3, <1>4, <2>1 DEF ReplyInv, Digest
  <2>7. Holds(s) BY <1>4, <1>6
  <2>8. SessionInv(s)'
    BY <1>2, <1>3, <1>5, <2>1, <2>3, <2>4, <2>5, <2>6, <2>7 DEF SessionInv
  <2>9. ASSUME NEW t \in Sessions \ {s} PROVE SessionInv(t)'
    <3>1. SessionInv(t) BY IInvBySession
    <3> QED BY <1>1, <2>1, <3>1, OtherSession DEF TypeOK
  <2> QED BY <1>1, <2>2, <2>8, <2>9, IInvBySessionNext
<1>7. CASE ~Verifies(proof[s])
  <2>1. /\ sent' = [sent EXCEPT ![s] = "failing"] /\ UNCHANGED reply
        /\ sent'[s] = "failing" /\ s \in verifiedBy' /\ zkUp'
    BY <1>1, <1>7 DEF TypeOK
  <2>2. TypeOK' BY <1>1, <2>1 DEF TypeOK, Place
  <2>3. CallInv(s)' BY <1>5, <2>1 DEF CallInv, Rpc
  <2>4. HashedInv(s)' BY <1>2, <2>1 DEF SessionInv, HashedInv, Digest
  <2>5. ~Holds(s)
    <3> DEFINE v == Verifies(proof[s])
               h == Holds(s)
    <3>1. v = h /\ ~v BY <1>4, <1>7
    <3> HIDE DEF v, h
    <3>2. ~h BY <3>1
    <3> QED BY <3>2 DEF h
  <2>6. ProofInv(s)' BY <1>3, <1>5, <2>1, <2>5 DEF ProofInv
  <2>7. ReplyInv(s)' BY <1>5, <2>1 DEF ReplyInv
  <2>8. SessionInv(s)'
    BY <1>2, <1>3, <2>1, <2>3, <2>4, <2>5, <2>6, <2>7 DEF SessionInv
  <2>9. ASSUME NEW t \in Sessions \ {s} PROVE SessionInv(t)'
    <3>1. SessionInv(t) BY IInvBySession
    <3> QED BY <1>1, <2>1, <3>1, OtherSession DEF TypeOK
  <2> QED BY <1>1, <2>2, <2>8, <2>9, IInvBySessionNext
<1> QED BY <1>6, <1>7

(* The second increment of verify_compliance_proof, and its answer, keep   *)
(* the invariant.                                                          *)
LEMMA CountFailureStep ==
  ASSUME IInv, NEW s \in Sessions, CountFailure(s) PROVE IInv'
<1> USE DEF CountFailure, clientVars, serverVars
<1>1. /\ TypeOK /\ keys = 1 /\ failedBy \subseteq verifiedBy
      /\ ~zkUp => boots <= MaxCrashes
  BY IInvBySession
<1>2. SessionInv(s) BY IInvBySession
<1>3. /\ Compliant(s)' = Compliant(s) /\ Collides(s)' = Collides(s)
      /\ Holds(s)' = Holds(s)
    BY DEF Compliant, Collides, Holds
<1>4. /\ VerifyReply(s) \in Reply
      /\ VerifyReply(s).for = "verify"
      /\ VerifyReply(s).valid = Verifies(proof[s])
      /\ Verifies(proof[s]) = Holds(s)
  BY <1>1, <1>2, VerifyReplyFields
<1>5. /\ sent' \in [Sessions -> Place]
      /\ reply' \in [Sessions -> Reply]
      /\ sent'[s] = "none"
      /\ \/ pc[s] = VerifyReply(s).for /\ reply'[s] = VerifyReply(s)
         \/ pc[s] = "done" /\ reply'[s] = reply[s] /\ reply[s].for = "none"
      /\ \A t \in Sessions \ {s} : sent'[t] = sent[t] /\ reply'[t] = reply[t]
  BY <1>1, <1>2, <1>4, AnswerEffect
<1>6. s \in verifiedBy /\ ~Holds(s)
  BY <1>2 DEF SessionInv, ProofInv
<1>7. TypeOK' BY <1>1, <1>5 DEF TypeOK
<1>8. SessionInv(s)'
  <2>1. CallInv(s)' BY <1>4, <1>5 DEF CallInv, Rpc
  <2>2. HashedInv(s)' BY <1>2, <1>4, <1>5 DEF SessionInv, HashedInv, Digest
  <2>3. ProofInv(s)' BY <1>2, <1>3, <1>4, <1>5 DEF SessionInv, ProofInv
  <2>4. ReplyInv(s)' BY <1>3, <1>4, <1>5 DEF ReplyInv, Digest
  <2> QED BY <1>2, <1>3, <1>6, <2>1, <2>2, <2>3, <2>4 DEF SessionInv
<1>9. ASSUME NEW t \in Sessions \ {s} PROVE SessionInv(t)'
  <2>1. SessionInv(t) BY IInvBySession
  <2> QED BY <1>1, <1>5, <2>1, OtherSession DEF TypeOK
<1> QED BY <1>1, <1>6, <1>7, <1>8, <1>9, IInvBySessionNext

(* Receiving any of the four answers keeps the invariant.                  *)
LEMMA ReceiveStep ==
  ASSUME IInv, NEW s \in Sessions, Receive(s) PROVE IInv'
<1> USE DEF serverVars, metrics
<1>1. /\ TypeOK /\ keys = 1 /\ failedBy \subseteq verifiedBy
      /\ ~zkUp => boots <= MaxCrashes
  BY IInvBySession
<1>2. SessionInv(s) BY IInvBySession
<1>3. /\ Compliant(s)' = Compliant(s) /\ Collides(s)' = Collides(s)
      /\ Holds(s)' = Holds(s)
    BY DEF Receive, Compliant, Collides, Holds
<1>4. /\ pc[s] \in Rpc /\ reply[s].for = pc[s] /\ sent[s] = "none"
      /\ reply' = [reply EXCEPT ![s] = NoReply]
      /\ UNCHANGED <<input, zkUp, boots, keys, generatedBy, verifiedBy, failedBy>>
  BY <1>1, <1>2 DEF Receive, SessionInv, CallInv, Rpc
<1>5. /\ reply'[s].for = "none"
      /\ reply' \in [Sessions -> Reply]
      /\ reply[s] \in Reply
  BY <1>1, <1>4, NoReplyType DEF TypeOK, NoReply
<1>6. ReplyInv(s)' BY <1>5 DEF ReplyInv
<1>7. TypeOK' /\ SessionInv(s)'
      /\ \A t \in Sessions \ {s} : /\ pc'[t] = pc[t] /\ senderHash'[t] = senderHash[t]
                                  /\ proof'[t] = proof[t] /\ outcome'[t] = outcome[t]
                                  /\ sent'[t] = sent[t] /\ reply'[t] = reply[t]
  <2>1. CASE /\ pc' = [pc EXCEPT ![s] = "done"]
             /\ \E o \in Outcome :
                  /\ outcome' = [outcome EXCEPT ![s] = o]
                  /\ o = "true" => Holds(s)
                  /\ o = "false" => ~Holds(s)
             /\ UNCHANGED <<sent, senderHash, proof>>
    <3>1. PICK o \in Outcome : /\ outcome' = [outcome EXCEPT ![s] = o]
                               /\ o = "true" => Holds(s)
                               /\ o = "false" => ~Holds(s)
      BY <2>1
    <3>2. TypeOK' BY <1>1, <1>4, <1>5, <2>1, <3>1 DEF TypeOK
    <3>3. pc'[s] = "done" /\ outcome'[s] = o /\ sent'[s] = "none"
      BY <1>1, <1>4, <2>1, <3>1 DEF TypeOK
    <3>4. CallInv(s)' BY <1>5, <3>3 DEF CallInv
    <3>5. HashedInv(s)' /\ ProofInv(s)' BY <3>3 DEF HashedInv, ProofInv
    <3>6. /\ o = "true" => Compliant(s)
          /\ o = "false" => ~Compliant(s) \/ Collides(s)
      BY <3>1 DEF Holds
    <3>7. SessionInv(s)'
      BY <1>2, <1>3, <1>4, <1>6, <3>3, <3>4, <3>5, <3>6 DEF SessionInv
    <3> QED BY <1>1, <1>4, <2>1, <3>1, <3>2, <3>7 DEF TypeOK
  <2>2. CASE /\ ~reply[s].error /\ pc[s] = "hashSender"
             /\ senderHash' = [senderHash EXCEPT ![s] = reply[s].hash]
             /\ Call(s, "hashRoot")
             /\ UNCHANGED <<proof, outcome>>
    <3>1. /\ input[s].sender # EmptyName
          /\ reply[s].hash = Digest(input[s].sender)
      BY <1>2, <1>4, <2>2 DEF SessionInv, ReplyInv
    <3>2. TypeOK' BY <1>1, <1>4, <1>5, <2>2 DEF TypeOK, Call, Place, Rpc, Reply
    <3>3. /\ pc'[s] = "hashRoot" /\ sent'[s] = "hashRoot"
          /\ senderHash'[s] = Digest(input[s].sender)
      BY <1>1, <2>2, <3>1 DEF TypeOK, Call
    <3>4. CallInv(s)' BY <1>5, <3>3 DEF CallInv
    <3>5. HashedInv(s)' BY <1>4, <3>1, <3>3 DEF HashedInv, Digest
    <3>6. ProofInv(s)' BY <3>3 DEF ProofInv
    <3>7. SessionInv(s)'
      BY <1>2, <1>3, <1>4, <1>6, <2>2, <3>3, <3>4, <3>5, <3>6 DEF SessionInv
    <3> QED BY <1>1, <1>4, <2>2, <3>2, <3>7 DEF TypeOK, Call
  <2>3. CASE /\ ~reply[s].error /\ pc[s] = "hashRoot"
             /\ Call(s, "generate")
             /\ UNCHANGED <<senderHash, proof, outcome>>
    <3>1. TypeOK' BY <1>1, <1>4, <1>5, <2>3 DEF TypeOK, Call, Place, Rpc
    <3>2. pc'[s] = "generate" /\ sent'[s] = "generate"
      BY <1>1, <2>3 DEF TypeOK, Call
    <3>3. CallInv(s)' BY <1>5, <3>2 DEF CallInv
    <3>4. HashedInv(s)' BY <1>2, <1>4, <2>3 DEF SessionInv, HashedInv, Digest
    <3>5. ProofInv(s)' BY <3>2 DEF ProofInv
    <3>6. SessionInv(s)'
      BY <1>2, <1>3, <1>4, <1>6, <2>3, <3>2, <3>3, <3>4, <3>5 DEF SessionInv
    <3> QED BY <1>1, <1>4, <2>3, <3>1, <3>6 DEF TypeOK, Call
  <2>4. CASE /\ ~reply[s].error /\ pc[s] = "generate"
             /\ proof' = [proof EXCEPT ![s] = reply[s].proof]
             /\ Call(s, "verify")
             /\ UNCHANGED <<senderHash, outcome>>
    <3>1. reply[s].proof = [keys |-> keys, proves |-> Holds(s)]
      BY <1>2, <1>4, <2>4 DEF SessionInv, ReplyInv
    <3>2. TypeOK' BY <1>1, <1>4, <1>5, <2>4 DEF TypeOK, Call, Place, Rpc, Reply
    <3>3. /\ pc'[s] = "verify" /\ sent'[s] = "verify"
          /\ proof'[s] = reply[s].proof
      BY <1>1, <2>4 DEF TypeOK, Call
    <3>4. CallInv(s)' BY <1>5, <3>3 DEF CallInv
    <3>5. HashedInv(s)' BY <1>2, <1>4, <2>4 DEF SessionInv, HashedInv, Digest
    <3>6. ProofInv(s)' BY <1>3, <1>4, <3>1, <3>3 DEF ProofInv
    <3>7. SessionInv(s)'
      BY <1>2, <1>3, <1>4, <1>6, <2>4, <3>3, <3>4, <3>5, <3>6 DEF SessionInv
    <3> QED BY <1>1, <1>4, <2>4, <3>2, <3>7 DEF TypeOK, Call
  <2>5. CASE reply[s].error /\ Return(s, "error") /\ UNCHANGED <<sent, senderHash, proof>>
    BY <2>1, <2>5 DEF Return, Outcome
  <2>6. CASE /\ ~reply[s].error /\ pc[s] = "verify"
             /\ Return(s, IF reply[s].valid THEN "true" ELSE "false")
             /\ UNCHANGED <<sent, senderHash, proof>>
    <3> DEFINE o == IF reply[s].valid THEN "true" ELSE "false"
    <3>1. reply[s].valid = Holds(s)
      BY <1>2, <1>4, <2>6 DEF SessionInv, ReplyInv
    <3>2. /\ o \in Outcome
          /\ o = "true" => Holds(s)
          /\ o = "false" => ~Holds(s)
      BY <3>1 DEF Outcome
    <3>3. outcome' = [outcome EXCEPT ![s] = o] BY <2>6 DEF Return
    <3> HIDE DEF o
    <3> QED BY <2>1, <2>6, <3>2, <3>3 DEF Return
  <2> QED BY <2>2, <2>3, <2>4, <2>5, <2>6 DEF Receive
<1>8. ASSUME NEW t \in Sessions \ {s} PROVE SessionInv(t)'
  <2>1. SessionInv(t) BY IInvBySession
  <2> QED BY <1>4, <1>7, <2>1, OtherSession
<1> QED BY <1>1, <1>4, <1>7, <1>8, IInvBySessionNext

(* A crash of the service keeps the invariant: no session trusts a lost    *)
(* call.                                                                   *)
LEMMA CrashStep == ASSUME IInv, Crash PROVE IInv'
<1> USE DEF Crash, clientVars
<1>1. TypeOK /\ keys = 1 BY IInvBySession
<1>2. PICK lost \in SUBSET Sessions :
        reply' = [s \in Sessions |-> IF s \in lost THEN NoReply ELSE reply[s]]
  OBVIOUS
<1>3. TypeOK' BY <1>1, <1>2, NoReplyType DEF TypeOK, Place
<1>4. ASSUME NEW s \in Sessions PROVE SessionInv(s)'
  <2>1. SessionInv(s) BY IInvBySession
  <2>2. sent'[s] = "none" /\ (reply'[s] = reply[s] \/ reply'[s].for = "none")
    BY <1>2 DEF NoReply
  <2>3. /\ Compliant(s)' = Compliant(s) /\ Collides(s)' = Collides(s)
        /\ Holds(s)' = Holds(s)
      BY DEF Compliant, Collides, Holds
  <2>4. CallInv(s)' BY <2>1, <2>2 DEF SessionInv, CallInv, Rpc
  <2>5. HashedInv(s)' BY <2>1, <2>2 DEF SessionInv, HashedInv, Digest
  <2>6. ProofInv(s)' BY <2>1, <2>2, <2>3 DEF SessionInv, ProofInv
  <2>7. ReplyInv(s)' BY <2>1, <2>2, <2>3 DEF SessionInv, ReplyInv, Digest
  <2> QED BY <2>1, <2>3, <2>4, <2>5, <2>6, <2>7 DEF SessionInv
<1> QED BY <1>1, <1>3, <1>4, IInvBySessionNext DEF TypeOK

(* Here the constant seed of the setup matters.                            *)
LEMMA RestartStep == ASSUME IInv, Restart PROVE IInv'
<1> USE DEF Restart, clientVars, metrics
<1>1. /\ TypeOK /\ keys = 1 /\ failedBy \subseteq verifiedBy
      /\ ~zkUp => boots <= MaxCrashes
  BY IInvBySession
<1>2. keys' = keys BY <1>1 DEF SetupCircuit
<1>3. TypeOK' BY <1>1, <1>2, InputsAssumption DEF TypeOK
<1>4. ASSUME NEW s \in Sessions PROVE SessionInv(s)'
  <2>1. SessionInv(s) BY IInvBySession
  <2> QED BY <1>2, <2>1, OtherSession
<1> QED BY <1>1, <1>2, <1>3, <1>4, IInvBySessionNext

(* Nothing changing changes nothing.                                       *)
LEMMA StutterStep == ASSUME IInv, UNCHANGED vars PROVE IInv'
<1> USE DEF vars
<1>1. /\ TypeOK /\ keys = 1 /\ failedBy \subseteq verifiedBy
      /\ ~zkUp => boots <= MaxCrashes
  BY IInvBySession
<1>2. TypeOK' BY <1>1 DEF TypeOK
<1>3. ASSUME NEW s \in Sessions PROVE SessionInv(s)'
  <2>1. SessionInv(s) BY IInvBySession
  <2> QED BY <2>1, OtherSession
<1> QED BY <1>1, <1>2, <1>3, IInvBySessionNext

-----------------------------------------------------------------------------
(* Results.                                                                *)

(* IInv of ZkService holds in every reachable state.                       *)
THEOREM ZkInvariance == Spec => []IInv
<1>1. Init => IInv BY ZkInitially
<1>2. IInv /\ [Next]_vars => IInv'
  <2> SUFFICES ASSUME IInv, [Next]_vars PROVE IInv' OBVIOUS
  <2>1. ASSUME NEW s \in Sessions,
               \/ Start(s) \/ Receive(s) \/ RpcFails(s) \/ Expire(s)
               \/ ServeHash(s) \/ ServeGenerate(s) \/ ServeVerify(s)
               \/ CountFailure(s)
        PROVE  IInv'
    BY <2>1, StartStep, ReceiveStep, RpcFailsStep, ExpireStep, ServeHashStep,
       ServeGenerateStep, ServeVerifyStep, CountFailureStep
  <2> QED BY <2>1, CrashStep, RestartStep, StutterStep DEF Next
<1> QED BY <1>1, <1>2, PTL DEF Spec

(* TypeOK of ZkService, for every instance.                                *)
THEOREM ZkTypeCorrect == Spec => []TypeOK
BY ZkInvariance, PTL DEF IInv

(* verifyWithZK returns true only for a compliant transaction, whatever    *)
(* the field, the threshold and the restarts of the service.               *)
THEOREM VerifiedTheorem == Spec => []VerifiedMeansCompliant
BY ZkInvariance, PTL DEF IInv

(* It returns false without an error only for one that is not.             *)
THEOREM RejectedTheorem == Spec => []RejectedMeansNotCompliant
BY ZkInvariance, PTL DEF IInv

(* The service's counters tell true statements from false ones.            *)
THEOREM CountersTheorem == Spec => []CountersTellStatements
BY ZkInvariance, PTL DEF IInv
=============================================================================
