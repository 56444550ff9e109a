--------------------------- MODULE PipelineProofs ---------------------------
(***************************************************************************)
(* Theorems about Pipeline, for every set of requests and ids, every set of*)
(* faults, every pool size and any number of crashes.                      *)
(***************************************************************************)
EXTENDS PipelineInvariant, PipelineRefinement, FiniteSetTheorems, TLAPS

(* What each assignment does to a response.                                *)
LEMMA ClearedResponse ==
  \A x \in Response :
    /\ Cleared(x) \in Response
    /\ ~Cleared(x).flagged
    /\ Cleared(x).sar = x.sar
    /\ Cleared(x).zk = x.zk
  BY DEF Response, Cleared

(* verifyWithZK's result changes neither the flag nor the SAR.             *)
LEMMA VerifiedResponse ==
  \A x \in Response, ok \in BOOLEAN :
    /\ Verified(x, ok) \in Response
    /\ Verified(x, ok).flagged = x.flagged
    /\ Verified(x, ok).sar = x.sar
  BY DEF Response, Verified

(* The assignments of the LLM branch flag the response.                    *)
LEMMA FlaggedResponse ==
  \A x \in Response : Flagged(x) \in Response /\ Flagged(x).flagged
  BY DEF Response, Flagged

(* The assignments of the SAR branch flag the response too.                *)
LEMMA ReportedResponse ==
  \A x \in Response, text \in Requests \cup {None} :
    Reported(x, text) \in Response /\ Reported(x, text).flagged
  BY DEF Response, Reported

(* A step of any actor keeps every variable in its type.                   *)
LEMMA TypeStep == TypeOK /\ [Next]_vars => TypeOK'
<1> SUFFICES ASSUME TypeOK, [Next]_vars PROVE TypeOK'
  OBVIOUS
<1> USE RequestsAssumption, TxOfAssumption, BoundsAssumption
<1> USE DEF TypeOK, Stage, Working, Finished, Verdict, Goto, procVars, dbVars,
            counters
<1>1. ASSUME NEW r \in Requests, Accept(r) PROVE TypeOK'
  BY <1>1 DEF Accept
<1>2. ASSUME NEW r \in Requests, RejectBody(r) PROVE TypeOK'
  BY <1>2 DEF RejectBody
<1>3. ASSUME NEW r \in Requests, NerClean(r) PROVE TypeOK'
  <2>1. resp' = [resp EXCEPT ![r] = Cleared(resp[r])]
    BY <1>3 DEF NerClean
  <2>2. resp' \in [Requests -> Response]
    BY <2>1, ClearedResponse
  <2>3. QED
    BY <1>3, <2>2 DEF NerClean
<1>4. ASSUME NEW r \in Requests, NerSuspicious(r) PROVE TypeOK'
  BY <1>4 DEF NerSuspicious
<1>5. ASSUME NEW r \in Requests, NerFail(r) PROVE TypeOK'
  BY <1>5 DEF NerFail
<1>6. ASSUME NEW r \in Requests, VerifyWithZk(r) PROVE TypeOK'
  <2>1. PICK ok \in BOOLEAN : resp' = [resp EXCEPT ![r] = Verified(resp[r], ok)]
    BY <1>6 DEF VerifyWithZk, ZkAnswers
  <2>2. resp' \in [Requests -> Response]
    BY <2>1, VerifiedResponse
  <2>3. QED
    BY <1>6, <2>2 DEF VerifyWithZk
<1>7. ASSUME NEW r \in Requests, LlmAnswer(r) PROVE TypeOK'
  <2>1. PICK text \in {r, None} : resp' = [resp EXCEPT ![r] = Reported(resp[r], text)]
    BY <1>7 DEF LlmAnswer
  <2>2. resp' \in [Requests -> Response]
    BY <2>1, ReportedResponse
  <2>3. QED
    BY <1>7, <2>2 DEF LlmAnswer
<1>8. ASSUME NEW r \in Requests, LlmFail(r) PROVE TypeOK'
  <2>1. resp' = [resp EXCEPT ![r] = Flagged(resp[r])]
    BY <1>8 DEF LlmFail
  <2>2. resp' \in [Requests -> Response]
    BY <2>1, FlaggedResponse
  <2>3. QED
    BY <1>8, <2>2 DEF LlmFail
<1>9. ASSUME NEW r \in Requests, StoreSend(r) PROVE TypeOK'
  BY <1>9 DEF StoreSend
<1>10. ASSUME NEW r \in Requests, StoreOk(r) \/ StoreFail(r) PROVE TypeOK'
  BY <1>10 DEF StoreOk, StoreFail, StoreReturn
<1>11. ASSUME NEW r \in Requests, DbApply(r) PROVE TypeOK'
  <2>1. Upsert(rows[TxOf[r]], r) \in Row
    <3>1. rows[TxOf[r]] \in Row /\ resp[r] \in Response
      OBVIOUS
    <3>2. QED
      BY <3>1 DEF Upsert, Row, Response
  <2>2. rows' \in [TxIds -> Row]
    BY <1>11, <2>1 DEF DbApply
  <2>3. QED
    BY <1>11, <2>2 DEF DbApply
<1>12. ASSUME NEW r \in Requests, DbReject(r) PROVE TypeOK'
  BY <1>12 DEF DbReject
<1>13. ASSUME NEW r \in Requests,
              PublishTx(r) \/ PublishFlagged(r) \/ PublishSar(r)
       PROVE TypeOK'
  <2>1. events' \subseteq Channel \X Requests
    BY <1>13 DEF PublishTx, PublishFlagged, PublishSar, Publish, Channel
  <2>2. pc' \in [Requests -> Stage]
    BY <1>13 DEF PublishTx, PublishFlagged, PublishSar
  <2>3. PublishUnchanged
    BY <1>13 DEF PublishTx, PublishFlagged, PublishSar
  <2>4. QED
    BY <2>1, <2>2, <2>3 DEF PublishUnchanged
<1>14. ASSUME NEW r \in Requests, CountOk(r) \/ CountFlagged(r) \/ CountSar(r)
       PROVE TypeOK'
  <2>1. pc' \in [Requests -> Stage]
    BY <1>14 DEF CountOk, CountFlagged, CountSar
  <2>2. /\ okCount' \subseteq Requests
        /\ flagCount' \subseteq Requests
        /\ sarCount' \subseteq Requests
    BY <1>14 DEF CountOk, CountFlagged, CountSar
  <2>3. CountUnchanged
    BY <1>14 DEF CountOk, CountFlagged, CountSar
  <2>4. QED
    BY <2>1, <2>2, <2>3 DEF CountUnchanged
<1>15. ASSUME NEW r \in Requests, Reply(r) PROVE TypeOK'
  BY <1>15 DEF Reply
<1>16. ASSUME NEW r \in Requests, Disconnect(r) PROVE TypeOK'
  BY <1>16 DEF Disconnect
<1>17. CASE Crash
  <2>1. pc' \in [Requests -> Stage]
    BY <1>17 DEF Crash
  <2>2. up' \in BOOLEAN
    BY <1>17 DEF Crash
  <2>3. crashes' \in 0..MaxCrashes
    <3>1. crashes \in Nat /\ MaxCrashes \in Nat /\ crashes < MaxCrashes
          /\ crashes' = crashes + 1
      BY <1>17 DEF Crash
    <3>2. QED
      BY <3>1
  <2>4. QED
    BY <1>17, <2>1, <2>2, <2>3 DEF Crash
<1>18. CASE Restart
  BY <1>18 DEF Restart
<1>19. CASE UNCHANGED vars
  BY <1>19 DEF vars
<1>20. QED
  BY <1>1, <1>2, <1>3, <1>4, <1>5, <1>6, <1>7, <1>8, <1>9, <1>10, <1>11, <1>12,
     <1>13, <1>14, <1>15, <1>16, <1>17, <1>18, <1>19
     DEF Next, HandlerStep, StoreEnds, DbStep

(* Every variable keeps its type in every behaviour.                       *)
THEOREM TypeCorrect == Spec => []TypeOK
<1>1. Init => TypeOK
  BY RequestsAssumption, BoundsAssumption
     DEF Init, TypeOK, Stage, Verdict, Response, NoResponse, Row, NoRow
<1>2. QED
  BY <1>1, TypeStep, PTL DEF Spec

-----------------------------------------------------------------------------
(* The inductive invariant, one lemma per conjunct.                        *)

(* Each handler keeps to the verdict and response of its stage: only the   *)
(* four calls change the response, and only before the store.              *)
LEMMA StageStep ==
  ASSUME IInv, [Next]_vars, NEW q \in Requests
  PROVE  StageInv(q)'
<1> USE DEF IInv, TypeOK, StageInv, Settled, Undecided, Working, Goto
<1>1. ASSUME NEW r \in Requests, Accept(r) \/ RejectBody(r) \/ NerFail(r)
      PROVE StageInv(q)'
  BY <1>1 DEF Accept, RejectBody, NerFail
<1>2. ASSUME NEW r \in Requests, NerClean(r) PROVE StageInv(q)'
  BY <1>2, ClearedResponse DEF NerClean
<1>3. ASSUME NEW r \in Requests, NerSuspicious(r) PROVE StageInv(q)'
  BY <1>3 DEF NerSuspicious
<1>4. ASSUME NEW r \in Requests, VerifyWithZk(r) PROVE StageInv(q)'
  <2>1. PICK ok \in BOOLEAN : resp' = [resp EXCEPT ![r] = Verified(resp[r], ok)]
    BY <1>4 DEF VerifyWithZk, ZkAnswers
  <2>2. QED
    BY <1>4, <2>1, VerifiedResponse DEF VerifyWithZk
<1>5. ASSUME NEW r \in Requests, LlmAnswer(r) PROVE StageInv(q)'
  BY <1>5, ReportedResponse DEF LlmAnswer
<1>6. ASSUME NEW r \in Requests, LlmFail(r) PROVE StageInv(q)'
  BY <1>6, FlaggedResponse DEF LlmFail
<1>7. ASSUME NEW r \in Requests, StoreSend(r) \/ StoreOk(r) \/ StoreFail(r)
      PROVE StageInv(q)'
  BY <1>7 DEF StoreSend, StoreOk, StoreFail, StoreReturn
<1>8. ASSUME NEW r \in Requests, DbStep(r) \/ Disconnect(r) PROVE StageInv(q)'
  BY <1>8 DEF DbStep, DbApply, DbReject, Disconnect
<1>9. ASSUME NEW r \in Requests, PublishTx(r) \/ PublishFlagged(r) \/ PublishSar(r)
      PROVE StageInv(q)'
  BY <1>9 DEF PublishTx, PublishFlagged, PublishSar, PublishUnchanged
<1>10. ASSUME NEW r \in Requests, CountOk(r) \/ CountFlagged(r) \/ CountSar(r)
       PROVE StageInv(q)'
  BY <1>10 DEF CountOk, CountFlagged, CountSar, CountUnchanged
<1>11. ASSUME NEW r \in Requests, Reply(r) PROVE StageInv(q)'
  BY <1>11 DEF Reply
<1>12. CASE Crash
  BY <1>12 DEF Crash
<1>13. CASE Restart \/ UNCHANGED vars
  BY <1>13 DEF Restart, vars
<1>14. QED
  BY <1>1, <1>2, <1>3, <1>4, <1>5, <1>6, <1>7, <1>8, <1>9, <1>10, <1>11, <1>12,
     <1>13 DEF Next, HandlerStep, StoreEnds

(* A request becomes announced only by its own PUBLISH.                    *)
LEMMA AnnouncedFrame ==
  UNCHANGED events => \A q \in Requests : Announced(q)' <=> Announced(q)
  BY DEF Announced

(* A PUBLISH announces its own request and no other.                       *)
LEMMA AnnouncedByPublish ==
  \A r \in Requests :
    PublishTx(r) \/ PublishFlagged(r) \/ PublishSar(r)
      => \A q \in Requests : Announced(q)' => Announced(q) \/ q = r
  BY DEF PublishTx, PublishFlagged, PublishSar, Publish, Announced, Channel

(* Nothing leaves a handler before its flag is settled.                    *)
LEMMA EscapeStep ==
  ASSUME IInv, [Next]_vars, NEW q \in Requests
  PROVE  EscapeInv(q)'
<1> USE DEF IInv, TypeOK, EscapeInv, StageInv, Settled, Visible,
            Undecided, Working, Goto,
            dbVars, counters
<1>1. ASSUME NEW r \in Requests, Accept(r) \/ RejectBody(r) \/ NerFail(r)
      PROVE EscapeInv(q)'
  BY <1>1, AnnouncedFrame DEF Accept, RejectBody, NerFail
<1>2. ASSUME NEW r \in Requests, NerClean(r) PROVE EscapeInv(q)'
  BY <1>2, AnnouncedFrame DEF NerClean
<1>3. ASSUME NEW r \in Requests, NerSuspicious(r) PROVE EscapeInv(q)'
  BY <1>3, AnnouncedFrame DEF NerSuspicious
<1>4. ASSUME NEW r \in Requests, VerifyWithZk(r) PROVE EscapeInv(q)'
  BY <1>4, AnnouncedFrame DEF VerifyWithZk
<1>5. ASSUME NEW r \in Requests, LlmAnswer(r) PROVE EscapeInv(q)'
  BY <1>5, AnnouncedFrame DEF LlmAnswer
<1>6. ASSUME NEW r \in Requests, LlmFail(r) PROVE EscapeInv(q)'
  BY <1>6, AnnouncedFrame DEF LlmFail
<1>7. ASSUME NEW r \in Requests, StoreSend(r) PROVE EscapeInv(q)'
  BY <1>7, AnnouncedFrame DEF StoreSend
<1>8. ASSUME NEW r \in Requests, StoreOk(r) \/ StoreFail(r)
      PROVE EscapeInv(q)'
  BY <1>8, AnnouncedFrame DEF StoreOk, StoreFail, StoreReturn
<1>9. ASSUME NEW r \in Requests, DbStep(r) \/ Disconnect(r)
      PROVE EscapeInv(q)'
  BY <1>9, AnnouncedFrame DEF DbStep, DbApply, DbReject, Disconnect
<1>10. ASSUME NEW r \in Requests, PublishTx(r) \/ PublishFlagged(r) \/ PublishSar(r)
      PROVE EscapeInv(q)'
  BY <1>10, AnnouncedByPublish DEF PublishTx, PublishFlagged, PublishSar, PublishUnchanged
<1>11. ASSUME NEW r \in Requests, CountOk(r) \/ CountFlagged(r) \/ CountSar(r)
      PROVE EscapeInv(q)'
  BY <1>11, AnnouncedFrame DEF CountOk, CountFlagged, CountSar, CountUnchanged
<1>12. ASSUME NEW r \in Requests, Reply(r) PROVE EscapeInv(q)'
  BY <1>12, AnnouncedFrame DEF Reply
<1>13. CASE Crash
  BY <1>13, AnnouncedFrame DEF Crash
<1>14. CASE Restart \/ UNCHANGED vars
  BY <1>14, AnnouncedFrame DEF Restart, vars
<1>15. QED
  BY <1>1, <1>2, <1>3, <1>4, <1>5, <1>6, <1>7, <1>8, <1>9, <1>10, <1>11,
     <1>12, <1>13, <1>14 DEF Next, HandlerStep, StoreEnds

(* A status is written exactly when a handler returns.                     *)
LEMMA StatusStep ==
  ASSUME IInv, [Next]_vars, NEW q \in Requests
  PROVE  StatusInv(q)'
<1> USE DEF IInv, TypeOK, StatusInv, StageInv, Settled, Undecided, Working, Goto,
            dbVars, counters
<1>1. ASSUME NEW r \in Requests, Accept(r) \/ RejectBody(r) \/ NerFail(r)
      PROVE StatusInv(q)'
  BY <1>1 DEF Accept, RejectBody, NerFail
<1>2. ASSUME NEW r \in Requests, NerClean(r) PROVE StatusInv(q)'
  BY <1>2 DEF NerClean
<1>3. ASSUME NEW r \in Requests, NerSuspicious(r) PROVE StatusInv(q)'
  BY <1>3 DEF NerSuspicious
<1>4. ASSUME NEW r \in Requests, VerifyWithZk(r) PROVE StatusInv(q)'
  BY <1>4 DEF VerifyWithZk
<1>5. ASSUME NEW r \in Requests, LlmAnswer(r) PROVE StatusInv(q)'
  BY <1>5 DEF LlmAnswer
<1>6. ASSUME NEW r \in Requests, LlmFail(r) PROVE StatusInv(q)'
  BY <1>6 DEF LlmFail
<1>7. ASSUME NEW r \in Requests, StoreSend(r) PROVE StatusInv(q)'
  BY <1>7 DEF StoreSend
<1>8. ASSUME NEW r \in Requests, StoreOk(r) \/ StoreFail(r)
      PROVE StatusInv(q)'
  BY <1>8 DEF StoreOk, StoreFail, StoreReturn
<1>9. ASSUME NEW r \in Requests, DbStep(r) \/ Disconnect(r)
      PROVE StatusInv(q)'
  BY <1>9 DEF DbStep, DbApply, DbReject, Disconnect
<1>10. ASSUME NEW r \in Requests, PublishTx(r) \/ PublishFlagged(r) \/ PublishSar(r)
      PROVE StatusInv(q)'
  BY <1>10 DEF PublishTx, PublishFlagged, PublishSar, PublishUnchanged
<1>11. ASSUME NEW r \in Requests, CountOk(r) \/ CountFlagged(r) \/ CountSar(r)
      PROVE StatusInv(q)'
  BY <1>11 DEF CountOk, CountFlagged, CountSar, CountUnchanged
<1>12. ASSUME NEW r \in Requests, Reply(r) PROVE StatusInv(q)'
  BY <1>12 DEF Reply
<1>13. CASE Crash
  BY <1>13 DEF Crash
<1>14. CASE Restart \/ UNCHANGED vars
  BY <1>14 DEF Restart, vars
<1>15. QED
  BY <1>1, <1>2, <1>3, <1>4, <1>5, <1>6, <1>7, <1>8, <1>9, <1>10, <1>11,
     <1>12, <1>13, <1>14 DEF Next, HandlerStep, StoreEnds

(* The store's result is known before anything is said.                    *)
LEMMA SpokenStep ==
  ASSUME IInv, [Next]_vars, NEW q \in Requests
  PROVE  SpokenInv(q)'
<1> USE DEF IInv, TypeOK, SpokenInv, StageInv, Stored, Undecided,
            Working, Goto, dbVars, counters
<1>1. ASSUME NEW r \in Requests, Accept(r) \/ RejectBody(r) \/ NerFail(r)
      PROVE SpokenInv(q)'
  BY <1>1, AnnouncedFrame DEF Accept, RejectBody, NerFail
<1>2. ASSUME NEW r \in Requests, NerClean(r) PROVE SpokenInv(q)'
  BY <1>2, AnnouncedFrame DEF NerClean
<1>3. ASSUME NEW r \in Requests, NerSuspicious(r) PROVE SpokenInv(q)'
  BY <1>3, AnnouncedFrame DEF NerSuspicious
<1>4. ASSUME NEW r \in Requests, VerifyWithZk(r) PROVE SpokenInv(q)'
  BY <1>4, AnnouncedFrame DEF VerifyWithZk
<1>5. ASSUME NEW r \in Requests, LlmAnswer(r) PROVE SpokenInv(q)'
  BY <1>5, AnnouncedFrame DEF LlmAnswer
<1>6. ASSUME NEW r \in Requests, LlmFail(r) PROVE SpokenInv(q)'
  BY <1>6, AnnouncedFrame DEF LlmFail
<1>7. ASSUME NEW r \in Requests, StoreSend(r) PROVE SpokenInv(q)'
  BY <1>7, AnnouncedFrame DEF StoreSend
<1>8. ASSUME NEW r \in Requests, StoreOk(r) \/ StoreFail(r)
      PROVE SpokenInv(q)'
  BY <1>8, AnnouncedFrame DEF StoreOk, StoreFail, StoreReturn
<1>9. ASSUME NEW r \in Requests, DbStep(r) \/ Disconnect(r)
      PROVE SpokenInv(q)'
  BY <1>9, AnnouncedFrame DEF DbStep, DbApply, DbReject, Disconnect
<1>10. ASSUME NEW r \in Requests, PublishTx(r) \/ PublishFlagged(r) \/ PublishSar(r)
      PROVE SpokenInv(q)'
  BY <1>10, AnnouncedByPublish DEF PublishTx, PublishFlagged, PublishSar, PublishUnchanged
<1>11. ASSUME NEW r \in Requests, CountOk(r) \/ CountFlagged(r) \/ CountSar(r)
      PROVE SpokenInv(q)'
  BY <1>11, AnnouncedFrame DEF CountOk, CountFlagged, CountSar, CountUnchanged
<1>12. ASSUME NEW r \in Requests, Reply(r) PROVE SpokenInv(q)'
  BY <1>12, AnnouncedFrame DEF Reply
<1>13. CASE Crash
  BY <1>13, AnnouncedFrame DEF Crash
<1>14. CASE Restart \/ UNCHANGED vars
  BY <1>14, AnnouncedFrame DEF Restart, vars
<1>15. QED
  BY <1>1, <1>2, <1>3, <1>4, <1>5, <1>6, <1>7, <1>8, <1>9, <1>10, <1>11,
     <1>12, <1>13, <1>14 DEF Next, HandlerStep, StoreEnds

(* A handler's increments come in the order of the code.                   *)
LEMMA CountStep ==
  ASSUME IInv, [Next]_vars, NEW q \in Requests
  PROVE  CountInv(q)'
<1> USE DEF IInv, TypeOK, CountInv, StageInv, Undecided, Working, Goto,
            dbVars, counters
<1>1. ASSUME NEW r \in Requests, Accept(r) \/ RejectBody(r) \/ NerFail(r)
      PROVE CountInv(q)'
  BY <1>1 DEF Accept, RejectBody, NerFail
<1>2. ASSUME NEW r \in Requests, NerClean(r) PROVE CountInv(q)'
  BY <1>2 DEF NerClean
<1>3. ASSUME NEW r \in Requests, NerSuspicious(r) PROVE CountInv(q)'
  BY <1>3 DEF NerSuspicious
<1>4. ASSUME NEW r \in Requests, VerifyWithZk(r) PROVE CountInv(q)'
  BY <1>4 DEF VerifyWithZk
<1>5. ASSUME NEW r \in Requests, LlmAnswer(r) PROVE CountInv(q)'
  BY <1>5 DEF LlmAnswer
<1>6. ASSUME NEW r \in Requests, LlmFail(r) PROVE CountInv(q)'
  BY <1>6 DEF LlmFail
<1>7. ASSUME NEW r \in Requests, StoreSend(r) PROVE CountInv(q)'
  BY <1>7 DEF StoreSend
<1>8. ASSUME NEW r \in Requests, StoreOk(r) \/ StoreFail(r)
      PROVE CountInv(q)'
  BY <1>8 DEF StoreOk, StoreFail, StoreReturn
<1>9. ASSUME NEW r \in Requests, DbStep(r) \/ Disconnect(r)
      PROVE CountInv(q)'
  BY <1>9 DEF DbStep, DbApply, DbReject, Disconnect
<1>10. ASSUME NEW r \in Requests, PublishTx(r) \/ PublishFlagged(r) \/ PublishSar(r)
      PROVE CountInv(q)'
  BY <1>10 DEF PublishTx, PublishFlagged, PublishSar, PublishUnchanged
<1>11. ASSUME NEW r \in Requests, CountOk(r) \/ CountFlagged(r) \/ CountSar(r)
      PROVE CountInv(q)'
  BY <1>11 DEF CountOk, CountFlagged, CountSar, CountUnchanged
<1>12. ASSUME NEW r \in Requests, Reply(r) PROVE CountInv(q)'
  BY <1>12 DEF Reply
<1>13. CASE Crash
  BY <1>13 DEF Crash
<1>14. CASE Restart \/ UNCHANGED vars
  BY <1>14 DEF Restart, vars
<1>15. QED
  BY <1>1, <1>2, <1>3, <1>4, <1>5, <1>6, <1>7, <1>8, <1>9, <1>10, <1>11,
     <1>12, <1>13, <1>14 DEF Next, HandlerStep, StoreEnds

(* Rows change only when the database executes a statement.                *)
LEMMA OnlyDbApplyWrites ==
  [Next]_vars => UNCHANGED <<rows, applied>> \/ \E r \in Requests : DbApply(r)
  BY DEF Next, vars, HandlerStep, StoreEnds, DbStep, dbVars, Accept, RejectBody, NerClean,
         NerSuspicious, NerFail, VerifyWithZk, LlmAnswer, LlmFail, StoreSend,
         StoreOk, StoreFail, StoreReturn, DbReject, PublishTx, PublishFlagged,
         PublishSar, PublishUnchanged, CountOk, CountFlagged, CountSar,
         CountUnchanged, Reply, Disconnect, Crash, Restart

(* A response no longer changes once its request is past the LLM call.     *)
LEMMA ResponseFrame ==
  ASSUME TypeOK, [Next]_vars, NEW q \in Requests, pc[q] \notin Undecided
  PROVE  resp'[q] = resp[q]
<1>1. \/ UNCHANGED resp
      \/ \E r \in Requests : \E x :
           pc[r] \in Undecided /\ resp' = [resp EXCEPT ![r] = x]
  BY DEF Next, vars, HandlerStep, StoreEnds, DbStep, Undecided, Accept, RejectBody,
         NerClean, NerSuspicious, NerFail, VerifyWithZk, LlmAnswer, LlmFail,
         StoreSend, StoreOk, StoreFail, StoreReturn, DbApply, DbReject,
         PublishTx, PublishFlagged, PublishSar, PublishUnchanged, CountOk,
         CountFlagged, CountSar, CountUnchanged, Reply, Disconnect, Crash, Restart
<1>2. QED
  BY <1>1 DEF TypeOK

(* A row belongs to an executed statement and holds its whole outcome.     *)
LEMMA RecordStep ==
  ASSUME IInv, [Next]_vars
  PROVE  RecordInv'
<1>1. CASE UNCHANGED <<rows, applied>>
  BY <1>1 DEF IInv, RecordInv
<1>2. ASSUME NEW r \in Requests, DbApply(r) PROVE RecordInv'
  <2>1. /\ applied' = applied \cup {r}
        /\ rows' = [rows EXCEPT ![TxOf[r]] = Upsert(rows[TxOf[r]], r)]
        /\ TxOf[r] \in TxIds
        /\ Upsert(rows[TxOf[r]], r).by = r
    BY <1>2, TxOfAssumption DEF DbApply, Upsert, IInv, TypeOK
  <2>2. QED
    BY <2>1, RequestsAssumption DEF IInv, TypeOK, RecordInv
<1>3. QED
  BY <1>1, <1>2, OnlyDbApplyWrites

(* A row stays the whole outcome of one request.                           *)
LEMMA RowStep ==
  ASSUME IInv, [Next]_vars
  PROVE  RowIsOneOutcome'
<1>1. ASSUME NEW id \in TxIds, rows[id].by # None
      PROVE  LET r == rows[id].by IN r \in Requests /\ resp'[r] = resp[r]
  <2>1. rows[id].by \in applied /\ rows[id].by \in Requests
    BY <1>1 DEF IInv, RecordInv, TypeOK
  <2>2. pc[rows[id].by] \notin Undecided
    BY <2>1 DEF IInv, EscapeInv, Visible
  <2>3. QED
    BY <2>1, <2>2, ResponseFrame DEF IInv
<1>2. CASE UNCHANGED <<rows, applied>>
  BY <1>1, <1>2 DEF IInv, RowIsOneOutcome
<1>3. ASSUME NEW r \in Requests, DbApply(r) PROVE RowIsOneOutcome'
  <2>1. /\ rows' = [rows EXCEPT ![TxOf[r]] = Upsert(rows[TxOf[r]], r)]
        /\ UNCHANGED resp
        /\ TxOf[r] \in TxIds
        /\ rows[TxOf[r]] \in Row
        /\ resp[r] \in Response
    BY <1>3, TxOfAssumption DEF DbApply, IInv, TypeOK
  <2>2. Upsert(rows[TxOf[r]], r)
          = [by |-> r, flagged |-> resp[r].flagged, sar |-> resp[r].sar,
             narrative |-> resp[r].narrative, zk |-> resp[r].zk]
    BY DEF Upsert
  <2>3. QED
    BY <2>1, <2>2 DEF RowIsOneOutcome, IInv, TypeOK
<1>4. QED
  BY <1>2, <1>3, OnlyDbApplyWrites

(* The counters' sets stay nested.                                         *)
LEMMA NestedStep ==
  ASSUME IInv, [Next]_vars
  PROVE  (sarCount \subseteq flagCount /\ flagCount \subseteq okCount)'
<1> USE DEF IInv, CountInv, StageInv, Undecided, Working
<1>1. CASE UNCHANGED <<okCount, flagCount, sarCount>>
  BY <1>1
<1>2. ASSUME NEW r \in Requests, CountOk(r) \/ CountFlagged(r) \/ CountSar(r)
      PROVE (sarCount \subseteq flagCount /\ flagCount \subseteq okCount)'
  BY <1>2 DEF CountOk, CountFlagged, CountSar
<1>3. CASE Crash
  BY <1>3 DEF Crash
<1>4. \/ UNCHANGED <<okCount, flagCount, sarCount>>
      \/ \E r \in Requests : CountOk(r) \/ CountFlagged(r) \/ CountSar(r)
      \/ Crash
  BY DEF Next, vars, counters, HandlerStep, StoreEnds, DbStep, Accept, RejectBody, NerClean,
         NerSuspicious, NerFail, VerifyWithZk, LlmAnswer, LlmFail, StoreSend,
         StoreOk, StoreFail, StoreReturn, DbApply, DbReject, PublishTx,
         PublishFlagged, PublishSar, PublishUnchanged, Reply, Disconnect, Restart
<1>5. QED
  BY <1>1, <1>2, <1>3, <1>4

(* A statement is sent once, so one that is still with the database has   *)
(* not been executed.                                                      *)
LEMMA PendingStep ==
  ASSUME IInv, [Next]_vars
  PROVE  (stmts \cap applied = {})'
<1>1. \/ UNCHANGED <<stmts, applied>>
      \/ \E r \in Requests : StoreSend(r) \/ DbApply(r) \/ DbReject(r)
  BY DEF Next, vars, HandlerStep, StoreEnds, DbStep, dbVars, Accept, RejectBody,
         NerClean, NerSuspicious, NerFail, VerifyWithZk, LlmAnswer, LlmFail,
         StoreOk, StoreFail, StoreReturn, PublishTx, PublishFlagged, PublishSar,
         PublishUnchanged, CountOk, CountFlagged, CountSar, CountUnchanged,
         Reply, Disconnect, Crash, Restart
<1>2. ASSUME NEW r \in Requests, StoreSend(r) PROVE (stmts \cap applied = {})'
  <2>1. r \notin applied
    BY <1>2 DEF StoreSend, IInv, EscapeInv, Visible
  <2>2. QED
    BY <1>2, <2>1 DEF StoreSend, IInv
<1>3. ASSUME NEW r \in Requests, DbApply(r) \/ DbReject(r)
      PROVE (stmts \cap applied = {})'
  BY <1>3 DEF DbApply, DbReject, IInv
<1>4. CASE UNCHANGED <<stmts, applied>>
  BY <1>4 DEF IInv
<1>5. QED
  BY <1>1, <1>2, <1>3, <1>4

-----------------------------------------------------------------------------
(* The invariant holds throughout.                                         *)
LEMMA InitIInv == Init => IInv
<1> SUFFICES ASSUME Init PROVE IInv
  OBVIOUS
<1>1. TypeOK
  BY RequestsAssumption, BoundsAssumption
     DEF Init, TypeOK, Stage, Verdict, Response, NoResponse, Row, NoRow
<1>2. ASSUME NEW r \in Requests
      PROVE StageInv(r) /\ EscapeInv(r) /\ StatusInv(r) /\ SpokenInv(r) /\ CountInv(r)
  BY DEF Init, StageInv, EscapeInv, StatusInv, SpokenInv, CountInv, Visible,
         Announced, NoResponse, Stored, Working, Undecided
<1>3. RecordInv /\ RowIsOneOutcome
  BY DEF Init, RecordInv, RowIsOneOutcome, NoRow
<1>4. QED
  BY <1>1, <1>2, <1>3 DEF Init, IInv

(* Every step of every actor keeps the inductive invariant.                *)
LEMMA StepIInv == IInv /\ [Next]_vars => IInv'
<1> SUFFICES ASSUME IInv, [Next]_vars PROVE IInv'
  OBVIOUS
<1>1. TypeOK'
  BY TypeStep DEF IInv
<1>2. ASSUME NEW r \in Requests
      PROVE (StageInv(r) /\ EscapeInv(r) /\ StatusInv(r) /\ SpokenInv(r)
             /\ CountInv(r))'
  BY StageStep, EscapeStep, StatusStep, SpokenStep, CountStep
<1>3. QED
  BY <1>1, <1>2, RecordStep, RowStep, NestedStep, PendingStep DEF IInv

(* The strengthened invariant is an invariant of every behaviour.          *)
THEOREM Invariance == Spec => []IInv
  BY InitIInv, StepIInv, PTL DEF Spec

(* Fail-safe: what leaves a handler is flagged exactly when NER said so.   *)
THEOREM FlagTheorem == Spec => []FlagFollowsNer
<1>1. IInv => FlagFollowsNer
  BY DEF IInv, StageInv, EscapeInv, Settled, FlagFollowsNer, TypeOK
<1>2. QED
  BY <1>1, Invariance, PTL

(* A row never mixes the outcomes of two requests.                         *)
THEOREM RowTheorem == Spec => []RowIsOneOutcome
<1>1. IInv => RowIsOneOutcome
  BY DEF IInv
<1>2. QED
  BY <1>1, Invariance, PTL

(* A refused request leaves no row, event, statement or count.             *)
THEOREM RefusalTheorem == Spec => []RefusalLeavesNoTrace
<1>1. IInv => RefusalLeavesNoTrace
  <2> SUFFICES ASSUME IInv, NEW r \in Requests, status[r] \in {400, 500}
               PROVE  ~Visible(r) /\ \A id \in TxIds : rows[id].by # r
    BY DEF RefusalLeavesNoTrace
  <2>1. ~Visible(r)
    BY DEF IInv, StatusInv, EscapeInv, Settled
  <2>2. r \notin applied /\ r # None
    BY <2>1, RequestsAssumption DEF Visible
  <2>3. QED
    BY <2>1, <2>2 DEF IInv, RecordInv
<1>2. QED
  BY <1>1, Invariance, PTL

(* Nothing is announced or answered before it is recorded or known lost.   *)
THEOREM RecordedTheorem == Spec => []RecordedBeforeAnnounced
<1>1. IInv => RecordedBeforeAnnounced
  BY DEF IInv, SpokenInv, RecordInv, RecordedBeforeAnnounced
<1>2. QED
  BY <1>1, Invariance, PTL

(* The counters are ordered between any two increments.                    *)
THEOREM CountersTheorem == Spec => []CountersOrdered
<1>1. IInv => CountersOrdered
  <2> SUFFICES ASSUME IInv PROVE CountersOrdered
    OBVIOUS
  <2>1. IsFiniteSet(okCount) /\ IsFiniteSet(flagCount)
    BY RequestsAssumption, FS_Subset DEF IInv, TypeOK
  <2>2. QED
    BY <2>1, FS_Subset DEF IInv, CountersOrdered
<1>2. QED
  BY <1>1, Invariance, PTL

(* Only a request whose store was reported as failed can still overwrite a *)
(* row after it was announced or answered.                                 *)
THEOREM LateTheorem == Spec => NoLateOverwrite
<1>1. IInv /\ [Next]_vars =>
        [\A id \in TxIds : rows'[id] # rows[id] =>
           LET r == rows'[id].by IN
             Announced(r) \/ status[r] = 200 => r \in storeFailed]_vars
  <2> SUFFICES ASSUME IInv, [Next]_vars, NEW id \in TxIds, rows'[id] # rows[id]
               PROVE  LET r == rows'[id].by IN
                        Announced(r) \/ status[r] = 200 => r \in storeFailed
    OBVIOUS
  <2>1. PICK r \in Requests : DbApply(r)
    BY OnlyDbApplyWrites
  <2>2. rows'[id].by = r
    BY <2>1, TxOfAssumption DEF DbApply, Upsert, IInv, TypeOK
  <2>3. r \notin applied
    BY <2>1 DEF DbApply, IInv
  <2>4. QED
    BY <2>2, <2>3 DEF IInv, SpokenInv
<1>2. QED
  BY <1>1, Invariance, PTL DEF Spec, NoLateOverwrite

(* Every answer of GetStatistics is coherent.                              *)
THEOREM StatisticsTheorem == Spec => []StatisticsCoherent
<1>1. IInv => StatisticsCoherent
  <2> SUFFICES ASSUME IInv PROVE StatisticsCoherent
    OBVIOUS
  <2>1. \A id \in TxIds : /\ rows[id].sar => rows[id].flagged
                          /\ rows[id].flagged => rows[id].by # None
    BY DEF IInv, TypeOK, RecordInv, RowIsOneOutcome, StageInv
  <2> DEFINE S == {id \in TxIds : rows[id].sar}
             F == {id \in TxIds : rows[id].flagged}
             T == {id \in TxIds : rows[id].by # None}
  <2>2. S \subseteq F /\ F \subseteq T /\ T \subseteq TxIds
    BY <2>1
  <2>3. IsFiniteSet(T) /\ IsFiniteSet(F)
    BY <2>2, TxOfAssumption, FS_Subset
  <2>4. Cardinality(S) <= Cardinality(F) /\ Cardinality(F) <= Cardinality(T)
    BY <2>2, <2>3, FS_Subset
  <2>5. QED
    BY <2>4 DEF StatisticsCoherent, StatSars, StatFlagged, StatTotal
<1>2. QED
  BY <1>1, Invariance, PTL

-----------------------------------------------------------------------------
(***************************************************************************)
(* The Go pipeline implements Compliance, for every value of the constants.*)
(***************************************************************************)

(* The abstract decision looks only at verdict, response and status.       *)
LEMMA DecisionFrame ==
  UNCHANGED <<verdict, resp, status>>
    => [r \in Requests |-> DecisionOf(r)]' = [r \in Requests |-> DecisionOf(r)]
  BY DEF DecisionOf

(* What the mapped decision is for a settled request, and for one that has *)
(* not been answered by NER or LLM yet.                                    *)
LEMMA DecisionOfSettled ==
  ASSUME IInv, NEW r \in Requests, Settled(r)
  PROVE  /\ DecisionOf(r) = OutcomeOf(resp[r].flagged, resp[r].sar)
         /\ DecisionOf(r) \in Abstract!Decided
  BY DEF IInv, StatusInv, Settled, DecisionOf, OutcomeOf, Abstract!Decided

(* In the stages before the store nothing is decided yet.                  *)
LEMMA DecisionOfUndecided ==
  ASSUME IInv, NEW r \in Requests, pc[r] \in Undecided
  PROVE  DecisionOf(r) = "open"
  BY DEF IInv, StageInv, StatusInv, Undecided, DecisionOf, TypeOK

(* The initial states of the pipeline are initial states of Compliance.    *)
LEMMA Initial == Init => Abstract!CInit
  BY RequestsAssumption DEF Init, Abstract!CInit, DecisionOf, EntryOf, NoRow,
     NoResponse, Abstract!NoEntry

(* Steps Compliance cannot see.                                            *)
LEMMA Stutter ==
  UNCHANGED <<verdict, resp, status, rows, storeFailed, events>>
    => UNCHANGED Abstract!cvars
  BY DecisionFrame DEF Abstract!cvars, EntryOf

(* A step that settles one request's decision and touches nothing else.    *)
LEMMA DecideStep ==
  ASSUME IInv, NEW r \in Requests, pc[r] \in Undecided,
         UNCHANGED <<rows, storeFailed, events>>,
         \A q \in Requests \ {r} : UNCHANGED <<verdict[q], resp[q], status[q]>>,
         (status[r] = 200)' <=> status[r] = 200,
         DecisionOf(r)' \in {"open", "refused"} \cup Abstract!Decided
  PROVE  [Abstract!CNext]_Abstract!cvars
<1> DEFINE D == [q \in Requests |-> DecisionOf(q)]
<1>1. \A q \in Requests \ {r} : DecisionOf(q)' = DecisionOf(q)
  BY DEF DecisionOf
<1>0. D' = [D EXCEPT ![r] = DecisionOf(r)']
  <2>1. D' = [q \in Requests |-> DecisionOf(q)']
    OBVIOUS
  <2>2. QED
    BY <1>1, <2>1
<1>2. D[r] = "open"
  BY DecisionOfUndecided
<1>3. UNCHANGED <<[id \in TxIds |-> EntryOf(rows[id])], storeFailed, events,
                  {q \in Requests : status[q] = 200}>>
  BY DEF EntryOf
<1>4. CASE DecisionOf(r)' = "open"
  <2>1. D' = D
    <3>1. DecisionOf(r) = "open"
      BY DecisionOfUndecided
    <3>2. \A q \in Requests : DecisionOf(q)' = DecisionOf(q)
      BY <1>1, <1>4, <3>1
    <3>3. QED
      BY <3>2
  <2>2. QED
    BY <1>3, <2>1 DEF Abstract!cvars
<1>5. CASE DecisionOf(r)' = "refused"
  <2>1. Abstract!Refuse(r)
    BY <1>0, <1>2, <1>3, <1>5 DEF Abstract!Refuse
  <2>2. QED
    BY <2>1 DEF Abstract!CNext
<1>6. CASE DecisionOf(r)' \in Abstract!Decided
  <2>1. Abstract!Decide(r)
    BY <1>0, <1>2, <1>3, <1>6 DEF Abstract!Decide
  <2>2. QED
    BY <2>1 DEF Abstract!CNext
<1>7. QED
  BY <1>4, <1>5, <1>6

(* Every step of the pipeline is a step of Compliance or a stutter.        *)
LEMMA Simulation ==
  ASSUME IInv, [Next]_vars
  PROVE  [Abstract!CNext]_Abstract!cvars
<1> USE DEF procVars, dbVars, counters
<1>0. TypeOK
  BY DEF IInv
<1>1. ASSUME NEW r \in Requests,
             \/ Accept(r) \/ VerifyWithZk(r) \/ NerSuspicious(r)
             \/ NerClean(r) \/ LlmAnswer(r) \/ LlmFail(r)
             \/ RejectBody(r) \/ NerFail(r)
      PROVE  [Abstract!CNext]_Abstract!cvars
  <2>1. pc[r] \in Undecided /\ status[r] = 0
    BY <1>0, <1>1 DEF Accept, VerifyWithZk, NerSuspicious, NerClean, LlmAnswer,
       LlmFail, RejectBody, NerFail, Undecided, IInv, StatusInv
  <2>2. UNCHANGED <<rows, storeFailed, events>>
    BY <1>1 DEF Accept, VerifyWithZk, NerSuspicious, NerClean, LlmAnswer,
       LlmFail, RejectBody, NerFail
  <2>3. /\ \A q \in Requests \ {r} : UNCHANGED <<verdict[q], resp[q], status[q]>>
        /\ status'[r] # 200
    BY <1>0, <1>1, <2>1 DEF TypeOK, Accept, VerifyWithZk, NerSuspicious, NerClean,
       LlmAnswer, LlmFail, RejectBody, NerFail
  <2>4. DecisionOf(r)' \in {"open", "refused"} \cup Abstract!Decided
    BY DEF DecisionOf, OutcomeOf, Abstract!Decided
  <2>5. QED
    BY <2>1, <2>2, <2>3, <2>4, DecideStep
<1>2. ASSUME NEW r \in Requests, DbApply(r) PROVE Abstract!Record(r)
  <2>1. Settled(r)
    BY <1>2 DEF DbApply, IInv, EscapeInv, Visible
  <2>2. /\ UNCHANGED <<verdict, resp, status, storeFailed, events>>
        /\ rows' = [rows EXCEPT ![TxOf[r]] = Upsert(rows[TxOf[r]], r)]
        /\ TxOf[r] \in TxIds
    BY <1>2, TxOfAssumption DEF DbApply
  <2>3. EntryOf(Upsert(rows[TxOf[r]], r)) = [by |-> r, decision |-> DecisionOf(r)]
    BY <2>1, DecisionOfSettled, RequestsAssumption DEF EntryOf, Upsert
  <2>4. [id \in TxIds |-> EntryOf(rows[id])]'
          = [[id \in TxIds |-> EntryOf(rows[id])]
               EXCEPT ![TxOf[r]] = [by |-> r, decision |-> DecisionOf(r)]]
    <3>1. \A id \in TxIds : rows'[id] = IF id = TxOf[r] THEN Upsert(rows[TxOf[r]], r)
                                        ELSE rows[id]
      BY <1>0, <2>2 DEF TypeOK
    <3>2. [id \in TxIds |-> EntryOf(rows[id])]' = [id \in TxIds |-> EntryOf(rows'[id])]
      BY DEF EntryOf
    <3>3. QED
      BY <2>3, <3>1, <3>2
  <2>5. QED
    BY <2>1, <2>2, <2>4, DecisionFrame, DecisionOfSettled DEF Abstract!Record
<1>3. ASSUME NEW r \in Requests, StoreFail(r) PROVE Abstract!RecordFails(r)
  <2>1. Settled(r)
    BY <1>3 DEF StoreFail, IInv, StageInv, Working, Undecided
  <2>2. UNCHANGED <<verdict, resp, status, rows, events>>
        /\ storeFailed' = storeFailed \cup {r}
    BY <1>3 DEF StoreFail, StoreReturn
  <2>3. QED
    BY <2>1, <2>2, DecisionFrame, DecisionOfSettled DEF Abstract!RecordFails, EntryOf
<1>4. ASSUME NEW r \in Requests,
             PublishTx(r) \/ PublishFlagged(r) \/ PublishSar(r)
      PROVE  Abstract!Announce(r) \/ UNCHANGED Abstract!cvars
  <2>1. Settled(r) /\ Abstract!Accounted(r)
    BY <1>4, RequestsAssumption, TxOfAssumption
       DEF PublishTx, PublishFlagged, PublishSar, IInv, StageInv, SpokenInv,
           RecordInv, Stored, Working, Undecided, Abstract!Accounted, EntryOf
  <2>2. UNCHANGED <<verdict, resp, status, rows, storeFailed>>
    BY <1>4 DEF PublishTx, PublishFlagged, PublishSar, PublishUnchanged
  <2>3. CASE UNCHANGED events
    BY <2>2, <2>3, Stutter
  <2>4. ASSUME NEW ch \in Abstract!ChannelsOf(DecisionOf(r)),
               events' = events \cup {<<ch, r>>}
        PROVE  Abstract!Announce(r)
    BY <2>1, <2>2, <2>4, DecisionFrame, DecisionOfSettled
       DEF Abstract!Announce, EntryOf
  <2>5. UNCHANGED events \/ \E ch \in Abstract!ChannelsOf(DecisionOf(r)) :
                              events' = events \cup {<<ch, r>>}
    BY <1>4, <2>1, DecisionOfSettled
       DEF PublishTx, PublishFlagged, PublishSar, Publish, OutcomeOf,
           Abstract!ChannelsOf
  <2>6. QED
    BY <2>3, <2>4, <2>5
<1>5. ASSUME NEW r \in Requests, Reply(r) PROVE Abstract!Answer(r)
  <2>1. Settled(r) /\ Abstract!Accounted(r) /\ status[r] = 0
    BY <1>5, RequestsAssumption, TxOfAssumption
       DEF Reply, IInv, StageInv, StatusInv, SpokenInv, RecordInv, Stored, Working,
           Undecided, Abstract!Accounted, EntryOf
  <2>2. UNCHANGED <<verdict, resp, rows, storeFailed, events>>
        /\ status' = [status EXCEPT ![r] = 200]
    BY <1>5 DEF Reply
  <2>3. \A q \in Requests : DecisionOf(q)' = DecisionOf(q)
    BY <1>0, <2>1, <2>2 DEF DecisionOf, TypeOK
  <2>4. {q \in Requests : status'[q] = 200} = {q \in Requests : status[q] = 200} \cup {r}
    BY <1>0, <2>2 DEF TypeOK
  <2>5. QED
    BY <2>1, <2>2, <2>3, <2>4, DecisionOfSettled DEF Abstract!Answer, EntryOf
<1>6. ASSUME NEW r \in Requests,
             \/ StoreSend(r) \/ StoreOk(r) \/ DbReject(r) \/ Disconnect(r)
             \/ CountOk(r) \/ CountFlagged(r) \/ CountSar(r)
      PROVE  UNCHANGED Abstract!cvars
  BY <1>6, Stutter DEF StoreSend, StoreOk, StoreReturn, DbReject, Disconnect,
     CountOk, CountFlagged, CountSar, CountUnchanged
<1>7. CASE Crash \/ Restart \/ UNCHANGED vars
  BY <1>7, Stutter DEF Crash, Restart, vars
<1>8. QED
  BY <1>1, <1>2, <1>3, <1>4, <1>5, <1>6, <1>7
     DEF Next, HandlerStep, StoreEnds, DbStep, Abstract!CNext

(* The pipeline, crashes and lost clients included, implements Compliance. *)
THEOREM RefinementTheorem == Spec => ImplementsCompliance
<1>1. Init => Abstract!CInit
  BY Initial
<1>2. IInv /\ [Next]_vars => [Abstract!CNext]_Abstract!cvars
  BY Simulation
<1>3. QED
  BY <1>1, <1>2, Invariance, PTL DEF Spec, ImplementsCompliance, Abstract!CSpec
=============================================================================
