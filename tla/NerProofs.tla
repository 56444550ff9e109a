----------------------------- MODULE NerProofs -----------------------------
(***************************************************************************)
(* Proofs about Ner: IInv is inductive; an answer never carries a verdict  *)
(* of another process's list, and Redis never makes a request fail.        *)
(***************************************************************************)
EXTENDS Ner, TLAPS

RequestInv(r) ==
  /\ HandlerInv(r)
  /\ outcome[r] = "ok" =>
       entities[r] = [names |-> Gliner[TextOf[r]],
                      flagged |-> Gliner[TextOf[r]] \cap listAt[r].names]
  /\ outcome[r] = "failed" => listAt[r].broken \/ r \in raised

(* IInv, request by request.                                               *)
LEMMA IInvByRequest ==
  IInv <=> TypeOK /\ CacheIsRaw /\ \A r \in Requests : RequestInv(r)
BY DEF IInv, RequestInv, AnswerFollowsList, FailureIsNeverRedis

(* The same for the state after a step.                                    *)
LEMMA IInvByRequestNext ==
  ASSUME TypeOK', CacheIsRaw', \A r \in Requests : RequestInv(r)'
  PROVE  IInv'
BY DEF IInv, RequestInv, AnswerFollowsList, FailureIsNeverRedis

(* What _run_gliner returns is a prediction, the built-in list a list.     *)
LEMMA RawType ==
  ASSUME NEW x \in Texts
  PROVE  Raw(x) \in Prediction /\ BuiltinList \in SanctionsList
BY NerAssumption DEF Raw, Prediction, BuiltinList, SanctionsList

(* A service that has never started satisfies the invariant.               *)
LEMMA NerInitially == Init => IInv
<1> SUFFICES ASSUME Init PROVE IInv OBVIOUS
<1>1. TypeOK
  <2>1. BuiltinList \in SanctionsList /\ NoEntities \in Prediction
    BY NerAssumption DEF BuiltinList, SanctionsList, NoEntities, Prediction
  <2>2. starts \in 0..MaxStarts BY NerAssumption DEF Init
  <2> QED BY <2>1, <2>2 DEF Init, TypeOK
<1>2. CacheIsRaw BY DEF Init, CacheIsRaw
<1>3. ASSUME NEW r \in Requests PROVE RequestInv(r)
  BY DEF Init, RequestInv, HandlerInv
<1> QED BY <1>1, <1>2, <1>3, IInvByRequest

(* A step that changes nothing of request r keeps its invariant.           *)
LEMMA OtherRequest ==
  ASSUME NEW r \in Requests, RequestInv(r),
         pc'[r] = pc[r], entities'[r] = entities[r], outcome'[r] = outcome[r],
         listAt'[r] = listAt[r], r \in raised => (r \in raised)',
         (r \in found)' => r \in found
  PROVE  RequestInv(r)'
BY DEF RequestInv, HandlerInv, Raw

(* Matching turns the model's output into an answer by the list.           *)
LEMMA EnhanceRaw ==
  ASSUME NEW x
  PROVE  Enhance(Raw(x)) = [names |-> Gliner[x],
                            flagged |-> Gliner[x] \cap sanctions.names]
<1>1. Raw(x).flagged = {} /\ Raw(x).names = Gliner[x] BY DEF Raw
<1>2. Enhance(Raw(x)) = [names |-> Raw(x).names,
                         flagged |-> Raw(x).flagged
                                       \cup (Raw(x).names \cap sanctions.names)]
  BY DEF Enhance, Raw
<1>3. {} \cup (Gliner[x] \cap sanctions.names) = Gliner[x] \cap sanctions.names
  OBVIOUS
<1> QED BY <1>1, <1>2, <1>3

(* Finishing with the model's raw output answers by the list in memory.    *)
LEMMA FinishStep ==
  ASSUME IInv, NEW r \in Requests, NEW counted \in BOOLEAN, NEW e,
         e = Raw(TextOf[r]), Finish(r, e, counted), pc[r] # "done",
         UNCHANGED processVars
  PROVE  /\ pc' \in [Requests -> {"new", "get", "set", "done", "lost"}]
         /\ entities' \in [Requests -> Prediction]
         /\ outcome' \in [Requests -> {"none", "ok", "failed"}]
         /\ listAt' \in [Requests -> SanctionsList]
         /\ raised' \subseteq Requests
         /\ found' \subseteq Requests
         /\ \A q \in Requests : RequestInv(q)'
<1> USE DEF Finish, processVars
<1>1. TypeOK /\ RequestInv(r) BY IInvByRequest
<1>2. TextOf[r] \in Texts /\ sanctions \in SanctionsList /\ Gliner[TextOf[r]] \subseteq Names
  BY <1>1, NerAssumption DEF TypeOK
<1>3. Enhance(e) = [names |-> Gliner[TextOf[r]],
                    flagged |-> Gliner[TextOf[r]] \cap sanctions.names]
  BY EnhanceRaw
<1>4. e \in Prediction /\ Enhance(e) \in Prediction
  <2>1. Gliner[TextOf[r]] \cap sanctions.names \subseteq Names BY <1>2
  <2>2. Enhance(e) \in Prediction BY <1>2, <1>3, <2>1 DEF Prediction
  <2> QED BY <1>2, <2>2, RawType
<1>5. /\ pc' \in [Requests -> {"new", "get", "set", "done", "lost"}]
      /\ outcome' \in [Requests -> {"none", "ok", "failed"}]
      /\ listAt' \in [Requests -> SanctionsList]
      /\ raised' \subseteq Requests
      /\ found' \subseteq Requests
  BY <1>1, <1>2 DEF TypeOK
<1>6. entities' \in [Requests -> Prediction]
  BY <1>1, <1>4 DEF TypeOK
<1>7. pc'[r] = "done" /\ listAt'[r] = sanctions BY <1>1 DEF TypeOK
<1>8. RequestInv(r)'
  <2>1. CASE Raises(e)
    <3>1. outcome'[r] = "failed" /\ found' = found BY <1>1, <2>1 DEF TypeOK
    <3>2. sanctions.broken BY <2>1 DEF Raises
    <3>3. r \notin found BY <1>1 DEF RequestInv, HandlerInv
    <3>4. HandlerInv(r)' BY <1>7, <3>1, <3>3 DEF HandlerInv
    <3> QED BY <1>7, <3>1, <3>2, <3>4 DEF RequestInv
  <2>2. CASE ~Raises(e)
    <3>1. outcome'[r] = "ok" /\ entities'[r] = Enhance(e)
      BY <1>1, <2>2 DEF TypeOK
    <3>2. r \in found' => r \in found \/ Enhance(e).flagged # {} BY <2>2
    <3>3. r \in found => Enhance(e).flagged # {}
      BY <1>1 DEF RequestInv, HandlerInv
    <3>4. HandlerInv(r)' BY <1>7, <3>1, <3>2, <3>3 DEF HandlerInv
    <3>5. entities'[r] = [names |-> Gliner[TextOf[r]],
                          flagged |-> Gliner[TextOf[r]] \cap sanctions.names]
      BY <3>1, <1>3
    <3> QED BY <1>7, <3>1, <3>4, <3>5 DEF RequestInv
  <2> QED BY <2>1, <2>2
<1>9. ASSUME NEW q \in Requests \ {r} PROVE RequestInv(q)'
  <2>1. RequestInv(q) BY IInvByRequest
  <2> QED BY <1>1, <2>1, OtherRequest DEF TypeOK
<1> QED BY <1>5, <1>6, <1>8, <1>9

(* A handler that finishes, whatever it does to the cache.                 *)
LEMMA FinishAction ==
  ASSUME IInv, NEW r \in Requests, pc[r] \in {"new", "get", "set"},
         NEW counted \in BOOLEAN, Finish(r, Raw(TextOf[r]), counted),
         UNCHANGED <<processVars, redisUp, published>>,
         cache' \in [Texts -> Prediction \cup {None}], CacheIsRaw'
  PROVE  IInv'
<1>1. pc[r] # "done" /\ UNCHANGED processVars /\ UNCHANGED <<redisUp, published>>
  OBVIOUS
<1>2. TypeOK'
  BY <1>1, FinishStep, IInvByRequest DEF TypeOK, processVars
<1>3. \A q \in Requests : RequestInv(q)'
  BY <1>1, FinishStep
<1> QED BY <1>2, <1>3, IInvByRequestNext

(* A handler whose inference raises.                                       *)
LEMMA RaiseAction ==
  ASSUME IInv, NEW r \in Requests, pc[r] \in {"new", "get"}, InferenceRaises(r),
         UNCHANGED <<processVars, redisVars>>
  PROVE  IInv'
<1> USE DEF processVars, redisVars, InferenceRaises
<1>1. TypeOK /\ RequestInv(r) /\ CacheIsRaw BY IInvByRequest
<1>2. TypeOK' BY <1>1 DEF TypeOK
<1>3. CacheIsRaw' BY <1>1 DEF CacheIsRaw, Raw
<1>4. RequestInv(r)'
  <2>1. pc'[r] = "done" /\ outcome'[r] = "failed" /\ r \in raised'
    BY <1>1 DEF TypeOK
  <2>2. r \notin found' BY <1>1 DEF RequestInv, HandlerInv
  <2> QED BY <2>1, <2>2 DEF RequestInv, HandlerInv
<1>5. ASSUME NEW q \in Requests \ {r} PROVE RequestInv(q)'
  <2>1. RequestInv(q) BY IInvByRequest
  <2> QED BY <1>1, <2>1, OtherRequest DEF TypeOK
<1> QED BY <1>2, <1>3, <1>4, <1>5, IInvByRequestNext

(* A handler that has no prediction goes on to another await, or ends.     *)
LEMMA InferAction ==
  ASSUME IInv, NEW r \in Requests, pc[r] = "get", Infer(r),
         UNCHANGED <<processVars, redisVars>>
  PROVE  IInv'
<1> USE DEF processVars, redisVars
<1>1. CASE InferenceRaises(r) BY <1>1, RaiseAction
<1>2. CASE /\ pc' = [pc EXCEPT ![r] = "set"]
           /\ entities' = [entities EXCEPT ![r] = Raw(TextOf[r])]
           /\ UNCHANGED <<outcome, listAt, raised, found>>
  <2> USE <1>2
  <2>1. TypeOK /\ RequestInv(r) /\ CacheIsRaw BY IInvByRequest
  <2>2. Raw(TextOf[r]) \in Prediction BY RawType, NerAssumption
  <2>3. TypeOK' BY <2>1, <2>2 DEF TypeOK
  <2>4. CacheIsRaw' BY <2>1 DEF CacheIsRaw, Raw
  <2>5. RequestInv(r)'
    <3>1. pc'[r] = "set" /\ entities'[r] = Raw(TextOf[r]) BY <2>1 DEF TypeOK
    <3>2. outcome'[r] = "none" /\ r \notin found'
      BY <2>1 DEF RequestInv, HandlerInv, TypeOK
    <3> QED BY <3>1, <3>2 DEF RequestInv, HandlerInv, Raw
  <2>6. ASSUME NEW q \in Requests \ {r} PROVE RequestInv(q)'
    <3>1. RequestInv(q) BY IInvByRequest
    <3> QED BY <2>1, <3>1, OtherRequest DEF TypeOK
  <2> QED BY <2>3, <2>4, <2>5, <2>6, IInvByRequestNext
<1> QED BY <1>1, <1>2 DEF Infer

(* Steps of the process, of Redis and of operators.                        *)
LEMMA EnvironmentAction ==
  ASSUME IInv, UNCHANGED <<entities, outcome, listAt, raised>>,
         found' \subseteq found, TypeOK', CacheIsRaw',
         \A r \in Requests :
           \/ pc'[r] = pc[r]
           \/ pc[r] # "done" /\ pc'[r] \notin {"set", "done"}
  PROVE  IInv'
<1>1. ASSUME NEW r \in Requests PROVE RequestInv(r)'
  <2>1. RequestInv(r) BY IInvByRequest
  <2>2. r \in found' => r \in found OBVIOUS
  <2>3. CASE pc'[r] = pc[r] BY <2>1, <2>2, <2>3, OtherRequest
  <2>4. CASE pc[r] # "done" /\ pc'[r] \notin {"set", "done"}
    BY <2>1, <2>2, <2>4 DEF RequestInv, HandlerInv
  <2> QED BY <2>3, <2>4
<1> QED BY <1>1, IInvByRequestNext

(* Every step keeps the invariant.                                         *)
LEMMA NerStep == IInv /\ [Next]_vars => IInv'
<1> SUFFICES ASSUME IInv, [Next]_vars PROVE IInv' OBVIOUS
<1> USE DEF processVars, redisVars, handlerVars
<1>0. TypeOK /\ CacheIsRaw /\ (\A r \in Requests : RequestInv(r))
  BY IInvByRequest
<1>1. CASE Start
  <2> USE <1>1 DEF Start
  <2>1. starts' \in 0..MaxStarts BY <1>0, NerAssumption DEF TypeOK
  <2>2. sanctions' \in SanctionsList
    <3>1. BuiltinList \in SanctionsList
      BY NerAssumption DEF BuiltinList, SanctionsList
    <3> QED BY <1>0, <3>1 DEF TypeOK, LoadSanctions
  <2>3. TypeOK' BY <1>0, <2>1, <2>2 DEF TypeOK
  <2>4. CacheIsRaw' BY <1>0 DEF CacheIsRaw, Raw
  <2>5. found' \subseteq found /\ UNCHANGED <<pc, entities, outcome, listAt, raised>>
    OBVIOUS
  <2> QED BY <2>3, <2>4, <2>5, EnvironmentAction
<1>2. CASE Stop
  <2> USE <1>2 DEF Stop
  <2>1. TypeOK' BY <1>0 DEF TypeOK
  <2>2. CacheIsRaw' BY <1>0 DEF CacheIsRaw, Raw
  <2>3. ASSUME NEW r \in Requests
        PROVE \/ pc'[r] = pc[r]
              \/ pc[r] # "done" /\ pc'[r] \notin {"set", "done"}
    <3>1. pc'[r] = IF pc[r] \in {"get", "set"} THEN "lost" ELSE pc[r] OBVIOUS
    <3> QED BY <3>1
  <2> QED BY <2>1, <2>2, <2>3, EnvironmentAction
<1>3. ASSUME NEW r \in Requests, DetectUncached(r) PROVE IInv'
  <2> USE <1>3 DEF DetectUncached
  <2>1. cache' \in [Texts -> Prediction \cup {None}] /\ CacheIsRaw'
    BY <1>0 DEF TypeOK, CacheIsRaw, Raw
  <2>2. CASE InferenceRaises(r) BY <2>2, RaiseAction
  <2>3. CASE Finish(r, Raw(TextOf[r]), TRUE) BY <2>1, <2>3, FinishAction
  <2> QED BY <2>2, <2>3
<1>4. ASSUME NEW r \in Requests, Detect(r) PROVE IInv'
  <2> USE <1>4 DEF Detect
  <2>1. TypeOK' BY <1>0 DEF TypeOK
  <2>2. CacheIsRaw' BY <1>0 DEF CacheIsRaw, Raw
  <2>3. ASSUME NEW q \in Requests
        PROVE \/ pc'[q] = pc[q]
              \/ pc[q] # "done" /\ pc'[q] \notin {"set", "done"}
    <3>1. pc'[q] = IF q = r THEN "get" ELSE pc[q] BY <1>0 DEF TypeOK
    <3>2. pc[r] = "new" OBVIOUS
    <3> QED BY <3>1, <3>2
  <2> QED BY <2>1, <2>2, <2>3, EnvironmentAction
<1>5. ASSUME NEW r \in Requests, CacheGet(r) PROVE IInv'
  <2>1. CASE cache[TextOf[r]] = None
    BY <1>5, <2>1, InferAction DEF CacheGet
  <2>2. CASE cache[TextOf[r]] # None
    <3>1. cache[TextOf[r]] = Raw(TextOf[r])
      BY <1>0, <2>2, NerAssumption DEF CacheIsRaw
    <3>2. Finish(r, Raw(TextOf[r]), FALSE) BY <1>5, <2>2, <3>1 DEF CacheGet
    <3>3. cache' \in [Texts -> Prediction \cup {None}] /\ CacheIsRaw'
      BY <1>0, <1>5 DEF CacheGet, TypeOK, CacheIsRaw, Raw
    <3> QED BY <1>5, <3>2, <3>3, FinishAction DEF CacheGet
  <2> QED BY <2>1, <2>2
<1>6. ASSUME NEW r \in Requests, CacheGetFails(r) PROVE IInv'
  BY <1>6, InferAction DEF CacheGetFails
<1>7. ASSUME NEW r \in Requests, CacheSet(r) PROVE IInv'
  <2>1. entities[r] = Raw(TextOf[r])
    BY <1>0, <1>7 DEF CacheSet, RequestInv, HandlerInv
  <2>2. Finish(r, Raw(TextOf[r]), TRUE) BY <1>7, <2>1 DEF CacheSet
  <2>3. Raw(TextOf[r]) \in Prediction BY RawType, NerAssumption
  <2>4. cache' \in [Texts -> Prediction \cup {None}]
    BY <1>0, <1>7, <2>1, <2>3 DEF CacheSet, TypeOK
  <2>5. CacheIsRaw'
    BY <1>0, <1>7, <2>1 DEF CacheSet, TypeOK, CacheIsRaw, Raw
  <2> QED BY <1>7, <2>2, <2>4, <2>5, FinishAction DEF CacheSet
<1>8. ASSUME NEW r \in Requests, CacheSetFails(r) PROVE IInv'
  <2>1. entities[r] = Raw(TextOf[r])
    BY <1>0, <1>8 DEF CacheSetFails, RequestInv, HandlerInv
  <2>2. Finish(r, Raw(TextOf[r]), TRUE) BY <1>8, <2>1 DEF CacheSetFails
  <2>3. cache' \in [Texts -> Prediction \cup {None}] /\ CacheIsRaw'
    BY <1>0, <1>8 DEF CacheSetFails, TypeOK, CacheIsRaw, Raw
  <2> QED BY <1>8, <2>2, <2>3, FinishAction DEF CacheSetFails
<1>9. CASE RedisFlips \/ PublishList
  <2>1. TypeOK' BY <1>0, <1>9, NerAssumption DEF RedisFlips, PublishList, TypeOK
  <2>2. CacheIsRaw' BY <1>0, <1>9 DEF RedisFlips, PublishList, CacheIsRaw, Raw
  <2>3. UNCHANGED handlerVars BY <1>9 DEF RedisFlips, PublishList
  <2>4. found' \subseteq found BY <2>3
  <2> QED BY <2>1, <2>2, <2>3, <2>4, EnvironmentAction
<1>10. ASSUME NEW x \in Texts, Evict(x) PROVE IInv'
  <2> USE <1>10 DEF Evict
  <2>1. TypeOK' BY <1>0 DEF TypeOK
  <2>2. CacheIsRaw' BY <1>0 DEF TypeOK, CacheIsRaw, Raw
  <2>3. UNCHANGED handlerVars /\ found' \subseteq found OBVIOUS
  <2> QED BY <2>1, <2>2, <2>3, EnvironmentAction
<1>11. CASE UNCHANGED vars
  <2>1. TypeOK' BY <1>0, <1>11 DEF vars, TypeOK
  <2>2. CacheIsRaw' BY <1>0, <1>11 DEF vars, CacheIsRaw, Raw
  <2>3. UNCHANGED handlerVars /\ found' \subseteq found BY <1>11 DEF vars
  <2> QED BY <2>1, <2>2, <2>3, EnvironmentAction
<1> QED BY <1>1, <1>2, <1>3, <1>4, <1>5, <1>6, <1>7, <1>8, <1>9, <1>10, <1>11
        DEF Next, HandlerStep

(* The invariant of Ner holds for any requests, texts, lists and restarts. *)
THEOREM NerInvariance == Spec => []IInv
BY NerInitially, NerStep, PTL DEF Spec

(* Every variable of Ner keeps its type.                                   *)
THEOREM NerTypeCorrect == Spec => []TypeOK
<1>1. IInv => TypeOK BY DEF IInv
<1> QED BY <1>1, NerInvariance, PTL

(* What detect_entities answers is what the model finds in the text, with  *)
(* exactly the names of the list in memory flagged: neither a shared cache *)
(* nor a cache older than the list lets an old verdict through.            *)
THEOREM AnswerTheorem == Spec => []AnswerFollowsList
<1>1. IInv => AnswerFollowsList BY DEF IInv
<1> QED BY <1>1, NerInvariance, PTL

(* A request to the NER service fails only when the model raised or over a *)
(* list it cannot match, never because Redis is away (_cache_get,          *)
(* _cache_set).                                                            *)
THEOREM FailureTheorem == Spec => []FailureIsNeverRedis
<1>1. IInv => FailureIsNeverRedis BY DEF IInv
<1> QED BY <1>1, NerInvariance, PTL
=============================================================================
