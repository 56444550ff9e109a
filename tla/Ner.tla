-------------------------------- MODULE Ner --------------------------------
(***************************************************************************)
(* The NER service, services/python-ner/trinity_ner/ner_service.py: one    *)
(* asyncio process whose /detect handlers interleave where they await      *)
(* Redis, the prediction cache that outlives the process, and the          *)
(* sanctions list it loads once, when it starts.                           *)
(*                                                                         *)
(* The model is deterministic when it answers: Gliner[x] is what it finds  *)
(* in text x; it may raise instead.  Which names a list entry matches is   *)
(* decided by name here; module Screening is about the similarity that     *)
(* decides it.  The calls are those of the Go backend and of /analyze,     *)
(* which leave the labels at their default.                                *)
(***************************************************************************)
EXTENDS Naturals

CONSTANTS
  Requests,    \* calls of POST /detect (or /analyze) with the default labels
  Texts,       \* texts sent in
  TextOf,      \* TextOf[r]: the text of request r
  Names,       \* entity texts
  Gliner,      \* Gliner[x]: the entities model.predict_entities finds in x
  Builtin,     \* names the built-in list matches
  Listings,    \* sanctions lists an operator may put into Redis
  None,        \* an absent Redis key
  MaxStarts    \* bound on the starts of the process

(* A list from Redis is any non-empty JSON list; an element without a name *)
(* makes matching raise.                                                   *)
SanctionsList == [names : SUBSET Names, broken : BOOLEAN]

ASSUME NerAssumption ==
  /\ TextOf \in [Requests -> Texts]
  /\ Gliner \in [Texts -> SUBSET Names]
  /\ Builtin \subseteq Names
  /\ Listings \subseteq SanctionsList
  /\ None \notin SanctionsList /\ None \notin [names : SUBSET Names, flagged : SUBSET Names]
  /\ MaxStarts \in Nat

VARIABLES
  up,         \* the process is serving
  starts,     \* how often it has started
  connected,  \* self.redis is not None
  sanctions,  \* self.sanctions_db
  redisUp,    \* Redis answers
  published,  \* the key trinity:sanctions_db
  cache,      \* cache[x]: the prediction stored for text x
  pc,         \* pc[r]: the await the handler of r is in
  entities,   \* entities[r]: the handler's list of Entity objects
  outcome,    \* outcome[r]: "ok" (200), "failed" (500) or "none"
  listAt,     \* listAt[r]: the list in memory when r was answered
  raised,     \* requests whose inference raised
  found       \* ner_suspicious_found_total: requests that added to it

processVars == <<up, starts, connected, sanctions>>
redisVars == <<redisUp, published, cache>>
handlerVars == <<pc, entities, outcome, listAt, raised, found>>
vars == <<up, starts, connected, sanctions, redisUp, published, cache, pc,
          entities, outcome, listAt, raised, found>>

(* Entity objects, by name; flagged are those with suspicious = True.      *)
Prediction == [names : SUBSET Names, flagged : SUBSET Names]
NoEntities == [names |-> {}, flagged |-> {}]
Raw(x) == [names |-> Gliner[x], flagged |-> {}]

BuiltinList == [names |-> Builtin, broken |-> FALSE]

Init ==
  /\ up = FALSE /\ starts = 0 /\ connected = FALSE /\ sanctions = BuiltinList
  /\ redisUp = TRUE
  /\ published = None
  /\ cache = [x \in Texts |-> None]
  /\ pc = [r \in Requests |-> "new"]
  /\ entities = [r \in Requests |-> NoEntities]
  /\ outcome = [r \in Requests |-> "none"]
  /\ listAt = [r \in Requests |-> BuiltinList]
  /\ raised = {}
  /\ found = {}

-----------------------------------------------------------------------------
(* Start-up: connect_redis, then _load_sanctions_from_redis.               *)

(* Redis may be lost between the two, and the ping may time out.           *)
LoadSanctions ==
  \/ sanctions' = BuiltinList
  \/ /\ redisUp /\ published # None
     /\ sanctions' = published

Start ==
  /\ ~up /\ starts < MaxStarts
  /\ up' = TRUE
  /\ starts' = starts + 1
  /\ \/ redisUp /\ connected' = TRUE /\ LoadSanctions
     \/ connected' = FALSE /\ sanctions' = BuiltinList
  /\ found' = {}
  /\ UNCHANGED <<redisVars, pc, entities, outcome, listAt, raised>>

(* The process ends; handlers in an await are lost.                        *)
Stop ==
  /\ up
  /\ up' = FALSE
  /\ pc' = [r \in Requests |-> IF pc[r] \in {"get", "set"} THEN "lost" ELSE pc[r]]
  /\ UNCHANGED <<starts, connected, sanctions, redisVars, entities, outcome,
                 listAt, raised, found>>

-----------------------------------------------------------------------------
(* detect_entities.                                                        *)

(* _enhance_entities_with_sanctions only ever sets the flag.               *)
Enhance(e) == [e EXCEPT !.flagged = @ \cup (e.names \cap sanctions.names)]
Raises(e) == sanctions.broken /\ e.names # {}

(* From the entities to the answer, without an await.  counted: the path   *)
(* that ran the model counts what it found.                                *)
Finish(r, e, counted) ==
  /\ pc' = [pc EXCEPT ![r] = "done"]
  /\ listAt' = [listAt EXCEPT ![r] = sanctions]
  /\ UNCHANGED raised
  /\ IF Raises(e)
       THEN /\ outcome' = [outcome EXCEPT ![r] = "failed"]
            /\ entities' = [entities EXCEPT ![r] = e]
            /\ UNCHANGED found
       ELSE /\ outcome' = [outcome EXCEPT ![r] = "ok"]
            /\ entities' = [entities EXCEPT ![r] = Enhance(e)]
            /\ found' = IF counted /\ Enhance(e).flagged # {}
                          THEN found \cup {r} ELSE found

(* model.predict_entities raises, or returns what _run_gliner cannot read: *)
(* nothing is cached and the request is answered 500.                      *)
InferenceRaises(r) ==
  /\ pc' = [pc EXCEPT ![r] = "done"]
  /\ outcome' = [outcome EXCEPT ![r] = "failed"]
  /\ listAt' = [listAt EXCEPT ![r] = sanctions]
  /\ raised' = raised \cup {r}
  /\ UNCHANGED <<entities, found>>

(* _cache_get returned None: run the model, then await _cache_set.         *)
Infer(r) ==
  \/ InferenceRaises(r)
  \/ /\ pc' = [pc EXCEPT ![r] = "set"]
     /\ entities' = [entities EXCEPT ![r] = Raw(TextOf[r])]
     /\ UNCHANGED <<outcome, listAt, raised, found>>

(* Without a Redis client nothing is awaited.                              *)
DetectUncached(r) ==
  /\ up /\ pc[r] = "new" /\ ~connected
  /\ InferenceRaises(r) \/ Finish(r, Raw(TextOf[r]), TRUE)
  /\ UNCHANGED <<processVars, redisVars>>

Detect(r) ==
  /\ up /\ pc[r] = "new" /\ connected
  /\ pc' = [pc EXCEPT ![r] = "get"]
  /\ UNCHANGED <<processVars, redisVars, entities, outcome, listAt, raised,
                 found>>

CacheGet(r) ==
  /\ pc[r] = "get" /\ redisUp
  /\ IF cache[TextOf[r]] = None
       THEN Infer(r)
       ELSE Finish(r, cache[TextOf[r]], FALSE)
  /\ UNCHANGED <<processVars, redisVars>>

(* Slip: the exception is not caught.                                      *)
CacheGetRaises(r) ==
  /\ pc[r] = "get" /\ ~redisUp
  /\ pc' = [pc EXCEPT ![r] = "done"]
  /\ outcome' = [outcome EXCEPT ![r] = "failed"]
  /\ UNCHANGED <<processVars, redisVars, entities, listAt, raised, found>>

(* Slip: no socket_timeout, the await lasts until Redis is back.           *)
CacheGetWaits(r) == FALSE

(* A connection error, or the 2 s socket timeout: as good as a miss.       *)
CacheGetFails(r) ==
  /\ pc[r] = "get" /\ ~redisUp
  /\ Infer(r)
  /\ UNCHANGED <<processVars, redisVars>>

(* Slip: the cache is filled after the sanctions were matched.             *)
CacheSetEnhanced(r) ==
  /\ pc[r] = "set" /\ redisUp
  /\ cache' = [cache EXCEPT ![TextOf[r]] = Enhance(entities[r])]
  /\ Finish(r, entities[r], TRUE)
  /\ UNCHANGED <<processVars, redisUp, published>>

(* The model's output goes into the cache before sanctions are matched.    *)
CacheSet(r) ==
  /\ pc[r] = "set" /\ redisUp
  /\ cache' = [cache EXCEPT ![TextOf[r]] = entities[r]]
  /\ Finish(r, entities[r], TRUE)
  /\ UNCHANGED <<processVars, redisUp, published>>

CacheSetFails(r) ==
  /\ pc[r] = "set" /\ ~redisUp
  /\ Finish(r, entities[r], TRUE)
  /\ UNCHANGED <<processVars, redisVars>>

-----------------------------------------------------------------------------
(* Redis and the operator.                                                 *)

RedisFlips ==
  /\ redisUp' = ~redisUp
  /\ UNCHANGED <<processVars, published, cache, handlerVars>>

(* The TTL of 3600 s ends, or Redis evicts or loses the key.               *)
Evict(x) ==
  /\ cache[x] # None
  /\ cache' = [cache EXCEPT ![x] = None]
  /\ UNCHANGED <<processVars, redisUp, published, handlerVars>>

(* Somebody sets trinity:sanctions_db; nothing in this repository does.    *)
PublishList ==
  /\ redisUp
  /\ \E l \in Listings : published' = l
  /\ UNCHANGED <<processVars, redisUp, cache, handlerVars>>

HandlerStep(r) ==
  CacheGet(r) \/ CacheGetFails(r) \/ CacheSet(r) \/ CacheSetFails(r)

Next ==
  \/ Start \/ Stop
  \/ \E r \in Requests : DetectUncached(r) \/ Detect(r) \/ HandlerStep(r)
  \/ RedisFlips
  \/ \E x \in Texts : Evict(x)
  \/ PublishList

Spec == Init /\ [][Next]_vars

(* An await ends: Redis answers, or the socket timeout raises.             *)
FairSpec == Spec /\ \A r \in Requests : WF_vars(HandlerStep(r))

-----------------------------------------------------------------------------
(* Every variable stays in its type (MarbleNERService, Redis, handlers).   *)
TypeOK ==
  /\ up \in BOOLEAN /\ starts \in 0..MaxStarts /\ connected \in BOOLEAN
  /\ sanctions \in SanctionsList
  /\ redisUp \in BOOLEAN
  /\ published \in SanctionsList \cup {None}
  /\ cache \in [Texts -> Prediction \cup {None}]
  /\ pc \in [Requests -> {"new", "get", "set", "done", "lost"}]
  /\ entities \in [Requests -> Prediction]
  /\ outcome \in [Requests -> {"none", "ok", "failed"}]
  /\ listAt \in [Requests -> SanctionsList]
  /\ raised \subseteq Requests
  /\ found \subseteq Requests

(* The entities of an answer are the model's for the text, and suspicious  *)
(* are exactly those on the list in memory when it was given: a prediction *)
(* cached by a process with another list, or filled in concurrently by     *)
(* another request, never carries an old verdict (detect_entities).        *)
AnswerFollowsList ==
  \A r \in Requests : outcome[r] = "ok" =>
    entities[r] = [names |-> Gliner[TextOf[r]],
                   flagged |-> Gliner[TextOf[r]] \cap listAt[r].names]

(* A 500 comes of a model that raised or of a sanctions list that cannot be*)
(* matched, never of Redis, whatever becomes of it between the awaits of   *)
(* the handler (_cache_get, _cache_set, _load_sanctions_from_redis).       *)
FailureIsNeverRedis ==
  \A r \in Requests : outcome[r] = "failed" => listAt[r].broken \/ r \in raised

(* Redis going silent in the middle of a request does not keep the caller  *)
(* waiting for ever (socket_timeout in connect_redis).                     *)
EveryDetectEnds ==
  \A r \in Requests : pc[r] \in {"get", "set"} ~> pc[r] \in {"done", "lost"}

(* ner_service.py: the list from Redis enriches the in-memory list, so the *)
(* built-in names stay suspicious.                                         *)
BuiltinStaysSuspicious ==
  \A r \in Requests : outcome[r] = "ok" =>
    Gliner[TextOf[r]] \cap Builtin \subseteq entities[r].flagged

-----------------------------------------------------------------------------

CacheIsRaw == \A x \in Texts : cache[x] \in {Raw(x), None}

HandlerInv(r) ==
  /\ pc[r] = "set" => entities[r] = Raw(TextOf[r])
  /\ pc[r] = "done" <=> outcome[r] # "none"
  /\ r \in found => outcome[r] = "ok" /\ entities[r].flagged # {}

(* The inductive invariant behind these: the cache holds the model's raw   *)
(* output, and so do handlers between the model and the end.               *)
IInv ==
  /\ TypeOK
  /\ CacheIsRaw
  /\ \A r \in Requests : HandlerInv(r)
  /\ AnswerFollowsList
  /\ FailureIsNeverRedis
=============================================================================
