------------------------------ MODULE Pipeline ------------------------------
(***************************************************************************)
(* The transaction pipeline of the Go backend, services/go-backend/main.go:*)
(* any number of ProcessTransaction handlers running concurrently (one     *)
(* goroutine per HTTP request), the trinity.transactions table they upsert *)
(* into, the Redis pub/sub channels they announce on, the Prometheus       *)
(* counters they increment, the connection pool they share, the clients    *)
(* that may hang up while a handler runs, and crashes of the process.      *)
(*                                                                         *)
(* A handler is cut into steps exactly where it waits for somebody else    *)
(* (NER, ZK, LLM, PostgreSQL, Redis) or touches state another handler or a *)
(* scrape can see.  What the three services compute is modelled elsewhere; *)
(* here each is the set of answers its caller distinguishes.               *)
(***************************************************************************)
EXTENDS Naturals, FiniteSets

CONSTANTS
  Requests,     \* HTTP requests to POST /api/v1/transactions/process
  TxIds,        \* values of transaction.id, the table's primary key
  TxOf,         \* TxOf[r]: the id request r carries (clients may reuse ids)
  None,         \* no request: an absent row, an empty narrative
  Faults,       \* what the environment may do wrong: a subset of AllFaults
  HasZk,        \* NewTransactionService kept a ZK client (s.zk # nil)
  PoolSize,     \* db.SetMaxOpenConns
  MaxCrashes    \* bound on the crashes of the process in one behaviour

AllFaults == {"disconnect", "ner", "llm", "db", "redis"}

ASSUME RequestsAssumption == IsFiniteSet(Requests) /\ None \notin Requests
ASSUME TxOfAssumption == IsFiniteSet(TxIds) /\ TxOf \in [Requests -> TxIds]
ASSUME FaultsAssumption == Faults \subseteq AllFaults
ASSUME BoundsAssumption ==
  /\ HasZk \in BOOLEAN
  /\ PoolSize \in Nat \ {0}
  /\ MaxCrashes \in Nat

VARIABLES
  up,         \* the process is serving
  crashes,    \* how often it has crashed
  pc,         \* pc[r]: where request r's handler stands
  cancelled,  \* requests whose client hung up: c.Request.Context() is done
  verdict,    \* verdict[r]: isSuspicious of the entities NER returned
  resp,       \* resp[r]: the local variable response
  status,     \* status[r]: the HTTP status the handler wrote, 0 before
  stmts,      \* requests whose upsert is in the database's hands
  applied,    \* requests whose upsert the database executed
  storeFailed,\* requests whose storeTransaction returned an error
  rows,       \* rows[id]: the row of trinity.transactions, NoRow if none
  events,     \* <<channel, request>> pairs Redis delivered
  okCount,    \* transactions_processed_total{status="ok"}
  flagCount,  \* transactions_flagged_total
  sarCount,   \* sars_generated_total
  nerErrCount \* transactions_processed_total{status="ner_error"}

counters == <<okCount, flagCount, sarCount, nerErrCount>>
dbVars == <<stmts, applied, storeFailed, rows>>
procVars == <<up, crashes>>
vars == <<up, crashes, pc, cancelled, verdict, resp, status, stmts, applied,
          storeFailed, rows, events, okCount, flagCount, sarCount,
          nerErrCount>>

(* The handler's program counter, named for the call it is about to finish.*)
Working == {"ner", "zk", "llm", "store", "exec", "pubTx", "pubFlagged",
            "pubSar", "countOk", "countFlagged", "countSar", "reply"}
UnderContext == Working \ {"countOk", "countFlagged", "countSar", "reply"}
Finished == {"done", "lost"}
Stage == {"new"} \cup Working \cup Finished

Verdict == {"unknown", "clean", "suspicious"}
Channel == {"transactions", "flagged", "sars"}

(* ProcessTransactionResponse, less what no decision depends on.  Reason is*)
(* a function of flagged and sar.  A narrative is known by the request it  *)
(* was written for; the empty string is None.                              *)
Response == [flagged : BOOLEAN, sar : BOOLEAN,
             narrative : Requests \cup {None}, zk : BOOLEAN]
NoResponse == [flagged |-> FALSE, sar |-> FALSE, narrative |-> None,
               zk |-> FALSE]

(* The assignments ProcessTransaction makes to its fields.                 *)
Cleared(x) == [x EXCEPT !.flagged = FALSE]
Verified(x, ok) == [x EXCEPT !.zk = ok]
Flagged(x) == [x EXCEPT !.flagged = TRUE]
Reported(x, text) ==
  [x EXCEPT !.flagged = TRUE, !.sar = TRUE, !.narrative = text]

(* A row: by stands for the columns copied from the request (amount,       *)
(* sender, ...), the other fields are the columns of the outcome.          *)
Row == [by : Requests \cup {None}, flagged : BOOLEAN, sar : BOOLEAN,
        narrative : Requests \cup {None}, zk : BOOLEAN]
NoRow == [by |-> None, flagged |-> FALSE, sar |-> FALSE, narrative |-> None,
          zk |-> FALSE]

-----------------------------------------------------------------------------
(* Counters are add-only and every request adds at most one to each, so a  *)
(* counter is the set of requests that incremented it in this process's    *)
(* lifetime; its value is the set's cardinality.                           *)

Init ==
  /\ up = TRUE
  /\ crashes = 0
  /\ pc = [r \in Requests |-> "new"]
  /\ cancelled = {}
  /\ verdict = [r \in Requests |-> "unknown"]
  /\ resp = [r \in Requests |-> NoResponse]
  /\ status = [r \in Requests |-> 0]
  /\ stmts = {}
  /\ applied = {}
  /\ storeFailed = {}
  /\ rows = [id \in TxIds |-> NoRow]
  /\ events = {}
  /\ okCount = {}
  /\ flagCount = {}
  /\ sarCount = {}
  /\ nerErrCount = {}

Goto(r, stage) == pc' = [pc EXCEPT ![r] = stage]

(* A call made with the request's context fails once the client is gone.   *)
Alive(r) == r \notin cancelled
CallMayFail(r, fault) == ~Alive(r) \/ fault \in Faults

-----------------------------------------------------------------------------
(* Binding, NER, ZK and LLM.                                               *)

(* The body binds; the handler calls NER.                                  *)
Accept(r) ==
  /\ up /\ pc[r] = "new"
  /\ Goto(r, "ner")
  /\ UNCHANGED <<procVars, cancelled, verdict, resp, status, dbVars, events,
                 counters>>

(* The body does not bind: 400 and nothing else.                           *)
RejectBody(r) ==
  /\ up /\ pc[r] = "new"
  /\ Goto(r, "done")
  /\ status' = [status EXCEPT ![r] = 400]
  /\ UNCHANGED <<procVars, cancelled, verdict, resp, dbVars, events, counters>>

(* NER answers and no entity is suspicious: ZK and LLM are skipped.        *)
NerClean(r) ==
  /\ pc[r] = "ner" /\ Alive(r)
  /\ verdict' = [verdict EXCEPT ![r] = "clean"]
  /\ resp' = [resp EXCEPT ![r] = Cleared(@)]
  /\ Goto(r, "store")
  /\ UNCHANGED <<procVars, cancelled, status, dbVars, events, counters>>

NerSuspicious(r) ==
  /\ pc[r] = "ner" /\ Alive(r)
  /\ verdict' = [verdict EXCEPT ![r] = "suspicious"]
  /\ Goto(r, "zk")
  /\ UNCHANGED <<procVars, cancelled, resp, status, dbVars, events, counters>>

(* Slip: no return after the 500, the handler runs on with no entities.    *)
NerFailWithoutReturn(r) ==
  /\ pc[r] = "ner" /\ CallMayFail(r, "ner")
  /\ nerErrCount' = nerErrCount \cup {r}
  /\ status' = [status EXCEPT ![r] = 500]
  /\ verdict' = [verdict EXCEPT ![r] = "clean"]
  /\ Goto(r, "store")
  /\ UNCHANGED <<procVars, cancelled, resp, dbVars, events, okCount, flagCount,
                 sarCount>>

(* Timeout (10 s), transport error, non-200 or undecodable body: 500.      *)
NerFail(r) ==
  /\ pc[r] = "ner" /\ CallMayFail(r, "ner")
  /\ nerErrCount' = nerErrCount \cup {r}
  /\ status' = [status EXCEPT ![r] = 500]
  /\ Goto(r, "done")
  /\ UNCHANGED <<procVars, cancelled, verdict, resp, dbVars, events, okCount,
                 flagCount, sarCount>>

(* verifyWithZK: false without a client, after an error, after the shared  *)
(* 15 s deadline, and when the proof does not verify; an error never stops *)
(* the pipeline.                                                           *)
ZkAnswers(r) ==
  IF HasZk /\ Alive(r) THEN BOOLEAN ELSE {FALSE}

VerifyWithZk(r) ==
  /\ pc[r] = "zk"
  /\ \E ok \in ZkAnswers(r) : resp' = [resp EXCEPT ![r] = Verified(@, ok)]
  /\ Goto(r, "llm")
  /\ UNCHANGED <<procVars, cancelled, verdict, status, dbVars, events, counters>>

(* LLM answers 200; the narrative may be empty text.                       *)
LlmAnswer(r) ==
  /\ pc[r] = "llm" /\ Alive(r)
  /\ \E text \in {r, None} : resp' = [resp EXCEPT ![r] = Reported(@, text)]
  /\ Goto(r, "store")
  /\ UNCHANGED <<procVars, cancelled, verdict, status, dbVars, events, counters>>

(* Slip: the flag is set only when the LLM answered.                       *)
LlmFailUnflagged(r) ==
  /\ pc[r] = "llm" /\ CallMayFail(r, "llm")
  /\ Goto(r, "store")
  /\ UNCHANGED <<procVars, cancelled, verdict, resp, status, dbVars, events,
                 counters>>

(* LLM times out (30 s) or fails: the transaction is flagged all the same. *)
LlmFail(r) ==
  /\ pc[r] = "llm" /\ CallMayFail(r, "llm")
  /\ resp' = [resp EXCEPT ![r] = Flagged(@)]
  /\ Goto(r, "store")
  /\ UNCHANGED <<procVars, cancelled, verdict, status, dbVars, events, counters>>

-----------------------------------------------------------------------------
(* storeTransaction.  db.Exec takes no context and no deadline: it waits   *)
(* for a connection of the pool, and then for the answer, for as long as   *)
(* that takes, whether or not the client is still there.  database/sql     *)
(* lends a connection from the statement to its answer and no longer.      *)
InUse == {r \in Requests : pc[r] = "exec"}

(* Slip: the store is started in a goroutine nobody waits for.             *)
StoreSendInBackground(r) ==
  /\ pc[r] = "store"
  /\ stmts' = stmts \cup {r}
  /\ Goto(r, "pubTx")
  /\ UNCHANGED <<procVars, cancelled, verdict, resp, status, applied,
                 storeFailed, rows, events, counters>>

(* Slip: ExecContext with the request's context.                           *)
StoreSendUnderContext(r) ==
  /\ pc[r] = "store"
  /\ IF Alive(r)
       THEN /\ Cardinality(InUse) < PoolSize
            /\ stmts' = stmts \cup {r}
            /\ Goto(r, "exec")
            /\ UNCHANGED storeFailed
       ELSE /\ storeFailed' = storeFailed \cup {r}
            /\ Goto(r, "pubTx")
            /\ UNCHANGED stmts
  /\ UNCHANGED <<procVars, cancelled, verdict, resp, status, applied, rows,
                 events, counters>>

StoreSend(r) ==
  /\ pc[r] = "store"
  /\ Cardinality(InUse) < PoolSize
  /\ stmts' = stmts \cup {r}
  /\ Goto(r, "exec")
  /\ UNCHANGED <<procVars, cancelled, verdict, resp, status, applied,
                 storeFailed, rows, events, counters>>

(* Slips: a column missing from the DO UPDATE list.                        *)
UpsertKeepingNarrative(old, r) ==
  [by |-> r, flagged |-> resp[r].flagged, sar |-> resp[r].sar,
   narrative |-> IF old.by = None THEN resp[r].narrative ELSE old.narrative,
   zk |-> resp[r].zk]
UpsertKeepingSar(old, r) ==
  [by |-> r, flagged |-> resp[r].flagged,
   sar |-> IF old.by = None THEN resp[r].sar ELSE old.sar,
   narrative |-> resp[r].narrative, zk |-> resp[r].zk]

(* INSERT ... ON CONFLICT (id) DO UPDATE: every column the statement names *)
(* but the key is taken from the new values, whatever the row held.        *)
Upsert(old, r) ==
  [by |-> r, flagged |-> resp[r].flagged, sar |-> resp[r].sar,
   narrative |-> resp[r].narrative, zk |-> resp[r].zk]

(* PostgreSQL executes a statement it was sent, one at a time per row. It  *)
(* does so even if the backend that sent it has died meanwhile.            *)
DbApply(r) ==
  /\ r \in stmts
  /\ rows' = [rows EXCEPT ![TxOf[r]] = Upsert(@, r)]
  /\ stmts' = stmts \ {r}
  /\ applied' = applied \cup {r}
  /\ UNCHANGED <<procVars, pc, cancelled, verdict, resp, status, storeFailed,
                 events, counters>>

(* PostgreSQL refuses it (a value too long for its column, disk full) or    *)
(* never gets it.                                                          *)
DbReject(r) ==
  /\ r \in stmts /\ "db" \in Faults
  /\ stmts' = stmts \ {r}
  /\ UNCHANGED <<procVars, pc, cancelled, verdict, resp, status, applied,
                 storeFailed, rows, events, counters>>

StoreReturn(r) ==
  /\ Goto(r, "pubTx")
  /\ UNCHANGED <<procVars, cancelled, verdict, resp, status, stmts, applied,
                 rows, events, counters>>

(* Exec returns nil: the statement has been executed.                      *)
StoreOk(r) ==
  /\ pc[r] = "exec" /\ r \in applied
  /\ UNCHANGED storeFailed
  /\ StoreReturn(r)

(* Slip: an error sends the handler back to try again, without a limit.    *)
StoreFailRetrying(r) ==
  /\ pc[r] = "exec" /\ "db" \in Faults
  /\ Goto(r, "store")
  /\ UNCHANGED <<procVars, cancelled, verdict, resp, status, dbVars, events,
                 counters>>

(* Exec returns an error: refused, or the connection broke before the      *)
(* answer came, with the statement executed, lost, or still to be executed.*)
(* The error is logged and the handler goes on.                            *)
StoreFail(r) ==
  /\ pc[r] = "exec" /\ "db" \in Faults
  /\ storeFailed' = storeFailed \cup {r}
  /\ StoreReturn(r)

-----------------------------------------------------------------------------
(* publishEvents: up to three PUBLISH commands under the request's context.*)
(* A failure is logged and the next channel is tried.                      *)

Publish(r, ch) ==
  \/ /\ Alive(r)
     /\ events' = events \cup {<<ch, r>>}
  \/ /\ CallMayFail(r, "redis")
     /\ UNCHANGED events

PublishUnchanged ==
  UNCHANGED <<procVars, cancelled, verdict, resp, status, dbVars, counters>>

PublishTx(r) ==
  /\ pc[r] = "pubTx"
  /\ Publish(r, "transactions")
  /\ Goto(r, "pubFlagged")
  /\ PublishUnchanged

PublishFlagged(r) ==
  /\ pc[r] = "pubFlagged"
  /\ IF resp[r].flagged THEN Publish(r, "flagged") ELSE UNCHANGED events
  /\ Goto(r, "pubSar")
  /\ PublishUnchanged

PublishSar(r) ==
  /\ pc[r] = "pubSar"
  /\ IF resp[r].sar THEN Publish(r, "sars") ELSE UNCHANGED events
  /\ Goto(r, "countOk")
  /\ PublishUnchanged

-----------------------------------------------------------------------------
(* The counters, one atomic increment each, then the response.             *)

CountUnchanged ==
  UNCHANGED <<procVars, cancelled, verdict, resp, status, dbVars, events,
              nerErrCount>>

CountOk(r) ==
  /\ pc[r] = "countOk"
  /\ okCount' = okCount \cup {r}
  /\ UNCHANGED <<flagCount, sarCount>>
  /\ Goto(r, "countFlagged")
  /\ CountUnchanged

(* Slip: "if SARGenerated ... else if Flagged".                            *)
CountFlaggedUnlessSar(r) ==
  /\ pc[r] = "countFlagged"
  /\ flagCount' = IF resp[r].flagged /\ ~resp[r].sar
                    THEN flagCount \cup {r} ELSE flagCount
  /\ UNCHANGED <<okCount, sarCount>>
  /\ Goto(r, "countSar")
  /\ CountUnchanged

CountFlagged(r) ==
  /\ pc[r] = "countFlagged"
  /\ flagCount' = IF resp[r].flagged THEN flagCount \cup {r} ELSE flagCount
  /\ UNCHANGED <<okCount, sarCount>>
  /\ Goto(r, "countSar")
  /\ CountUnchanged

CountSar(r) ==
  /\ pc[r] = "countSar"
  /\ sarCount' = IF resp[r].sar THEN sarCount \cup {r} ELSE sarCount
  /\ UNCHANGED <<okCount, flagCount>>
  /\ Goto(r, "reply")
  /\ CountUnchanged

(* c.JSON(200, response)                                                   *)
Reply(r) ==
  /\ pc[r] = "reply"
  /\ status' = [status EXCEPT ![r] = 200]
  /\ Goto(r, "done")
  /\ UNCHANGED <<procVars, cancelled, verdict, resp, dbVars, events, counters>>

-----------------------------------------------------------------------------
(* The environment.                                                        *)

(* The client hangs up or gives up waiting; net/http cancels the context.  *)
(* After the last PUBLISH nothing consults it any more.                    *)
Disconnect(r) ==
  /\ "disconnect" \in Faults
  /\ pc[r] \in UnderContext /\ r \notin cancelled
  /\ cancelled' = cancelled \cup {r}
  /\ UNCHANGED <<procVars, pc, verdict, resp, status, dbVars, events, counters>>

(* The process dies: every handler, connection and counter with it.   *)
(* Statements already sent stay with the database.                         *)
Crash ==
  /\ up /\ crashes < MaxCrashes
  /\ up' = FALSE
  /\ crashes' = crashes + 1
  /\ pc' = [r \in Requests |-> IF pc[r] \in Working THEN "lost" ELSE pc[r]]
  /\ okCount' = {} /\ flagCount' = {} /\ sarCount' = {} /\ nerErrCount' = {}
  /\ UNCHANGED <<cancelled, verdict, resp, status, stmts, applied, storeFailed,
                 rows, events>>

(* A restarted process reached the database and Redis (NewTransactionService*)
(* fails fast otherwise) and serves again.                                 *)
Restart ==
  /\ ~up
  /\ up' = TRUE
  /\ UNCHANGED <<crashes, pc, cancelled, verdict, resp, status, dbVars, events,
                 counters>>

-----------------------------------------------------------------------------
(* What the running code does by itself once a request is in.  NER, ZK and *)
(* LLM have client timeouts and Redis a dial and read timeout, so each of  *)
(* these waits ends.  db.Exec has neither, so its end is not among them.   *)
HandlerStep(r) ==
  \/ NerClean(r) \/ NerSuspicious(r) \/ NerFail(r)
  \/ VerifyWithZk(r)
  \/ LlmAnswer(r) \/ LlmFail(r)
  \/ StoreSend(r)
  \/ PublishTx(r) \/ PublishFlagged(r) \/ PublishSar(r)
  \/ CountOk(r) \/ CountFlagged(r) \/ CountSar(r)
  \/ Reply(r)

(* PostgreSQL's answer, or the loss of the connection, reaches the handler.*)
StoreEnds(r) == StoreOk(r) \/ StoreFail(r)

DbStep(r) == DbApply(r) \/ DbReject(r)

Next ==
  \/ \E r \in Requests :
       \/ Accept(r) \/ RejectBody(r)
       \/ HandlerStep(r)
       \/ StoreEnds(r)
       \/ DbStep(r)
       \/ Disconnect(r)
  \/ Crash
  \/ Restart

Spec == Init /\ [][Next]_vars

(* Handlers run whenever they can.  The database, the clients, crashes and *)
(* restarts owe nothing.                                                   *)
FairSpec == Spec /\ \A r \in Requests : WF_vars(HandlerStep(r))

-----------------------------------------------------------------------------
(* GetStatistics: one aggregate query over trinity.transactions.           *)
StatTotal == Cardinality({id \in TxIds : rows[id].by # None})
StatFlagged == Cardinality({id \in TxIds : rows[id].flagged})
StatSars == Cardinality({id \in TxIds : rows[id].sar})

-----------------------------------------------------------------------------
(* Properties.                                                             *)

(* Every variable stays in its type (the locals of ProcessTransaction, the *)
(* table, the events and the counters).                                    *)
TypeOK ==
  /\ up \in BOOLEAN
  /\ crashes \in 0..MaxCrashes
  /\ pc \in [Requests -> Stage]
  /\ cancelled \subseteq Requests
  /\ verdict \in [Requests -> Verdict]
  /\ resp \in [Requests -> Response]
  /\ status \in [Requests -> {0, 200, 400, 500}]
  /\ stmts \subseteq Requests
  /\ applied \subseteq Requests
  /\ storeFailed \subseteq Requests
  /\ rows \in [TxIds -> Row]
  /\ events \subseteq Channel \X Requests
  /\ okCount \subseteq Requests
  /\ flagCount \subseteq Requests
  /\ sarCount \subseteq Requests
  /\ nerErrCount \subseteq Requests

Announced(r) == \E ch \in Channel : <<ch, r>> \in events

(* Somebody outside the handler has seen, or is about to see, its outcome. *)
Visible(r) ==
  \/ r \in stmts \cup applied
  \/ Announced(r)
  \/ r \in okCount
  \/ status[r] = 200

(* The fail-safe promise of the pipeline: whatever ZK, LLM, the database   *)
(* and Redis do, an outcome that leaves the handler is flagged exactly when*)
(* NER found a suspicious entity, and claims a SAR or a verified proof only*)
(* when it is flagged (ProcessTransaction, steps 2 to 6).                  *)
FlagFollowsNer ==
  \A r \in Requests : Visible(r) =>
    /\ verdict[r] # "unknown"
    /\ resp[r].flagged <=> verdict[r] = "suspicious"
    /\ resp[r].sar \/ resp[r].zk => resp[r].flagged

(* However upserts of one id interleave, are refused, or run after their   *)
(* handler died, a row is the whole outcome of one request for that id: it *)
(* never keeps a column of an earlier request (storeTransaction).          *)
RowIsOneOutcome ==
  \A id \in TxIds : rows[id].by # None =>
    LET r == rows[id].by IN
      /\ TxOf[r] = id
      /\ rows[id] = [by |-> r, flagged |-> resp[r].flagged, sar |-> resp[r].sar,
                     narrative |-> resp[r].narrative, zk |-> resp[r].zk]

(* A request refused with 400 or 500 leaves nothing behind: no row, no     *)
(* statement on its way to the database, no event, no "ok" count.          *)
RefusalLeavesNoTrace ==
  \A r \in Requests : status[r] \in {400, 500} =>
    /\ ~Visible(r)
    /\ \A id \in TxIds : rows[id].by # r

(* Whoever hears an event or is answered 200 can look the transaction up,  *)
(* unless its store failed and said so; a crash does not change that       *)
(* (ProcessTransaction stores, waits, and only then publishes and answers).*)
RecordedBeforeAnnounced ==
  \A r \in Requests :
    Announced(r) \/ status[r] = 200 => r \in storeFailed \/ rows[TxOf[r]].by # None

(* The statistics answer is coherent whenever it is read, though each row  *)
(* may have been overwritten by requests with other outcomes.              *)
StatisticsCoherent == StatSars <= StatFlagged /\ StatFlagged <= StatTotal

(* Read at one instant between any two increments of any handlers, the     *)
(* counters are ordered: SARs are flagged, flagged were processed.         *)
CountersOrdered ==
  /\ Cardinality(sarCount) <= Cardinality(flagCount)
  /\ Cardinality(flagCount) <= Cardinality(okCount)

(* Once a request has been announced or answered 200 its upsert changes the*)
(* table no more, unless its store was reported as failed: a client that   *)
(* reuses an id after an answer is not overwritten by the earlier request  *)
(* (ProcessTransaction waits for storeTransaction before it goes on).      *)
NoLateOverwrite ==
  [][\A id \in TxIds : rows'[id] # rows[id] =>
       LET r == rows'[id].by IN
         Announced(r) \/ status[r] = 200 => r \in storeFailed]_vars

(* README, "Redis pub/sub channels": trinity:transactions carries "Every   *)
(* processed transaction". Read for a healthy Redis: Faults decides.       *)
EveryProcessedAnnounced ==
  \A r \in okCount : <<"transactions", r>> \in events

(* No outcome of NER, ZK, LLM, Redis or the store leaves a handler waiting *)
(* for ever, even when all compete for fewer connections than there are    *)
(* handlers: one that never finishes sits in the store for good, and then  *)
(* some statement is never answered (db.Exec has no deadline).             *)
HandlersWaitOnlyForDatabase ==
  \A r \in Requests :
    \/ pc[r] \in Working ~> pc[r] \in Finished
    \/ /\ <>[](pc[r] \in {"store", "exec"})
       /\ \E q \in Requests : <>[](pc[q] = "exec")

(* A transaction NER has decided on is sent to the database even if its    *)
(* client hangs up at any point (db.Exec has no context), unless the       *)
(* process dies or a statement of the pool is never answered.              *)
DecidedIsSubmitted ==
  \A r \in Requests :
    \/ pc[r] \in {"zk", "llm", "store"} ~> r \in stmts \/ pc[r] = "lost"
    \/ \E q \in Requests : <>[](pc[q] = "exec")
=============================================================================
