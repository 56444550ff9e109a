# Trinity: specifications in TLA+

Trinity screens bank transactions. A Go backend runs a pipeline over three
services: a Python NER service that finds names and matches them against a
sanctions list, a Rust service that makes and verifies zero-knowledge proofs of
compliance, and a Python LLM service that writes suspicious-activity reports.
Results go into PostgreSQL and are announced over Redis pub/sub. These modules
model the parts of it where order, failure and concurrency decide whether the
result is right, check them with TLC and prove the safety properties with TLAPS.

## Inventory

| Component | State | Operations | What makes it correct |
|---|---|---|---|
| Go pipeline (`main.go`) | locals of each handler, table `trinity.transactions`, Prometheus counters | `ProcessTransaction`: NER, ZK, LLM, store, publish, count, reply; `GetStatistics` | a suspicious transaction is flagged whatever fails; a row is one request's whole outcome; nothing is announced or answered that is neither recorded nor reported unrecorded; a refusal leaves no trace; what is answered is not overwritten by its own late upsert; handlers wait for ever for nothing but the database |
| Go start-up, health | service endpoints, ZK client or none | `NewTransactionService`, `Health`, middleware | it serves only with database and Redis; health tells the truth |
| ZK session (`verifyWithZK`, `zk_client.go`) | hashes, proof, 15 s deadline | four RPCs in order, hand-written wire codec | "verified" is never said of a transaction that is not compliant, compliant ones are not rejected |
| Rust ZK service (`main.rs`, `lib.rs`, `proto/trinity.rs`) | keys, metrics, two server tasks, worker threads | hash, generate, verify, Merkle, health; `/metrics`, `/health` | keys survive restarts; counters agree with the answers given; no half of the service stays up |
| Circuit (`circuit.rs`), Poseidon, Merkle | none | constraints and witness assignment; hashing; fold of siblings | soundness and completeness of the constraints |
| NER service (`ner_service.py`) | sanctions list in memory, prediction cache in Redis | start-up load, `/detect`, `/analyze` | verdicts follow the list in memory; Redis never makes a request fail |
| LLM service (`llm_service.py`) | counters | chat, investigate with fallbacks | a report is counted and answered exactly when required, whatever the model says |
| Demo client, monitoring, contracts | statistics | concurrent requests with a 30 s timeout | statistics add up |

The services talk by calls only; what they share is Redis (cache, list,
channels) and the database. The hard behaviours are concurrent requests with
one transaction id, calls that end by timeout while the callee goes on working,
clients that hang up (which cancels some of the later calls and not others),
partial failure of the steps after the decision, restarts between the steps of a
session, and caches that outlive what they were computed from. `PROJECT.json`
lists every such hazard at its line.

## Modules

| Module | Models |
|---|---|
| `Pipeline` | `ProcessTransaction` for any number of concurrent requests, the table, pub/sub, counters, clients and crashes |
| `PipelineInvariant` | the inductive invariant `IInv` of `Pipeline` |
| `PipelineProofs` | the theorems of `Pipeline`, the refinement of `Compliance` included |
| `Compliance` | what the pipeline promises, without services: a request is refused or decided once; ledger, alerts and answers follow the decision |
| `PipelineRefinement` | the refinement mapping from `Pipeline` to `Compliance` |
| `ZkServer` | the Rust process: main, its two server tasks, the workers, gRPC calls and their dispatch, counters, scrapes, probes, faults and restarts |
| `ZkPromise` | what callers and monitoring are promised, without listeners, tasks and workers |
| `ZkServerProofs`, `ZkServerRefinement`, `ZkServerRefinementProofs` | theorems of `ZkServer`, the refinement mapping to `ZkPromise`, the proof that it is one |
| `FieldBytes` | public inputs and witness as bytes |
| `ZkWire` | the hand-written protobuf codec against prost's |
| `Merkle` | leaf and node hashes and the fold over the siblings |
| `Screening` | similarity and matches of names, keys of the prediction cache |
| `Investigation` | `/investigate`: from the model's reply to the answer |
| `ZkCircuit` | constraints, prover's assignment and statement of the circuit over a field of `P` elements |
| `ZkCircuitProofs` | soundness and completeness of the constraints, for any field and any number of bits; induction and loops |
| `AlgorithmProofs` | theorems about circuit, Merkle root, reports and matches of names |
| `EncodingProofs` | theorems about the wire codec, the cache keys and the bytes of field elements |
| `ZkService`, `ZkServiceProofs` | `verifyWithZK` sessions against the Rust service |
| `Ner`, `NerProofs` | `/detect` handlers, cache, Redis and the list |
| `MCPipeline`, `MCZkService`, `MCZkServer`, `MCNer`, `MCAlgorithms` | the instances TLC checks |

**Pipeline.** A handler is cut where it waits for somebody else or touches
state others can see; `pc[r]` names the call it is about to finish. The answer
of a service is the set of answers the caller distinguishes. NER: clean,
suspicious, or failure (500 and return). ZK: any Boolean, `FALSE` without a
client or once the client hung up. LLM: text, empty text, or failure. The store
is three steps: `StoreSend` waits until less than `PoolSize` statements are
awaited, `DbApply` or `DbReject` is PostgreSQL's, `StoreOk` or `StoreFail`
(`StoreEnds`) the driver's return, which nothing forces to come; an error can be
returned with the statement executed, lost, or still to be executed, and the
statement of a dead process may still run. A cancelled request's context fails
NER, LLM and PUBLISH calls and not `db.Exec`. A counter is the set of requests
that incremented it, for each does so at most once. Clients may reuse ids
(`TxOf`). What every handler does to its row is `Upsert`: all columns.

**ZkService.** A session is in one of four RPCs; `sent` and `reply` are the
call and the answer under way, so that a session may leave by deadline while the
service still serves its call. Amounts are in parts of a cent, `Parts` to a cent:
a float64 is a multiple of a power of two, so any finite set of amounts has such
a number of parts, and the theorems hold for every one. What is rounded is the
value of the product `tx.Amount*100`. Compliant, in `VerifiedMeansCompliant`, is
an amount less than half a cent above the threshold: 10000.004 rounds to 10000.00
and is verified. Names are the numbers their bytes make, so that distinct names
may be one field element (`Collides`). `ServeVerify` and `CountFailure` are the
two increments of a failed verification. Proofs are by
their contract: one verifies if and only if it was made under the same keys
from a true statement. Poseidon is an injective function on the field.

**ZkServer.** `main`, `grpc` and `http` are the three tasks of `main.rs`.
`tokio::select!` returns with the first server that ends, after which no task is
polled again (`main = "shutdown"`) and the process ends when the handlers that
have a worker are through. No handler awaits anything, so a call is "running"
from when a worker takes it to its result, a proof included, and `Busy` never
exceeds `Workers`. `Poll` is `call` of the generated server: a known path whose
body decodes reaches its handler and is counted, anything else is answered
without one. `Work` makes the reply and counts it; a verification's failure is
counted one step later, by a second increment. A client may give up at any time,
which stops a call only before its handler has started. `Gather` to `Gathered`
is one scrape, reading counter after counter while handlers go on. `Kill` is any
sudden death, since no signal is handled. What a call says is its path and one of
four bodies, those the handlers tell apart. `ZkService` and `ZkServer` model the
same handlers for two questions: what a session of four calls concludes from
them, with amounts and proofs, and what one process does with many calls.

**ZkServer as ZkPromise.** To the outside a call is pending from when it is taken
in until its reply is written or its connection ends; the verdict appears with
the reply, the counters are those of verifications and failures.

**ZkWire.** A message gives each field the sequence of its elements, a buffer is
a sequence of records with number, wire type and content. `Store` is a turn of
`unmarshal`'s loop, the same for all ten types but for their schema. `ProstDecode`
collects what the records of each field say and then takes the last or all of
it, so that the two can disagree.

**Merkle, FieldBytes, Screening, Investigation.** Operators. Byte strings of
`Merkle` are sequences of bytes, payloads and digests, where one digest may be
the other's input. A word of `Screening` has one letter, so that containment of
strings is containment of sequences. A reply of `Investigation` is its form and
the two fields the parser looks at. Labels of a cache key are a client's, of any
characters, empty ones included. `_generate_sar` is in it although the
template always fills the narrative before: the property is that the two places
do not count one report twice.

**ZkCircuit.** The five groups of constraints in the order they are enforced,
and what the prover's closures assign, including the zero they assign where no
inverse exists. A release build's prover does not look whether the constraints
hold, so `Prove` always makes a proof.

**Ner.** A handler is in one of two awaits, the cache read or the cache write;
between them it runs to the end without interruption. A failed Redis call is a
miss. The model may raise at every inference (`InferenceRaises`), which
`/detect` turns into a 500, as it does an exception from matching against a
broken list. The list is chosen at start-up and never changes while the process
is up.

## Runs

| Run | Instance | Shows |
|---|---|---|
| `pipeline_safety` | 2 requests, 1 id, pool of 1, 1 crash, ZK client; disconnects, LLM and database faults | seven safety properties and `IInv`, `ImplementsCompliance` |
| `pipeline_live` | 2 requests, 1 id, pool of 1, no ZK client; disconnects, NER and database faults, fairness | a handler that never ends waits for the database; every decided transaction is sent to it |
| `pipeline_every_event` | disconnects | **violated**: a processed transaction without an event |
| `algorithms` | field of 11 in two bytes of four values, range check of 2 bits; seven leaves, five siblings, proofs of up to two; buffers of up to three records; names of up to five words; labels, texts and model replies | constraints, assignment and statement agree; encodings, Merkle roots, codec, matches, cache keys and reports (ten properties) |
| `cache_key` | the same, texts of up to two characters and up to two of five labels | **violated**: two texts share a cached prediction |
| `llm_risk` | the same, every form of reply | **violated**: a risk level outside the contract |
| `zk_server` | 2 calls (a failing verification, a refused proof, an unknown path), 1 scrape or probe, 2 workers, 2 starts, all faults, fairness | counters agree with answers and scrapes, no half service, every call ends, `ImplementsPromise` |
| `zk_service` | 2 sessions, 2 restarts, amounts of -1, 7, 8, 9, 10 quarter cents around a threshold of 2 cents, three names, among them the set's and one that collides with it | verified means compliant, rejected means not, counters |
| `zk_threshold` | 1 session | **violated**: an amount equal to the threshold is verified |
| `zk_proofs` | 1 session | **violated**: a proof is made for a false statement |
| `ner` | 3 requests, 2 texts, 2 starts, a good and a broken list | answers follow the list; failures come of the model or a broken list; every request ends |
| `ner_enrich` | the same | **violated**: a list in Redis replaces the built-in one |

Bounds. Two requests with one id and one connection already interleave every
pair of steps, compete for the pool and overwrite each other; a third adds
repetition, and the safety theorems hold for any number. One crash puts a
restart between any two steps of each handler. The circuit's instance has every
case: differences in range, out of range and wrapped, equal and unequal hashes;
its two bits stand for 64, 11 for the modulus, and the assumption `2 * 2^Bits <=
P` holds of both. Two restarts of the Rust service put one before and one after
the proof. Two calls and a scrape on two workers fill them, so that the third
waits; a failed verification is the only handler with two increments, a refusal
the only one without, an unknown path the only reply without a handler, and the
theorems about `ZkServer` hold for every request. The scrape is watched at the
two counters whose order of reading matters. Buffers of three records have a
field twice and another between; five words are the fewest for a quotient of
0.8. `-1` is the negative amount; 7, 8, 9 and 10 quarter cents are below the
threshold, on it, above it and still rounded to it, and rounded away from it.
The five labels are two ordinary ones, the empty one and one with each separator.
`pipeline_safety` identifies requests, and `zk_service` sessions, up to a
permutation; their properties name none, so that is sound. Runs with `CHECK_DEADLOCK FALSE` are those where
the system may stop: all requests are answered and nobody sends another.

### Fairness

`Pipeline!FairSpec` is weak fairness of `HandlerStep(r)` and nothing else: the
Go scheduler and the deadlines of the calls (NER 10 s, ZK 15 s, LLM 30 s,
go-redis' default timeouts). `StoreEnds` and `DbStep` are not fair, because
`db.Exec` is called without a context and no `statement_timeout` is set: a
statement may go unanswered for ever, and the handlers behind it wait for its
connection. The two properties say what is left: `HandlersWaitOnlyForDatabase`
that a handler which does not end is in the store for good, and some statement
unanswered for good; `DecidedIsSubmitted` that a decided transaction's statement
is sent, a client that hangs up notwithstanding, or again some statement is
unanswered for good. A handler that waits for a connection needs no strong
fairness, since the requests that can take it from it are finitely many.
`Ner!FairSpec` is weak fairness of a handler's awaits, from the socket timeout
of 2 s. `ZkServer!FairSpec` is weak fairness of main once a server has ended,
and of each call's and each probe's steps in the process: a handler computes and
ends, and Tokio polls every ready task. Calls and probes are finitely many, so
that a worker that keeps being taken is free in the end. Listeners that bind,
calls that arrive and clients that leave are not fair. Clients, crashes,
restarts and Redis' coming back are not fair.

### Disagreements between code and documents

1. *Every processed transaction is announced* (backend README, comment at the
   channel constants). `publishEvents` uses the request's context: a client that
   hangs up is stored and counted and not announced.
2. *amount < threshold* (`main.go`, `circuit.rs`, README of the ZK service). The
   bit decomposition accepts the difference 0: the proof is of `<=`.
3. *Proof generation fails* for a false statement (`circuit.rs`, README of the
   ZK service). In a release build it returns a proof that does not verify. The
   backend relies on verification only, so `VerifiedMeansCompliant` holds.
4. *Enrich the in-memory list from Redis* (`ner_service.py`, its README). The
   list is replaced.
5. *Predictions are cached by SHA-256(text)* (README of the NER service). The key
   is of text, `|` and the labels joined by commas, without escaping, and labels
   come from the client unchecked: the empty text with the label `|a` has the key
   of the text `|` with the label `a`. Labels alone collide, too: `["a,b"]` and
   `["a", "b"]`, `[]` and `[""]`. `KeyTellsRequests` says how far the key goes.
6. *risk_level is Low, Medium or High* (`openapi.yaml`). When the model's reply is
   not a JSON object the word after "Risk Level:" is answered as it is.

## Proofs

All proofs are for arbitrary constants under the named assumptions of the
modules: finite sets of requests and ids, any set of faults, pool size and number
of crashes; any modulus with inverses and `2 * 2^Bits <= P`, an injective
Poseidon; any base, and any size of an element, with `P <= Base^Size`; any
texts, names and lists. A theorem about one of the pure algorithms is stated
twice: for all its inputs, and, from that, as `Spec => []Property` for the inputs
the run enumerates.

- `PipelineProofs`. The properties are not inductive: that an announced
  transaction is on record needs to know that a handler past the store has its
  result (`SpokenInv`), that a row is one whole outcome needs that a response no
  longer changes once its statement is out (`EscapeInv`), which needs what each
  stage knows of verdict and flag (`StageInv`); the order of the counters needs
  how far each handler is (`CountInv`). `IInv` is their conjunction. One lemma
  per conjunct has one step per action; `Invariance` combines them and the
  property theorems follow. `LateTheorem` follows from `SpokenInv`: a handler past
  the store without a reported failure has had its statement executed, so a
  statement that changes a row now is another's.
- `RefinementTheorem` in `PipelineProofs`. Under `IInv` each action is one
  action of `Compliance` or changes nothing it can see: a decision appears when
  the NER answer is clean or the LLM call ends, `DbApply` records, `StoreFail`
  reports the failure, PUBLISH announces, `Reply` answers.
- `ZkServiceProofs`. `IInv` says what each of the four RPCs and replies carries:
  a session in the third has the digest of its sender, a proof held is under the
  one key pair and proves exactly its session's compliance, collisions apart
  (`Holds`), and a failed verification is between its two increments only. The
  arithmetic is in lemmas: rounding to the nearest cent from any number of parts
  (`QuotientAtMost`, `CentsWithin`), the wrapped difference of two 64-bit numbers,
  digests equal only for equal residues.
- `ZkCircuitProofs`. Induction over the bits is over the set of numbers for
  which a claim holds (`Induction`), because no prover here takes the library's
  operators. Soundness needs that the weighted sum of Boolean bits stays below
  `Power[Bits]` (`PartialBound`) and that a field has no zero divisors, so that
  `bit * (1 - bit) = 0` makes a bit Boolean; completeness needs that the digits
  of a number below `Power[Bits]` add up to it (`PartialDigits`).
  `RangeIsOrder`: the subtraction in the field compares two numbers of `Bits`
  bits. Loops of the code are recursive functions over the number of turns.
  `Loop` shows once that such a function exists and is typed, for any initial
  value and any turn, and `InductionTo` is induction up to a given number; all
  proofs below about definitions by recursion begin with these two.
- `AlgorithmProofs` states the circuit's theorems for the run. `CommitTheorem`
  is for leaves and proofs of any length: of two equal running hashes either
  both are a leaf's, or both are nodes' of equal pasts, since the prefixes
  differ; and if one chain is the longer one, its node would be the other's
  leaf. `ReportTheorem` goes by cases on the reply. `MatchTheorem` is for texts
  and lists of any length and names of at most four words, which is where it is
  true: with `n` common words of `d` in all, `n/d > 4/5` means `n = d` as long
  as one of the sets has at most four words (`FourFifths`), so the shares above
  the threshold are exactly those of equal sets of words (`SimilarIs`).
- `EncodingProofs`. `AgreeTheorem`: after every turn of `unmarshal` each field
  is what `FieldOf` makes of the records so far; that a record of a known field
  has the field's wire type is what prost's acceptance gives. `ArriveTheorem`:
  what `marshal` writes contributes to a field only through that field's own
  records (`ContentsOfBoth`), which prost reads back, and the Go decoder by
  `AgreeTheorem`. Its hypothesis is what the structs can hold: a scalar has no
  element or one that is not the default's encoding, a string is UTF-8.
  `KeyTheorem` is for any texts and any labels: without a `|` in a label the
  text ends at the last one, which is found from the end (`LastSeparator`);
  labels that are not empty and have no separator in them are read off the join
  from the last comma backwards, as many as were joined (`EqualLabels`). Texts
  may contain both separators. Of other labels the theorem promises nothing, and
  run `cache_key` shows why; the service's default labels are split at commas
  and never empty, so that only a `|` in the configuration could make one of
  them such a label. `CanonicalTheorem`: the digits of a number below
  `Base^Size` leave nothing over (`NothingLeft`) and make the number again
  (`WrittenIsRead`), and the digits of a number read are the bytes
  (`ReadIsWritten`); with a buffer of another length, or a word that is not
  below the modulus, both sides are false.
- `ZkServerProofs`. `AnswersAreCounted` needs to know which counters a call is
  in at each of its steps (`CountedAs`), that calls of an earlier process are in
  none, and that a reply is `ReplyTo` of its request; `ScrapeCoherent` needs that
  failures are verifications and results are requests (`OrderInv`) and that what
  a scrape has read is still counted (`SeenInv`). That `Busy` never exceeds
  `Workers` is carried along. One lemma per action.
- `ZkServerRefinementProofs`. Under `IInv` each action is one of `ZkPromise` or
  a stutter: `SetUp` comes up, `Vanish` goes down, `Work` and `CountFailure`
  record, `Deliver` answers or, for a client that has left, fails. That an answer
  finds its verdict on record is `CountInv`.
- `NerProofs`. Every cached prediction, and that of every handler between the
  model and its end, is the model's raw output for the text, so flags are always
  computed from the list in memory.

With TLC only: the five liveness properties (`HandlersWaitOnlyForDatabase` and
`DecidedIsSubmitted` of `Pipeline`, `HalfServiceExits` and `EveryCallEnds` of
`ZkServer`, `EveryDetectEnds` of `Ner`), as TLAPS has no rule for `ENABLED`
here, and the six disagreements. Every other property of a passing run is a
theorem, the two refinements included.

## Not modelled

- Groth16, Poseidon's permutation and SHA-256: taken by contract.
- The generated gRPC client of `trinity.rs`, the PyO3 bindings (`lib.rs`,
  `merkle.rs`, `poseidon.rs`), the benchmark and `build.rs`: nothing deployed
  runs them, or they only pass calls on.
- Go's `Health`, request ids and logging; the pings at start-up, beyond the
  choice of keeping a ZK client. `/chat`, provider list and health of the LLM
  service: they hold no state, and what the pipeline can tell of `/chat` is in
  `Pipeline`. HTTP to OpenAI and Ollama, and the prompts' wording.
- The risk level `/analyze` adds to its answer; health and metrics of NER.
- The demo client: it sends each request once and keeps its statistics in one
  event loop. Its requests are those of `Pipeline`'s clients.
- Deployment: compose sets no restart policy, so that `Restart` and `Boot` are
  the operator's and not fair. Tables without a writer, dashboards, CI files,
  logging and histograms.
- The rounding in `tx.Amount*100` itself: an amount is the value of that product.
- Amounts beyond 64 bits, excluded by an assumption: Go's conversion of them
  differs between platforms. The fresh randomness of proofs, which is about
  secrecy.

## Plan

Done: `Pipeline` and `ZkServer` with their abstract specifications and proofs;
`ZkCircuit`, `ZkService`, `Ner` with their proofs; the pure algorithms, all with
theorems for inputs of any size.

Next, in this order:

1. What the invariants know beyond the properties the runs check, as theorems of
   their own: that a reply of `ZkServer` is its request's, that a session of
   `ZkService` holds its own sender's digest.
2. `Backend`: start-up with its pings, `Health`, and what `zk_connected` says.
3. `ZkService` as a client of `ZkServer`: the abandoned calls of one session
   keeping the workers from another's.
4. The risk level of `/analyze`.
