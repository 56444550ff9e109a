---------------------------- MODULE MCAlgorithms ----------------------------
(***************************************************************************)
(* The pure algorithms of Trinity over all small inputs.  A behaviour is   *)
(* about one algorithm: its first input is chosen at the start, a step     *)
(* picks the second.                                                       *)
(***************************************************************************)
EXTENDS FieldBytes

Tree == INSTANCE Merkle
Wire == INSTANCE ZkWire
Names == INSTANCE Screening
Llm == INSTANCE Investigation

VARIABLES topic, given, picked, done

(* Leaves: payloads, the bytes of an inner node with and without its       *)
(* prefix.  Siblings: digests, other bytes, no bytes.                      *)
D1 == Tree!HashLeaf(<<Tree!Payload("t1")>>)
D2 == Tree!HashLeaf(<<Tree!Payload("t2")>>)
D12 == Tree!HashNodes(D1, D2)
Leaves == {<<Tree!Payload("t1")>>, <<Tree!Payload("t2")>>, <<>>, D1, D1 \o D2,
           <<Tree!NodePrefix>> \o D1 \o D2, <<Tree!NodePrefix>> \o D12 \o D12}
Siblings == {D1, D2, D12, <<Tree!Byte(1)>>, <<>>}
Inclusions == [leaf : Leaves, proof : BoundedSeq(Siblings, 2)]

Messages == UNION {{[type |-> t, message |-> m] : m \in Wire!Message(t)} : t \in Wire!Type}

(* Lists of sanctions: names of one to four words, with aliases.           *)
ABCD == <<"a", "b", "c", "d">>
Lists ==
  {<<[name |-> ABCD, aliases |-> <<>>]>>,
   <<[name |-> <<"a", "b">>, aliases |-> <<<<"c">>, <<"b", "b", "a">>>>]>>,
   <<[name |-> <<"a", "b", "c">>, aliases |-> <<>>],
     [name |-> <<"e", "d">>, aliases |-> <<ABCD>>]>>, <<>>}

(* Requests to the prediction cache: labels as a client may send them, one *)
(* of them empty and two with a separator in them.                         *)
Labels == {<<"a">>, <<"b">>, <<>>, <<"a", ",", "b">>, <<"|", "a">>}
Detections == [text : BoundedSeq({"a", "|", ","}, 2), labels : BoundedSeq(Labels, 2)]

Given == [circuit |-> Public, bytes |-> Public, merkle |-> Inclusions,
          arrive |-> Wire!Type, agree |-> Wire!Type, match |-> Lists,
          key |-> Detections, llm |-> Llm!Replies]

Init ==
  /\ topic \in DOMAIN Given
  /\ given \in Given[topic]
  /\ picked = "nothing" /\ done = FALSE

Pick(algorithm, inputs) ==
  /\ topic = algorithm /\ ~done
  /\ picked' \in inputs /\ done' = TRUE
  /\ UNCHANGED <<topic, given>>

Next ==
  \/ Pick("circuit", Private)
  \/ Pick("bytes", BoundedSeq(0..(Base - 1), 2 * Size + 1))
  \/ Pick("merkle", Inclusions)
  \/ topic = "arrive" /\ Pick("arrive", Wire!Message(given))
  \/ Pick("agree", BoundedSeq(Wire!Record, 3))
  \/ Pick("match", BoundedSeq({"a", "b", "c", "d", "e"}, 5))
  \/ Pick("key", Detections)
  \/ Pick("llm", Llm!Amounts)

Spec == Init /\ [][Next]_<<topic, given, picked, done>>

About(algorithm) == done /\ topic = algorithm

(* No assignment of field elements to the circuit's variables satisfies its*)
(* constraints for a false statement (generate_constraints).               *)
CircuitSound == About("circuit") => SoundFor(picked, given)

(* What generate_constraints' closures assign satisfies the constraints for*)
(* every true statement, and for no false one.                             *)
CircuitComplete == About("circuit") => CompleteFor(picked, given)

(* For 64-bit inputs the field's subtraction in the range check compares   *)
(* the amount with the threshold (generate_constraints, AMOUNT_BITS).      *)
StatementIsOrder == About("circuit") => OrderFor(picked, given)

(* Public inputs and witness have one encoding each (from_bytes,           *)
(* deserialize_witness).                                                   *)
OneEncoding ==
  About("bytes") =>
    CanonicalFor([amount |-> given.threshold, sender |-> given.root], given, picked)

(* A Merkle root commits to one leaf and one proof                         *)
(* (verify_merkle_proof_inner).                                            *)
RootCommits ==
  About("merkle") =>
    Tree!CommitsFor(given.leaf, given.proof, picked.leaf, picked.proof)

(* Every message arrives as it was sent, from Go to Rust and back          *)
(* (zk_client.go marshal and unmarshal, trinity.rs).                       *)
MessagesArrive == About("arrive") => Wire!ArrivesFor(given, picked)

(* The Go decoder reads every buffer prost accepts as prost does           *)
(* (zk_client.go unmarshal).                                               *)
DecodersAgree == About("agree") => Wire!AgreeFor(given, picked)

(* A short name matches by containment or by the same words, never by all  *)
(* words but one (_match_sanctions).                                       *)
MatchesAreSameNames == About("match") => Names!MatchFor(picked, given)

(* Requests with one key differ only by labels that are empty or have a    *)
(* separator in them, and have one text unless a label has a "|" in it     *)
(* (_prediction_cache_key).                                                *)
KeyTellsRequests ==
  About("key") => Names!KeyFor(given.text, given.labels, picked.text, picked.labels)

(* As the service's README has it, a prediction is cached by its text: no  *)
(* two texts share one (_prediction_cache_key).                            *)
KeyNamesText ==
  About("key") /\ Names!PredictionCacheKey(given.text, given.labels)
                  = Names!PredictionCacheKey(picked.text, picked.labels)
  => given.text = picked.text

(* A report is counted exactly when it is answered                         *)
(* (_parse_investigation_response).                                        *)
ReportsCounted == About("llm") => Llm!ReportFor(given, picked)

(* As the contract has it, an investigation's risk level is one of three   *)
(* (_parse_investigation_response, InvestigationResponse of openapi.yaml). *)
RiskInContract ==
  About("llm") => LET answer == Llm!Investigate(given, picked) IN
    answer.status = 200 => answer.risk \in Llm!Level
=============================================================================
