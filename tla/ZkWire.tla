------------------------------- MODULE ZkWire -------------------------------
(***************************************************************************)
(* The messages of the ZK service on the wire: written and read by hand in *)
(* services/go-backend/zk_client.go, by prost in the Rust service from the *)
(* generated src/proto/trinity.rs.  A message gives each field the sequence*)
(* of its elements; a scalar at its default has none.  A wire record has a *)
(* field number, a wire type and a content; "raw" is not UTF-8, "1" is any *)
(* varint but 0, and a record of type "cut" cannot be parsed.              *)
(***************************************************************************)
EXTENDS SequencesExt, Integers

(* The kinds of the fields, by field number.                               *)
Schema ==
  [VerifyProofRequest    |-> <<"bytes", "bytes">>,
   VerifyProofResponse   |-> <<"bool", "string">>,
   GenerateProofRequest  |-> <<"bytes", "bytes">>,
   GenerateProofResponse |-> <<"bytes", "string">>,
   HashRequest           |-> <<"bytes">>,
   HashResponse          |-> <<"bytes", "string">>,
   MerkleProofRequest    |-> <<"bytes", "repeated", "bytes">>,
   MerkleProofResponse   |-> <<"bool", "string">>,
   HealthRequest         |-> <<>>,
   HealthResponse        |-> <<"string", "string", "bool">>]
Type == DOMAIN Schema

WireType(kind) == IF kind = "bool" THEN "varint" ELSE "bytes"

Elements(kind) ==
  CASE kind = "bool" -> {<<>>, <<"1">>}
    [] kind = "string" -> {<<>>, <<"text">>}
    [] kind = "bytes" -> {<<>>, <<"text">>, <<"raw">>}
    [] kind = "repeated" -> BoundedSeq({"", "text", "raw"}, 2)

Message(type) ==
  LET kinds == Schema[type] IN
  {m \in [DOMAIN kinds -> UNION {Elements(kinds[f]) : f \in DOMAIN kinds}] :
     \A f \in DOMAIN kinds : m[f] \in Elements(kinds[f])}

EmptyMessage(type) == [f \in DOMAIN Schema[type] |-> <<>>]

Record ==
  [num : 1..4, type : {"bytes"}, content : {"", "text", "raw"}]
  \cup [num : 1..4, type : {"varint"}, content : {"0", "1"}]
  \cup [num : {2, 4}, type : {"fixed"}, content : {"text"}]
  \cup [num : {1}, type : {"cut"}, content : {"text"}]

RecordsOf(num, kind, elements) ==
  [i \in DOMAIN elements |->
     [num |-> num, type |-> WireType(kind), content |-> elements[i]]]

(* What marshal has written after each field, in the order of their        *)
(* numbers.  prost encodes the same way.                                   *)
Written(type, m) ==
  LET wire[f \in 0..Len(Schema[type])] ==
        IF f = 0 THEN <<>> ELSE wire[f - 1] \o RecordsOf(f, Schema[type][f], m[f])
  IN wire

(* Slip: putBytes, which skips what is empty, for the siblings too.        *)
MarshalSkippingEmpty(type, m) ==
  Written(type, [f \in DOMAIN m |-> SelectSeq(m[f], LAMBDA e : e # "")])[Len(Schema[type])]

Marshal(type, m) == Written(type, m)[Len(Schema[type])]

(* Slip: the first of several records for one field wins.                  *)
StoreFirst(type, m, r) ==
  IF r.num \notin DOMAIN m \/ r.type # WireType(Schema[type][r.num]) THEN m
  ELSE IF Schema[type][r.num] # "repeated" /\ m[r.num] # <<>> THEN m
  ELSE [m EXCEPT ![r.num] = IF Schema[type][r.num] = "repeated"
                              THEN Append(@, r.content)
                            ELSE IF r.content \in {"", "0"} THEN <<>>
                            ELSE <<r.content>>]

(* One turn of unmarshal's loop: a record of an unknown field, or of a type*)
(* the field does not have, is passed over.                                *)
Store(type, m, r) ==
  IF r.num \notin DOMAIN m \/ r.type # WireType(Schema[type][r.num]) THEN m
  ELSE [m EXCEPT ![r.num] = IF Schema[type][r.num] = "repeated"
                              THEN Append(@, r.content)
                            ELSE IF r.content \in {"", "0"} THEN <<>>
                            ELSE <<r.content>>]

(* unmarshal stops at a record it cannot parse, and reports nothing.       *)
Readable(wire) ==
  LET n == SelectInSeq(wire, LAMBDA r : r.type = "cut") IN
  IF n = 0 THEN wire ELSE SubSeq(wire, 1, n - 1)

(* The message after each turn.                                            *)
Read(type, wire) ==
  LET m[n \in 0..Len(wire)] ==
        IF n = 0 THEN EmptyMessage(type) ELSE Store(type, m[n - 1], wire[n])
  IN m

Unmarshal(type, wire) ==
  LET readable == Readable(wire) IN Read(type, readable)[Len(readable)]

(* prost refuses a buffer it cannot parse, a known field of another wire   *)
(* type and a string that is not UTF-8; it skips fields it does not know.  *)
ProstAccepts(type, wire) ==
  \A i \in DOMAIN wire :
    /\ wire[i].type # "cut"
    /\ wire[i].num \in DOMAIN Schema[type] =>
         LET kind == Schema[type][wire[i].num] IN
         /\ wire[i].type = WireType(kind)
         /\ kind = "string" => wire[i].content # "raw"

(* The contents of the records of one field among the first n.             *)
Contents(num, wire) ==
  LET contents[n \in 0..Len(wire)] ==
        IF n = 0 THEN <<>>
        ELSE IF wire[n].num = num THEN Append(contents[n - 1], wire[n].content)
        ELSE contents[n - 1]
  IN contents

(* A repeated field has the contents of all its records, a scalar that of  *)
(* its last one.                                                           *)
FieldOf(kind, own) ==
  IF kind = "repeated" THEN own
  ELSE IF own = <<>> \/ Last(own) \in {"", "0"} THEN <<>>
  ELSE <<Last(own)>>

ProstDecode(type, wire) ==
  [f \in DOMAIN Schema[type] |-> FieldOf(Schema[type][f], Contents(f, wire)[Len(wire)])]

-----------------------------------------------------------------------------
(* A message arrives as it was sent, in both directions: prost accepts and *)
(* decodes what marshal wrote, unmarshal what prost (which writes the same)*)
(* did, empty siblings and default values included.                        *)
ArrivesFor(type, m) ==
  LET wire == Marshal(type, m) IN
  /\ ProstAccepts(type, wire) /\ ProstDecode(type, wire) = m
  /\ Unmarshal(type, wire) = m

(* The hand-written decoder and the generated one read every buffer the    *)
(* generated one accepts alike: unknown fields, repeated scalars, explicit *)
(* defaults and any order of the fields included.                          *)
AgreeFor(type, wire) ==
  ProstAccepts(type, wire) => Unmarshal(type, wire) = ProstDecode(type, wire)
=============================================================================
