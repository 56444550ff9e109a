----------------------------- MODULE FieldBytes -----------------------------
(***************************************************************************)
(* Field elements as bytes: the layout of public inputs and witness, two   *)
(* elements of Size little-endian bytes each, as circuit.rs and lib.rs of  *)
(* services/rust-zk write and read it.                                     *)
(***************************************************************************)
EXTENDS ZkCircuit, SequencesExt

CONSTANTS
  Base,  \* values of a byte
  Size   \* bytes of an element, MODULUS_BIT_SIZE.div_ceil(8)

(* How many numbers i bytes have, Base^i.                                  *)
Numbers[i \in 0..Size] == IF i = 0 THEN 1 ELSE Base * Numbers[i - 1]

ASSUME SizeAssumption ==
  /\ Base \in Nat \ {0, 1} /\ Size \in Nat \ {0}
  /\ P <= Numbers[Size]

(* into_bigint().to_bytes_le(), which never drops a leading zero: what is  *)
(* left of x after each byte, and the bytes.                               *)
Rest(x) ==
  LET rest[i \in 0..Size] == IF i = 0 THEN x ELSE rest[i - 1] \div Base IN rest
ToBytes(x) == [i \in 1..Size |-> Rest(x)[i - 1] % Base]

(* The number of the i most significant of Size bytes, and of all.         *)
Top(bytes) ==
  LET top[i \in 0..Size] ==
        IF i = 0 THEN 0 ELSE bytes[Size - i + 1] + Base * top[i - 1]
  IN top
Number(bytes) == Top(bytes)[Size]

WritePublic(public) == ToBytes(public.threshold) \o ToBytes(public.root)
WriteWitness(private) == ToBytes(private.amount) \o ToBytes(private.sender)

LowWord(bytes) == Number(SubSeq(bytes, 1, Size))
HighWord(bytes) == Number(SubSeq(bytes, Size + 1, 2 * Size))

(* Slip: a word is reduced into the field, as bytes_to_field does.         *)
WellFormedReducing(bytes) == Len(bytes) = 2 * Size

(* Both readers refuse another length, and deserialize_uncompressed_       *)
(* unchecked a word that is not below the modulus.                         *)
WellFormed(bytes) ==
  /\ Len(bytes) = 2 * Size
  /\ LowWord(bytes) < P /\ HighWord(bytes) < P

ReadPublic(bytes) ==
  [threshold |-> LowWord(bytes) % P, root |-> HighWord(bytes) % P]
ReadWitness(bytes) ==
  [amount |-> LowWord(bytes) % P, sender |-> HighWord(bytes) % P]

-----------------------------------------------------------------------------
(* One encoding each: a buffer reads as the given public inputs, or as the *)
(* given witness, exactly when it is the buffer written for them           *)
(* (from_bytes, deserialize_witness).                                      *)
CanonicalFor(private, public, bytes) ==
  /\ WellFormed(bytes) /\ ReadPublic(bytes) = public <=> bytes = WritePublic(public)
  /\ WellFormed(bytes) /\ ReadWitness(bytes) = private <=> bytes = WriteWitness(private)
=============================================================================
