------------------------------- MODULE Merkle -------------------------------
(***************************************************************************)
(* Merkle proofs of services/rust-zk/src/merkle.rs.  A byte string is a    *)
(* sequence of pieces: single bytes, payloads, and digests, which stand for*)
(* the 32 bytes SHA-256 makes of a string; no two strings have one digest. *)
(***************************************************************************)
EXTENDS Sequences, Integers

Byte(b) == <<"byte", b>>
Payload(name) == <<"payload", name>>
Sha256(bytes) == << <<"sha256", bytes>> >>

LeafPrefix == Byte(0)
NodePrefix == Byte(1)

(* Slip: no domain separator on the leaves.                                *)
HashLeafUnprefixed(leaf) == Sha256(leaf)

HashLeaf(leaf) == Sha256(<<LeafPrefix>> \o leaf)
HashNodes(left, right) == Sha256(<<NodePrefix>> \o left \o right)

(* The running hash after each turn of the loop: it is always on the left, *)
(* the sibling on the right.                                               *)
Running(leaf, proof) ==
  LET current[i \in 0..Len(proof)] ==
        IF i = 0 THEN HashLeaf(leaf) ELSE HashNodes(current[i - 1], proof[i])
  IN current
RootOf(leaf, proof) == Running(leaf, proof)[Len(proof)]

ConstantTimeEq(a, b) == a = b

VerifyMerkleProof(leaf, proof, root) == ConstantTimeEq(RootOf(leaf, proof), root)

-----------------------------------------------------------------------------
(* A root commits to one leaf and one list of siblings: whoever knows a    *)
(* leaf and a proof that verify knows the only ones, whatever bytes other  *)
(* leaves and siblings are made of, inner nodes of the tree included       *)
(* (verify_merkle_proof_inner, LEAF_PREFIX).                               *)
CommitsFor(leaf, proof, leaf2, proof2) ==
  VerifyMerkleProof(leaf2, proof2, RootOf(leaf, proof))
    <=> leaf2 = leaf /\ proof2 = proof
=============================================================================
