---------------------------- MODULE MCZkService ----------------------------
(* An instance of ZkService for TLC: the field of 11 elements and 2-bit    *)
(* amounts, so that thresholds and amounts are in 0..3.                    *)
EXTENDS ZkService, TLC

CONSTANTS s1, s2, empty

(* In quarters of a cent, around the threshold of 2 cents: negative, below *)
(* it, on it, above it by less than half a cent, and by half a cent.       *)
AroundThreshold == {-1, 7, 8, 9, 10}

(* The name 5 and SetId = 16 are the same element of the field.            *)
Names == {2, 5, 16}

(* An injective function that maps no element to itself.                   *)
Shuffle == [x \in Field |-> (3 * x + 4) % P]

Symmetric == Permutations(Sessions)
=============================================================================
