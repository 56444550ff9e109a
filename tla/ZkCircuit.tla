----------------------------- MODULE ZkCircuit -----------------------------
(***************************************************************************)
(* ComplianceCircuit of services/rust-zk/src/circuit.rs: its rank-1        *)
(* constraints over a prime field and the values the honest prover assigns.*)
(* Groth16 is taken at its word: a proof verifies for some public inputs   *)
(* exactly when it was made from an assignment that satisfies the          *)
(* constraints with those inputs.                                          *)
(***************************************************************************)
EXTENDS Integers

CONSTANTS
  P,     \* the field's modulus (Fr::MODULUS)
  Bits   \* AMOUNT_BITS

(* Powers of two, up to 2^Bits; the provers know no law of ^.              *)
Power[i \in 0..Bits] == IF i = 0 THEN 1 ELSE 2 * Power[i - 1]

(* A Bn254 scalar has 254 bits, AMOUNT_BITS is 64: no difference of two    *)
(* 64-bit numbers wraps around into the range check.                       *)
ASSUME FieldAssumption ==
  /\ P \in Nat /\ Bits \in Nat \ {0}
  /\ 2 * Power[Bits] <= P

Field == 0..(P - 1)

(* A prime modulus: every element but zero has an inverse.                 *)
ASSUME PrimeAssumption ==
  \A x \in Field \ {0} : \E y \in Field : (x * y) % P = 1

Minus(x, y) == IF y <= x THEN x - y ELSE x - y + P

Public == [threshold : Field, root : Field]
Private == [amount : Field, sender : Field]

(* The witness variables generate_constraints allocates beside the private *)
(* inputs.  bits[i] is the coefficient of 2^i.                             *)
Assignment == [diff : Field, bits : [0..(Bits - 1) -> Field],
               delta : Field, inverse : Field]

(* sum_lc after n turns of the loop that adds up the bits, and at its end. *)
Partial(bits) ==
  LET sum[n \in 0..Bits] ==
        IF n = 0 THEN 0 ELSE sum[n - 1] + bits[n - 1] * Power[n - 1]
  IN sum
Sum(bits) == Partial(bits)[Bits]

(* Slip: no booleanity constraint on the bits.                             *)
SatisfiedWithAnyDigits(a, private, public) ==
  /\ Minus(public.threshold, private.amount) = a.diff
  /\ Sum(a.bits) % P = a.diff
  /\ Minus(private.sender, public.root) = a.delta
  /\ (a.delta * a.inverse) % P = 1

(* The constraints, in the order they are enforced.                        *)
Satisfied(a, private, public) ==
  /\ Minus(public.threshold, private.amount) = a.diff
  /\ \A i \in 0..(Bits - 1) : (a.bits[i] * Minus(1, a.bits[i])) % P = 0
  /\ Sum(a.bits) % P = a.diff
  /\ Minus(private.sender, public.root) = a.delta
  /\ (a.delta * a.inverse) % P = 1

InverseOf(x) ==
  IF x = 0 THEN 0 ELSE CHOOSE y \in Field : (x * y) % P = 1

(* Slip: the bits are taken from the amount, not from the difference.      *)
ProverBitsOfAmount(private, public) ==
  LET diff == Minus(public.threshold, private.amount)
      delta == Minus(private.sender, public.root)
  IN [diff |-> diff,
      bits |-> [i \in 0..(Bits - 1) |-> (private.amount \div Power[i]) % 2],
      delta |-> delta, inverse |-> InverseOf(delta)]

(* What the closures of generate_constraints compute: the low bits of the  *)
(* difference, and 0 where the inverse does not exist.                     *)
Prover(private, public) ==
  LET diff == Minus(public.threshold, private.amount)
      delta == Minus(private.sender, public.root)
  IN [diff |-> diff,
      bits |-> [i \in 0..(Bits - 1) |-> (diff \div Power[i]) % 2],
      delta |-> delta, inverse |-> InverseOf(delta)]

(* Slip: the operands of the difference swapped.                           *)
StatementSwapped(private, public) ==
  /\ Minus(private.amount, public.threshold) < Power[Bits]
  /\ private.sender # public.root

(* The statement of the circuit as its constraints say it.                 *)
Statement(private, public) ==
  /\ Minus(public.threshold, private.amount) < Power[Bits]
  /\ private.sender # public.root

(* The range of amounts and thresholds fieldLE can encode (u64).           *)
Word == 0..(Power[Bits] - 1)

(* generate_compliance_proof.  In a release build prove does not look      *)
(* whether the constraints hold; it makes a proof of whatever the closures *)
(* computed.                                                               *)
Prove(private, public) ==
  [for |-> public,
   satisfied |-> Satisfied(Prover(private, public), private, public)]

(* Groth16::verify with the inputs in the order of to_vec.                 *)
Verify(proof, public) == proof.satisfied /\ proof.for = public

-----------------------------------------------------------------------------
(* Soundness of generate_constraints: no assignment whatever, of a field   *)
(* element to each variable, satisfies them for a false statement.  diff   *)
(* and delta are what the first and fourth constraint make them.           *)
SoundFor(private, public) ==
  \/ Statement(private, public)
  \/ \A bits \in [0..(Bits - 1) -> Field], inverse \in Field :
       ~Satisfied([diff |-> Minus(public.threshold, private.amount),
                   bits |-> bits,
                   delta |-> Minus(private.sender, public.root),
                   inverse |-> inverse], private, public)

(* Completeness of the closures in generate_constraints: for a true        *)
(* statement the prover's own assignment satisfies every constraint, and   *)
(* for a false one what they make up instead satisfies some but not all.   *)
CompleteFor(private, public) ==
  LET proof == Prove(private, public) IN
  Verify(proof, public) <=> Statement(private, public)

(* For amounts and thresholds of u64 size the statement is an order between*)
(* numbers: a difference that wrapped around the field is never in range.  *)
OrderFor(private, public) ==
  private.amount \in Word /\ public.threshold \in Word =>
    (Statement(private, public)
       <=> private.amount <= public.threshold /\ private.sender # public.root)
=============================================================================
