-------------------------- MODULE ZkCircuitProofs --------------------------
(***************************************************************************)
(* The circuit's constraints hold of some assignment exactly for the true  *)
(* statements, for every field and number of bits.  Induction over the bits*)
(* is by the least counterexample: a set of natural numbers that has 0 and *)
(* with a number its successor has all.                                    *)
(***************************************************************************)
EXTENDS ZkCircuit, WellFoundedInduction, TLAPS

(* A set of natural numbers has a least element.                           *)
LEMMA LeastNat ==
  ASSUME NEW S \in SUBSET Nat, S # {}
  PROVE  \E n \in S : \A m \in S : n <= m
<1> DEFINE R == OpToRel(<, Nat)
<1>1. IsWellFoundedOn(R, Nat) BY NatLessThanWellFounded
<1>2. \A x, y \in Nat : x < y => <<x, y>> \in R BY DEF OpToRel
<1>3. PICK x \in S : \A y \in S : ~(<<y, x>> \in R)
  <2> HIDE DEF R
  <2> QED BY <1>1, WFMin
<1>4. \A y \in S : x <= y
  <2> SUFFICES ASSUME NEW y \in S PROVE ~(y < x) OBVIOUS
  <2> HIDE DEF R
  <2> QED BY <1>2, <1>3
<1> QED BY <1>4

LEMMA Induction ==
  ASSUME NEW S \in SUBSET Nat, 0 \in S, \A n \in S : n + 1 \in S
  PROVE  S = Nat
<1> SUFFICES ASSUME S # Nat PROVE FALSE OBVIOUS
<1>1. PICK n \in Nat \ S : \A m \in Nat \ S : n <= m BY LeastNat
<1>2. n # 0 OBVIOUS
<1>3. n - 1 \in Nat /\ n - 1 \in S BY <1>1, <1>2
<1> QED BY <1>1, <1>3

(* The same up to a bound.                                                 *)
LEMMA InductionTo ==
  ASSUME NEW N \in Nat, NEW S, 0 \in S, \A n \in 0..(N - 1) : n \in S => n + 1 \in S
  PROVE  \A n \in 0..N : n \in S
<1> DEFINE T == {n \in Nat : n <= N => n \in S}
<1>1. 0 \in T OBVIOUS
<1>2. \A n \in T : n + 1 \in T OBVIOUS
<1>3. T \subseteq Nat OBVIOUS
<1>4. T = Nat
  <2> HIDE DEF T
  <2> QED BY <1>1, <1>2, <1>3, Induction
<1> QED BY <1>4

(* The values of a loop after each of n turns.                             *)
Turns(f, V, v0, turn, n) ==
  f \in [0..n -> V] /\ f[0] = v0 /\ \A i \in 1..n : f[i] = turn[i][f[i - 1]]

(* Every loop whose turns take values of V to values of V has them.        *)
LEMMA Loop ==
  ASSUME NEW V, NEW v0 \in V, NEW turn \in [Nat -> [V -> V]], NEW N \in Nat
  PROVE  \E f : Turns(f, V, v0, turn, N)
<1> USE DEF Turns
<1> DEFINE
      Is(f, n) == Turns(f, V, v0, turn, n)
      S == {n \in Nat : \E f : Is(f, n)}
<1>1. 0 \in S
  <2>1. Is([i \in 0..0 |-> v0], 0) OBVIOUS
  <2> QED BY <2>1
<1>2. ASSUME NEW n \in S PROVE n + 1 \in S
  <2>1. PICK f : Is(f, n) OBVIOUS
  <2> DEFINE v == turn[n + 1][f[n]]
             g == [i \in 0..(n + 1) |-> IF i = n + 1 THEN v ELSE f[i]]
  <2>2. n + 1 \in Nat /\ v \in V BY <2>1
  <2> HIDE DEF v
  <2>3. g \in [0..(n + 1) -> V] BY <2>1, <2>2
  <2>4. g[0] = v0 /\ g[n + 1] = v /\ \A i \in 0..n : g[i] = f[i] BY <2>1
  <2>5. ASSUME NEW i \in 1..(n + 1) PROVE g[i] = turn[i][g[i - 1]]
    <3> HIDE DEF g
    <3>1. CASE i = n + 1 BY <2>4, <3>1 DEF v
    <3>2. CASE i # n + 1
      <4>1. i \in 1..n /\ i \in 0..n /\ i - 1 \in 0..n BY <3>2
      <4> QED BY <2>1, <2>4, <4>1
    <3> QED BY <3>1, <3>2
  <2> HIDE DEF g
  <2>6. Is(g, n + 1) BY <2>3, <2>4, <2>5
  <2> HIDE DEF Is
  <2> QED BY <2>2, <2>6
<1>3. S = Nat
  <2> HIDE DEF S
  <2>1. S \subseteq Nat BY DEF S
  <2> QED BY <1>1, <1>2, <2>1, Induction
<1> QED BY <1>3

-----------------------------------------------------------------------------
(* The recursive functions are what their definitions say.                 *)

LEMMA PowerIs ==
  \A i \in 0..Bits : Power[i] = IF i = 0 THEN 1 ELSE 2 * Power[i - 1]
<1> DEFINE turn == [i \in Nat |-> [x \in Nat |-> 2 * x]]
<1>1. turn \in [Nat -> [Nat -> Nat]]
  <2>1. [x \in Nat |-> 2 * x] \in [Nat -> Nat] OBVIOUS
  <2> QED BY <2>1, Zenon
<1>2. \A i, x \in Nat : turn[i][x] = 2 * x BY Zenon
<1> HIDE DEF turn
<1>3. PICK p : Turns(p, Nat, 1, turn, Bits) BY <1>1, Loop, FieldAssumption
<1>4. p[0] = 1 /\ \A i \in 1..Bits : p[i] = 2 * p[i - 1]
  <2>1. p \in [0..Bits -> Nat] /\ p[0] = 1 BY <1>3 DEF Turns
  <2>2. ASSUME NEW i \in 1..Bits PROVE p[i] = 2 * p[i - 1]
    <3>1. i \in Nat /\ p[i - 1] \in Nat BY <2>1, FieldAssumption
    <3>2. p[i] = turn[i][p[i - 1]] BY <1>3 DEF Turns
    <3> QED BY <1>2, <3>1, <3>2
  <2> QED BY <2>1, <2>2
<1>5. p = [i \in 0..Bits |-> IF i = 0 THEN 1 ELSE 2 * p[i - 1]]
  BY <1>3, <1>4, FieldAssumption DEF Turns
<1>6. Power = [i \in 0..Bits |-> IF i = 0 THEN 1 ELSE 2 * Power[i - 1]]
  BY <1>5 DEF Power
<1> QED BY <1>6

LEMMA PartialExists ==
  ASSUME NEW bits, NEW N \in Nat
  PROVE  \E s : s = [n \in 0..N |->
                       IF n = 0 THEN 0 ELSE s[n - 1] + bits[n - 1] * Power[n - 1]]
<1> DEFINE
      Is(s, m) == s = [n \in 0..m |->
                         IF n = 0 THEN 0 ELSE s[n - 1] + bits[n - 1] * Power[n - 1]]
      S == {m \in Nat : \E s : Is(s, m)}
<1>1. 0 \in S
  <2>1. Is([n \in 0..0 |-> 0], 0) OBVIOUS
  <2> QED BY <2>1
<1>2. ASSUME NEW m \in S PROVE m + 1 \in S
  <2>1. PICK s : Is(s, m) OBVIOUS
  <2> DEFINE t == [n \in 0..(m + 1) |->
                     IF n = m + 1 THEN s[m] + bits[m] * Power[m] ELSE s[n]]
  <2>2. ASSUME NEW n \in 0..(m + 1)
        PROVE  t[n] = IF n = 0 THEN 0 ELSE t[n - 1] + bits[n - 1] * Power[n - 1]
    <3>1. CASE n = m + 1 BY <3>1
    <3>2. CASE n # m + 1 BY <2>1, <3>2
    <3> QED BY <3>1, <3>2
  <2>3. Is(t, m + 1) BY <2>2
  <2>4. m + 1 \in Nat OBVIOUS
  <2> HIDE DEF t, Is
  <2> QED BY <2>3, <2>4
<1>3. S = Nat
  <2> HIDE DEF S
  <2>1. S \subseteq Nat BY DEF S
  <2> QED BY <1>1, <1>2, <2>1, Induction
<1> QED BY <1>3

LEMMA PartialIs ==
  ASSUME NEW bits
  PROVE  \A n \in 0..Bits : Partial(bits)[n] =
           IF n = 0 THEN 0 ELSE Partial(bits)[n - 1] + bits[n - 1] * Power[n - 1]
<1>1. \E s : s = [n \in 0..Bits |->
                    IF n = 0 THEN 0 ELSE s[n - 1] + bits[n - 1] * Power[n - 1]]
  BY PartialExists, FieldAssumption
<1>2. Partial(bits) =
        [n \in 0..Bits |->
           IF n = 0 THEN 0 ELSE Partial(bits)[n - 1] + bits[n - 1] * Power[n - 1]]
  BY <1>1 DEF Partial
<1> QED BY <1>2

-----------------------------------------------------------------------------
(* Sums of bits.                                                           *)

LEMMA PowerType == \A i \in 0..Bits : Power[i] \in Nat \ {0}
<1> DEFINE S == {i \in Nat : i \in 0..Bits => Power[i] \in Nat \ {0}}
<1>1. 0 \in S BY PowerIs, FieldAssumption
<1>2. ASSUME NEW i \in S PROVE i + 1 \in S
  <2> SUFFICES ASSUME i + 1 \in 0..Bits PROVE Power[i + 1] \in Nat \ {0} OBVIOUS
  <2>1. i \in 0..Bits /\ Power[i] \in Nat \ {0} BY FieldAssumption
  <2>2. Power[i + 1] = 2 * Power[i] BY PowerIs, FieldAssumption
  <2> QED BY <2>1, <2>2
<1>3. S = Nat
  <2> HIDE DEF S
  <2>1. S \subseteq Nat BY DEF S
  <2> QED BY <1>1, <1>2, <2>1, Induction
<1> QED BY <1>3, FieldAssumption

(* The sum of n zeros and ones stays below 2^n.                            *)
LEMMA PartialBound ==
  ASSUME NEW bits \in [0..(Bits - 1) -> {0, 1}]
  PROVE  \A n \in 0..Bits : Partial(bits)[n] \in 0..(Power[n] - 1)
<1> DEFINE S == {n \in Nat : n \in 0..Bits => Partial(bits)[n] \in 0..(Power[n] - 1)}
<1>1. 0 \in S BY PowerIs, PartialIs, FieldAssumption
<1>2. ASSUME NEW n \in S PROVE n + 1 \in S
  <2> SUFFICES ASSUME n + 1 \in 0..Bits
               PROVE  Partial(bits)[n + 1] \in 0..(Power[n + 1] - 1)
    OBVIOUS
  <2>1. n \in 0..Bits /\ n \in 0..(Bits - 1) /\ n + 1 # 0 /\ (n + 1) - 1 = n
    BY FieldAssumption
  <2>2. Power[n + 1] = 2 * Power[n] BY <2>1, PowerIs
  <2>3. Partial(bits)[n + 1] = Partial(bits)[n] + bits[n] * Power[n]
    BY <2>1, PartialIs
  <2>4. Power[n] \in Nat /\ Partial(bits)[n] \in 0..(Power[n] - 1)
    BY <2>1, PowerType
  <2>5. bits[n] = 0 \/ bits[n] = 1 BY <2>1
  <2> QED BY <2>2, <2>3, <2>4, <2>5
<1>3. S = Nat
  <2> HIDE DEF S
  <2>1. S \subseteq Nat BY DEF S
  <2> QED BY <1>1, <1>2, <2>1, Induction
<1> QED BY <1>3, FieldAssumption

(* Quotient and remainder, and that there is only one of each.             *)
LEMMA Division ==
  ASSUME NEW x \in Int, NEW w \in Nat \ {0}
  PROVE  /\ x \div w \in Int
         /\ x % w \in 0..(w - 1)
         /\ x = (x \div w) * w + (x % w)
OBVIOUS

LEMMA OneRemainder ==
  ASSUME NEW w \in Nat \ {0}, NEW q \in Int, NEW r \in 0..(w - 1)
  PROVE  (q * w + r) % w = r
OBVIOUS

(* The digits of a number add up to its remainder.                         *)
LEMMA PartialDigits ==
  ASSUME NEW d \in Nat
  PROVE  \A n \in 0..Bits :
           Partial([i \in 0..(Bits - 1) |-> (d \div Power[i]) % 2])[n] = d % Power[n]
<1> DEFINE
      bits == [i \in 0..(Bits - 1) |-> (d \div Power[i]) % 2]
      S == {n \in Nat : n \in 0..Bits => Partial(bits)[n] = d % Power[n]}
<1>1. 0 \in S
  <2>1. Power[0] = 1 /\ Partial(bits)[0] = 0
    <3> HIDE DEF bits
    <3> QED BY PowerIs, PartialIs, FieldAssumption
  <2>2. d % 1 = 0 OBVIOUS
  <2> HIDE DEF bits
  <2> QED BY <2>1, <2>2
<1>2. ASSUME NEW n \in S PROVE n + 1 \in S
  <2> SUFFICES ASSUME n + 1 \in 0..Bits
               PROVE  Partial(bits)[n + 1] = d % Power[n + 1]
    OBVIOUS
  <2>1. n \in 0..Bits /\ n \in 0..(Bits - 1) /\ n + 1 # 0 /\ (n + 1) - 1 = n
    BY FieldAssumption
  <2> DEFINE w == Power[n]  q == d \div w  r == d % w  a == q \div 2  b == q % 2
  <2>2. Power[n + 1] = 2 * w BY <2>1, PowerIs
  <2>3. Partial(bits)[n + 1] = r + b * w
    <3>1. Partial(bits)[n] = r BY <2>1
    <3>2. bits[n] = b BY <2>1
    <3> HIDE DEF bits, r, b
    <3> QED BY <2>1, <3>1, <3>2, PartialIs
  <2>4. w \in Nat \ {0} BY <2>1, PowerType
  <2>5. q \in Int /\ r \in 0..(w - 1) /\ d = q * w + r
    <3> HIDE DEF w
    <3> QED BY <2>4, Division
  <2>6. a \in Int /\ b \in 0..1 /\ q = a * 2 + b
    <3> HIDE DEF q
    <3> QED BY <2>5, Division
  <2> HIDE DEF w, q, r, a, b, bits
  <2>7. d = a * (2 * w) + (r + b * w) BY <2>4, <2>5, <2>6
  <2>8. r + b * w \in 0..(2 * w - 1)
    <3>1. b = 0 \/ b = 1 BY <2>6
    <3> QED BY <2>4, <2>5, <3>1
  <2>9. 2 * w \in Nat \ {0} BY <2>4
  <2>10. d % (2 * w) = r + b * w BY <2>6, <2>7, <2>8, <2>9, OneRemainder
  <2> QED BY <2>2, <2>3, <2>10
<1>3. S = Nat
  <2> HIDE DEF S
  <2>1. S \subseteq Nat BY DEF S
  <2> QED BY <1>1, <1>2, <2>1, Induction
<1> QED BY <1>3, FieldAssumption

-----------------------------------------------------------------------------
(* The field.                                                              *)

LEMMA FieldSize == P \in Nat /\ P > 1 /\ Power[Bits] \in Nat \ {0}
<1>1. Power[Bits] \in Nat \ {0} BY PowerType, FieldAssumption
<1> QED BY <1>1, FieldAssumption

LEMMA MinusIs ==
  ASSUME NEW x \in Field, NEW y \in Field
  PROVE  Minus(x, y) \in Field /\ (Minus(x, y) = 0 <=> x = y)
BY FieldSize DEF Minus, Field

(* A product with an inverse of a factor leaves the other one: there are no*)
(* divisors of zero.                                                       *)
LEMMA NoZeroDivisors ==
  ASSUME NEW x \in Field \ {0}, NEW z \in Field, (x * z) % P = 0
  PROVE  z = 0
<1>1. P \in Nat \ {0} /\ x \in Nat /\ z \in 0..(P - 1) BY FieldSize DEF Field
<1>2. PICK y \in Field : (x * y) % P = 1 BY PrimeAssumption
<1>3. y \in Nat BY <1>1 DEF Field
<1> DEFINE k == (x * z) \div P  j == (x * y) \div P
<1>4. k \in Int /\ x * z = k * P
  <2>1. x * z \in Int BY <1>1
  <2>2. k \in Int /\ x * z = k * P + ((x * z) % P) BY <1>1, <2>1, Division
  <2> HIDE DEF k
  <2>3. k * P + 0 = k * P BY <1>1, <2>2
  <2> QED BY <2>2, <2>3
<1>5. j \in Int /\ x * y = j * P + 1
  <2>1. x * y \in Int BY <1>1, <1>3
  <2> QED BY <1>1, <1>2, <2>1, Division
<1> HIDE DEF k, j
<1>6. (x * y) * z = (x * z) * y BY <1>1, <1>3
<1>7. (j * P + 1) * z = (k * P) * y BY <1>4, <1>5, <1>6
<1> DEFINE t == k * y - j * z
<1>8. t \in Int /\ z = t * P BY <1>1, <1>3, <1>4, <1>5, <1>7
<1> HIDE DEF t
<1>9. (t * P + 0) % P = 0 BY <1>1, <1>8, OneRemainder
<1>10. z % P = z
  <2>1. (0 * P + z) % P = z BY <1>1, OneRemainder
  <2> QED BY <1>1, <2>1
<1>11. t * P + 0 = z BY <1>1, <1>8
<1> QED BY <1>9, <1>10, <1>11

(* The constraint bit * (1 - bit) = 0 is what makes a bit.                 *)
LEMMA BitIsBoolean ==
  ASSUME NEW b \in Field
  PROVE  (b * Minus(1, b)) % P = 0 <=> b \in {0, 1}
<1>1. 1 \in Field BY FieldSize DEF Field
<1>2. Minus(1, b) \in Field /\ (Minus(1, b) = 0 <=> b = 1) BY <1>1, MinusIs
<1>3. ASSUME (b * Minus(1, b)) % P = 0 PROVE b \in {0, 1}
  <2>1. CASE b = 0 BY <2>1
  <2>2. CASE b # 0 BY <1>2, <1>3, <2>2, NoZeroDivisors
  <2> QED BY <2>1, <2>2
<1>4. ASSUME b \in {0, 1} PROVE (b * Minus(1, b)) % P = 0
  <2>1. b * Minus(1, b) = 0
    <3>1. Minus(1, b) \in Int BY <1>2, FieldSize DEF Field
    <3> QED BY <1>2, <1>4, <3>1
  <2>2. (0 * P + 0) % P = 0 BY FieldSize, OneRemainder
  <2> QED BY <2>1, <2>2, FieldSize
<1> QED BY <1>3, <1>4

LEMMA InverseIs ==
  ASSUME NEW x \in Field
  PROVE  /\ InverseOf(x) \in Field
         /\ (x * InverseOf(x)) % P = 1 <=> x # 0
<1>1. CASE x = 0
  <2>1. InverseOf(x) = 0 /\ 0 \in Field BY <1>1, FieldSize DEF InverseOf, Field
  <2>2. (0 * P + 0) % P = 0 BY FieldSize, OneRemainder
  <2>3. 0 * P + 0 = 0 * 0 BY FieldSize
  <2> QED BY <1>1, <2>1, <2>2, <2>3
<1>2. CASE x # 0
  <2>1. \E y \in Field : (x * y) % P = 1 BY <1>2, PrimeAssumption
  <2>2. InverseOf(x) \in Field /\ (x * InverseOf(x)) % P = 1
    BY <1>2, <2>1 DEF InverseOf
  <2> QED BY <1>2, <2>2
<1> QED BY <1>1, <1>2

(* Nothing times zero is one.                                              *)
LEMMA ZeroHasNoInverse ==
  ASSUME NEW y \in Field PROVE (0 * y) % P # 1
<1>1. 0 * y = 0 * P + 0 BY FieldSize DEF Field
<1>2. (0 * P + 0) % P = 0 BY FieldSize, OneRemainder
<1> QED BY <1>1, <1>2

(* A number below 2^Bits is its own remainder.                             *)
LEMMA SmallRemainder ==
  ASSUME NEW x \in Nat, x < P PROVE x % P = x
<1>1. x = 0 * P + x /\ x \in 0..(P - 1) BY FieldSize
<1>2. (0 * P + x) % P = x BY <1>1, FieldSize, OneRemainder
<1> QED BY <1>1, <1>2

-----------------------------------------------------------------------------

(* Zeros and ones that add up to the difference keep it in range.          *)
LEMMA SatisfiedIsTrue ==
  ASSUME NEW private \in Private, NEW public \in Public, NEW a,
         a.bits \in [0..(Bits - 1) -> Field], a.inverse \in Field,
         Satisfied(a, private, public)
  PROVE  Statement(private, public)
<1> DEFINE bits == a.bits  sum == Partial(bits)[Bits]
<1>1. bits \in [0..(Bits - 1) -> {0, 1}]
  <2>1. \A i \in 0..(Bits - 1) : bits[i] \in {0, 1}
    BY BitIsBoolean DEF Satisfied
  <2> QED BY <2>1
<1>2. sum \in 0..(Power[Bits] - 1) /\ Power[Bits] \in Nat
  <2> HIDE DEF bits
  <2>1. Bits \in 0..Bits BY FieldAssumption
  <2> QED BY <1>1, <2>1, PartialBound, FieldSize
<1>3. sum % P = Minus(public.threshold, private.amount) BY DEF Satisfied, Sum
<1>4. sum % P = sum
  <2> HIDE DEF sum
  <2>1. sum \in Nat /\ sum < P BY <1>2, FieldAssumption, FieldSize
  <2> QED BY <2>1, SmallRemainder
<1>5. Minus(public.threshold, private.amount) < Power[Bits]
  <2> HIDE DEF sum
  <2> QED BY <1>2, <1>3, <1>4
<1>6. private.sender # public.root
  <2>1. private.sender \in Field /\ public.root \in Field BY DEF Private, Public
  <2>2. (Minus(private.sender, public.root) * a.inverse) % P = 1 BY DEF Satisfied
  <2>3. Minus(private.sender, public.root) # 0 BY <2>2, ZeroHasNoInverse
  <2> QED BY <2>1, <2>3, MinusIs
<1> QED BY <1>5, <1>6 DEF Statement

(* Soundness for every prime field and number of bits: no assignment, bits *)
(* and inverse of the prover's own choosing included, satisfies the        *)
(* constraints for a false statement (generate_constraints).               *)
THEOREM SoundTheorem ==
  \A private \in Private, public \in Public : SoundFor(private, public)
<1> SUFFICES ASSUME NEW private \in Private, NEW public \in Public,
                    NEW bits \in [0..(Bits - 1) -> Field], NEW inverse \in Field,
                    Satisfied([diff |-> Minus(public.threshold, private.amount),
                               bits |-> bits,
                               delta |-> Minus(private.sender, public.root),
                               inverse |-> inverse], private, public)
             PROVE  Statement(private, public)
  BY DEF SoundFor
<1> DEFINE a == [diff |-> Minus(public.threshold, private.amount),
                 bits |-> bits,
                 delta |-> Minus(private.sender, public.root),
                 inverse |-> inverse]
<1>1. a.bits \in [0..(Bits - 1) -> Field] /\ a.inverse \in Field OBVIOUS
<1>2. Satisfied(a, private, public) OBVIOUS
<1> HIDE DEF a
<1> QED BY <1>1, <1>2, SatisfiedIsTrue

(* Completeness for every prime field and number of bits: what the closures*)
(* assign satisfies the constraints exactly for the true statements        *)
(* (generate_constraints, generate_compliance_proof).                      *)
THEOREM CompleteTheorem ==
  \A private \in Private, public \in Public : CompleteFor(private, public)
<1> SUFFICES ASSUME NEW private \in Private, NEW public \in Public
             PROVE  Satisfied(Prover(private, public), private, public)
                      <=> Statement(private, public)
  BY DEF CompleteFor, Verify, Prove
<1> DEFINE
      diff == Minus(public.threshold, private.amount)
      delta == Minus(private.sender, public.root)
      bits == [i \in 0..(Bits - 1) |-> (diff \div Power[i]) % 2]
      a == Prover(private, public)
<1>1. a.diff = diff /\ a.bits = bits /\ a.delta = delta /\ a.inverse = InverseOf(delta)
  BY DEF Prover
<1>2. diff \in Field /\ delta \in Field /\ (delta = 0 <=> private.sender = public.root)
  BY MinusIs DEF Private, Public
<1>3. diff \in Nat BY <1>2, FieldSize DEF Field
<1>4. bits \in [0..(Bits - 1) -> {0, 1}]
  <2> SUFFICES ASSUME NEW i \in 0..(Bits - 1)
               PROVE  (diff \div Power[i]) % 2 \in {0, 1}
    OBVIOUS
  <2>1. Power[i] \in Nat \ {0} BY PowerType, FieldAssumption
  <2> HIDE DEF diff
  <2>2. diff \div Power[i] \in Int BY <1>3, <2>1, Division
  <2> QED BY <2>2
<1>5. {0, 1} \subseteq Field BY FieldSize DEF Field
<1>6. InverseOf(delta) \in Field /\ ((delta * InverseOf(delta)) % P = 1 <=> delta # 0)
  BY <1>2, InverseIs
<1> HIDE DEF a
<1>7. ASSUME Satisfied(a, private, public) PROVE Statement(private, public)
  <2>1. a.bits \in [0..(Bits - 1) -> Field] /\ a.inverse \in Field
    <3> HIDE DEF bits, delta
    <3> QED BY <1>1, <1>4, <1>5, <1>6
  <2> QED BY <1>7, <2>1, SatisfiedIsTrue
<1>8. ASSUME Statement(private, public) PROVE Satisfied(a, private, public)
  <2>1. diff < Power[Bits] /\ private.sender # public.root BY <1>8 DEF Statement
  <2>2. Sum(bits) = diff % Power[Bits]
    <3>1. Bits \in 0..Bits BY FieldAssumption
    <3> HIDE DEF diff
    <3> QED BY <1>3, <3>1, PartialDigits DEF Sum
  <2> HIDE DEF diff, delta, bits
  <2>3. diff % Power[Bits] = diff
    <3>1. diff = 0 * Power[Bits] + diff /\ diff \in 0..(Power[Bits] - 1)
      BY <1>3, <2>1, FieldSize
    <3>2. (0 * Power[Bits] + diff) % Power[Bits] = diff
      BY <3>1, FieldSize, OneRemainder
    <3> QED BY <3>1, <3>2
  <2>4. diff % P = diff BY <1>2, <1>3, FieldSize, SmallRemainder DEF Field
  <2>5. Sum(bits) % P = diff BY <2>2, <2>3, <2>4
  <2>6. \A i \in 0..(Bits - 1) : (bits[i] * Minus(1, bits[i])) % P = 0
    BY <1>4, <1>5, BitIsBoolean
  <2>7. (delta * InverseOf(delta)) % P = 1 BY <1>2, <1>6, <2>1
  <2>8. diff = Minus(public.threshold, private.amount)
        /\ delta = Minus(private.sender, public.root)
    BY DEF diff, delta
  <2> QED BY <1>1, <2>5, <2>6, <2>7, <2>8 DEF Satisfied
<1> QED BY <1>7, <1>8 DEF a

(* For numbers of half the field's size, a difference that wraps around    *)
(* is out of range.                                                        *)
LEMMA RangeIsOrder ==
  ASSUME NEW x \in Word, NEW t \in Word
  PROVE  Minus(t, x) < Power[Bits] <=> x <= t
<1> DEFINE W == Power[Bits]
<1>1. W \in Nat /\ 2 * W <= P /\ P \in Nat BY FieldSize, FieldAssumption
<1>2. x \in 0..(W - 1) /\ t \in 0..(W - 1) BY DEF Word
<1>3. Minus(t, x) < W <=> x <= t
  <2> HIDE DEF W
  <2> QED BY <1>1, <1>2 DEF Minus
<1> QED BY <1>3

(* The circuit's statement on 64-bit inputs is what its name says: an order*)
(* of numbers and two different hashes (generate_constraints, AMOUNT_BITS).*)
THEOREM OrderTheorem ==
  \A private \in Private, public \in Public : OrderFor(private, public)
<1> SUFFICES ASSUME NEW private \in Private, NEW public \in Public,
                    private.amount \in Word, public.threshold \in Word
             PROVE  Statement(private, public)
                      <=> private.amount <= public.threshold
                          /\ private.sender # public.root
  BY DEF OrderFor
<1>1. Minus(public.threshold, private.amount) < Power[Bits]
        <=> private.amount <= public.threshold
  BY RangeIsOrder
<1> QED BY <1>1 DEF Statement
=============================================================================
