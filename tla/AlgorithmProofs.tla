--------------------------- MODULE AlgorithmProofs --------------------------
(***************************************************************************)
(* Theorems about the pure algorithms: the circuit, the Merkle root, the   *)
(* parsing of the model's replies and the matching of names.               *)
(***************************************************************************)
EXTENDS MCAlgorithms, ZkCircuitProofs, SequenceTheorems, FiniteSetTheorems

Word5 == {"a", "b", "c", "d", "e"}

(* What is given and picked has the types of the algorithm it is for.      *)
InputInv ==
  /\ topic = "circuit" => given \in Public /\ (done => picked \in Private)
  /\ topic = "merkle" => given \in Inclusions /\ (done => picked \in Inclusions)
  /\ topic = "bytes" => given \in Public /\ (done => picked \in Seq(0..(Base - 1)))
  /\ topic = "arrive" => given \in Wire!Type /\ (done => picked \in Wire!Message(given))
  /\ topic = "agree" => given \in Wire!Type /\ (done => picked \in Seq(Wire!Record))
  /\ topic = "match" => given \in Lists /\ (done => picked \in Seq(Word5))
  /\ topic = "key" => given \in Detections /\ (done => picked \in Detections)
  /\ topic = "llm" => given \in Llm!Replies /\ (done => picked \in Llm!Amounts)

(* Sequences of bounded length are sequences.                              *)
LEMMA BoundedIsSeq ==
  ASSUME NEW S, NEW n \in Nat
  PROVE  BoundedSeq(S, n) \subseteq Seq(S)
BY DEF BoundedSeq, SeqOf

LEMMA InputInit == Init => InputInv
BY DEF Init, InputInv, Given

LEMMA InputStep == InputInv /\ [Next]_<<topic, given, picked, done>> => InputInv'
<1> SUFFICES ASSUME InputInv, Next PROVE InputInv' BY DEF InputInv
<1>1. BoundedSeq(0..(Base - 1), 2 * Size + 1) \subseteq Seq(0..(Base - 1))
  BY BoundedIsSeq, SizeAssumption
<1>2. BoundedSeq(Wire!Record, 3) \subseteq Seq(Wire!Record) BY BoundedIsSeq
<1>3. BoundedSeq(Word5, 5) \subseteq Seq(Word5) BY BoundedIsSeq
<1>4. CASE topic = "match" BY <1>3, <1>4 DEF InputInv, Next, Pick, Word5
<1>5. CASE topic \in {"bytes", "agree"} BY <1>1, <1>2, <1>5 DEF InputInv, Next, Pick
<1>6. CASE topic \notin {"match", "bytes", "agree"} BY <1>6 DEF InputInv, Next, Pick
<1> QED BY <1>4, <1>5, <1>6

LEMMA InputsTyped == Spec => []InputInv
BY InputInit, InputStep, PTL DEF Spec

(* No assignment satisfies the circuit's constraints for a false statement,*)
(* for every prime field and number of bits (generate_constraints).        *)
THEOREM CircuitSoundTheorem == Spec => []CircuitSound
<1>1. InputInv => CircuitSound BY SoundTheorem DEF InputInv, CircuitSound, About
<1> QED BY <1>1, InputsTyped, PTL

(* What the closures assign satisfies the constraints exactly for the true *)
(* statements (generate_constraints, generate_compliance_proof).           *)
THEOREM CircuitCompleteTheorem == Spec => []CircuitComplete
<1>1. InputInv => CircuitComplete
  BY CompleteTheorem DEF InputInv, CircuitComplete, About
<1> QED BY <1>1, InputsTyped, PTL

(* The field's subtraction compares 64-bit numbers (AMOUNT_BITS).          *)
THEOREM StatementOrderTheorem == Spec => []StatementIsOrder
<1>1. InputInv => StatementIsOrder
  BY OrderTheorem DEF InputInv, StatementIsOrder, About
<1> QED BY <1>1, InputsTyped, PTL

-----------------------------------------------------------------------------
(* What is at each place of a concatenation.                               *)
LEMMA ConcatIs ==
  ASSUME NEW A, NEW a \in Seq(A), NEW b \in Seq(A)
  PROVE  /\ a \o b \in Seq(A) /\ Len(a \o b) = Len(a) + Len(b)
         /\ \A i \in 1..Len(a) : (a \o b)[i] = a[i]
         /\ \A i \in 1..Len(b) : (a \o b)[Len(a) + i] = b[i]
OBVIOUS

(* Byte strings are sequences of pieces of any set.                        *)

(* A first element can be read off.                                        *)
LEMMA PrefixCancels ==
  ASSUME NEW S, NEW p \in S, NEW q \in S, NEW a \in Seq(S), NEW b \in Seq(S),
         <<p>> \o a = <<q>> \o b
  PROVE  p = q /\ a = b
<1>1. (<<p>> \o a)[1] = p /\ (<<q>> \o b)[1] = q OBVIOUS
<1>2. Len(<<p>> \o a) = 1 + Len(a) /\ Len(<<q>> \o b) = 1 + Len(b) OBVIOUS
<1>3. Len(a) = Len(b) BY <1>2
<1>4. \A i \in 1..Len(a) : a[i] = b[i]
  <2> SUFFICES ASSUME NEW i \in 1..Len(a) PROVE a[i] = b[i] OBVIOUS
  <2>1. (<<p>> \o a)[i + 1] = a[i] /\ (<<q>> \o b)[i + 1] = b[i] BY <1>3
  <2> QED BY <2>1
<1>5. a = b BY <1>3, <1>4
<1> QED BY <1>1, <1>5

(* A leaf can be read off its hash.                                        *)
LEMMA LeafInjective ==
  ASSUME NEW S, NEW a \in Seq(S), NEW b \in Seq(S), Tree!HashLeaf(a) = Tree!HashLeaf(b)
  PROVE  a = b
<1> DEFINE p == Tree!LeafPrefix  T == S \cup {p}
<1>1. <<p>> \o a = <<p>> \o b BY DEF Tree!HashLeaf, Tree!Sha256
<1>2. p \in T /\ a \in Seq(T) /\ b \in Seq(T) OBVIOUS
<1> HIDE DEF p, T
<1> QED BY <1>1, <1>2, PrefixCancels

(* The digest and the sibling can be read off the hash of a node.          *)
LEMMA NodeInjective ==
  ASSUME NEW S, NEW d, NEW e, NEW a \in Seq(S), NEW b \in Seq(S),
         Tree!HashNodes(<<d>>, a) = Tree!HashNodes(<<e>>, b)
  PROVE  d = e /\ a = b
<1> DEFINE p == Tree!NodePrefix  T == S \cup {p, d, e}
<1>1. (<<p>> \o <<d>>) \o a = (<<p>> \o <<e>>) \o b
  BY DEF Tree!HashNodes, Tree!Sha256
<1>2. p \in T /\ d \in T /\ e \in T /\ a \in Seq(T) /\ b \in Seq(T) OBVIOUS
<1> HIDE DEF p, T
<1>3. <<p>> \o (<<d>> \o a) = <<p>> \o (<<e>> \o b)
  <2>1. \A x \in T, c \in Seq(T) : (<<p>> \o <<x>>) \o c = <<p>> \o (<<x>> \o c)
    BY <1>2
  <2> QED BY <1>1, <1>2, <2>1
<1>4. <<d>> \o a \in Seq(T) /\ <<e>> \o b \in Seq(T) BY <1>2
<1>5. <<d>> \o a = <<e>> \o b
  <2> DEFINE da == <<d>> \o a  eb == <<e>> \o b
  <2>1. <<p>> \o da = <<p>> \o eb /\ da \in Seq(T) /\ eb \in Seq(T) BY <1>3, <1>4
  <2> HIDE DEF da, eb
  <2>2. da = eb BY <1>2, <2>1, PrefixCancels
  <2> QED BY <2>2 DEF da, eb
<1>6. ASSUME NEW x \in T, NEW y \in T, NEW u \in Seq(T), NEW v \in Seq(T),
             <<x>> \o u = <<y>> \o v
      PROVE  x = y /\ u = v
  BY <1>6, PrefixCancels
<1> QED BY <1>2, <1>5, <1>6

(* The domain separators: no leaf has the hash of an inner node.           *)
LEMMA LeafIsNoNode ==
  ASSUME NEW S, NEW d, NEW a \in Seq(S), NEW b \in Seq(S)
  PROVE  Tree!HashLeaf(a) # Tree!HashNodes(<<d>>, b)
<1> DEFINE p == Tree!LeafPrefix  q == Tree!NodePrefix  T == S \cup {p, q, d}
<1>1. p # q BY DEF Tree!LeafPrefix, Tree!NodePrefix, Tree!Byte
<1>2. p \in T /\ q \in T /\ d \in T /\ a \in Seq(T) /\ b \in Seq(T) OBVIOUS
<1> HIDE DEF p, q, T
<1> SUFFICES ASSUME Tree!HashLeaf(a) = Tree!HashNodes(<<d>>, b) PROVE FALSE OBVIOUS
<1>3. <<p>> \o a = (<<q>> \o <<d>>) \o b
  BY DEF Tree!HashLeaf, Tree!HashNodes, Tree!Sha256, p, q
<1>4. (<<q>> \o <<d>>) \o b = <<q>> \o (<<d>> \o b) BY <1>2
<1>5. <<d>> \o b \in Seq(T) BY <1>2
<1>6. p = q
  <2> DEFINE db == <<d>> \o b
  <2>1. <<p>> \o a = <<q>> \o db /\ db \in Seq(T) BY <1>3, <1>4, <1>5
  <2> HIDE DEF db
  <2> QED BY <1>2, <2>1, PrefixCancels
<1> QED BY <1>1, <1>6

(* The loop's running hash is what its definition says.                    *)
IsRunning(h, leaf, proof, n) ==
  h = [i \in 0..n |-> IF i = 0 THEN Tree!HashLeaf(leaf)
                      ELSE Tree!HashNodes(h[i - 1], proof[i])]

(* The loop has values.                                                    *)
LEMMA RunningExists ==
  ASSUME NEW leaf, NEW proof, NEW N \in Nat
  PROVE  \E h : IsRunning(h, leaf, proof, N)
<1> USE DEF IsRunning
<1> DEFINE
      Is(h, n) == IsRunning(h, leaf, proof, n)
      S == {n \in Nat : \E h : Is(h, n)}
<1>1. 0 \in S
  <2>1. Is([i \in 0..0 |-> Tree!HashLeaf(leaf)], 0) OBVIOUS
  <2> QED BY <2>1
<1>2. ASSUME NEW n \in S PROVE n + 1 \in S
  <2>1. PICK h : Is(h, n) OBVIOUS
  <2> DEFINE g == [i \in 0..(n + 1) |-> IF i = n + 1 THEN Tree!HashNodes(h[n], proof[n + 1])
                                        ELSE h[i]]
  <2>2. ASSUME NEW i \in 0..(n + 1)
        PROVE  g[i] = IF i = 0 THEN Tree!HashLeaf(leaf)
                      ELSE Tree!HashNodes(g[i - 1], proof[i])
    <3>1. CASE i = n + 1 BY <3>1
    <3>2. CASE i # n + 1 BY <2>1, <3>2
    <3> QED BY <3>1, <3>2
  <2>3. Is(g, n + 1) BY <2>2
  <2>4. n + 1 \in Nat OBVIOUS
  <2> HIDE DEF g, Is
  <2> QED BY <2>3, <2>4
<1>3. S = Nat
  <2> HIDE DEF S
  <2>1. S \subseteq Nat BY DEF S
  <2> QED BY <1>1, <1>2, <2>1, Induction
<1> QED BY <1>3

(* So the model's running hash has them.                                   *)
LEMMA RunningIs ==
  ASSUME NEW leaf, NEW proof, Len(proof) \in Nat
  PROVE  \A i \in 0..Len(proof) : Tree!Running(leaf, proof)[i] =
           IF i = 0 THEN Tree!HashLeaf(leaf)
           ELSE Tree!HashNodes(Tree!Running(leaf, proof)[i - 1], proof[i])
<1> DEFINE N == Len(proof)
<1>1. \E h : IsRunning(h, leaf, proof, N)
  <2>1. N \in Nat OBVIOUS
  <2> HIDE DEF N
  <2> QED BY <2>1, RunningExists
<1>2. Tree!Running(leaf, proof) =
        [i \in 0..Len(proof) |->
           IF i = 0 THEN Tree!HashLeaf(leaf)
           ELSE Tree!HashNodes(Tree!Running(leaf, proof)[i - 1], proof[i])]
  BY <1>1 DEF Tree!Running, IsRunning
<1> QED BY <1>2

(* A running hash is one digest.                                           *)
LEMMA RunningIsDigest ==
  ASSUME NEW leaf, NEW proof, Len(proof) \in Nat, NEW i \in 0..Len(proof)
  PROVE  \E d : Tree!Running(leaf, proof)[i] = <<d>>
<1>1. CASE i = 0 BY <1>1, RunningIs DEF Tree!HashLeaf, Tree!Sha256
<1>2. CASE i # 0 BY <1>2, RunningIs DEF Tree!HashNodes, Tree!Sha256
<1> QED BY <1>1, <1>2

(* Equal running hashes have equal pasts.                                  *)
LEMMA EqualPasts ==
  ASSUME NEW B, NEW leaf \in Seq(B), NEW leaf2 \in Seq(B),
         NEW proof \in Seq(Seq(B)), NEW proof2 \in Seq(Seq(B))
  PROVE  \A i \in 0..Len(proof), j \in 0..Len(proof2) :
           Tree!Running(leaf, proof)[i] = Tree!Running(leaf2, proof2)[j] =>
             /\ i = j /\ leaf = leaf2
             /\ \A k \in 1..i : proof[k] = proof2[k]
<1> DEFINE
      h == Tree!Running(leaf, proof)
      g == Tree!Running(leaf2, proof2)
      Past(i) == \A j \in 0..Len(proof2) : h[i] = g[j] =>
                   i = j /\ leaf = leaf2 /\ \A k \in 1..i : proof[k] = proof2[k]
      S == {i \in Nat : i \in 0..Len(proof) => Past(i)}
<1>1. Len(proof) \in Nat /\ Len(proof2) \in Nat OBVIOUS
<1>2. \A i \in 0..Len(proof) : h[i] = IF i = 0 THEN Tree!HashLeaf(leaf)
                                      ELSE Tree!HashNodes(h[i - 1], proof[i])
  BY <1>1, RunningIs
<1>3. \A j \in 0..Len(proof2) : g[j] = IF j = 0 THEN Tree!HashLeaf(leaf2)
                                       ELSE Tree!HashNodes(g[j - 1], proof2[j])
  BY <1>1, RunningIs
<1>4. /\ \A i \in 0..Len(proof) : \E d : h[i] = <<d>>
      /\ \A j \in 0..Len(proof2) : \E e : g[j] = <<e>>
  BY <1>1, RunningIsDigest
<1> HIDE DEF h, g
<1>5. 0 \in S
  <2> SUFFICES Past(0) OBVIOUS
  <2> SUFFICES ASSUME NEW j \in 0..Len(proof2), h[0] = g[j]
               PROVE  0 = j /\ leaf = leaf2
    OBVIOUS
  <2>1. h[0] = Tree!HashLeaf(leaf) BY <1>1, <1>2
  <2>2. CASE j = 0 BY <1>1, <1>3, <2>1, <2>2, LeafInjective
  <2>3. CASE j # 0
    <3>1. j - 1 \in 0..Len(proof2) /\ proof2[j] \in Seq(B) BY <1>1, <2>3
    <3>2. PICK e : g[j - 1] = <<e>> BY <1>4, <3>1
    <3>3. g[j] = Tree!HashNodes(<<e>>, proof2[j]) BY <1>3, <2>3, <3>2
    <3> QED BY <2>1, <3>1, <3>3, LeafIsNoNode
  <2> QED BY <2>2, <2>3
<1>6. ASSUME NEW i \in S PROVE i + 1 \in S
  <2> SUFFICES ASSUME i + 1 \in 0..Len(proof),
                      NEW j \in 0..Len(proof2), h[i + 1] = g[j]
               PROVE  /\ i + 1 = j /\ leaf = leaf2
                      /\ \A k \in 1..(i + 1) : proof[k] = proof2[k]
    OBVIOUS
  <2>1. i \in 0..Len(proof) /\ i + 1 # 0 /\ (i + 1) - 1 = i /\ proof[i + 1] \in Seq(B)
    BY <1>1
  <2>2. Past(i) BY <2>1
  <2>3. PICK d : h[i] = <<d>> BY <1>4, <2>1
  <2>4. h[i + 1] = Tree!HashNodes(<<d>>, proof[i + 1]) BY <1>2, <2>1, <2>3
  <2>5. CASE j = 0
    <3>1. g[j] = Tree!HashLeaf(leaf2) BY <1>3, <2>5
    <3> QED BY <2>1, <2>4, <3>1, LeafIsNoNode
  <2>6. CASE j # 0
    <3>1. j - 1 \in 0..Len(proof2) /\ proof2[j] \in Seq(B) BY <1>1, <2>6
    <3>2. PICK e : g[j - 1] = <<e>> BY <1>4, <3>1
    <3>3. g[j] = Tree!HashNodes(<<e>>, proof2[j]) BY <1>3, <2>6, <3>2
    <3>4. d = e /\ proof[i + 1] = proof2[j]
      <4> DEFINE a == proof[i + 1]  b == proof2[j]
      <4>1. Tree!HashNodes(<<d>>, a) = Tree!HashNodes(<<e>>, b) BY <2>4, <3>3
      <4>2. a \in Seq(B) /\ b \in Seq(B) BY <2>1, <3>1
      <4> HIDE DEF a, b
      <4>3. d = e /\ a = b BY <4>1, <4>2, NodeInjective
      <4> QED BY <4>3 DEF a, b
    <3>5. h[i] = g[j - 1] BY <2>3, <3>2, <3>4
    <3>6. i = j - 1 /\ leaf = leaf2 /\ \A k \in 1..i : proof[k] = proof2[k]
      BY <2>2, <3>1, <3>5
    <3>7. \A k \in 1..(i + 1) : k \in 1..i \/ k = i + 1 OBVIOUS
    <3> QED BY <2>1, <3>4, <3>6, <3>7
  <2> QED BY <2>5, <2>6
<1>7. S = Nat
  <2> HIDE DEF S
  <2>1. S \subseteq Nat BY DEF S
  <2> QED BY <1>5, <1>6, <2>1, Induction
<1>8. \A i \in 0..Len(proof) : Past(i)
  <2> HIDE DEF Past
  <2> QED BY <1>1, <1>7
<1> QED BY <1>8 DEF h, g

(* A root commits to one leaf and one list of siblings, in trees of every  *)
(* depth: leaves and inner nodes cannot be exchanged, and no shorter or    *)
(* longer proof leads to the same root (verify_merkle_proof_inner).        *)
THEOREM CommitTheorem ==
  ASSUME NEW B, NEW leaf \in Seq(B), NEW leaf2 \in Seq(B),
         NEW proof \in Seq(Seq(B)), NEW proof2 \in Seq(Seq(B))
  PROVE  Tree!CommitsFor(leaf, proof, leaf2, proof2)
<1> SUFFICES Tree!RootOf(leaf2, proof2) = Tree!RootOf(leaf, proof)
               <=> leaf2 = leaf /\ proof2 = proof
  BY DEF Tree!CommitsFor, Tree!VerifyMerkleProof, Tree!ConstantTimeEq
<1>1. ASSUME Tree!RootOf(leaf2, proof2) = Tree!RootOf(leaf, proof)
      PROVE  leaf2 = leaf /\ proof2 = proof
  <2>1. Len(proof) \in 0..Len(proof) /\ Len(proof2) \in 0..Len(proof2) OBVIOUS
  <2>2. /\ Len(proof) = Len(proof2) /\ leaf = leaf2
        /\ \A k \in 1..Len(proof) : proof[k] = proof2[k]
    BY <1>1, <2>1, EqualPasts DEF Tree!RootOf
  <2>3. proof = proof2
    <3> DEFINE T == Seq(B)
    <3>1. proof \in Seq(T) /\ proof2 \in Seq(T) OBVIOUS
    <3> HIDE DEF T
    <3> QED BY <2>2, <3>1, SeqEqual
  <2> QED BY <2>2, <2>3
<1> QED BY <1>1

(* The inclusions TLC looks at are made of pieces.                         *)
LEMMA InclusionType ==
  \E B : \A x \in Inclusions : x.leaf \in Seq(B) /\ x.proof \in Seq(Seq(B))
<1>1. PICK d1, d2, d12 : D1 = <<d1>> /\ D2 = <<d2>> /\ D12 = <<d12>>
  BY DEF D1, D2, D12, Tree!HashLeaf, Tree!HashNodes, Tree!Sha256
<1> DEFINE B == {d1, d2, d12, Tree!NodePrefix, Tree!Byte(1),
                 Tree!Payload("t1"), Tree!Payload("t2")}
<1>2. D1 \in Seq(B) /\ D2 \in Seq(B) /\ D12 \in Seq(B) BY <1>1
<1>3. \A a, b, c \in Seq(B) : a \o b \in Seq(B) /\ (a \o b) \o c \in Seq(B)
  <2> HIDE DEF B
  <2> QED OBVIOUS
<1>4. /\ <<Tree!NodePrefix>> \in Seq(B) /\ <<Tree!Byte(1)>> \in Seq(B) /\ << >> \in Seq(B)
      /\ <<Tree!Payload("t1")>> \in Seq(B) /\ <<Tree!Payload("t2")>> \in Seq(B)
  OBVIOUS
<1> HIDE DEF B
<1>5. Leaves \subseteq Seq(B) BY <1>2, <1>3, <1>4 DEF Leaves
<1>6. Siblings \subseteq Seq(B) BY <1>2, <1>4 DEF Siblings
<1>7. BoundedSeq(Siblings, 2) \subseteq Seq(Seq(B))
  <2> DEFINE T == Seq(B)
  <2>1. Siblings \subseteq T BY <1>6
  <2> HIDE DEF T
  <2>2. ASSUME NEW n \in 0..2, NEW f \in [1..n -> Siblings] PROVE f \in Seq(T)
    BY <2>1
  <2>3. BoundedSeq(Siblings, 2) \subseteq Seq(T) BY <2>2 DEF BoundedSeq, SeqOf
  <2> QED BY <2>3 DEF T
<1>8. \A x \in Inclusions : x.leaf \in Seq(B) /\ x.proof \in Seq(Seq(B))
  BY <1>5, <1>7 DEF Inclusions
<1> QED BY <1>8

(* A root commits to one leaf and one proof (verify_merkle_proof_inner).   *)
THEOREM RootTheorem == Spec => []RootCommits
<1>1. InputInv => RootCommits
  BY CommitTheorem, InclusionType DEF InputInv, RootCommits, About
<1> QED BY <1>1, InputsTyped, PTL

-----------------------------------------------------------------------------
(* Exactly the answers that require a report carry one, and it is counted  *)
(* once (_parse_investigation_response, _generate_sar).                    *)
THEOREM ReportTheorem == Spec => []ReportsCounted
<1>1. \A reply \in Llm!Replies, amount \in Llm!Amounts : Llm!ReportFor(reply, amount)
  BY DEF Llm!ReportFor, Llm!Investigate, Llm!Parse, Llm!GenerateSar
<1>2. InputInv => ReportsCounted BY <1>1 DEF InputInv, ReportsCounted, About
<1> QED BY <1>2, InputsTyped, PTL

-----------------------------------------------------------------------------
(* Names.                                                                  *)

(* Both modules count alike.                                               *)
LEMMA CardIs == \A S : Names!Cardinality(S) = Cardinality(S)
BY DEF Names!Cardinality, Cardinality

(* The words of a name.                                                    *)
LEMMA WordsFinite ==
  ASSUME NEW W, NEW text \in Seq(W)
  PROVE  /\ IsFiniteSet(Names!ToSet(text)) /\ Cardinality(Names!ToSet(text)) <= Len(text)
         /\ Names!ToSet(text) = {} => text = <<>>
<1> DEFINE n == Len(text)  S == Names!ToSet(text)
<1>1. n \in Nat /\ text \in [1..n -> W] /\ DOMAIN text = 1..n OBVIOUS
<1>2. S = {text[i] : i \in 1..n} BY <1>1 DEF Names!ToSet
<1>3. text \in Surjection(1..n, S) BY <1>1, <1>2 DEF Surjection
<1>4. IsFiniteSet(1..n) /\ Cardinality(1..n) = n BY <1>1, FS_Interval
<1>5. S = {} => n = 0 BY <1>1, <1>2
<1>6. n = 0 => text = <<>> OBVIOUS
<1> HIDE DEF n, S
<1>7. IsFiniteSet(S) /\ Cardinality(S) <= n BY <1>3, <1>4, FS_Surjection
<1> QED BY <1>5, <1>6, <1>7 DEF n, S

(* Two sets, one of which has at most four elements: more than 4/5 of all  *)
(* elements are common only when the sets are equal.                       *)
LEMMA FourFifths ==
  ASSUME NEW S, IsFiniteSet(S), NEW T, IsFiniteSet(T), Cardinality(T) <= 4,
         S # {} \/ T # {}
  PROVE  10 * Cardinality(S \cap T) > 8 * Cardinality(S \cup T) <=> S = T
<1> DEFINE I == S \cap T  U == S \cup T  i == Cardinality(I)  u == Cardinality(U)
<1>1. IsFiniteSet(I) /\ i <= 4
  <2>1. IsFiniteSet(I) /\ i <= Cardinality(T) BY FS_Intersection
  <2>2. i \in Nat /\ Cardinality(T) \in Nat BY <2>1, FS_CardinalityType
  <2> QED BY <2>1, <2>2
<1>2. IsFiniteSet(U) BY FS_Union
<1>3. U # {} /\ I \in SUBSET U OBVIOUS
<1>4. i \in Nat /\ u \in Nat
  <2> HIDE DEF I, U
  <2> QED BY <1>1, <1>2, FS_CardinalityType
<1>5. i <= u /\ (u = i => U = I) /\ u # 0
  <2> HIDE DEF I, U
  <2>1. i <= u /\ (u = i => U = I) BY <1>2, <1>3, FS_Subset
  <2>2. u # 0 BY <1>2, <1>3, FS_EmptySet
  <2> QED BY <2>1, <2>2
<1>6. U = I <=> S = T OBVIOUS
<1> HIDE DEF I, U
<1>7. 10 * i > 8 * u <=> u = i
  <2> HIDE DEF i, u
  <2> QED BY <1>1, <1>4, <1>5
<1>8. u = i <=> U = I BY <1>5
<1> QED BY <1>6, <1>7, <1>8 DEF I, U

(* A name of at most four words is similar to exactly the texts of the same*)
(* name (_calculate_similarity).                                           *)
LEMMA SimilarIs ==
  ASSUME NEW W, NEW entity \in Seq(W), NEW name \in Seq(W), Len(name) <= 4
  PROVE  Names!Similar(entity, name) <=> Names!SameName(entity, name)
<1> DEFINE S == Names!ToSet(entity)  T == Names!ToSet(name)
           sim == Names!Similarity(entity, name)
<1>1. IsFiniteSet(S) /\ IsFiniteSet(T) /\ Cardinality(T) <= 4
  <2>1. IsFiniteSet(S) BY WordsFinite
  <2>2. IsFiniteSet(T) /\ Cardinality(T) <= Len(name) BY WordsFinite
  <2>3. Cardinality(T) \in Nat /\ Len(name) \in Nat BY <2>2, FS_CardinalityType
  <2> QED BY <2>1, <2>2, <2>3
<1>2. entity # name => S # {} \/ T # {}
  <2>1. S = {} => entity = <<>> BY WordsFinite
  <2>2. T = {} => name = <<>> BY WordsFinite
  <2> QED BY <2>1, <2>2
<1>3. CASE entity = name
  <2>1. sim = <<1, 1>> BY <1>3 DEF Names!Similarity
  <2>2. Names!Similar(entity, name) BY <2>1 DEF Names!Similar
  <2> QED BY <1>3, <2>2 DEF Names!SameName
<1>4. CASE entity # name /\ (Names!Within(entity, name) \/ Names!Within(name, entity))
  <2>1. sim = <<9, 10>> BY <1>4 DEF Names!Similarity
  <2>2. Names!Similar(entity, name) BY <2>1 DEF Names!Similar
  <2> QED BY <1>4, <2>2 DEF Names!SameName
<1>5. CASE entity # name /\ ~(Names!Within(entity, name) \/ Names!Within(name, entity))
  <2> DEFINE i == Cardinality(S \cap T)  u == Cardinality(S \cup T)
  <2>1. sim = <<i, u>> BY <1>5, CardIs DEF Names!Similarity
  <2> HIDE DEF S, T, i, u, sim
  <2>2. sim[1] = i /\ sim[2] = u BY <2>1
  <2>3. 10 * i > 8 * u <=> S = T BY <1>1, <1>2, <1>5, FourFifths DEF i, u
  <2>4. Names!Similar(entity, name) <=> 10 * sim[1] > 8 * sim[2]
    BY DEF Names!Similar, sim
  <2> QED BY <1>5, <2>2, <2>3, <2>4 DEF Names!SameName, S, T
<1> QED BY <1>3, <1>4, <1>5

(* The first element that passes a test exists exactly when some one does. *)
LEMMA AliasFound ==
  ASSUME NEW W, NEW entity, NEW aliases \in Seq(W)
  PROVE  LET alias == Names!SelectInSeq(aliases, LAMBDA a : Names!Similar(entity, a)) IN
         /\ alias \in Nat
         /\ alias # 0 <=> \E i \in 1..Len(aliases) : Names!Similar(entity, aliases[i])
<1> DEFINE I == {i \in 1..Len(aliases) : Names!Similar(entity, aliases[i])}
<1>1. CASE I = {}
  BY <1>1 DEF Names!SelectInSeq
<1>2. CASE I # {}
  <2>1. I \subseteq Nat OBVIOUS
  <2>2. \E x \in I : \A y \in I : x <= y
    <3> HIDE DEF I
    <3> QED BY <1>2, <2>1, LeastNat
  <2>3. Names!Min(I) \in I
    <3> HIDE DEF I
    <3> QED BY <2>2 DEF Names!Min
  <2>4. Names!SelectInSeq(aliases, LAMBDA a : Names!Similar(entity, a)) = Names!Min(I)
    BY <1>2 DEF Names!SelectInSeq
  <2>5. Names!Min(I) \in Nat /\ Names!Min(I) # 0 BY <2>3
  <2> QED BY <1>2, <2>4, <2>5
<1> QED BY <1>1, <1>2

(* A concatenation is empty when both parts are.                           *)
LEMMA ConcatEmpty ==
  ASSUME NEW A, NEW a \in Seq(A), NEW b \in Seq(A)
  PROVE  a \o b \in Seq(A) /\ (a \o b = <<>> <=> a = <<>> /\ b = <<>>)
<1> DEFINE w == a \o b
<1>1. w \in Seq(A) /\ Len(w) = Len(a) + Len(b) BY ConcatIs
<1> HIDE DEF w
<1>2. \A s \in Seq(A) : Len(s) \in Nat /\ (Len(s) = 0 <=> s = <<>>) OBVIOUS
<1>3. w = <<>> <=> a = <<>> /\ b = <<>> BY <1>1, <1>2
<1> QED BY <1>1, <1>3 DEF w

(* Names of at most four words, entries of a list that have them, matches. *)
Name(W) == {name \in Seq(W) : Len(name) <= 4}
Entry(W) == [name : Name(W), aliases : Seq(Name(W))]
Match == [type : {"direct", "alias"}, alias : Nat]

SameEntry(entity, entry) ==
  \E name \in {entry.name} \cup Names!ToSet(entry.aliases) : Names!SameName(entity, name)

(* An entry gives a match exactly when it has the name, or an alias has.   *)
LEMMA EntryMatch ==
  ASSUME NEW W, NEW entity \in Seq(W), NEW entry \in Entry(W)
  PROVE  /\ Names!MatchEntry(entity, entry) \in Seq(Match)
         /\ Names!MatchEntry(entity, entry) # <<>> <=> SameEntry(entity, entry)
<1> DEFINE aliases == entry.aliases
           alias == Names!SelectInSeq(aliases, LAMBDA a : Names!Similar(entity, a))
           matches == Names!MatchEntry(entity, entry)
<1>1. entry.name \in Name(W) /\ aliases \in Seq(Name(W)) BY DEF Entry
<1>2. \A name \in Name(W) : Names!Similar(entity, name) <=> Names!SameName(entity, name)
  BY SimilarIs DEF Name
<1>3. /\ alias \in Nat
      /\ alias # 0 <=> \E i \in 1..Len(aliases) : Names!Similar(entity, aliases[i])
  BY <1>1, AliasFound
<1>4. DOMAIN aliases = 1..Len(aliases) /\ \A i \in 1..Len(aliases) : aliases[i] \in Name(W)
  BY <1>1
<1>5. alias # 0 <=> \E name \in Names!ToSet(aliases) : Names!SameName(entity, name)
  <2>1. Names!ToSet(aliases) = {aliases[i] : i \in 1..Len(aliases)}
    BY <1>4 DEF Names!ToSet
  <2> HIDE DEF alias
  <2> QED BY <1>2, <1>3, <1>4, <2>1
<1>6. Names!Similar(entity, entry.name) <=> Names!SameName(entity, entry.name)
  BY <1>1, <1>2
<1>7. SameEntry(entity, entry) <=> Names!Similar(entity, entry.name) \/ alias # 0
  <2> HIDE DEF alias
  <2> QED BY <1>5, <1>6 DEF SameEntry
<1>8. \A m \in Match : <<m>> \in Seq(Match) /\ <<m>> # <<>> OBVIOUS
<1>9. CASE Names!Similar(entity, entry.name)
  <2>1. matches = <<[type |-> "direct", alias |-> 0]>> BY <1>9 DEF Names!MatchEntry
  <2>2. [type |-> "direct", alias |-> 0] \in Match BY DEF Match
  <2> QED BY <1>7, <1>8, <1>9, <2>1, <2>2
<1>10. CASE ~Names!Similar(entity, entry.name) /\ alias # 0
  <2>1. matches = <<[type |-> "alias", alias |-> alias]>> BY <1>10 DEF Names!MatchEntry
  <2>2. [type |-> "alias", alias |-> alias] \in Match BY <1>3 DEF Match
  <2> QED BY <1>7, <1>8, <1>10, <2>1, <2>2
<1>11. CASE ~Names!Similar(entity, entry.name) /\ alias = 0
  <2>1. matches = <<>> BY <1>11 DEF Names!MatchEntry
  <2> QED BY <1>7, <1>11, <2>1
<1> QED BY <1>9, <1>10, <1>11

(* The loop over the list is what its definition says.                     *)
LEMMA MatchesIs ==
  ASSUME NEW W, NEW entity \in Seq(W), NEW list \in Seq(Entry(W))
  PROVE  LET matches == Names!Matches(entity, list) IN
         /\ matches[0] = <<>>
         /\ \A n \in 0..Len(list) : matches[n] \in Seq(Match)
         /\ \A n \in 1..Len(list) :
              matches[n] = matches[n - 1] \o Names!MatchEntry(entity, list[n])
<1> DEFINE
      N == Len(list)
      V == Seq(Match)
      found(n) == Names!MatchEntry(entity, list[n])
      next(n, s) == IF n \in 1..N THEN s \o found(n) ELSE s
      turn == [n \in Nat |-> [s \in V |-> next(n, s)]]
<1>1. N \in Nat /\ \A n \in 1..N : list[n] \in Entry(W) OBVIOUS
<1>2. \A n \in 1..N : found(n) \in V BY <1>1, EntryMatch
<1>3. <<>> \in V /\ \A a, b \in V : a \o b \in V OBVIOUS
<1> HIDE DEF V, N, found
<1>4. \A n \in Nat, s \in V : next(n, s) \in V BY <1>2, <1>3
<1>5. turn \in [Nat -> [V -> V]] /\ \A n \in Nat, s \in V : turn[n][s] = next(n, s)
  <2> HIDE DEF next
  <2> QED BY <1>4
<1> HIDE DEF turn
<1>6. PICK w : Turns(w, V, <<>>, turn, N) BY <1>1, <1>3, <1>5, Loop
<1>7. w \in [0..N -> V] /\ w[0] = <<>> BY <1>6 DEF Turns
<1>8. ASSUME NEW n \in 1..N PROVE w[n] = w[n - 1] \o found(n)
  <2>1. n \in Nat /\ w[n - 1] \in V BY <1>1, <1>7
  <2>2. w[n] = turn[n][w[n - 1]] BY <1>6 DEF Turns
  <2> QED BY <1>5, <2>1, <2>2
<1>9. w = [n \in 0..N |-> IF n = 0 THEN <<>> ELSE w[n - 1] \o found(n)]
  <2>1. ASSUME NEW n \in 0..N
        PROVE  w[n] = IF n = 0 THEN <<>> ELSE w[n - 1] \o found(n)
    <3>1. CASE n = 0 BY <1>7, <3>1
    <3>2. CASE n # 0
      <4>1. n \in 1..N BY <1>1, <3>2
      <4> QED BY <1>8, <3>2, <4>1
    <3> QED BY <3>1, <3>2
  <2> QED BY <1>7, <2>1
<1> DEFINE matches == Names!Matches(entity, list)
<1>10. matches = [n \in 0..N |-> IF n = 0 THEN <<>> ELSE matches[n - 1] \o found(n)]
  BY <1>9 DEF Names!Matches, N, found
<1> HIDE DEF matches
<1>11. matches[0] = <<>> BY <1>1, <1>10
<1>12. ASSUME NEW n \in 1..N PROVE matches[n] = matches[n - 1] \o found(n)
  <2>1. n \in 0..N /\ n # 0 BY <1>1
  <2> QED BY <1>10, <2>1
<1> DEFINE S == {n \in 0..N : matches[n] \in V}
<1>13. \A n \in 0..N : n \in S
  <2>1. 0 \in S BY <1>1, <1>3, <1>11
  <2>2. ASSUME NEW n \in 0..(N - 1), n \in S PROVE n + 1 \in S
    <3>1. n + 1 \in 1..N /\ n + 1 \in 0..N /\ (n + 1) - 1 = n BY <1>1
    <3>2. matches[n + 1] = matches[n] \o found(n + 1) BY <1>12, <3>1
    <3> QED BY <1>2, <1>3, <2>2, <3>1, <3>2
  <2> HIDE DEF S
  <2> QED BY <1>1, <2>1, <2>2, InductionTo
<1> QED BY <1>11, <1>12, <1>13 DEF matches, N, V, found

(* An entity is matched by a list exactly when an entry of it has the same *)
(* name or alias: for texts of any length, lists of any number of entries, *)
(* and names of at most four words (_match_sanctions).                     *)
THEOREM MatchTheorem ==
  ASSUME NEW W, NEW entity \in Seq(W), NEW list \in Seq(Entry(W))
  PROVE  Names!MatchFor(entity, list)
<1> DEFINE
      N == Len(list)
      matches == Names!Matches(entity, list)
      found(n) == Names!MatchEntry(entity, list[n])
      Some(n) == \E i \in 1..n : SameEntry(entity, list[i])
      S == {n \in 0..N : matches[n] # <<>> <=> Some(n)}
<1>1. N \in Nat /\ DOMAIN list = 1..N /\ \A n \in 1..N : list[n] \in Entry(W) OBVIOUS
<1>2. /\ matches[0] = <<>>
      /\ \A n \in 0..N : matches[n] \in Seq(Match)
      /\ \A n \in 1..N : matches[n] = matches[n - 1] \o found(n)
  BY MatchesIs
<1>3. \A n \in 1..N : /\ found(n) \in Seq(Match)
                      /\ found(n) # <<>> <=> SameEntry(entity, list[n])
  BY <1>1, EntryMatch
<1>4. Names!MatchFor(entity, list) <=> (matches[N] # <<>> <=> Some(N))
  BY <1>1 DEF Names!MatchFor, Names!MatchSanctions, SameEntry
<1> HIDE DEF N, matches, found
<1>5. 0 \in S BY <1>1, <1>2
<1>6. ASSUME NEW n \in 0..(N - 1), n \in S PROVE n + 1 \in S
  <2>1. n + 1 \in 1..N /\ n + 1 \in 0..N /\ (n + 1) - 1 = n /\ n \in 0..N BY <1>1
  <2>2. matches[n + 1] = matches[n] \o found(n + 1) BY <1>2, <2>1
  <2>3. matches[n] \in Seq(Match) /\ found(n + 1) \in Seq(Match) BY <1>2, <1>3, <2>1
  <2>4. matches[n + 1] # <<>> <=> matches[n] # <<>> \/ found(n + 1) # <<>>
    <3> DEFINE a == matches[n]  b == found(n + 1)
    <3>1. a \in Seq(Match) /\ b \in Seq(Match) BY <2>3
    <3>2. matches[n + 1] = a \o b BY <2>2
    <3> HIDE DEF a, b
    <3>3. a \o b = <<>> <=> a = <<>> /\ b = <<>> BY <3>1, ConcatEmpty
    <3> QED BY <3>2, <3>3 DEF a, b
  <2>5. Some(n + 1) <=> Some(n) \/ SameEntry(entity, list[n + 1])
    <3>1. \A i : i \in 1..(n + 1) <=> i \in 1..n \/ i = n + 1 BY <2>1
    <3> QED BY <3>1
  <2>6. matches[n] # <<>> <=> Some(n) BY <1>6
  <2>7. found(n + 1) # <<>> <=> SameEntry(entity, list[n + 1]) BY <1>3, <2>1
  <2> HIDE DEF Some
  <2> QED BY <2>1, <2>4, <2>5, <2>6, <2>7
<1>7. N \in S
  <2> HIDE DEF S
  <2>1. \A n \in 0..N : n \in S BY <1>1, <1>5, <1>6, InductionTo
  <2> QED BY <1>1, <2>1
<1> QED BY <1>4, <1>7

(* The same of the lists TLC looks at (_match_sanctions).                  *)
THEOREM MatchesAreSameNamesTheorem == Spec => []MatchesAreSameNames
<1> DEFINE W == Word5  E == Entry(W)
<1>1. "a" \in W /\ "b" \in W /\ "c" \in W /\ "d" \in W /\ "e" \in W BY DEF Word5
<1> HIDE DEF W
<1>2. \A x, y, z, u \in W :
        /\ <<x>> \in Name(W) /\ <<x, y>> \in Name(W) /\ <<x, y, z>> \in Name(W)
        /\ <<x, y, z, u>> \in Name(W)
  BY DEF Name
<1>3. ABCD \in Name(W) BY <1>1, <1>2 DEF ABCD
<1>4. \A name, k, l \in Name(W) :
        /\ [name |-> name, aliases |-> <<>>] \in E
        /\ [name |-> name, aliases |-> <<k>>] \in E
        /\ [name |-> name, aliases |-> <<k, l>>] \in E
  <2> DEFINE M == Name(W)
  <2>1. \A k, l \in M : <<>> \in Seq(M) /\ <<k>> \in Seq(M) /\ <<k, l>> \in Seq(M)
    <3> HIDE DEF M
    <3> QED OBVIOUS
  <2> QED BY <2>1 DEF Entry
<1> HIDE DEF E
<1>5. \A x, y \in E : <<>> \in Seq(E) /\ <<x>> \in Seq(E) /\ <<x, y>> \in Seq(E) OBVIOUS
<1>6. Lists \subseteq Seq(E)
  <2> DEFINE e1 == [name |-> ABCD, aliases |-> <<>>]
             e2 == [name |-> <<"a", "b">>, aliases |-> <<<<"c">>, <<"b", "b", "a">>>>]
             e3 == [name |-> <<"a", "b", "c">>, aliases |-> <<>>]
             e4 == [name |-> <<"e", "d">>, aliases |-> <<ABCD>>]
  <2>1. e1 \in E BY <1>3, <1>4
  <2>2. e2 \in E
    <3>1. <<"a", "b">> \in Name(W) /\ <<"c">> \in Name(W) /\ <<"b", "b", "a">> \in Name(W)
      BY <1>1, <1>2
    <3> QED BY <1>4, <3>1
  <2>3. e3 \in E
    <3>1. <<"a", "b", "c">> \in Name(W) BY <1>1, <1>2
    <3> QED BY <1>4, <3>1
  <2>4. e4 \in E
    <3>1. <<"e", "d">> \in Name(W) BY <1>1, <1>2
    <3> QED BY <1>3, <1>4, <3>1
  <2>5. Lists = {<<e1>>, <<e2>>, <<e3, e4>>, <<>>} BY DEF Lists
  <2> HIDE DEF e1, e2, e3, e4
  <2> QED BY <1>5, <2>1, <2>2, <2>3, <2>4, <2>5
<1>7. InputInv => MatchesAreSameNames
  <2> SUFFICES ASSUME InputInv, About("match") PROVE Names!MatchFor(picked, given)
    BY DEF MatchesAreSameNames
  <2>1. given \in Seq(Entry(W)) /\ picked \in Seq(W)
    BY <1>6 DEF InputInv, About, E, W
  <2> QED BY <2>1, MatchTheorem
<1> QED BY <1>7, InputsTyped, PTL
=============================================================================
