--------------------------- MODULE EncodingProofs ---------------------------
(***************************************************************************)
(* Theorems about what is written and read: the messages on the wire, the  *)
(* bytes of field elements and the keys of the prediction cache.           *)
(***************************************************************************)
EXTENDS AlgorithmProofs

(* Records of any contents.                                                *)
Records(R, C) == \A r \in R : r.content \in C

(* The loop that collects a field's contents is what its definition says.  *)
LEMMA ContentsIs ==
  ASSUME NEW R, NEW C, Records(R, C), NEW num, NEW wire \in Seq(R)
  PROVE  LET own == Wire!Contents(num, wire) IN
         /\ own[0] = <<>>
         /\ \A n \in 1..Len(wire) :
              own[n] = IF wire[n].num = num THEN Append(own[n - 1], wire[n].content)
                       ELSE own[n - 1]
<1> DEFINE
      N == Len(wire)
      V == Seq(C)
      next(n, s) == IF n \in 1..N /\ wire[n].num = num THEN Append(s, wire[n].content)
                    ELSE s
      turn == [n \in Nat |-> [s \in V |-> next(n, s)]]
<1>1. N \in Nat /\ \A n \in 1..N : wire[n].content \in C BY DEF Records
<1>2. << >> \in V OBVIOUS
<1>3. \A n \in Nat, s \in V : next(n, s) \in V BY <1>1
<1>4. turn \in [Nat -> [V -> V]] /\ \A n \in Nat, s \in V : turn[n][s] = next(n, s)
  <2> HIDE DEF next, V
  <2> QED BY <1>3
<1> HIDE DEF turn, V, N
<1>6. PICK f : Turns(f, V, << >>, turn, N) BY <1>1, <1>2, <1>4, Loop
<1>7. f \in [0..N -> V] /\ f[0] = << >> BY <1>6 DEF Turns
<1>8. ASSUME NEW n \in 1..N
      PROVE  f[n] = IF wire[n].num = num THEN Append(f[n - 1], wire[n].content)
                    ELSE f[n - 1]
  <2>1. n \in Nat /\ f[n - 1] \in V BY <1>1, <1>7
  <2>2. f[n] = turn[n][f[n - 1]] BY <1>6 DEF Turns
  <2> QED BY <1>4, <2>1, <2>2
<1>9. f = [n \in 0..N |->
             IF n = 0 THEN << >>
             ELSE IF wire[n].num = num THEN Append(f[n - 1], wire[n].content)
             ELSE f[n - 1]]
  <2>1. ASSUME NEW n \in 0..N
        PROVE  f[n] = IF n = 0 THEN << >>
                      ELSE IF wire[n].num = num THEN Append(f[n - 1], wire[n].content)
                      ELSE f[n - 1]
    <3>1. CASE n = 0 BY <1>7, <3>1
    <3>2. CASE n # 0
      <4>1. n \in 1..N BY <1>1, <3>2
      <4> QED BY <1>8, <3>2, <4>1
    <3> QED BY <3>1, <3>2
  <2> QED BY <1>7, <2>1
<1> DEFINE own == Wire!Contents(num, wire)
<1>10. own = [n \in 0..N |->
                IF n = 0 THEN << >>
                ELSE IF wire[n].num = num THEN Append(own[n - 1], wire[n].content)
                ELSE own[n - 1]]
  BY <1>9 DEF Wire!Contents, N
<1> HIDE DEF own
<1>11. own[0] = << >> BY <1>1, <1>10
<1>12. ASSUME NEW n \in 1..N
       PROVE  own[n] = IF wire[n].num = num THEN Append(own[n - 1], wire[n].content)
                       ELSE own[n - 1]
  <2>1. n \in 0..N /\ n # 0 BY <1>1
  <2> QED BY <1>10, <2>1
<1> QED BY <1>11, <1>12 DEF own, N

(* An element is appended to a concatenation at its end.                   *)
AppendsLast(V, C) ==
  \A a, b \in V, c \in C : Append(a \o b, c) = a \o Append(b, c)

LEMMA AppendLast ==
  ASSUME NEW C
  PROVE  AppendsLast(Seq(C), C)
BY DEF AppendsLast

(* Contents of a field are contents of records.                            *)
LEMMA ContentsType ==
  ASSUME NEW R, NEW C, Records(R, C), NEW num, NEW wire \in Seq(R)
  PROVE  \A n \in 0..Len(wire) : Wire!Contents(num, wire)[n] \in Seq(C)
<1> DEFINE own == Wire!Contents(num, wire)
           N == Len(wire)
           V == Seq(C)
           S == {n \in 0..N : own[n] \in V}
<1>1. N \in Nat /\ \A n \in 1..N : wire[n].content \in C BY DEF Records
<1>2. /\ own[0] = <<>>
      /\ \A n \in 1..N : own[n] = IF wire[n].num = num
                                    THEN Append(own[n - 1], wire[n].content)
                                  ELSE own[n - 1]
  BY ContentsIs
<1>3. <<>> \in V /\ \A s \in V, c \in C : Append(s, c) \in V OBVIOUS
<1> HIDE DEF own, N, V
<1>4. 0 \in S BY <1>1, <1>2, <1>3
<1>5. ASSUME NEW n \in 0..(N - 1), n \in S PROVE n + 1 \in S
  <2>1. n + 1 \in 1..N /\ n + 1 \in 0..N /\ (n + 1) - 1 = n BY <1>1
  <2>2. own[n] \in V /\ wire[n + 1].content \in C BY <1>1, <1>5, <2>1
  <2>3. own[n + 1] \in V BY <1>2, <1>3, <2>1, <2>2
  <2> QED BY <2>1, <2>3
<1>6. \A n \in 0..N : n \in S
  <2> HIDE DEF S
  <2> QED BY <1>1, <1>4, <1>5, InductionTo
<1> QED BY <1>6 DEF own, N, V

(* What a field has in two buffers, one after the other.                   *)
LEMMA ContentsOfBoth ==
  ASSUME NEW R, NEW C, Records(R, C), NEW num, NEW u \in Seq(R), NEW v \in Seq(R),
         NEW w \in Seq(R), Len(w) = Len(u) + Len(v),
         \A n \in 1..Len(u) : w[n] = u[n],
         \A n \in 1..Len(v) : w[Len(u) + n] = v[n]
  PROVE  Wire!Contents(num, w)[Len(w)] =
           Wire!Contents(num, u)[Len(u)] \o Wire!Contents(num, v)[Len(v)]
<1> DEFINE first == Wire!Contents(num, u)
           second == Wire!Contents(num, v)
           both == Wire!Contents(num, w)
           N == Len(u)
           M == Len(v)
           S == {n \in 0..N : both[n] = first[n]}
           T == {n \in 0..M : both[N + n] = first[N] \o second[n]}
<1>1. /\ N \in Nat /\ M \in Nat /\ w \in Seq(R) /\ Len(w) = N + M
      /\ \A n \in 1..N : w[n] = u[n]
      /\ \A n \in 1..M : w[N + n] = v[n] /\ v[n].content \in C
  BY DEF Records
<1>2. /\ first[0] = <<>> /\ second[0] = <<>> /\ both[0] = <<>>
      /\ \A n \in 1..N : first[n] = IF u[n].num = num
                                      THEN Append(first[n - 1], u[n].content)
                                    ELSE first[n - 1]
      /\ \A n \in 1..M : second[n] = IF v[n].num = num
                                       THEN Append(second[n - 1], v[n].content)
                                     ELSE second[n - 1]
  <2>1. both[0] = <<>> BY <1>1, ContentsIs
  <2>2. /\ first[0] = <<>>
        /\ \A n \in 1..N : first[n] = IF u[n].num = num
                                        THEN Append(first[n - 1], u[n].content)
                                      ELSE first[n - 1]
    BY ContentsIs
  <2>3. /\ second[0] = <<>>
        /\ \A n \in 1..M : second[n] = IF v[n].num = num
                                         THEN Append(second[n - 1], v[n].content)
                                       ELSE second[n - 1]
    BY ContentsIs
  <2> QED BY <2>1, <2>2, <2>3
<1>3. \A n \in 1..(N + M) : both[n] = IF w[n].num = num
                                        THEN Append(both[n - 1], w[n].content)
                                      ELSE both[n - 1]
  BY <1>1, ContentsIs
<1>4. /\ \A n \in 0..N : first[n] \in Seq(C)
      /\ \A n \in 0..M : second[n] \in Seq(C)
  BY ContentsType
<1> HIDE DEF first, second, both, N, M
<1>5. \A n \in 0..N : n \in S
  <2>1. 0 \in S BY <1>1, <1>2
  <2>2. ASSUME NEW n \in 0..(N - 1), n \in S PROVE n + 1 \in S
    <3>1. /\ n + 1 \in 1..N /\ n + 1 \in 0..N /\ n + 1 \in 1..(N + M)
          /\ (n + 1) - 1 = n
      BY <1>1
    <3>2. both[n] = first[n] /\ w[n + 1] = u[n + 1] BY <1>1, <2>2, <3>1
    <3>3. both[n + 1] = first[n + 1] BY <1>2, <1>3, <3>1, <3>2
    <3> QED BY <3>1, <3>3
  <2> HIDE DEF S
  <2> QED BY <1>1, <2>1, <2>2, InductionTo
<1>6. both[N] = first[N] BY <1>1, <1>5
<1>7. \A n \in 0..M : n \in T
  <2>1. 0 \in T
    <3>1. first[N] \in Seq(C) /\ N + 0 = N /\ 0 \in 0..M BY <1>1, <1>4
    <3>2. first[N] \o <<>> = first[N] BY <3>1
    <3> QED BY <1>2, <1>6, <3>1, <3>2
  <2>2. ASSUME NEW n \in 0..(M - 1), n \in T PROVE n + 1 \in T
    <3>1. /\ n \in 0..M /\ n + 1 \in 1..M /\ n + 1 \in 0..M /\ (n + 1) - 1 = n
          /\ N + (n + 1) \in 1..(N + M) /\ (N + (n + 1)) - 1 = N + n /\ N \in 0..N
      BY <1>1
    <3> DEFINE a == first[N]  b == second[n]  c == v[n + 1].content
    <3>2. a \in Seq(C) /\ b \in Seq(C) /\ c \in C BY <1>1, <1>4, <3>1
    <3>3. both[N + n] = a \o b BY <2>2
    <3>4. w[N + (n + 1)] = v[n + 1] BY <1>1, <3>1
    <3>5. both[N + (n + 1)] = IF v[n + 1].num = num THEN Append(a \o b, c) ELSE a \o b
      <4> DEFINE i == N + (n + 1)
      <4>1. i \in 1..(N + M) /\ i - 1 = N + n BY <3>1
      <4>2. w[i] = v[n + 1] BY <3>4
      <4> HIDE DEF i
      <4>3. both[i] = IF w[i].num = num THEN Append(both[i - 1], w[i].content)
                      ELSE both[i - 1]
        BY <1>3, <4>1
      <4>4. both[i] = IF v[n + 1].num = num THEN Append(a \o b, c) ELSE a \o b
        BY <3>3, <4>1, <4>2, <4>3, Zenon
      <4> QED BY <4>4 DEF i
    <3>6. second[n + 1] = IF v[n + 1].num = num THEN Append(b, c) ELSE b
      BY <1>2, <3>1
    <3> HIDE DEF a, b, c
    <3>7. Append(a \o b, c) = a \o Append(b, c)
      <4>1. AppendsLast(Seq(C), C) BY AppendLast
      <4> QED BY <3>2, <4>1, Zenon DEF AppendsLast
    <3>8. both[N + (n + 1)] = a \o second[n + 1] BY <3>5, <3>6, <3>7
    <3> QED BY <3>1, <3>8 DEF a
  <2> HIDE DEF T
  <2> QED BY <1>1, <2>1, <2>2, InductionTo
<1>8. both[N + M] = first[N] \o second[M]
  <2> HIDE DEF T
  <2>1. M \in T BY <1>1, <1>7
  <2> QED BY <2>1 DEF T
<1> QED BY <1>1, <1>8 DEF first, second, both, N, M

-----------------------------------------------------------------------------
(* The two decoders agree.                                                 *)

Kind == {"bytes", "bool", "string", "repeated"}

(* Every message has a sequence of kinds.                                  *)
LEMMA SchemaType ==
  ASSUME NEW t \in Wire!Type
  PROVE  Wire!Schema[t] \in Seq(Kind)
<1>1. \A k \in Kind, l \in Kind, o \in Kind :
        /\ << >> \in Seq(Kind) /\ <<k>> \in Seq(Kind)
        /\ <<k, l>> \in Seq(Kind) /\ <<k, l, o>> \in Seq(Kind)
  OBVIOUS
<1>2. "bytes" \in Kind /\ "bool" \in Kind /\ "string" \in Kind /\ "repeated" \in Kind
  BY DEF Kind
<1> DEFINE both == <<"bytes", "bytes">>  answer == <<"bool", "string">>
           data == <<"bytes", "string">>  one == <<"bytes">>
           tree == <<"bytes", "repeated", "bytes">>
           health == <<"string", "string", "bool">>
<1>3. {both, answer, data, one, tree, health, <<>>} \subseteq Seq(Kind)
  BY <1>1, <1>2
<1> HIDE DEF both, answer, data, one, tree, health
<1>4. Wire!Schema[t] \in {both, answer, data, one, tree, health, <<>>}
  BY DEF Wire!Type, Wire!Schema, both, answer, data, one, tree, health
<1> QED BY <1>3, <1>4

(* The loop over the records is what its definition says.                  *)
LEMMA ReadIs ==
  ASSUME NEW R, NEW C, Records(R, C), NEW t \in Wire!Type, NEW wire \in Seq(R)
  PROVE  LET m == Wire!Read(t, wire) IN
         /\ m[0] = Wire!EmptyMessage(t)
         /\ \A n \in 0..Len(wire) : m[n] \in [DOMAIN Wire!Schema[t] -> Seq(C)]
         /\ \A n \in 1..Len(wire) : m[n] = Wire!Store(t, m[n - 1], wire[n])
<1> DEFINE
      N == Len(wire)
      F == DOMAIN Wire!Schema[t]
      W == Seq(C)
      V == [F -> W]
      empty == Wire!EmptyMessage(t)
      next(n, m) == IF n \in 1..N THEN Wire!Store(t, m, wire[n]) ELSE m
      turn == [n \in Nat |-> [m \in V |-> next(n, m)]]
<1>1. N \in Nat /\ \A n \in 1..N : wire[n].content \in C BY DEF Records
<1>2. /\ << >> \in W /\ \A c \in C : <<c>> \in W
      /\ \A s \in W, c \in C : Append(s, c) \in W
  OBVIOUS
<1> HIDE DEF W
<1>3. empty \in V BY <1>2 DEF Wire!EmptyMessage
<1>4. \A n \in 1..N, m \in V : Wire!Store(t, m, wire[n]) \in V
  <2> HIDE DEF N, F
  <2> QED BY <1>1, <1>2 DEF Wire!Store, F
<1>5. \A n \in Nat, m \in V : next(n, m) \in V BY <1>4
<1> HIDE DEF V, N, empty
<1>6. turn \in [Nat -> [V -> V]] /\ \A n \in Nat, m \in V : turn[n][m] = next(n, m)
  <2> HIDE DEF next
  <2> QED BY <1>5
<1> HIDE DEF turn
<1>7. PICK f : Turns(f, V, empty, turn, N) BY <1>1, <1>3, <1>6, Loop
<1>8. f \in [0..N -> V] /\ f[0] = empty BY <1>7 DEF Turns
<1>9. ASSUME NEW n \in 1..N PROVE f[n] = Wire!Store(t, f[n - 1], wire[n])
  <2>1. n \in Nat /\ f[n - 1] \in V BY <1>1, <1>8
  <2>2. f[n] = turn[n][f[n - 1]] BY <1>7 DEF Turns
  <2> QED BY <1>6, <2>1, <2>2
<1>10. f = [n \in 0..N |-> IF n = 0 THEN empty ELSE Wire!Store(t, f[n - 1], wire[n])]
  <2>1. ASSUME NEW n \in 0..N
        PROVE  f[n] = IF n = 0 THEN empty ELSE Wire!Store(t, f[n - 1], wire[n])
    <3>1. CASE n = 0 BY <1>8, <3>1
    <3>2. CASE n # 0
      <4>1. n \in 1..N BY <1>1, <3>2
      <4> QED BY <1>9, <3>2, <4>1
    <3> QED BY <3>1, <3>2
  <2> QED BY <1>8, <2>1
<1> DEFINE m == Wire!Read(t, wire)
<1>11. m = [n \in 0..N |-> IF n = 0 THEN empty ELSE Wire!Store(t, m[n - 1], wire[n])]
  BY <1>10 DEF Wire!Read, N, empty
<1> HIDE DEF m
<1>12. m[0] = empty BY <1>1, <1>11
<1>13. ASSUME NEW n \in 1..N PROVE m[n] = Wire!Store(t, m[n - 1], wire[n])
  <2>1. n \in 0..N /\ n # 0 BY <1>1
  <2> QED BY <1>11, <2>1
<1> DEFINE S == {n \in 0..N : m[n] \in V}
<1>14. \A n \in 0..N : n \in S
  <2>1. 0 \in S BY <1>1, <1>3, <1>12
  <2>2. ASSUME NEW n \in 0..(N - 1), n \in S PROVE n + 1 \in S
    <3>1. n + 1 \in 1..N /\ n + 1 \in 0..N /\ (n + 1) - 1 = n BY <1>1
    <3>2. m[n + 1] = Wire!Store(t, m[n], wire[n + 1]) BY <1>13, <3>1
    <3> QED BY <1>4, <2>2, <3>1, <3>2
  <2> HIDE DEF S
  <2> QED BY <1>1, <2>1, <2>2, InductionTo
<1> QED BY <1>12, <1>13, <1>14 DEF m, N, V, W, empty

(* The last element is the one appended.                                   *)
LEMMA LastOfAppend ==
  ASSUME NEW C
  PROVE  \A s \in Seq(C), c \in C : Append(s, c) # <<>> /\ Wire!Last(Append(s, c)) = c
BY DEF Wire!Last

(* The Go decoder reads every buffer the generated one accepts as it does: *)
(* buffers of any length, of any records (zk_client.go unmarshal).         *)
THEOREM AgreeTheorem ==
  ASSUME NEW R, NEW C, Records(R, C), NEW t \in Wire!Type, NEW wire \in Seq(R)
  PROVE  Wire!AgreeFor(t, wire)
<1> DEFINE
      N == Len(wire)
      kinds == Wire!Schema[t]
      F == DOMAIN kinds
      m == Wire!Read(t, wire)
      own(f) == Wire!Contents(f, wire)
      S == {n \in 0..N : \A f \in F : m[n][f] = Wire!FieldOf(kinds[f], own(f)[n])}
<1> SUFFICES ASSUME Wire!ProstAccepts(t, wire)
             PROVE  Wire!Unmarshal(t, wire) = Wire!ProstDecode(t, wire)
  BY DEF Wire!AgreeFor
<1>1. /\ N \in Nat /\ DOMAIN wire = 1..N
      /\ \A n \in 1..N : wire[n].content \in C /\ wire[n].type # "cut"
  BY DEF Records, Wire!ProstAccepts
<1>2. \A n \in 1..N : wire[n].num \in F =>
        wire[n].type = Wire!WireType(kinds[wire[n].num])
  BY <1>1 DEF Wire!ProstAccepts
<1>3. Wire!Readable(wire) = wire BY <1>1 DEF Wire!Readable, Wire!SelectInSeq
<1>4. /\ m[0] = Wire!EmptyMessage(t)
      /\ \A n \in 0..N : m[n] \in [F -> Seq(C)]
      /\ \A n \in 1..N : m[n] = Wire!Store(t, m[n - 1], wire[n])
  BY ReadIs
<1>5. ASSUME NEW f
      PROVE  /\ own(f)[0] = <<>>
             /\ \A n \in 0..N : own(f)[n] \in Seq(C)
             /\ \A n \in 1..N : own(f)[n] = IF wire[n].num = f
                                              THEN Append(own(f)[n - 1], wire[n].content)
                                            ELSE own(f)[n - 1]
  BY ContentsIs, ContentsType
<1> HIDE DEF own, m, N
<1>6. 0 \in S
  <2>1. \A f \in F : m[0][f] = <<>> BY <1>4 DEF Wire!EmptyMessage
  <2>2. \A f \in F : own(f)[0] = <<>> BY <1>5
  <2>3. \A kind : Wire!FieldOf(kind, <<>>) = <<>> BY DEF Wire!FieldOf
  <2>4. \A f \in F : m[0][f] = Wire!FieldOf(kinds[f], own(f)[0]) BY <2>1, <2>2, <2>3
  <2> QED BY <1>1, <2>4
<1>7. ASSUME NEW n \in 0..(N - 1), n \in S PROVE n + 1 \in S
  <2> DEFINE r == wire[n + 1]
  <2>1. /\ n + 1 \in 1..N /\ n \in 0..N /\ n + 1 \in 0..N /\ (n + 1) - 1 = n
        /\ r.content \in C
    BY <1>1
  <2>2. m[n + 1] = Wire!Store(t, m[n], r) /\ m[n] \in [F -> Seq(C)] BY <1>4, <2>1
  <2>3. r.num \in F => r.type = Wire!WireType(kinds[r.num]) BY <1>2, <2>1
  <2>4. ASSUME NEW f \in F
        PROVE  m[n + 1][f] = Wire!FieldOf(kinds[f], own(f)[n + 1])
    <3>1. m[n][f] = Wire!FieldOf(kinds[f], own(f)[n]) BY <1>7
    <3>2. own(f)[n] \in Seq(C) BY <1>5, <2>1
    <3>3. CASE r.num = f
      <4>1. own(f)[n + 1] = Append(own(f)[n], r.content) BY <1>5, <2>1, <3>3
      <4>2. Wire!FieldOf(kinds[f], own(f)[n + 1]) =
              IF kinds[f] = "repeated" THEN Append(own(f)[n], r.content)
              ELSE IF r.content \in {"", "0"} THEN <<>> ELSE <<r.content>>
        <5>1. own(f)[n + 1] # <<>> /\ Wire!Last(own(f)[n + 1]) = r.content
          BY <2>1, <3>2, <4>1, LastOfAppend
        <5> QED BY <4>1, <5>1 DEF Wire!FieldOf
      <4>3. m[n + 1][f] = IF kinds[f] = "repeated" THEN Append(m[n][f], r.content)
                          ELSE IF r.content \in {"", "0"} THEN <<>> ELSE <<r.content>>
        BY <2>2, <2>3, <3>3 DEF Wire!Store
      <4>4. kinds[f] = "repeated" => m[n][f] = own(f)[n] BY <3>1 DEF Wire!FieldOf
      <4> QED BY <4>2, <4>3, <4>4
    <3>4. CASE r.num # f
      <4>1. own(f)[n + 1] = own(f)[n] BY <1>5, <2>1, <3>4
      <4>2. m[n + 1][f] = m[n][f] BY <2>2, <3>4 DEF Wire!Store
      <4> QED BY <3>1, <4>1, <4>2
    <3> QED BY <3>3, <3>4
  <2> QED BY <2>1, <2>4
<1>8. N \in S
  <2> HIDE DEF S
  <2>1. \A n \in 0..N : n \in S BY <1>1, <1>6, <1>7, InductionTo
  <2> QED BY <1>1, <2>1
<1>9. m[N] = [f \in F |-> Wire!FieldOf(kinds[f], own(f)[N])]
  <2>1. m[N] \in [F -> Seq(C)] /\ N \in 0..N BY <1>1, <1>4
  <2> QED BY <1>8, <2>1
<1> QED BY <1>3, <1>9 DEF Wire!Unmarshal, Wire!ProstDecode, m, own, N

(* The same of the buffers TLC looks at (zk_client.go unmarshal).          *)
THEOREM DecodersAgreeTheorem == Spec => []DecodersAgree
<1> DEFINE C == {r.content : r \in Wire!Record}
<1>1. Records(Wire!Record, C) BY DEF Records
<1>2. InputInv => DecodersAgree
  BY <1>1, AgreeTheorem DEF InputInv, DecodersAgree, About
<1> QED BY <1>2, InputsTyped, PTL

-----------------------------------------------------------------------------
(* Messages arrive.                                                        *)

(* What can be sent: a scalar is at its default or has one element that is *)
(* none of the encodings of the default, and a string is UTF-8.            *)
Sent(t, C) ==
  LET kinds == Wire!Schema[t] IN
  {m \in [DOMAIN kinds -> Seq(C)] : \A f \in DOMAIN kinds :
     /\ kinds[f] # "repeated" =>
          m[f] = <<>> \/ \E c \in C \ {"", "0"} : m[f] = <<c>>
     /\ kinds[f] = "string" => \A i \in 1..Len(m[f]) : m[f][i] # "raw"}

(* The records of such a message.                                          *)
SentRecords(t, C) ==
  LET kinds == Wire!Schema[t] IN
  {r \in [num : DOMAIN kinds, type : {"varint", "bytes"}, content : C] :
     /\ r.type = Wire!WireType(kinds[r.num])
     /\ kinds[r.num] = "string" => r.content # "raw"}

(* The records written for a field, and what it has.                       *)
LEMMA RecordsOfType ==
  ASSUME NEW t \in Wire!Type, NEW C, NEW m \in Sent(t, C),
         NEW f \in DOMAIN Wire!Schema[t]
  PROVE  /\ Wire!RecordsOf(f, Wire!Schema[t][f], m[f]) \in Seq(SentRecords(t, C))
         /\ m[f] \in Seq(C)
<1> DEFINE kinds == Wire!Schema[t]  e == m[f]
           wire == Wire!RecordsOf(f, kinds[f], e)
<1>1. e \in Seq(C) /\ (kinds[f] = "string" => \A i \in 1..Len(e) : e[i] # "raw")
  BY DEF Sent
<1>2. wire = [i \in 1..Len(e) |->
                [num |-> f, type |-> Wire!WireType(kinds[f]), content |-> e[i]]]
  BY <1>1 DEF Wire!RecordsOf
<1> HIDE DEF e, wire
<1>3. \A i \in 1..Len(e) : wire[i] \in SentRecords(t, C)
  BY <1>1, <1>2 DEF SentRecords, Wire!WireType
<1>4. wire \in Seq(SentRecords(t, C)) BY <1>1, <1>2, <1>3
<1> QED BY <1>1, <1>4 DEF e, wire

(* The loop over the fields is what its definition says.                   *)
LEMMA WrittenIs ==
  ASSUME NEW t \in Wire!Type, NEW C, NEW m \in Sent(t, C)
  PROVE  LET wire == Wire!Written(t, m)
             K == Len(Wire!Schema[t])
         IN
         /\ wire[0] = <<>>
         /\ \A f \in 0..K : wire[f] \in Seq(SentRecords(t, C))
         /\ \A f \in 1..K :
              wire[f] = wire[f - 1] \o Wire!RecordsOf(f, Wire!Schema[t][f], m[f])
<1> DEFINE
      kinds == Wire!Schema[t]
      N == Len(kinds)
      V == Seq(SentRecords(t, C))
      records(f) == Wire!RecordsOf(f, kinds[f], m[f])
      next(f, s) == IF f \in 1..N THEN s \o records(f) ELSE s
      turn == [f \in Nat |-> [s \in V |-> next(f, s)]]
<1>1. N \in Nat /\ DOMAIN kinds = 1..N
  <2>1. kinds \in Seq(Kind) BY SchemaType
  <2> QED BY <2>1
<1>2. \A f \in 1..N : records(f) \in V BY <1>1, RecordsOfType
<1>3. <<>> \in V /\ \A a, b \in V : a \o b \in V OBVIOUS
<1> HIDE DEF V, N, records
<1>4. \A f \in Nat, s \in V : next(f, s) \in V BY <1>2, <1>3
<1>5. turn \in [Nat -> [V -> V]] /\ \A f \in Nat, s \in V : turn[f][s] = next(f, s)
  <2> HIDE DEF next
  <2> QED BY <1>4
<1> HIDE DEF turn
<1>6. PICK w : Turns(w, V, <<>>, turn, N) BY <1>1, <1>3, <1>5, Loop
<1>7. w \in [0..N -> V] /\ w[0] = <<>> BY <1>6 DEF Turns
<1>8. ASSUME NEW f \in 1..N PROVE w[f] = w[f - 1] \o records(f)
  <2>1. f \in Nat /\ w[f - 1] \in V BY <1>1, <1>7
  <2>2. w[f] = turn[f][w[f - 1]] BY <1>6 DEF Turns
  <2> QED BY <1>5, <2>1, <2>2
<1>9. w = [f \in 0..N |-> IF f = 0 THEN <<>> ELSE w[f - 1] \o records(f)]
  <2>1. ASSUME NEW f \in 0..N
        PROVE  w[f] = IF f = 0 THEN <<>> ELSE w[f - 1] \o records(f)
    <3>1. CASE f = 0 BY <1>7, <3>1
    <3>2. CASE f # 0
      <4>1. f \in 1..N BY <1>1, <3>2
      <4> QED BY <1>8, <3>2, <4>1
    <3> QED BY <3>1, <3>2
  <2> QED BY <1>7, <2>1
<1> DEFINE wire == Wire!Written(t, m)
<1>10. wire = [f \in 0..N |-> IF f = 0 THEN <<>> ELSE wire[f - 1] \o records(f)]
  BY <1>9 DEF Wire!Written, N, records
<1> HIDE DEF wire
<1>11. wire[0] = <<>> BY <1>1, <1>10
<1>12. ASSUME NEW f \in 1..N PROVE wire[f] = wire[f - 1] \o records(f)
  <2>1. f \in 0..N /\ f # 0 BY <1>1
  <2> QED BY <1>10, <2>1
<1> DEFINE S == {f \in 0..N : wire[f] \in V}
<1>13. \A f \in 0..N : f \in S
  <2>1. 0 \in S BY <1>1, <1>3, <1>11
  <2>2. ASSUME NEW f \in 0..(N - 1), f \in S PROVE f + 1 \in S
    <3>1. f + 1 \in 1..N /\ f + 1 \in 0..N /\ (f + 1) - 1 = f BY <1>1
    <3>2. wire[f + 1] = wire[f] \o records(f + 1) BY <1>12, <3>1
    <3> QED BY <1>2, <1>3, <2>2, <3>1, <3>2
  <2> HIDE DEF S
  <2> QED BY <1>1, <2>1, <2>2, InductionTo
<1> QED BY <1>11, <1>12, <1>13 DEF wire, N, V, records

(* The records of a field have the contents of its elements, and none of   *)
(* another's.                                                              *)
LEMMA ContentsOfRecords ==
  ASSUME NEW R, NEW C, Records(R, C), NEW num, NEW other, NEW kind, NEW e \in Seq(C),
         Wire!RecordsOf(num, kind, e) \in Seq(R)
  PROVE  LET wire == Wire!RecordsOf(num, kind, e) IN
         Wire!Contents(other, wire)[Len(wire)] = IF other = num THEN e ELSE <<>>
<1> DEFINE wire == Wire!RecordsOf(num, kind, e)
           own == Wire!Contents(other, wire)
           N == Len(e)
           S == {n \in 0..N : /\ own[n] \in Seq(C)
                              /\ other # num => own[n] = <<>>
                              /\ other = num => /\ Len(own[n]) = n
                                                /\ \A i \in 1..n : own[n][i] = e[i]}
<1>1. /\ N \in Nat /\ Len(wire) = N /\ wire \in Seq(R)
      /\ \A n \in 1..N : wire[n].num = num /\ wire[n].content = e[n] /\ e[n] \in C
  BY DEF Wire!RecordsOf
<1>2. /\ own[0] = <<>>
      /\ \A n \in 1..N : own[n] = IF num = other THEN Append(own[n - 1], e[n])
                                  ELSE own[n - 1]
  <2> HIDE DEF wire
  <2>1. /\ own[0] = <<>>
        /\ \A n \in 1..Len(wire) :
             own[n] = IF wire[n].num = other THEN Append(own[n - 1], wire[n].content)
                      ELSE own[n - 1]
    BY <1>1, ContentsIs
  <2> QED BY <1>1, <2>1
<1> HIDE DEF wire, own, N
<1>3. 0 \in S
  <2>1. own[0] \in Seq(C) /\ own[0] = <<>> /\ Len(own[0]) = 0 BY <1>2
  <2>2. 0 \in 0..N /\ \A i \in 1..0 : FALSE BY <1>1
  <2> QED BY <2>1, <2>2
<1>4. ASSUME NEW n \in 0..(N - 1), n \in S PROVE n + 1 \in S
  <2>1. /\ n + 1 \in 1..N /\ n + 1 \in 0..N /\ (n + 1) - 1 = n /\ n \in Nat
        /\ e[n + 1] \in C
    BY <1>1
  <2>2. own[n + 1] = IF num = other THEN Append(own[n], e[n + 1]) ELSE own[n]
    BY <1>2, <2>1
  <2>3. CASE other = num
    <3>1. own[n] \in Seq(C) /\ Len(own[n]) = n /\ \A i \in 1..n : own[n][i] = e[i]
      BY <1>4, <2>3
    <3>2. own[n + 1] = Append(own[n], e[n + 1]) BY <2>2, <2>3
    <3>3. /\ own[n + 1] \in Seq(C) /\ Len(own[n + 1]) = n + 1
          /\ \A i \in 1..n : own[n + 1][i] = own[n][i]
          /\ own[n + 1][n + 1] = e[n + 1]
      BY <2>1, <3>1, <3>2
    <3>4. \A i \in 1..(n + 1) : i \in 1..n \/ i = n + 1 BY <2>1
    <3> QED BY <2>1, <2>3, <3>1, <3>3, <3>4
  <2>4. CASE other # num BY <1>4, <2>1, <2>2, <2>4
  <2> QED BY <2>3, <2>4
<1>5. N \in S
  <2> HIDE DEF S
  <2>1. \A n \in 0..N : n \in S BY <1>1, <1>3, <1>4, InductionTo
  <2> QED BY <1>1, <2>1
<1>6. own[N] = IF other = num THEN e ELSE <<>>
  <2>1. CASE other = num
    <3>1. own[N] \in Seq(C) /\ Len(own[N]) = Len(e) /\ \A i \in 1..Len(e) : own[N][i] = e[i]
      BY <1>5, <2>1 DEF N
    <3>2. own[N] = e BY <3>1, SeqEqual
    <3> QED BY <2>1, <3>2
  <2>2. CASE other # num BY <1>5, <2>2
  <2> QED BY <2>1, <2>2
<1> QED BY <1>1, <1>6 DEF own, wire

(* A message arrives as it was sent, whatever the contents of its fields   *)
(* and however many a repeated one has (zk_client.go marshal and unmarshal,*)
(* trinity.rs).                                                            *)
THEOREM ArriveTheorem ==
  ASSUME NEW t \in Wire!Type, NEW C, NEW m \in Sent(t, C)
  PROVE  Wire!ArrivesFor(t, m)
<1> DEFINE
      kinds == Wire!Schema[t]
      K == Len(kinds)
      R == SentRecords(t, C)
      written == Wire!Written(t, m)
      records(f) == Wire!RecordsOf(f, kinds[f], m[f])
      wire == written[K]
      own(f, w) == Wire!Contents(f, w)[Len(w)]
<1>1. K \in Nat /\ DOMAIN kinds = 1..K
  <2>1. kinds \in Seq(Kind) BY SchemaType
  <2> QED BY <2>1
<1>2. Records(R, C) BY DEF Records, SentRecords
<1>3. /\ written[0] = <<>>
      /\ \A f \in 0..K : written[f] \in Seq(R)
      /\ \A f \in 1..K : written[f] = written[f - 1] \o records(f)
  BY WrittenIs
<1>4. \A f \in 1..K : records(f) \in Seq(R) /\ m[f] \in Seq(C)
  BY <1>1, RecordsOfType
<1>5. ASSUME NEW f, NEW g \in 1..K
      PROVE  own(f, records(g)) = IF f = g THEN m[g] ELSE <<>>
  BY <1>2, <1>4, ContentsOfRecords
<1>6. ASSUME NEW f, NEW u \in Seq(R), NEW v \in Seq(R), NEW w \in Seq(R),
             Len(w) = Len(u) + Len(v),
             \A n \in 1..Len(u) : w[n] = u[n],
             \A n \in 1..Len(v) : w[Len(u) + n] = v[n]
      PROVE  own(f, w) = own(f, u) \o own(f, v)
  BY <1>2, <1>6, ContentsOfBoth
<1>7. ASSUME NEW f, NEW w \in Seq(R), Len(w) = 0 PROVE own(f, w) = <<>>
  <2>1. Wire!Contents(f, w)[0] = <<>> BY <1>2, ContentsIs
  <2> QED BY <1>7, <2>1
<1> DEFINE S == {g \in 0..K : \A f \in 1..K :
                   own(f, written[g]) = IF f <= g THEN m[f] ELSE <<>>}
<1> HIDE DEF own, records, written, K, R
<1>8. \A g \in 0..K : g \in S
  <2>1. 0 \in S
    <3>1. written[0] \in Seq(R) /\ Len(written[0]) = 0 BY <1>1, <1>3
    <3>2. \A f : own(f, written[0]) = <<>> BY <1>7, <3>1
    <3>3. 0 \in 0..K /\ \A f \in 1..K : ~(f <= 0) BY <1>1
    <3> QED BY <3>2, <3>3
  <2>2. ASSUME NEW g \in 0..(K - 1), g \in S PROVE g + 1 \in S
    <3>1. /\ g + 1 \in 1..K /\ g \in 0..K /\ g + 1 \in 0..K /\ (g + 1) - 1 = g
      BY <1>1
    <3>2. written[g + 1] = written[g] \o records(g + 1) BY <1>3, <3>1
    <3>3. written[g] \in Seq(R) /\ records(g + 1) \in Seq(R) BY <1>3, <1>4, <3>1
    <3>4. ASSUME NEW f \in 1..K
          PROVE  own(f, written[g + 1]) = IF f <= g + 1 THEN m[f] ELSE <<>>
      <4>1. own(f, written[g + 1]) = own(f, written[g]) \o own(f, records(g + 1))
        <5> DEFINE u == written[g]  v == records(g + 1)  w == written[g + 1]
        <5>1. u \in Seq(R) /\ v \in Seq(R) /\ w \in Seq(R) BY <1>3, <3>1, <3>3
        <5>2. w = u \o v BY <3>2
        <5> HIDE DEF u, v, w
        <5>3. /\ Len(w) = Len(u) + Len(v)
              /\ \A n \in 1..Len(u) : w[n] = u[n]
              /\ \A n \in 1..Len(v) : w[Len(u) + n] = v[n]
          BY <5>1, <5>2
        <5>4. own(f, w) = own(f, u) \o own(f, v) BY <1>6, <5>1, <5>3
        <5> QED BY <5>4 DEF u, v, w
      <4>2. own(f, written[g]) = IF f <= g THEN m[f] ELSE <<>> BY <2>2
      <4>3. own(f, records(g + 1)) = IF f = g + 1 THEN m[g + 1] ELSE <<>> BY <1>5, <3>1
      <4>4. m[f] \in Seq(C) BY <1>4
      <4>5. m[f] \o <<>> = m[f] /\ <<>> \o m[f] = m[f] /\ <<>> \o <<>> = <<>>
        BY <4>4
      <4>6. CASE f <= g
        <5>1. f # g + 1 /\ f <= g + 1 BY <1>1, <4>6
        <5> QED BY <4>1, <4>2, <4>3, <4>5, <4>6, <5>1
      <4>7. CASE f = g + 1
        <5>1. ~(f <= g) /\ f <= g + 1 BY <1>1, <4>7
        <5> QED BY <4>1, <4>2, <4>3, <4>5, <4>7, <5>1
      <4>8. CASE ~(f <= g) /\ f # g + 1
        <5>1. ~(f <= g + 1) BY <1>1, <4>8
        <5> QED BY <4>1, <4>2, <4>3, <4>5, <4>8, <5>1
      <4> QED BY <4>6, <4>7, <4>8
    <3> QED BY <3>1, <3>4
  <2> HIDE DEF S
  <2> QED BY <1>1, <2>1, <2>2, InductionTo
<1>9. \A f \in 1..K : own(f, wire) = m[f]
  <2>1. K \in 0..K /\ \A f \in 1..K : f <= K BY <1>1
  <2> QED BY <1>8, <2>1
<1>10. wire \in Seq(R) BY <1>1, <1>3
<1>11. Wire!ProstAccepts(t, wire)
  <2> HIDE DEF wire
  <2>1. DOMAIN wire = 1..Len(wire) /\ \A i \in 1..Len(wire) : wire[i] \in R BY <1>10
  <2>2. \A r \in R : /\ r.type # "cut" /\ r.type = Wire!WireType(kinds[r.num])
                     /\ kinds[r.num] = "string" => r.content # "raw"
    BY DEF R, SentRecords
  <2> QED BY <2>1, <2>2 DEF Wire!ProstAccepts
<1>12. ASSUME NEW f \in 1..K PROVE Wire!FieldOf(kinds[f], m[f]) = m[f]
  <2>1. kinds[f] # "repeated" =>
          m[f] = <<>> \/ \E c \in C \ {"", "0"} : m[f] = <<c>>
    BY <1>1 DEF Sent
  <2>2. CASE kinds[f] = "repeated" BY <2>2 DEF Wire!FieldOf
  <2>3. CASE kinds[f] # "repeated" /\ m[f] = <<>> BY <2>3 DEF Wire!FieldOf
  <2>4. CASE kinds[f] # "repeated" /\ \E c \in C \ {"", "0"} : m[f] = <<c>>
    <3>1. PICK c \in C \ {"", "0"} : m[f] = <<c>> BY <2>4
    <3>2. <<c>> # <<>> /\ Wire!Last(<<c>>) = c BY DEF Wire!Last
    <3>3. m[f] # <<>> /\ Wire!Last(m[f]) = c BY <3>1, <3>2
    <3> QED BY <2>4, <3>1, <3>3 DEF Wire!FieldOf
  <2> QED BY <2>1, <2>2, <2>3, <2>4
<1>13. Wire!ProstDecode(t, wire) = m
  <2>1. Wire!ProstDecode(t, wire) = [f \in 1..K |-> Wire!FieldOf(kinds[f], own(f, wire))]
    BY <1>1 DEF Wire!ProstDecode, own
  <2>2. m \in [1..K -> Seq(C)] BY <1>1 DEF Sent
  <2> QED BY <1>9, <1>12, <2>1, <2>2
<1>14. Wire!Unmarshal(t, wire) = m
  <2>1. Wire!AgreeFor(t, wire) BY <1>2, <1>10, AgreeTheorem
  <2> QED BY <1>11, <1>13, <2>1 DEF Wire!AgreeFor
<1>15. Wire!Marshal(t, m) = wire BY DEF Wire!Marshal, wire, written, K
<1> QED BY <1>11, <1>13, <1>14, <1>15 DEF Wire!ArrivesFor

(* The codec's sequences of bounded length are sequences.                  *)
LEMMA WireBoundedIsSeq ==
  ASSUME NEW X, NEW Y, X \subseteq Y, NEW n \in Nat
  PROVE  Wire!BoundedSeq(X, n) \subseteq Seq(Y)
BY DEF Wire!BoundedSeq, Wire!SeqOf

(* The same of the messages TLC looks at (zk_client.go marshal and         *)
(* unmarshal, trinity.rs).                                                 *)
THEOREM MessagesArriveTheorem == Spec => []MessagesArrive
<1> DEFINE C == {"", "1", "text", "raw"}
<1>1. ASSUME NEW t \in Wire!Type, NEW m \in Wire!Message(t) PROVE m \in Sent(t, C)
  <2> DEFINE kinds == Wire!Schema[t]
  <2>1. kinds \in Seq(Kind) BY SchemaType
  <2>2. \A f \in DOMAIN kinds : kinds[f] \in Kind BY <2>1
  <2>3. /\ DOMAIN m = DOMAIN kinds /\ m = [f \in DOMAIN m |-> m[f]]
        /\ \A f \in DOMAIN kinds : m[f] \in Wire!Elements(kinds[f])
    BY DEF Wire!Message
  <2>4. ASSUME NEW f \in DOMAIN kinds
        PROVE  /\ m[f] \in Seq(C)
               /\ kinds[f] # "repeated" =>
                    m[f] = <<>> \/ \E c \in C \ {"", "0"} : m[f] = <<c>>
               /\ kinds[f] = "string" => \A i \in 1..Len(m[f]) : m[f][i] # "raw"
    <3>1. m[f] \in Wire!Elements(kinds[f]) BY <2>3
    <3>2. CASE kinds[f] = "repeated"
      <4>1. Wire!Elements(kinds[f]) = Wire!BoundedSeq({"", "text", "raw"}, 2)
        BY <3>2 DEF Wire!Elements
      <4>2. {"", "text", "raw"} \subseteq C /\ 2 \in Nat BY DEF C
      <4> HIDE DEF C
      <4>3. Wire!BoundedSeq({"", "text", "raw"}, 2) \subseteq Seq(C)
        BY <4>2, WireBoundedIsSeq
      <4> QED BY <3>1, <3>2, <4>1, <4>3
    <3>3. /\ "1" \in C \ {"", "0"} /\ "text" \in C \ {"", "0"} /\ "raw" \in C \ {"", "0"}
          /\ "text" # "raw"
      BY DEF C
    <3> HIDE DEF C
    <3>4. <<>> \in Seq(C) /\ \A c \in C : <<c>> \in Seq(C) OBVIOUS
    <3>5. Len(<<>>) = 0 /\ \A c : Len(<<c>>) = 1 /\ <<c>>[1] = c OBVIOUS
    <3>6. CASE kinds[f] = "bool"
      <4>1. m[f] = <<>> \/ m[f] = <<"1">> BY <3>1, <3>6 DEF Wire!Elements
      <4> QED BY <3>3, <3>4, <3>6, <4>1
    <3>7. CASE kinds[f] = "bytes"
      <4>1. m[f] = <<>> \/ m[f] = <<"text">> \/ m[f] = <<"raw">>
        BY <3>1, <3>7 DEF Wire!Elements
      <4> QED BY <3>3, <3>4, <3>7, <4>1
    <3>8. CASE kinds[f] = "string"
      <4>1. m[f] = <<>> \/ m[f] = <<"text">> BY <3>1, <3>8 DEF Wire!Elements
      <4>2. m[f] \in Seq(C) /\ (m[f] = <<>> \/ \E c \in C \ {"", "0"} : m[f] = <<c>>)
        BY <3>3, <3>4, <4>1
      <4>3. \A i \in 1..Len(m[f]) : m[f][i] # "raw"
        <5>1. CASE m[f] = <<>>
          <6>1. Len(m[f]) = 0 BY <3>5, <5>1
          <6> QED BY <6>1
        <5>2. CASE m[f] = <<"text">>
          <6>1. Len(m[f]) = 1 /\ m[f][1] = "text" BY <3>5, <5>2
          <6> QED BY <3>3, <6>1
        <5> QED BY <4>1, <5>1, <5>2
      <4> QED BY <3>8, <4>2, <4>3
    <3> QED BY <2>2, <3>2, <3>6, <3>7, <3>8 DEF Kind
  <2> HIDE DEF C
  <2>5. m \in [DOMAIN kinds -> Seq(C)] BY <2>3, <2>4
  <2> QED BY <2>4, <2>5 DEF Sent
<1>2. InputInv => MessagesArrive
  BY <1>1, ArriveTheorem DEF InputInv, MessagesArrive, About
<1> QED BY <1>2, InputsTyped, PTL

-----------------------------------------------------------------------------
(* The keys of the prediction cache.                                       *)

(* A text, a separator and another text.                                   *)
Split(a, s, b) == a \o <<s>> \o b

HasParts(w, a, s, b) ==
  /\ Len(w) = Len(a) + 1 + Len(b)
  /\ \A i \in 1..Len(a) : w[i] = a[i]
  /\ w[Len(a) + 1] = s
  /\ \A i \in 1..Len(b) : w[Len(a) + 1 + i] = b[i]

(* Everything is at its place in it.                                       *)
LEMMA Parts ==
  ASSUME NEW A, NEW a \in Seq(A), NEW b \in Seq(A), NEW s \in A
  PROVE  Split(a, s, b) \in Seq(A) /\ HasParts(Split(a, s, b), a, s, b)
<1> DEFINE d == <<s>>  c == a \o d  w == c \o b
<1>1. d \in Seq(A) OBVIOUS
<1>2. Len(d) = 1 /\ d[1] = s OBVIOUS
<1> HIDE DEF d
<1>3. /\ c \in Seq(A) /\ Len(c) = Len(a) + 1
      /\ \A i \in 1..Len(a) : c[i] = a[i]
      /\ c[Len(a) + 1] = s
  <2>1. /\ c \in Seq(A) /\ Len(c) = Len(a) + Len(d)
        /\ \A i \in 1..Len(a) : c[i] = a[i]
        /\ \A i \in 1..Len(d) : c[Len(a) + i] = d[i]
    BY <1>1, ConcatIs
  <2> HIDE DEF c
  <2> QED BY <1>2, <2>1
<1> HIDE DEF c
<1>4. /\ w \in Seq(A) /\ Len(w) = Len(c) + Len(b)
      /\ \A i \in 1..Len(c) : w[i] = c[i]
      /\ \A i \in 1..Len(b) : w[Len(c) + i] = b[i]
  <2>1. c \in Seq(A) BY <1>3
  <2> QED BY <2>1, ConcatIs
<1> HIDE DEF w
<1>5. Len(a) \in Nat OBVIOUS
<1>6. w[Len(a) + 1] = s /\ \A i \in 1..Len(a) : w[i] = a[i] BY <1>3, <1>4, <1>5
<1>7. w \in Seq(A) /\ HasParts(w, a, s, b) BY <1>3, <1>4, <1>6 DEF HasParts
<1> QED BY <1>7 DEF w, c, d, Split

(* When the second has no separator in it, both can be read off.           *)
LEMMA LastSeparator ==
  ASSUME NEW A, NEW s \in A, NEW a \in Seq(A), NEW c \in Seq(A),
         NEW b \in Seq(A \ {s}), NEW d \in Seq(A \ {s}),
         Split(a, s, b) = Split(c, s, d)
  PROVE  a = c /\ b = d
<1> DEFINE w == Split(a, s, b)
<1>1. b \in Seq(A) /\ d \in Seq(A) OBVIOUS
<1>2. HasParts(w, a, s, b) BY <1>1, Parts
<1>3. HasParts(w, c, s, d)
  <2>1. HasParts(Split(c, s, d), c, s, d) BY <1>1, Parts
  <2> QED BY <2>1
<1>4. /\ Len(a) \in Nat /\ Len(b) \in Nat /\ Len(c) \in Nat /\ Len(d) \in Nat
      /\ \A i \in 1..Len(b) : b[i] # s
      /\ \A i \in 1..Len(d) : d[i] # s
  OBVIOUS
<1> HIDE DEF w
<1> USE DEF HasParts
<1>5. ~(Len(a) < Len(c))
  <2> SUFFICES ASSUME Len(a) < Len(c) PROVE FALSE OBVIOUS
  <2> DEFINE i == Len(c) - Len(a)
  <2>1. i \in 1..Len(b) /\ Len(a) + 1 + i = Len(c) + 1 BY <1>2, <1>3, <1>4
  <2> HIDE DEF i
  <2> QED BY <1>2, <1>3, <1>4, <2>1
<1>6. ~(Len(c) < Len(a))
  <2> SUFFICES ASSUME Len(c) < Len(a) PROVE FALSE OBVIOUS
  <2> DEFINE i == Len(a) - Len(c)
  <2>1. i \in 1..Len(d) /\ Len(c) + 1 + i = Len(a) + 1 BY <1>2, <1>3, <1>4
  <2> HIDE DEF i
  <2> QED BY <1>2, <1>3, <1>4, <2>1
<1>7. Len(a) = Len(c) /\ Len(b) = Len(d) BY <1>2, <1>3, <1>4, <1>5, <1>6
<1>8. \A i \in 1..Len(a) : a[i] = c[i] BY <1>2, <1>3, <1>7
<1>9. \A i \in 1..Len(b) : b[i] = d[i] BY <1>2, <1>3, <1>7
<1> QED BY <1>1, <1>7, <1>8, <1>9, SeqEqual

Comma == ","
Bar == "|"

(* A text and a label, joined; sets of texts that have all of these.       *)
Glued(s, l) == Split(s, Comma, l)
Closed(V) == <<>> \in V /\ \A s, l \in V : Glued(s, l) \in V

(* The loop over the labels is what its definition says.                   *)
LEMMA JoinedIs ==
  ASSUME NEW V, Closed(V), NEW labels \in Seq(V)
  PROVE  LET joined == Names!Joined(labels) IN
         /\ joined[0] = <<>>
         /\ \A n \in 0..Len(labels) : joined[n] \in V
         /\ \A n \in 1..Len(labels) :
              joined[n] = IF n = 1 THEN labels[1] ELSE Glued(joined[n - 1], labels[n])
<1> DEFINE
      N == Len(labels)
      step(n, s) == IF n = 1 THEN labels[1] ELSE Glued(s, labels[n])
      next(n, s) == IF n \in 1..N THEN step(n, s) ELSE s
      turn == [n \in Nat |-> [s \in V |-> next(n, s)]]
<1>1. N \in Nat /\ \A n \in 1..N : labels[n] \in V OBVIOUS
<1>2. <<>> \in V BY DEF Closed
<1> HIDE DEF N
<1>3. \A n \in 1..N, s \in V : step(n, s) \in V
  <2>1. ASSUME NEW n \in 1..N, NEW s \in V PROVE step(n, s) \in V
    <3>1. labels[n] \in V BY <1>1
    <3>2. Glued(s, labels[n]) \in V BY <3>1 DEF Closed
    <3>3. CASE n = 1 BY <3>1, <3>3
    <3>4. CASE n # 1 BY <3>2, <3>4
    <3> QED BY <3>3, <3>4
  <2> HIDE DEF step
  <2> QED BY <2>1
<1> HIDE DEF step
<1>4. \A n \in Nat, s \in V : next(n, s) \in V BY <1>3
<1>5. turn \in [Nat -> [V -> V]] /\ \A n \in Nat, s \in V : turn[n][s] = next(n, s)
  <2> HIDE DEF next
  <2> QED BY <1>4
<1> HIDE DEF turn
<1>6. PICK w : Turns(w, V, <<>>, turn, N) BY <1>1, <1>2, <1>5, Loop
<1>7. w \in [0..N -> V] /\ w[0] = <<>> BY <1>6 DEF Turns
<1>8. ASSUME NEW n \in 1..N PROVE w[n] = step(n, w[n - 1])
  <2>1. n \in Nat /\ w[n - 1] \in V BY <1>1, <1>7
  <2>2. w[n] = turn[n][w[n - 1]] BY <1>6 DEF Turns
  <2> QED BY <1>5, <2>1, <2>2
<1>9. w = [n \in 0..N |-> IF n = 0 THEN <<>>
                          ELSE IF n = 1 THEN labels[1]
                          ELSE Glued(w[n - 1], labels[n])]
  <2>1. ASSUME NEW n \in 0..N
        PROVE  w[n] = IF n = 0 THEN <<>>
                      ELSE IF n = 1 THEN labels[1]
                      ELSE Glued(w[n - 1], labels[n])
    <3>1. CASE n = 0 BY <1>7, <3>1
    <3>2. CASE n # 0
      <4>1. n \in 1..N BY <1>1, <3>2
      <4>2. w[n] = step(n, w[n - 1]) BY <1>8, <4>1
      <4> QED BY <3>2, <4>2 DEF step
    <3> QED BY <3>1, <3>2
  <2> QED BY <1>7, <2>1
<1> DEFINE joined == Names!Joined(labels)
<1>10. joined = [n \in 0..N |-> IF n = 0 THEN <<>>
                                ELSE IF n = 1 THEN labels[1]
                                ELSE Glued(joined[n - 1], labels[n])]
  BY <1>9, Zenon DEF Names!Joined, N, Glued, Split, Comma
<1> HIDE DEF joined
<1>11. joined[0] = <<>>
  <2>1. 0 \in 0..N BY <1>1
  <2> QED BY <1>10, <2>1
<1>12. ASSUME NEW n \in 1..N PROVE joined[n] = step(n, joined[n - 1])
  <2>1. n \in 0..N /\ n # 0 BY <1>1
  <2> QED BY <1>10, <2>1 DEF step
<1> DEFINE S == {n \in 0..N : joined[n] \in V}
<1>13. \A n \in 0..N : n \in S
  <2>1. 0 \in S BY <1>1, <1>2, <1>11
  <2>2. ASSUME NEW n \in 0..(N - 1), n \in S PROVE n + 1 \in S
    <3>1. n + 1 \in 1..N /\ n + 1 \in 0..N /\ (n + 1) - 1 = n BY <1>1
    <3>2. joined[n + 1] = step(n + 1, joined[n]) BY <1>12, <3>1
    <3> QED BY <1>3, <2>2, <3>1, <3>2
  <2> HIDE DEF S
  <2> QED BY <1>1, <2>1, <2>2, InductionTo
<1> QED BY <1>11, <1>12, <1>13 DEF joined, N, step

(* Texts are joined to texts.                                              *)
LEMMA ClosedSeq ==
  ASSUME NEW A, Comma \in A
  PROVE  Closed(Seq(A))
<1>1. <<>> \in Seq(A) OBVIOUS
<1>2. ASSUME NEW s \in Seq(A), NEW l \in Seq(A) PROVE Glued(s, l) \in Seq(A)
  BY Parts DEF Glued
<1> QED BY <1>1, <1>2 DEF Closed

(* Sequences over a part of a set are sequences over the set.              *)
LEMMA SeqMonotone ==
  ASSUME NEW X, NEW Y, X \subseteq Y
  PROVE  Seq(X) \subseteq Seq(Y)
OBVIOUS

(* Labels: not empty, and no comma in them.                                *)
Label(A) == Seq(A \ {Comma}) \ {<<>>}

(* What has been joined is no single label.                                *)
LEMMA LabelGlued ==
  ASSUME NEW A, Comma \in A, NEW s \in Seq(A), NEW l \in Label(A)
  PROVE  Glued(s, l) # <<>> /\ Glued(s, l) \notin Seq(A \ {Comma})
<1> DEFINE w == Glued(s, l)
<1>1. l \in Seq(A) BY DEF Label
<1>2. Len(w) = Len(s) + 1 + Len(l) /\ w[Len(s) + 1] = Comma
  BY <1>1, Parts DEF Glued, HasParts
<1>3. Len(s) \in Nat /\ Len(l) \in Nat BY <1>1
<1> HIDE DEF w
<1>4. Len(s) + 1 \in 1..Len(w) BY <1>2, <1>3
<1>5. w # <<>>
  <2>1. Len(<<>>) = 0 OBVIOUS
  <2> QED BY <1>2, <1>3, <2>1
<1>6. w \notin Seq(A \ {Comma})
  <2> SUFFICES ASSUME w \in Seq(A \ {Comma}) PROVE FALSE OBVIOUS
  <2> QED BY <1>2, <1>4
<1> QED BY <1>5, <1>6 DEF w

(* The last label and what comes before it can be read off.                *)
LEMMA GluedInjective ==
  ASSUME NEW A, Comma \in A, NEW s \in Seq(A), NEW t \in Seq(A),
         NEW k \in Label(A), NEW l \in Label(A), Glued(s, k) = Glued(t, l)
  PROVE  s = t /\ k = l
<1>1. k \in Seq(A \ {Comma}) /\ l \in Seq(A \ {Comma}) BY DEF Label
<1>2. Split(s, Comma, k) = Split(t, Comma, l) BY DEF Glued
<1> QED BY <1>1, <1>2, LastSeparator

(* Labels with one join are the same, and as many.                         *)
LEMMA EqualLabels ==
  ASSUME NEW A, Comma \in A, NEW labels1 \in Seq(Label(A)), NEW labels2 \in Seq(Label(A)),
         Names!Join(labels1) = Names!Join(labels2)
  PROVE  labels1 = labels2
<1> DEFINE
      W == Label(A)
      V == Seq(A)
      N == Len(labels1)
      M == Len(labels2)
      h == Names!Joined(labels1)
      g == Names!Joined(labels2)
      Same(i) == \A j \in 0..M : h[i] = g[j] =>
                   i = j /\ \A n \in 1..i : labels1[n] = labels2[n]
      S == {i \in 0..N : Same(i)}
<1>1. W \subseteq V BY DEF Label
<1>2. Closed(V) BY ClosedSeq
<1>3. \A w \in W : w # <<>> /\ w \in Seq(A \ {Comma}) BY DEF Label
<1>4. \A s \in V, l \in W : Glued(s, l) # <<>> /\ Glued(s, l) \notin Seq(A \ {Comma})
  BY LabelGlued
<1>5. \A s, t \in V, k, l \in W : Glued(s, k) = Glued(t, l) => s = t /\ k = l
  BY GluedInjective
<1> HIDE DEF W, V
<1>6. labels1 \in Seq(W) /\ labels2 \in Seq(W) BY DEF W
<1>7. labels1 \in Seq(V) /\ labels2 \in Seq(V) BY <1>1, <1>6
<1>8. N \in Nat /\ M \in Nat OBVIOUS
<1>9. /\ \A n \in 1..N : labels1[n] \in W
      /\ \A n \in 1..M : labels2[n] \in W
  BY <1>6
<1>10. /\ h[0] = <<>> /\ g[0] = <<>>
       /\ \A n \in 0..N : h[n] \in V
       /\ \A n \in 0..M : g[n] \in V
       /\ \A n \in 1..N : h[n] = IF n = 1 THEN labels1[1] ELSE Glued(h[n - 1], labels1[n])
       /\ \A n \in 1..M : g[n] = IF n = 1 THEN labels2[1] ELSE Glued(g[n - 1], labels2[n])
  BY <1>2, <1>7, JoinedIs
<1>11. h[N] = g[M] BY DEF Names!Join
<1> HIDE DEF h, g, N, M
<1>12. \A n \in 1..N : h[n] # <<>> /\ (n # 1 => h[n] \notin Seq(A \ {Comma}))
  <2> SUFFICES ASSUME NEW n \in 1..N
               PROVE  h[n] # <<>> /\ (n # 1 => h[n] \notin Seq(A \ {Comma}))
    OBVIOUS
  <2>1. labels1[n] \in W /\ n - 1 \in 0..N BY <1>8, <1>9
  <2>2. CASE n = 1 BY <1>3, <1>10, <2>1, <2>2
  <2>3. CASE n # 1
    <3>1. h[n] = Glued(h[n - 1], labels1[n]) /\ h[n - 1] \in V BY <1>10, <2>1, <2>3
    <3> QED BY <1>4, <2>1, <3>1
  <2> QED BY <2>2, <2>3
<1>13. \A n \in 1..M : g[n] # <<>> /\ (n # 1 => g[n] \notin Seq(A \ {Comma}))
  <2> SUFFICES ASSUME NEW n \in 1..M
               PROVE  g[n] # <<>> /\ (n # 1 => g[n] \notin Seq(A \ {Comma}))
    OBVIOUS
  <2>1. labels2[n] \in W /\ n - 1 \in 0..M BY <1>8, <1>9
  <2>2. CASE n = 1 BY <1>3, <1>10, <2>1, <2>2
  <2>3. CASE n # 1
    <3>1. g[n] = Glued(g[n - 1], labels2[n]) /\ g[n - 1] \in V BY <1>10, <2>1, <2>3
    <3> QED BY <1>4, <2>1, <3>1
  <2> QED BY <2>2, <2>3
<1>14. \A i \in 0..N : i \in S
  <2>1. 0 \in S
    <3>1. \A j \in 0..M : h[0] = g[j] => j = 0
      <4> SUFFICES ASSUME NEW j \in 0..M, j # 0 PROVE h[0] # g[j] OBVIOUS
      <4>1. j \in 1..M BY <1>8
      <4> QED BY <1>10, <1>13, <4>1
    <3>2. 0 \in 0..N /\ \A n \in 1..0 : FALSE BY <1>8
    <3> QED BY <3>1, <3>2
  <2>2. ASSUME NEW i \in 0..(N - 1), i \in S PROVE i + 1 \in S
    <3>1. i + 1 \in 1..N /\ i + 1 \in 0..N /\ (i + 1) - 1 = i /\ i \in 0..N /\ i \in Nat
      BY <1>8
    <3>2. ASSUME NEW j \in 0..M, h[i + 1] = g[j]
          PROVE  i + 1 = j /\ \A n \in 1..(i + 1) : labels1[n] = labels2[n]
      <4>1. j # 0 BY <1>10, <1>12, <3>1, <3>2
      <4>2. j \in 1..M /\ j - 1 \in 0..M BY <1>8, <4>1
      <4>3. CASE i = 0
        <5>1. h[i + 1] = labels1[1] /\ labels1[1] \in W BY <1>9, <1>10, <3>1, <4>3
        <5>2. j = 1 BY <1>3, <1>13, <3>2, <4>2, <5>1
        <5>3. labels1[1] = labels2[1] BY <1>10, <3>2, <4>2, <5>1, <5>2
        <5> QED BY <4>3, <5>2, <5>3
      <4>4. CASE i # 0
        <5>1. i + 1 # 1 BY <3>1, <4>4
        <5>2. h[i + 1] = Glued(h[i], labels1[i + 1]) BY <1>10, <3>1, <5>1
        <5>3. j # 1
          <6> SUFFICES ASSUME j = 1 PROVE FALSE OBVIOUS
          <6>1. g[j] = labels2[1] /\ labels2[1] \in W BY <1>9, <1>10, <4>2
          <6> QED BY <1>3, <1>12, <3>1, <3>2, <5>1, <6>1
        <5>4. g[j] = Glued(g[j - 1], labels2[j]) BY <1>10, <4>2, <5>3
        <5>5. h[i] = g[j - 1] /\ labels1[i + 1] = labels2[j]
          <6>1. /\ h[i] \in V /\ g[j - 1] \in V
                /\ labels1[i + 1] \in W /\ labels2[j] \in W
            BY <1>9, <1>10, <3>1, <4>2
          <6> DEFINE s == h[i]  k == labels1[i + 1]  t == g[j - 1]  l == labels2[j]
          <6>2. Glued(s, k) = Glued(t, l) BY <3>2, <5>2, <5>4
          <6>3. s \in V /\ t \in V /\ k \in W /\ l \in W BY <6>1
          <6> HIDE DEF s, k, t, l
          <6>4. s = t /\ k = l BY <1>5, <6>2, <6>3
          <6> QED BY <6>4 DEF s, k, t, l
        <5>6. i = j - 1 /\ \A n \in 1..i : labels1[n] = labels2[n]
          BY <2>2, <4>2, <5>5
        <5>7. i + 1 = j BY <3>1, <4>2, <5>6
        <5>8. \A n \in 1..(i + 1) : n \in 1..i \/ n = i + 1 BY <3>1
        <5> QED BY <5>5, <5>6, <5>7, <5>8
      <4> QED BY <4>3, <4>4
    <3> QED BY <3>1, <3>2
  <2> HIDE DEF S
  <2> QED BY <1>8, <2>1, <2>2, InductionTo
<1>15. N = M /\ \A n \in 1..N : labels1[n] = labels2[n]
  <2>1. N \in 0..N /\ M \in 0..M BY <1>8
  <2> QED BY <1>11, <1>14, <2>1
<1> QED BY <1>6, <1>15, SeqEqual DEF N, M

(* Sequences that avoid an element.                                        *)
LEMMA Avoids ==
  ASSUME NEW A, NEW mark, NEW label \in Seq(A), mark \notin Names!ToSet(label)
  PROVE  label \in Seq(A \ {mark})
<1>1. \A i \in 1..Len(label) : label[i] \in A /\ label[i] # mark
  BY DEF Names!ToSet
<1> QED BY <1>1

(* Labels without a "|" are joined to a text without one.                  *)
LEMMA JoinedWithoutBar ==
  ASSUME NEW A, Comma \in A, NEW labels \in Seq(Seq(A)), Names!Without(Bar, labels)
  PROVE  Names!Join(labels) \in Seq(A \ {Bar})
<1> DEFINE V == Seq(A \ {Bar})  U == Seq(A)
<1>1. Comma \in A \ {Bar}
  <2>1. Comma # Bar BY Zenon DEF Comma, Bar
  <2> QED BY <2>1
<1>2. Closed(V) BY <1>1, ClosedSeq
<1>3. \A label \in U : Bar \notin Names!ToSet(label) => label \in V BY Avoids
<1> HIDE DEF V, U
<1>4. labels \in Seq(U) BY DEF U
<1>5. \A i \in 1..Len(labels) : labels[i] \in V BY <1>3, <1>4 DEF Names!Without
<1>6. labels \in Seq(V) BY <1>4, <1>5
<1>7. Len(labels) \in 0..Len(labels) BY <1>4
<1>8. Names!Joined(labels)[Len(labels)] \in V BY <1>2, <1>6, <1>7, JoinedIs
<1> QED BY <1>8 DEF Names!Join, V

(* Ordinary labels are not empty and have no separator in them.            *)
LEMMA OrdinaryLabels ==
  ASSUME NEW A, NEW labels \in Seq(Seq(A)), Names!Ordinary(labels)
  PROVE  /\ labels \in Seq(Label(A \ {Bar}))
         /\ Names!Without(Bar, labels)
<1> DEFINE U == Seq(A)  W == Label(A \ {Bar})
<1>1. /\ Names!Without(Bar, labels) /\ Names!Without(Comma, labels)
      /\ \A i \in DOMAIN labels : labels[i] # <<>>
  BY Zenon DEF Names!Ordinary, Bar, Comma
<1>2. ASSUME NEW label \in U, label # <<>>,
             Bar \notin Names!ToSet(label), Comma \notin Names!ToSet(label)
      PROVE  label \in W
  <2>1. label \in Seq(A \ {Bar}) BY <1>2, Avoids
  <2>2. label \in Seq((A \ {Bar}) \ {Comma}) BY <1>2, <2>1, Avoids
  <2> QED BY <1>2, <2>2 DEF Label
<1> HIDE DEF U, W
<1>3. labels \in Seq(U) BY DEF U
<1>4. \A i \in 1..Len(labels) : labels[i] \in W BY <1>1, <1>2, <1>3 DEF Names!Without
<1>5. labels \in Seq(W) BY <1>3, <1>4
<1> QED BY <1>1, <1>5 DEF W

(* What one cache key says of two requests, for texts with any characters  *)
(* and for any labels a client sends: the texts are the same unless a label*)
(* has a "|" in it, the labels unless one of them is empty or has a        *)
(* separator in it (_prediction_cache_key).                                *)
THEOREM KeyTheorem ==
  ASSUME NEW A, Comma \in A, Bar \in A,
         NEW text1 \in Seq(A), NEW labels1 \in Seq(Seq(A)),
         NEW text2 \in Seq(A), NEW labels2 \in Seq(Seq(A))
  PROVE  Names!KeyFor(text1, labels1, text2, labels2)
<1> DEFINE B == A \ {Bar}
<1> SUFFICES ASSUME Names!PredictionCacheKey(text1, labels1)
                      = Names!PredictionCacheKey(text2, labels2)
             PROVE  /\ Names!Without(Bar, labels1) /\ Names!Without(Bar, labels2)
                       => text1 = text2
                    /\ Names!Ordinary(labels1) /\ Names!Ordinary(labels2)
                       => text1 = text2 /\ labels1 = labels2
  BY Zenon DEF Names!KeyFor, Bar
<1>1. Split(text1, Bar, Names!Join(labels1)) = Split(text2, Bar, Names!Join(labels2))
  BY Zenon DEF Names!PredictionCacheKey, Split, Bar
<1>2. ASSUME Names!Without(Bar, labels1), Names!Without(Bar, labels2)
      PROVE  text1 = text2 /\ Names!Join(labels1) = Names!Join(labels2)
  <2>1. Names!Join(labels1) \in Seq(B) /\ Names!Join(labels2) \in Seq(B)
    BY <1>2, JoinedWithoutBar
  <2> QED BY <1>1, <2>1, LastSeparator
<1>3. ASSUME Names!Ordinary(labels1), Names!Ordinary(labels2)
      PROVE  text1 = text2 /\ labels1 = labels2
  <2>1. /\ labels1 \in Seq(Label(B)) /\ Names!Without(Bar, labels1)
        /\ labels2 \in Seq(Label(B)) /\ Names!Without(Bar, labels2)
    BY <1>3, OrdinaryLabels
  <2>2. Comma \in B
    <3>1. Comma # Bar BY Zenon DEF Comma, Bar
    <3> QED BY <3>1
  <2> HIDE DEF B
  <2>3. labels1 = labels2 BY <1>2, <2>1, <2>2, EqualLabels
  <2> QED BY <1>2, <2>1, <2>3
<1> QED BY <1>2, <1>3

(* The same of the requests TLC looks at (_prediction_cache_key).          *)
THEOREM KeyTellsRequestsTheorem == Spec => []KeyTellsRequests
<1> DEFINE A == {"a", "b", Bar, Comma}  X == {"a", Bar, Comma}
<1>1. Labels \subseteq Seq(A)
  <2>1. Labels = {<<"a">>, <<"b">>, <<>>, <<"a", Comma, "b">>, <<Bar, "a">>}
    BY Zenon DEF Labels, Bar, Comma
  <2>2. "a" \in A /\ "b" \in A /\ Bar \in A /\ Comma \in A OBVIOUS
  <2> HIDE DEF A
  <2>3. <<>> \in Seq(A) /\ \A x, y, z \in A : <<x>> \in Seq(A)
          /\ <<x, y>> \in Seq(A) /\ <<x, y, z>> \in Seq(A)
    OBVIOUS
  <2> QED BY <2>1, <2>2, <2>3
<1>2. Detections = [text : BoundedSeq(X, 2), labels : BoundedSeq(Labels, 2)]
  BY Zenon DEF Detections, Bar, Comma
<1>3. X \subseteq A BY Zenon
<1>4. Comma \in A /\ Bar \in A OBVIOUS
<1> HIDE DEF A, X
<1>5. BoundedSeq(X, 2) \subseteq Seq(A) BY <1>3, BoundedIsSeq, SeqMonotone
<1>6. BoundedSeq(Labels, 2) \subseteq Seq(Seq(A))
  <2> DEFINE U == Seq(A)
  <2>1. Labels \subseteq U BY <1>1
  <2> HIDE DEF U
  <2>2. BoundedSeq(Labels, 2) \subseteq Seq(U) BY <2>1, BoundedIsSeq, SeqMonotone
  <2> QED BY <2>2 DEF U
<1>7. \A x \in Detections : x.text \in Seq(A) /\ x.labels \in Seq(Seq(A))
  BY <1>2, <1>5, <1>6
<1>8. InputInv => KeyTellsRequests
  <2> SUFFICES ASSUME InputInv, About("key")
               PROVE  Names!KeyFor(given.text, given.labels, picked.text, picked.labels)
    BY DEF KeyTellsRequests
  <2>1. given \in Detections /\ picked \in Detections BY DEF InputInv, About
  <2>2. /\ given.text \in Seq(A) /\ given.labels \in Seq(Seq(A))
        /\ picked.text \in Seq(A) /\ picked.labels \in Seq(Seq(A))
    BY <1>7, <2>1
  <2> QED BY <1>4, <2>2, KeyTheorem
<1> QED BY <1>8, InputsTyped, PTL

-----------------------------------------------------------------------------
(* The bytes of field elements.                                            *)

Byte == 0..(Base - 1)

(* A number is its lowest digit and Base times the rest, and these two are *)
(* its remainder and quotient.                                             *)
LEMMA DigitOf ==
  ASSUME NEW x \in Nat
  PROVE  /\ x \div Base \in Nat /\ x % Base \in Byte
         /\ x = (x % Base) + Base * (x \div Base)
BY SizeAssumption DEF Byte

LEMMA DigitIs ==
  ASSUME NEW c \in Byte, NEW v \in Nat
  PROVE  /\ (c + Base * v) % Base = c /\ (c + Base * v) \div Base = v
         /\ c + Base * v \in Nat
<1>1. (c + Base * v) % Base = c BY SizeAssumption DEF Byte
<1>2. (c + Base * v) \div Base = v BY SizeAssumption DEF Byte
<1>3. c + Base * v \in Nat BY SizeAssumption DEF Byte
<1> QED BY <1>1, <1>2, <1>3

(* A bound on a number bounds its quotient.                                *)
LEMMA QuotientBound ==
  ASSUME NEW x \in Nat, NEW n \in Nat, x < Base * n
  PROVE  x \div Base < n
BY SizeAssumption

(* The three recursions are what their definitions say.                    *)
LEMMA NumbersIs ==
  /\ Numbers[0] = 1
  /\ \A i \in 1..Size : Numbers[i] = Base * Numbers[i - 1]
  /\ \A i \in 0..Size : Numbers[i] \in Nat
<1> DEFINE turn == [i \in Nat |-> [x \in Nat |-> Base * x]]
<1>1. turn \in [Nat -> [Nat -> Nat]]
  <2>1. [x \in Nat |-> Base * x] \in [Nat -> Nat] BY SizeAssumption
  <2> QED BY <2>1, Zenon
<1>2. \A i, x \in Nat : turn[i][x] = Base * x BY Zenon
<1> HIDE DEF turn
<1>3. PICK p : Turns(p, Nat, 1, turn, Size) BY <1>1, Loop, SizeAssumption
<1>4. p \in [0..Size -> Nat] /\ p[0] = 1 BY <1>3 DEF Turns
<1>5. ASSUME NEW i \in 1..Size PROVE p[i] = Base * p[i - 1]
  <2>1. i \in Nat /\ p[i - 1] \in Nat BY <1>4, SizeAssumption
  <2>2. p[i] = turn[i][p[i - 1]] BY <1>3 DEF Turns
  <2> QED BY <1>2, <2>1, <2>2
<1>6. p = [i \in 0..Size |-> IF i = 0 THEN 1 ELSE Base * p[i - 1]]
  BY <1>4, <1>5, SizeAssumption
<1>7. Numbers = [i \in 0..Size |-> IF i = 0 THEN 1 ELSE Base * Numbers[i - 1]]
  BY <1>6 DEF Numbers
<1>8. Numbers[0] = 1 /\ \A i \in 1..Size : Numbers[i] = Base * Numbers[i - 1]
  BY <1>7, SizeAssumption
<1> DEFINE S == {i \in 0..Size : Numbers[i] \in Nat}
<1>9. \A i \in 0..Size : i \in S
  <2>1. 0 \in S BY <1>8, SizeAssumption
  <2>2. ASSUME NEW i \in 0..(Size - 1), i \in S PROVE i + 1 \in S
    <3>1. i + 1 \in 1..Size /\ i + 1 \in 0..Size /\ (i + 1) - 1 = i
      BY SizeAssumption
    <3> QED BY <1>8, <2>2, <3>1, SizeAssumption
  <2> HIDE DEF S
  <2> QED BY <2>1, <2>2, InductionTo, SizeAssumption
<1> QED BY <1>8, <1>9

LEMMA RestIs ==
  ASSUME NEW x \in Nat
  PROVE  /\ Rest(x)[0] = x
         /\ \A i \in 1..Size : Rest(x)[i] = Rest(x)[i - 1] \div Base
         /\ \A i \in 0..Size : Rest(x)[i] \in Nat
<1> DEFINE turn == [i \in Nat |-> [y \in Nat |-> y \div Base]]
<1>1. turn \in [Nat -> [Nat -> Nat]]
  <2>1. [y \in Nat |-> y \div Base] \in [Nat -> Nat] BY DigitOf
  <2> QED BY <2>1, Zenon
<1>2. \A i, y \in Nat : turn[i][y] = y \div Base BY Zenon
<1> HIDE DEF turn
<1>3. PICK p : Turns(p, Nat, x, turn, Size) BY <1>1, Loop, SizeAssumption
<1>4. p \in [0..Size -> Nat] /\ p[0] = x BY <1>3 DEF Turns
<1>5. ASSUME NEW i \in 1..Size PROVE p[i] = p[i - 1] \div Base
  <2>1. i \in Nat /\ p[i - 1] \in Nat BY <1>4, SizeAssumption
  <2>2. p[i] = turn[i][p[i - 1]] BY <1>3 DEF Turns
  <2> QED BY <1>2, <2>1, <2>2
<1>6. p = [i \in 0..Size |-> IF i = 0 THEN x ELSE p[i - 1] \div Base]
  BY <1>4, <1>5, SizeAssumption
<1> DEFINE rest == Rest(x)
<1>7. rest = [i \in 0..Size |-> IF i = 0 THEN x ELSE rest[i - 1] \div Base]
  BY <1>6 DEF Rest
<1> HIDE DEF rest
<1>8. rest[0] = x /\ \A i \in 1..Size : rest[i] = rest[i - 1] \div Base
  BY <1>7, SizeAssumption
<1> DEFINE S == {i \in 0..Size : rest[i] \in Nat}
<1>9. \A i \in 0..Size : i \in S
  <2>1. 0 \in S BY <1>8, SizeAssumption
  <2>2. ASSUME NEW i \in 0..(Size - 1), i \in S PROVE i + 1 \in S
    <3>1. i + 1 \in 1..Size /\ i + 1 \in 0..Size /\ (i + 1) - 1 = i
      BY SizeAssumption
    <3>2. rest[i] \in Nat /\ rest[i + 1] = rest[i] \div Base BY <1>8, <2>2, <3>1
    <3> QED BY <3>1, <3>2, DigitOf
  <2> HIDE DEF S
  <2> QED BY <2>1, <2>2, InductionTo, SizeAssumption
<1> QED BY <1>8, <1>9 DEF rest

LEMMA TopIs ==
  ASSUME NEW bytes, \A i \in 1..Size : bytes[i] \in Byte
  PROVE  /\ Top(bytes)[0] = 0
         /\ \A i \in 1..Size :
              Top(bytes)[i] = bytes[Size - i + 1] + Base * Top(bytes)[i - 1]
         /\ \A i \in 0..Size : Top(bytes)[i] \in Nat
<1> DEFINE b(i) == IF i \in 1..Size THEN bytes[Size - i + 1] ELSE 0
           turn == [i \in Nat |-> [y \in Nat |-> b(i) + Base * y]]
<1>1. \A i \in 1..Size : Size - i + 1 \in 1..Size BY SizeAssumption
<1>2. \A i : b(i) \in Byte
  <2>1. 0 \in Byte BY SizeAssumption DEF Byte
  <2> QED BY <1>1, <2>1
<1>3. \A i \in 1..Size : b(i) = bytes[Size - i + 1] OBVIOUS
<1> HIDE DEF b
<1>4. turn \in [Nat -> [Nat -> Nat]]
  <2>1. \A i, y \in Nat : b(i) + Base * y \in Nat BY <1>2, DigitIs
  <2> QED BY <2>1
<1>5. \A i, y \in Nat : turn[i][y] = b(i) + Base * y BY Zenon
<1> HIDE DEF turn
<1>6. PICK p : Turns(p, Nat, 0, turn, Size) BY <1>4, Loop, SizeAssumption
<1>7. p \in [0..Size -> Nat] /\ p[0] = 0 BY <1>6 DEF Turns
<1>8. ASSUME NEW i \in 1..Size PROVE p[i] = bytes[Size - i + 1] + Base * p[i - 1]
  <2>1. i \in Nat /\ p[i - 1] \in Nat BY <1>7, SizeAssumption
  <2>2. p[i] = turn[i][p[i - 1]] BY <1>6 DEF Turns
  <2> QED BY <1>3, <1>5, <2>1, <2>2
<1>9. p = [i \in 0..Size |-> IF i = 0 THEN 0
                             ELSE bytes[Size - i + 1] + Base * p[i - 1]]
  BY <1>7, <1>8, SizeAssumption
<1> DEFINE top == Top(bytes)
<1>10. top = [i \in 0..Size |-> IF i = 0 THEN 0
                                ELSE bytes[Size - i + 1] + Base * top[i - 1]]
  BY <1>9 DEF Top
<1> HIDE DEF top
<1>11. top[0] = 0 /\ \A i \in 1..Size : top[i] = bytes[Size - i + 1] + Base * top[i - 1]
  BY <1>10, SizeAssumption
<1> DEFINE S == {i \in 0..Size : top[i] \in Nat}
<1>12. \A i \in 0..Size : i \in S
  <2>1. 0 \in S BY <1>11, SizeAssumption
  <2>2. ASSUME NEW i \in 0..(Size - 1), i \in S PROVE i + 1 \in S
    <3>1. i + 1 \in 1..Size /\ i + 1 \in 0..Size /\ (i + 1) - 1 = i
      BY SizeAssumption
    <3>2. top[i] \in Nat /\ top[i + 1] = bytes[Size - (i + 1) + 1] + Base * top[i]
      BY <1>11, <2>2, <3>1
    <3>3. bytes[Size - (i + 1) + 1] \in Byte BY <1>1, <3>1
    <3>4. top[i + 1] \in Nat BY <3>2, <3>3, DigitIs
    <3> QED BY <3>1, <3>4
  <2> HIDE DEF S
  <2> QED BY <2>1, <2>2, InductionTo, SizeAssumption
<1> QED BY <1>11, <1>12 DEF top

(* Nothing is left of a number that fits after its last byte.              *)
LEMMA NothingLeft ==
  ASSUME NEW x \in Nat, x < Numbers[Size]
  PROVE  Rest(x)[Size] = 0
<1> DEFINE rest == Rest(x)
           S == {i \in 0..Size : rest[i] < Numbers[Size - i]}
<1>1. /\ rest[0] = x
      /\ \A i \in 1..Size : rest[i] = rest[i - 1] \div Base
      /\ \A i \in 0..Size : rest[i] \in Nat
  BY RestIs
<1>2. /\ Numbers[0] = 1
      /\ \A i \in 1..Size : Numbers[i] = Base * Numbers[i - 1]
      /\ \A i \in 0..Size : Numbers[i] \in Nat
  BY NumbersIs
<1>3. Size \in Nat BY SizeAssumption
<1> HIDE DEF rest
<1>4. 0 \in S BY <1>1, <1>3
<1>5. ASSUME NEW i \in 0..(Size - 1), i \in S PROVE i + 1 \in S
  <2>1. /\ i + 1 \in 1..Size /\ i + 1 \in 0..Size /\ (i + 1) - 1 = i /\ i \in 0..Size
        /\ Size - i \in 1..Size /\ Size - (i + 1) \in 0..Size
        /\ (Size - i) - 1 = Size - (i + 1)
    BY <1>3
  <2>2. rest[i] \in Nat /\ rest[i + 1] = rest[i] \div Base BY <1>1, <2>1
  <2>3. Numbers[Size - (i + 1)] \in Nat /\ Numbers[Size - i] = Base * Numbers[Size - (i + 1)]
    BY <1>2, <2>1
  <2>4. rest[i] < Base * Numbers[Size - (i + 1)] BY <1>5, <2>3
  <2>5. rest[i] \div Base < Numbers[Size - (i + 1)] BY <2>2, <2>3, <2>4, QuotientBound
  <2> QED BY <2>1, <2>2, <2>5
<1>6. Size \in S
  <2> HIDE DEF S
  <2>1. \A i \in 0..Size : i \in S BY <1>3, <1>4, <1>5, InductionTo
  <2> QED BY <1>3, <2>1
<1>7. rest[Size] \in Nat /\ rest[Size] < Numbers[Size - Size] /\ Size - Size = 0
  BY <1>1, <1>3, <1>6
<1> QED BY <1>2, <1>7 DEF rest

(* What is written is read back.                                           *)
LEMMA WrittenIsRead ==
  ASSUME NEW x \in Nat, x < Numbers[Size]
  PROVE  /\ ToBytes(x) \in [1..Size -> Byte]
         /\ Number(ToBytes(x)) = x
<1> DEFINE bytes == ToBytes(x)
           rest == Rest(x)
           top == Top(bytes)
           S == {i \in 0..Size : top[i] = rest[Size - i]}
<1>1. /\ rest[0] = x
      /\ \A i \in 1..Size : rest[i] = rest[i - 1] \div Base
      /\ \A i \in 0..Size : rest[i] \in Nat
  BY RestIs
<1>2. bytes = [i \in 1..Size |-> rest[i - 1] % Base] BY DEF ToBytes
<1>3. Size \in Nat BY SizeAssumption
<1>4. rest[Size] = 0 BY NothingLeft
<1> HIDE DEF rest, bytes
<1>5. \A i \in 1..Size : rest[i - 1] \in Nat /\ rest[i - 1] % Base \in Byte
  <2> SUFFICES ASSUME NEW i \in 1..Size
               PROVE  rest[i - 1] \in Nat /\ rest[i - 1] % Base \in Byte
    OBVIOUS
  <2>1. i - 1 \in 0..Size BY <1>3
  <2>2. rest[i - 1] \in Nat BY <1>1, <2>1
  <2> QED BY <2>2, DigitOf
<1>6. bytes \in [1..Size -> Byte] BY <1>2, <1>5
<1>7. /\ top[0] = 0
      /\ \A i \in 1..Size : top[i] = bytes[Size - i + 1] + Base * top[i - 1]
  <2>1. \A i \in 1..Size : bytes[i] \in Byte BY <1>6
  <2> QED BY <2>1, TopIs
<1> HIDE DEF top
<1>8. 0 \in S BY <1>3, <1>4, <1>7
<1>9. ASSUME NEW i \in 0..(Size - 1), i \in S PROVE i + 1 \in S
  <2> DEFINE j == Size - i
  <2>1. /\ i + 1 \in 1..Size /\ i + 1 \in 0..Size /\ (i + 1) - 1 = i
        /\ j \in 1..Size /\ Size - (i + 1) = j - 1 /\ Size - (i + 1) + 1 = j
    BY <1>3
  <2>2. top[i + 1] = bytes[j] + Base * top[i] BY <1>7, <2>1
  <2>3. top[i] = rest[j] BY <1>9
  <2> HIDE DEF j
  <2>4. bytes[j] = rest[j - 1] % Base /\ rest[j] = rest[j - 1] \div Base
        /\ rest[j - 1] \in Nat
    BY <1>1, <1>2, <1>5, <2>1
  <2>5. rest[j - 1] = (rest[j - 1] % Base) + Base * (rest[j - 1] \div Base)
    BY <2>4, DigitOf
  <2>6. top[i + 1] = rest[j - 1] BY <2>2, <2>3, <2>4, <2>5
  <2> QED BY <2>1, <2>6
<1>10. Size \in S
  <2> HIDE DEF S
  <2>1. \A i \in 0..Size : i \in S BY <1>3, <1>8, <1>9, InductionTo
  <2> QED BY <1>3, <2>1
<1>11. top[Size] = x
  <2>1. Size - Size = 0 BY <1>3
  <2> QED BY <1>1, <1>10, <2>1
<1> QED BY <1>6, <1>11 DEF top, bytes, Number

(* What is read is written back, every byte of it.                         *)
LEMMA ReadIsWritten ==
  ASSUME NEW bytes \in [1..Size -> Byte]
  PROVE  Number(bytes) \in Nat /\ ToBytes(Number(bytes)) = bytes
<1> DEFINE top == Top(bytes)
           x == Number(bytes)
           rest == Rest(x)
           S == {i \in 0..Size : rest[i] = top[Size - i]}
<1>1. Size \in Nat /\ \A i \in 1..Size : bytes[i] \in Byte BY SizeAssumption
<1>2. /\ top[0] = 0
      /\ \A i \in 1..Size : top[i] = bytes[Size - i + 1] + Base * top[i - 1]
      /\ \A i \in 0..Size : top[i] \in Nat
  BY <1>1, TopIs
<1>3. x = top[Size] /\ x \in Nat
  <2>1. x = top[Size] BY DEF Number
  <2> HIDE DEF top, x
  <2>2. Size \in 0..Size BY <1>1
  <2> QED BY <1>2, <2>1, <2>2
<1> HIDE DEF top, x
<1>4. /\ rest[0] = x
      /\ \A i \in 1..Size : rest[i] = rest[i - 1] \div Base
  BY <1>3, RestIs
<1>5. ToBytes(x) = [i \in 1..Size |-> rest[i - 1] % Base] BY DEF ToBytes
<1> HIDE DEF rest
<1>6. \A j \in 1..Size : top[j] % Base = bytes[Size - j + 1] /\ top[j] \div Base = top[j - 1]
  <2> SUFFICES ASSUME NEW j \in 1..Size
               PROVE  top[j] % Base = bytes[Size - j + 1] /\ top[j] \div Base = top[j - 1]
    OBVIOUS
  <2>1. Size - j + 1 \in 1..Size /\ j - 1 \in 0..Size BY <1>1
  <2>2. bytes[Size - j + 1] \in Byte /\ top[j - 1] \in Nat BY <1>1, <1>2, <2>1
  <2>3. top[j] = bytes[Size - j + 1] + Base * top[j - 1] BY <1>2
  <2> QED BY <2>2, <2>3, DigitIs
<1>7. 0 \in S
  <2>1. Size - 0 = Size /\ 0 \in 0..Size BY <1>1
  <2> QED BY <1>3, <1>4, <2>1
<1>8. ASSUME NEW i \in 0..(Size - 1), i \in S PROVE i + 1 \in S
  <2>1. /\ i + 1 \in 1..Size /\ i + 1 \in 0..Size /\ (i + 1) - 1 = i
        /\ Size - i \in 1..Size /\ (Size - i) - 1 = Size - (i + 1)
    BY <1>1
  <2>2. rest[i + 1] = top[Size - i] \div Base BY <1>4, <1>8, <2>1
  <2>3. top[Size - i] \div Base = top[Size - (i + 1)] BY <1>6, <2>1
  <2> QED BY <2>1, <2>2, <2>3
<1>9. \A i \in 0..Size : i \in S
  <2> HIDE DEF S
  <2> QED BY <1>1, <1>7, <1>8, InductionTo
<1>10. \A i \in 1..Size : rest[i - 1] % Base = bytes[i]
  <2> SUFFICES ASSUME NEW i \in 1..Size PROVE rest[i - 1] % Base = bytes[i] OBVIOUS
  <2> DEFINE j == Size - (i - 1)
  <2>1. i - 1 \in 0..Size /\ j \in 1..Size /\ Size - j + 1 = i BY <1>1
  <2>2. rest[i - 1] = top[j] BY <1>9, <2>1
  <2>3. top[j] % Base = bytes[Size - j + 1] BY <1>6, <2>1
  <2> QED BY <2>1, <2>2, <2>3
<1>11. ToBytes(x) = bytes BY <1>5, <1>10
<1> QED BY <1>3, <1>11 DEF x

(* Two words of a buffer.                                                  *)
LEMMA WordsOf ==
  ASSUME NEW bytes \in Seq(Byte), Len(bytes) = 2 * Size
  PROVE  /\ SubSeq(bytes, 1, Size) \in [1..Size -> Byte]
         /\ SubSeq(bytes, Size + 1, 2 * Size) \in [1..Size -> Byte]
         /\ bytes = SubSeq(bytes, 1, Size) \o SubSeq(bytes, Size + 1, 2 * Size)
<1>1. Size \in Nat /\ \A i \in 1..(2 * Size) : bytes[i] \in Byte BY SizeAssumption
<1> DEFINE u == SubSeq(bytes, 1, Size)
           v == SubSeq(bytes, Size + 1, 2 * Size)
<1>2. u = [i \in 1..Size |-> bytes[i]]
  <2>1. u = [i \in 1..(Size - 1 + 1) |-> bytes[1 + i - 1]] BY <1>1
  <2> QED BY <1>1, <2>1
<1>3. v = [i \in 1..Size |-> bytes[Size + i]]
  <2>1. v = [i \in 1..(2 * Size - (Size + 1) + 1) |-> bytes[(Size + 1) + i - 1]]
    BY <1>1
  <2> QED BY <1>1, <2>1
<1> HIDE DEF u, v
<1>4. \A i \in 1..Size : i \in 1..(2 * Size) /\ Size + i \in 1..(2 * Size) BY <1>1
<1>5. u \in [1..Size -> Byte] /\ v \in [1..Size -> Byte] BY <1>1, <1>2, <1>3, <1>4
<1>6. u \in Seq(Byte) /\ v \in Seq(Byte) /\ Len(u) = Size /\ Len(v) = Size
  BY <1>1, <1>5
<1>7. u \o v = bytes
  <2> DEFINE w == u \o v
  <2>1. /\ w \in Seq(Byte) /\ Len(w) = Len(u) + Len(v)
        /\ \A i \in 1..Len(u) : w[i] = u[i]
        /\ \A i \in 1..Len(v) : w[Len(u) + i] = v[i]
    <3>1. u \in Seq(Byte) /\ v \in Seq(Byte) BY <1>6
    <3> QED BY <3>1, ConcatIs
  <2> HIDE DEF w
  <2>2. Len(w) = Len(bytes) BY <1>1, <1>6, <2>1
  <2>3. \A i \in 1..Len(w) : w[i] = bytes[i]
    <3> SUFFICES ASSUME NEW i \in 1..(2 * Size) PROVE w[i] = bytes[i] BY <2>2
    <3>1. CASE i \in 1..Size BY <1>2, <1>6, <2>1, <3>1
    <3>2. CASE i \notin 1..Size
      <4>1. i - Size \in 1..Size /\ Size + (i - Size) = i BY <1>1, <3>2
      <4>2. w[Size + (i - Size)] = v[i - Size] BY <1>6, <2>1, <4>1
      <4>3. v[i - Size] = bytes[Size + (i - Size)] BY <1>3, <4>1
      <4> QED BY <4>1, <4>2, <4>3
    <3> QED BY <3>1, <3>2
  <2>4. w = bytes BY <2>1, <2>2, <2>3, SeqEqual
  <2> QED BY <2>4 DEF w
<1> QED BY <1>5, <1>7 DEF u, v

(* A buffer of two words has these words.                                  *)
LEMMA WordsOfBoth ==
  ASSUME NEW u \in [1..Size -> Byte], NEW v \in [1..Size -> Byte]
  PROVE  /\ u \o v \in Seq(Byte) /\ Len(u \o v) = 2 * Size
         /\ SubSeq(u \o v, 1, Size) = u
         /\ SubSeq(u \o v, Size + 1, 2 * Size) = v
<1> DEFINE w == u \o v
<1>1. Size \in Nat BY SizeAssumption
<1>2. u \in Seq(Byte) /\ v \in Seq(Byte) BY <1>1
<1>3. Len(u) = Size /\ Len(v) = Size BY <1>1
<1>4. /\ w \in Seq(Byte) /\ Len(w) = Len(u) + Len(v)
      /\ \A i \in 1..Len(u) : w[i] = u[i]
      /\ \A i \in 1..Len(v) : w[Len(u) + i] = v[i]
  BY <1>2, ConcatIs
<1> HIDE DEF w
<1>5. Len(w) = 2 * Size BY <1>1, <1>3, <1>4
<1>6. SubSeq(w, 1, Size) = u
  <2>1. SubSeq(w, 1, Size) = [i \in 1..(Size - 1 + 1) |-> w[1 + i - 1]] BY <1>1, <1>4, <1>5
  <2>2. SubSeq(w, 1, Size) = [i \in 1..Size |-> w[i]] BY <1>1, <2>1
  <2>3. \A i \in 1..Size : w[i] = u[i] BY <1>3, <1>4
  <2> QED BY <2>2, <2>3
<1>7. SubSeq(w, Size + 1, 2 * Size) = v
  <2>1. SubSeq(w, Size + 1, 2 * Size) =
          [i \in 1..(2 * Size - (Size + 1) + 1) |-> w[(Size + 1) + i - 1]]
    BY <1>1, <1>4, <1>5
  <2>2. SubSeq(w, Size + 1, 2 * Size) = [i \in 1..Size |-> w[Size + i]] BY <1>1, <2>1
  <2>3. \A i \in 1..Size : w[Size + i] = v[i] BY <1>3, <1>4
  <2> QED BY <2>2, <2>3
<1> QED BY <1>4, <1>5, <1>6, <1>7 DEF w

Buffer(x, y) == ToBytes(x) \o ToBytes(y)

(* A buffer reads as two numbers of the field exactly when it is the one   *)
(* written for them: for every base, size and modulus that fits, and       *)
(* buffers of any length.                                                  *)
LEMMA OneBuffer ==
  ASSUME NEW x \in Field, NEW y \in Field, NEW bytes \in Seq(Byte)
  PROVE  WellFormed(bytes) /\ LowWord(bytes) % P = x /\ HighWord(bytes) % P = y
           <=> bytes = Buffer(x, y)
<1>1. /\ x \in Nat /\ y \in Nat /\ x < P /\ y < P /\ P \in Nat
      /\ x < Numbers[Size] /\ y < Numbers[Size]
  <2>1. Numbers[Size] \in Nat BY NumbersIs, SizeAssumption
  <2> QED BY <2>1, FieldSize, SizeAssumption DEF Field
<1>2. ASSUME WellFormed(bytes), LowWord(bytes) % P = x, HighWord(bytes) % P = y
      PROVE  bytes = Buffer(x, y)
  <2> DEFINE u == SubSeq(bytes, 1, Size)
             v == SubSeq(bytes, Size + 1, 2 * Size)
  <2>1. /\ Len(bytes) = 2 * Size /\ Number(u) < P /\ Number(v) < P
        /\ Number(u) % P = x /\ Number(v) % P = y
    BY <1>2 DEF WellFormed, LowWord, HighWord
  <2>2. u \in [1..Size -> Byte] /\ v \in [1..Size -> Byte] /\ bytes = u \o v
    BY <2>1, WordsOf
  <2> HIDE DEF u, v
  <2>3. /\ Number(u) \in Nat /\ ToBytes(Number(u)) = u
        /\ Number(v) \in Nat /\ ToBytes(Number(v)) = v
    BY <2>2, ReadIsWritten
  <2>4. Number(u) = x /\ Number(v) = y BY <2>1, <2>3, SmallRemainder
  <2> QED BY <2>2, <2>3, <2>4 DEF Buffer
<1>3. ASSUME bytes = Buffer(x, y)
      PROVE  WellFormed(bytes) /\ LowWord(bytes) % P = x /\ HighWord(bytes) % P = y
  <2> DEFINE u == ToBytes(x)  v == ToBytes(y)
  <2>1. /\ u \in [1..Size -> Byte] /\ Number(u) = x
        /\ v \in [1..Size -> Byte] /\ Number(v) = y
    BY <1>1, WrittenIsRead
  <2>2. bytes = u \o v BY <1>3 DEF Buffer
  <2> HIDE DEF u, v
  <2>3. /\ Len(bytes) = 2 * Size
        /\ SubSeq(bytes, 1, Size) = u /\ SubSeq(bytes, Size + 1, 2 * Size) = v
    BY <2>1, <2>2, WordsOfBoth
  <2>4. LowWord(bytes) = x /\ HighWord(bytes) = y BY <2>1, <2>3 DEF LowWord, HighWord
  <2> QED BY <1>1, <2>3, <2>4, SmallRemainder DEF WellFormed
<1> QED BY <1>2, <1>3

(* Public inputs and witness have one encoding each (from_bytes,           *)
(* deserialize_witness).                                                   *)
THEOREM CanonicalTheorem ==
  ASSUME NEW private \in Private, NEW public \in Public, NEW bytes \in Seq(Byte)
  PROVE  CanonicalFor(private, public, bytes)
<1>1. /\ public.threshold \in Field /\ public.root \in Field
      /\ public = [threshold |-> public.threshold, root |-> public.root]
      /\ private.amount \in Field /\ private.sender \in Field
      /\ private = [amount |-> private.amount, sender |-> private.sender]
  BY DEF Public, Private
<1>2. ReadPublic(bytes) = public <=>
        LowWord(bytes) % P = public.threshold /\ HighWord(bytes) % P = public.root
  BY <1>1 DEF ReadPublic
<1>3. ReadWitness(bytes) = private <=>
        LowWord(bytes) % P = private.amount /\ HighWord(bytes) % P = private.sender
  BY <1>1 DEF ReadWitness
<1>4. WellFormed(bytes) /\ ReadPublic(bytes) = public <=> bytes = WritePublic(public)
  <2>1. WritePublic(public) = Buffer(public.threshold, public.root)
    BY DEF WritePublic, Buffer
  <2> QED BY <1>1, <1>2, <2>1, OneBuffer
<1>5. WellFormed(bytes) /\ ReadWitness(bytes) = private <=> bytes = WriteWitness(private)
  <2>1. WriteWitness(private) = Buffer(private.amount, private.sender)
    BY DEF WriteWitness, Buffer
  <2> QED BY <1>1, <1>3, <2>1, OneBuffer
<1> QED BY <1>4, <1>5 DEF CanonicalFor

(* The same of the buffers TLC looks at (from_bytes, deserialize_witness). *)
THEOREM OneEncodingTheorem == Spec => []OneEncoding
<1>1. InputInv => OneEncoding
  <2> SUFFICES ASSUME InputInv, About("bytes")
               PROVE  CanonicalFor([amount |-> given.threshold, sender |-> given.root],
                                   given, picked)
    BY DEF OneEncoding
  <2>1. given \in Public /\ picked \in Seq(Byte) BY DEF InputInv, About, Byte
  <2>2. [amount |-> given.threshold, sender |-> given.root] \in Private
    BY <2>1 DEF Public, Private
  <2> QED BY <2>1, <2>2, CanonicalTheorem
<1> QED BY <1>1, InputsTyped, PTL
=============================================================================
