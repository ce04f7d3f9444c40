---------------------------- MODULE CodecProofs ----------------------------
(***************************************************************************)
(* Theorems about module Codec, for every set of scripts: sequences of any *)
(* packets and of any bytes, of any length, arriving in segments cut       *)
(* anywhere.  What a parser returns is decided by recursive functions, so  *)
(* the lemmas first show that these functions exist with the values their  *)
(* definitions give; then what each parser reads of a streambuf that       *)
(* begins with what a client serialized; and last the channel.             *)
(***************************************************************************)
EXTENDS Codec, SequenceLemmas

-----------------------------------------------------------------------------
(* Recursive functions                                                     *)

\* How far g is what step makes of it: for all arguments of a rank below n.
Computed(D, S, rank, step, n) ==
  {g \in [D -> S] : \A d \in D : rank[d] < n => g[d] = step[g][d]}

\* What step makes of an argument depends on arguments of a lower rank only.
Ranked(D, S, rank, step) ==
  /\ rank \in [D -> Nat] /\ S # {} /\ step \in [[D -> S] -> [D -> S]]
  /\ \A g, h \in [D -> S] : \A d \in D :
       (\A e \in D : rank[e] < rank[d] => g[e] = h[e]) => step[g][d] = step[h][d]

LEMMA ComputedUnique ==
  ASSUME NEW D, NEW S, NEW rank, NEW step, Ranked(D, S, rank, step), NEW n \in Nat,
         NEW g \in Computed(D, S, rank, step, n), NEW h \in Computed(D, S, rank, step, n),
         NEW d \in D, rank[d] < n
  PROVE  g[d] = h[d]
<1> DEFINE T == {rank[e] : e \in {e \in D : rank[e] < n /\ g[e] # h[e]}}
<1>1. T \in SUBSET Nat
  BY DEF Ranked
<1>2. SUFFICES ASSUME T # {}
               PROVE  FALSE
  OBVIOUS
<1>3. PICK i \in T : \A k \in T : i <= k
  BY <1>1, <1>2, LeastNat
<1>4. PICK e \in D : rank[e] = i /\ rank[e] < n /\ g[e] # h[e]
  BY <1>3
<1>5. \A c \in D : rank[c] < rank[e] => g[c] = h[c]
  <2> SUFFICES ASSUME NEW c \in D, rank[c] < rank[e], g[c] # h[c]
               PROVE  FALSE
    OBVIOUS
  <2>1. rank[c] \in Nat /\ rank[e] \in Nat
    BY DEF Ranked
  <2>2. rank[c] \in T
    BY <1>4, <2>1
  <2> QED
    BY <1>3, <1>4, <2>1, <2>2
<1>6. g \in [D -> S] /\ h \in [D -> S] /\ g[e] = step[g][e] /\ h[e] = step[h][e]
  BY <1>4 DEF Computed
<1>7. step[g][e] = step[h][e]
  BY <1>5, <1>6 DEF Ranked
<1> QED
  BY <1>4, <1>6, <1>7

LEMMA ComputedExists ==
  ASSUME NEW D, NEW S, NEW rank, NEW step, Ranked(D, S, rank, step), NEW n \in Nat
  PROVE  Computed(D, S, rank, step, n) # {}
<1> DEFINE T == {k \in Nat : Computed(D, S, rank, step, k) = {}}
<1>1. SUFFICES ASSUME T # {}
               PROVE  FALSE
  OBVIOUS
<1>2. PICK i \in T : \A k \in T : i <= k
  BY <1>1, LeastNat
<1>3. rank \in [D -> Nat] /\ S # {} /\ step \in [[D -> S] -> [D -> S]]
  BY DEF Ranked
<1>4. i # 0
  <2>1. PICK s \in S : TRUE
    BY <1>3
  <2>2. PICK g : g = [d \in D |-> s]
    OBVIOUS
  <2>3. g \in Computed(D, S, rank, step, 0)
    BY <1>3, <2>2 DEF Computed
  <2> QED
    BY <1>2, <2>3
<1>5. i - 1 \in Nat /\ i - 1 < i
  BY <1>2, <1>4
<1>6. PICK g : g \in Computed(D, S, rank, step, i - 1)
  BY <1>2, <1>5
<1>7. g \in [D -> S] /\ \A d \in D : rank[d] < i - 1 => g[d] = step[g][d]
  BY <1>6 DEF Computed
<1>8. PICK h : h = step[g]
  OBVIOUS
<1>9. h \in [D -> S]
  BY <1>3, <1>7, <1>8
<1>10. ASSUME NEW d \in D, rank[d] < i
       PROVE  h[d] = step[h][d]
  <2>1. ASSUME NEW e \in D, rank[e] < rank[d]
        PROVE  g[e] = h[e]
    <3>1. rank[e] < i - 1
      BY <1>2, <1>3, <1>10, <2>1
    <3> QED
      BY <1>7, <1>8, <3>1
  <2>2. step[g][d] = step[h][d]
    BY <1>7, <1>9, <2>1 DEF Ranked
  <2> QED
    BY <1>8, <2>2
<1>11. h \in Computed(D, S, rank, step, i)
  BY <1>9, <1>10 DEF Computed
<1> QED
  BY <1>2, <1>11

\* A function that is defined in terms of itself, at arguments of lower rank, exists.
LEMMA RecursiveFunction ==
  ASSUME NEW D, NEW S, NEW rank, NEW step, Ranked(D, S, rank, step)
  PROVE  \E f \in [D -> S] : f = step[f]
<1> DEFINE C(n) == Computed(D, S, rank, step, n)
           part == [n \in Nat |-> CHOOSE g : g \in C(n)]
           f == [d \in D |-> part[rank[d] + 1][d]]
<1>1. rank \in [D -> Nat] /\ step \in [[D -> S] -> [D -> S]]
  BY DEF Ranked
<1>2. \A n \in Nat : part[n] \in C(n)
  BY ComputedExists
<1>3. \A n \in Nat : part[n] \in [D -> S] /\ \A d \in D : rank[d] < n => part[n][d] = step[part[n]][d]
  BY <1>2 DEF Computed
<1> HIDE DEF part
<1>4. f \in [D -> S]
  BY <1>1, <1>3
<1>5. ASSUME NEW d \in D
      PROVE  f[d] = step[f][d]
  <2>1. PICK n \in Nat : n = rank[d] + 1
    BY <1>1
  <2>2. f[d] = part[n][d] /\ rank[d] < n
    BY <1>1, <2>1
  <2>3. ASSUME NEW e \in D, rank[e] < rank[d]
        PROVE  f[e] = part[n][e]
    <3>1. PICK m \in Nat : m = rank[e] + 1
      BY <1>1
    <3>2. f[e] = part[m][e] /\ rank[e] < m /\ m <= n /\ rank[e] \in Nat
      BY <1>1, <2>1, <2>3, <3>1
    <3>3. part[m] \in C(m) /\ part[n] \in C(m)
      <4>1. part[n] \in [D -> S] /\ \A c \in D : rank[c] < n => part[n][c] = step[part[n]][c]
        BY <1>3
      <4>2. \A c \in D : rank[c] < m => rank[c] < n
        BY <1>1, <3>2
      <4> QED
        BY <1>2, <4>1, <4>2 DEF Computed
    <3> QED
      BY <3>2, <3>3, ComputedUnique
  <2>4. step[f][d] = step[part[n]][d]
    BY <1>3, <1>4, <2>3 DEF Ranked
  <2> QED
    BY <1>3, <2>2, <2>4
<1>6. step[f] \in [D -> S]
  BY <1>1, <1>4
<1> HIDE DEF f
<1>7. f = step[f]
  BY <1>4, <1>5, <1>6
<1> QED
  BY <1>4, <1>7

\* The sequences of FlattenSeq.
LEMMA FlattenFunction ==
  ASSUME NEW S, NEW ss \in Seq(Seq(S)), ss # <<>>
  PROVE  \E g : /\ g = [i \in 1..Len(ss) |-> IF i = 1 THEN ss[i] ELSE g[i - 1] \o ss[i]]
                /\ FlattenSeq(ss) = g[Len(ss)]
<1> DEFINE n == Len(ss)
           D == 1..n
           step == [g \in [D -> Seq(S)] |-> [i \in D |-> IF i = 1 THEN ss[i] ELSE g[i - 1] \o ss[i]]]
           rank == [i \in D |-> i]
<1>1. n \in Nat /\ n # 0
  OBVIOUS
<1>2. ASSUME NEW g \in [D -> Seq(S)], NEW i \in D
      PROVE  (IF i = 1 THEN ss[i] ELSE g[i - 1] \o ss[i]) \in Seq(S)
  <2>1. ss[i] \in Seq(S)
    OBVIOUS
  <2>2. CASE i # 1
    <3>1. i - 1 \in D
      BY <1>1, <2>2
    <3>2. PICK u, v : u = g[i - 1] /\ v = ss[i]
      OBVIOUS
    <3>3. u \in Seq(S) /\ v \in Seq(S)
      BY <2>1, <3>1, <3>2
    <3>4. u \o v \in Seq(S)
      BY ONLY <3>3
    <3> QED
      BY <2>2, <3>2, <3>4
  <2> QED
    BY <2>1, <2>2
<1>3. step \in [[D -> Seq(S)] -> [D -> Seq(S)]]
  BY <1>2
<1>4. ASSUME NEW g \in [D -> Seq(S)], NEW h \in [D -> Seq(S)], NEW i \in D,
             \A e \in D : rank[e] < rank[i] => g[e] = h[e]
      PROVE  step[g][i] = step[h][i]
  <2>1. i # 1 => i - 1 \in D /\ rank[i - 1] < rank[i]
    BY <1>1
  <2>2. i # 1 => g[i - 1] = h[i - 1]
    BY <1>4, <2>1
  <2> QED
    BY <2>2
<1>5. Ranked(D, Seq(S), rank, step)
  <2>1. rank \in [D -> Nat] /\ Seq(S) # {}
    BY <1>1
  <2> QED
    BY <1>3, <1>4, <2>1 DEF Ranked
<1> HIDE DEF D, step, rank
<1>6. PICK f \in [D -> Seq(S)] : f = step[f]
  BY <1>5, RecursiveFunction
<1> USE DEF D, step
<1>7. f = [i \in 1..Len(ss) |-> IF i = 1 THEN ss[i] ELSE f[i - 1] \o ss[i]]
  BY <1>6
<1>8. PICK c : c = CHOOSE g : g = [i \in 1..Len(ss) |-> IF i = 1 THEN ss[i] ELSE g[i - 1] \o ss[i]]
  OBVIOUS
<1>9. c = [i \in 1..Len(ss) |-> IF i = 1 THEN ss[i] ELSE c[i - 1] \o ss[i]]
  BY <1>7, <1>8
<1>10. FlattenSeq(ss) = c[Len(ss)]
  BY <1>1, <1>8 DEF FlattenSeq
<1> QED
  BY <1>9, <1>10

\* EncodeLength is what its definition says.
LEMMA EncodedLength ==
  /\ EncodeLength = [n \in Nat |-> IF n < 128 THEN <<n>>
                                   ELSE <<128 + (n % 128)>> \o EncodeLength[n \div 128]]
  /\ EncodeLength \in [Nat -> Seq(Byte)]
<1> DEFINE step == [g \in [Nat -> Seq(Byte)] |->
                      [n \in Nat |-> IF n < 128 THEN <<n>> ELSE <<128 + (n % 128)>> \o g[n \div 128]]]
           rank == [n \in Nat |-> n]
<1>1. ASSUME NEW n \in Nat
      PROVE  /\ n < 128 => n \in Byte
             /\ 128 + (n % 128) \in Byte
             /\ n \div 128 \in Nat
             /\ ~(n < 128) => n \div 128 < n
  BY DEF Byte
<1>2. ASSUME NEW g \in [Nat -> Seq(Byte)], NEW n \in Nat
      PROVE  (IF n < 128 THEN <<n>> ELSE <<128 + (n % 128)>> \o g[n \div 128]) \in Seq(Byte)
  <2>1. PICK x \in Byte : x = 128 + (n % 128)
    BY <1>1
  <2>2. PICK t \in Seq(Byte) : t = g[n \div 128]
    BY <1>1
  <2>3. <<x>> \o t \in Seq(Byte)
    OBVIOUS
  <2>4. n < 128 => <<n>> \in Seq(Byte)
    BY <1>1
  <2> QED
    BY <2>1, <2>2, <2>3, <2>4
<1>3. step \in [[Nat -> Seq(Byte)] -> [Nat -> Seq(Byte)]]
  BY <1>2
<1>4. ASSUME NEW g \in [Nat -> Seq(Byte)], NEW h \in [Nat -> Seq(Byte)], NEW n \in Nat,
             \A e \in Nat : rank[e] < rank[n] => g[e] = h[e]
      PROVE  step[g][n] = step[h][n]
  <2>1. ~(n < 128) => g[n \div 128] = h[n \div 128]
    BY <1>1, <1>4
  <2> QED
    BY <2>1
<1>5. Ranked(Nat, Seq(Byte), rank, step)
  <2>1. rank \in [Nat -> Nat] /\ <<>> \in Seq(Byte)
    OBVIOUS
  <2> QED
    BY <1>3, <1>4, <2>1 DEF Ranked
<1> HIDE DEF step, rank
<1>6. PICK f \in [Nat -> Seq(Byte)] : f = step[f]
  BY <1>5, RecursiveFunction
<1> USE DEF step
<1>7. f = [n \in Nat |-> IF n < 128 THEN <<n>> ELSE <<128 + (n % 128)>> \o f[n \div 128]]
  BY <1>6
<1>8. EncodeLength = [n \in Nat |-> IF n < 128 THEN <<n>>
                                    ELSE <<128 + (n % 128)>> \o EncodeLength[n \div 128]]
  BY <1>7 DEF EncodeLength
<1>9. EncodeLength \in [Nat -> Seq(Byte)]
  <2> DEFINE T == {n \in Nat : EncodeLength[n] \notin Seq(Byte)}
  <2>1. SUFFICES ASSUME T # {}
                 PROVE  FALSE
    BY <1>8
  <2>2. PICK n \in T : \A k \in T : n <= k
    BY <2>1, LeastNat
  <2>3. EncodeLength[n] = IF n < 128 THEN <<n>> ELSE <<128 + (n % 128)>> \o EncodeLength[n \div 128]
    BY <1>8
  <2>4. CASE ~(n < 128)
    <3>1. PICK m \in Nat : m = n \div 128 /\ m < n
      BY <1>1, <2>4
    <3>2. EncodeLength[m] \in Seq(Byte)
      BY <2>2, <3>1
    <3>3. PICK x \in Byte : x = 128 + (n % 128)
      BY <1>1
    <3>4. PICK t \in Seq(Byte) : t = EncodeLength[m]
      BY <3>2
    <3>5. <<x>> \o t \in Seq(Byte)
      OBVIOUS
    <3> QED
      BY <2>2, <2>3, <2>4, <3>1, <3>3, <3>4, <3>5
  <2>5. CASE n < 128
    <3>1. <<n>> \in Seq(Byte)
      BY <1>1, <2>5
    <3> QED
      BY <2>2, <2>3, <2>5, <3>1
  <2> QED
    BY <2>4, <2>5
<1> QED
  BY <1>8, <1>9

\* The characters of a string, from every byte on.
LEMMA CharactersFunction ==
  ASSUME NEW s \in Seq(Byte)
  PROVE  \E g \in [1..(Len(s) + 1) -> SUBSET Seq(Byte)] :
           /\ g = [k \in 1..(Len(s) + 1) |->
                     IF k = Len(s) + 1 THEN {<<>>}
                     ELSE IF IllFormed(s, k) THEN {}
                     ELSE {If(s[k] <= 247, SubSeq(s, k, k + Width(s[k]) - 1)) \o t : t \in g[k + Width(s[k])]}]
           /\ Characters(s) = g[1]
<1> DEFINE D == 1..(Len(s) + 1)
           S == SUBSET Seq(Byte)
           char(k) == If(s[k] <= 247, SubSeq(s, k, k + Width(s[k]) - 1))
           rank == [k \in D |-> Len(s) + 1 - k]
           step == [g \in [D -> S] |->
                      [k \in D |-> IF k = Len(s) + 1 THEN {<<>>}
                                   ELSE IF IllFormed(s, k) THEN {}
                                   ELSE {char(k) \o t : t \in g[k + Width(s[k])]}]]
<1>1. ASSUME NEW k \in D, k # Len(s) + 1
      PROVE  /\ Width(s[k]) \in 1..4 /\ s[k] \in Byte /\ k \in 1..Len(s)
             /\ ~IllFormed(s, k) => k + Width(s[k]) \in D /\ char(k) \in Seq(Byte)
  <2>1. k \in 1..Len(s) /\ s[k] \in Byte /\ Len(s) \in Nat
    BY <1>1
  <2>2. Width(s[k]) \in 1..4
    BY <2>1 DEF Width
  <2>3. PICK m \in Nat : m = k + Width(s[k]) - 1
    BY <2>1, <2>2
  <2>4. ~IllFormed(s, k) => m <= Len(s) /\ k + Width(s[k]) \in D
    BY <2>1, <2>2, <2>3 DEF IllFormed
  <2>5. ~IllFormed(s, k) => SubSeq(s, k, m) \in Seq(Byte)
    BY <2>1, <2>4, SubSeqProperties
  <2>6. ~IllFormed(s, k) => char(k) \in Seq(Byte)
    BY <2>3, <2>5 DEF If
  <2> QED
    BY <2>1, <2>2, <2>4, <2>6
<1> HIDE DEF char
<1>2. ASSUME NEW g \in [D -> S], NEW k \in D
      PROVE  (IF k = Len(s) + 1 THEN {<<>>}
              ELSE IF IllFormed(s, k) THEN {}
              ELSE {char(k) \o t : t \in g[k + Width(s[k])]}) \in S
  <2>1. CASE k = Len(s) + 1
    BY <2>1
  <2>2. CASE k # Len(s) + 1 /\ ~IllFormed(s, k)
    <3>1. g[k + Width(s[k])] \subseteq Seq(Byte) /\ char(k) \in Seq(Byte)
      BY <1>1, <2>2
    <3>2. \A t \in Seq(Byte) : char(k) \o t \in Seq(Byte)
      BY <3>1
    <3> QED
      BY <2>2, <3>1, <3>2
  <2> QED
    BY <2>1, <2>2
<1>3. step \in [[D -> S] -> [D -> S]]
  BY <1>2
<1>4. ASSUME NEW g \in [D -> S], NEW h \in [D -> S], NEW k \in D,
             \A e \in D : rank[e] < rank[k] => g[e] = h[e]
      PROVE  step[g][k] = step[h][k]
  <2>1. CASE k # Len(s) + 1 /\ ~IllFormed(s, k)
    <3>1. PICK e \in D : e = k + Width(s[k]) /\ Width(s[k]) \in 1..4 /\ k \in Nat /\ Len(s) \in Nat
      BY <1>1, <2>1
    <3>2. rank[e] < rank[k]
      BY <3>1
    <3> QED
      BY <1>4, <2>1, <3>1, <3>2
  <2> QED
    BY <2>1
<1>5. Ranked(D, S, rank, step)
  <2>1. rank \in [D -> Nat] /\ S # {}
    OBVIOUS
  <2> QED
    BY <1>3, <1>4, <2>1 DEF Ranked
<1> HIDE DEF D, S, step, rank
<1>6. PICK f \in [D -> S] : f = step[f]
  BY <1>5, RecursiveFunction
<1> USE DEF D, S, step, rank
<1>7. f = [k \in D |-> IF k = Len(s) + 1 THEN {<<>>}
                       ELSE IF IllFormed(s, k) THEN {}
                       ELSE {char(k) \o t : t \in f[k + Width(s[k])]}]
  BY <1>6
<1>8. PICK c : c = CHOOSE g : g = [k \in D |-> IF k = Len(s) + 1 THEN {<<>>}
                                               ELSE IF IllFormed(s, k) THEN {}
                                               ELSE {char(k) \o t : t \in g[k + Width(s[k])]}]
  OBVIOUS
<1>9. c = [k \in D |-> IF k = Len(s) + 1 THEN {<<>>}
                       ELSE IF IllFormed(s, k) THEN {}
                       ELSE {char(k) \o t : t \in c[k + Width(s[k])]}]
  BY <1>7, <1>8
<1>10. Characters(s) = c[1]
  BY <1>8 DEF Characters, char
<1>11. c \in [D -> S]
  <2> DEFINE T == {j \in Nat : \E k \in D : j = rank[k] /\ c[k] \notin S}
  <2>1. SUFFICES ASSUME T # {}
                 PROVE  FALSE
    <3>1. \A k \in D : rank[k] \in Nat
      OBVIOUS
    <3> QED
      BY <1>9, <2>1, <3>1
  <2>2. PICK j \in T : \A i \in T : j <= i
    BY <2>1, LeastNat
  <2>3. PICK k \in D : j = rank[k] /\ c[k] \notin S
    BY <2>2
  <2>4. c[k] = IF k = Len(s) + 1 THEN {<<>>}
               ELSE IF IllFormed(s, k) THEN {}
               ELSE {char(k) \o t : t \in c[k + Width(s[k])]}
    BY <1>9
  <2>5. k # Len(s) + 1 /\ ~IllFormed(s, k)
    BY <2>3, <2>4
  <2>6. PICK e \in D : e = k + Width(s[k]) /\ Width(s[k]) \in 1..4 /\ k \in Nat /\ Len(s) \in Nat
    BY <1>1, <2>5
  <2>7. rank[e] < rank[k] /\ rank[e] \in Nat
    BY <2>6
  <2>8. c[e] \in S
    <3>1. rank[e] \in T => rank[k] <= rank[e]
      BY <2>2, <2>3
    <3>2. rank[e] \notin T
      BY <2>2, <2>3, <2>7, <3>1
    <3> QED
      BY <2>7, <3>2
  <2>9. \A t \in c[e] : char(k) \o t \in Seq(Byte)
    <3>1. char(k) \in Seq(Byte)
      BY <1>1, <2>5
    <3>2. \A t \in Seq(Byte) : char(k) \o t \in Seq(Byte)
      BY <3>1
    <3> QED
      BY <2>8, <3>2
  <2>10. c[k] = {char(k) \o t : t \in c[e]}
    BY <2>4, <2>5, <2>6
  <2>11. c[k] \in S
    BY ONLY <2>9, <2>10
  <2> QED
    BY <2>3, <2>11
<1> QED
  BY <1>9, <1>10, <1>11 DEF char

-----------------------------------------------------------------------------
(* What the parsers of strings and of lists return                         *)

LEMMA WordRead ==
  ASSUME NEW b \in Seq(Byte), NEW p \in Nat, Has(b, p, 2)
  PROVE  WordAt(b, p) \in Nat
<1>1. b[p + 1] \in Byte /\ b[p + 2] \in Byte
  BY DEF Has
<1>2. PICK x \in Byte, y \in Byte : x = b[p + 1] /\ y = b[p + 2]
  BY <1>1
<1>3. 256 * x + y \in Nat
  BY SMT DEF Byte
<1> QED
  BY <1>2, <1>3 DEF WordAt

LEMMA BinaryRead ==
  ASSUME NEW b \in Seq(Byte), NEW p \in Nat, NEW r \in decode_binary(b, p)
  PROVE  /\ r = [at |-> r.at, text |-> r.text]
         /\ r.at \in (p + 2)..Len(b) /\ r.text \in Seq(Byte)
<1>1. PICK end : end = p + 2 + WordAt(b, p)
  OBVIOUS
<1>2. Has(b, p, 2) /\ end <= Len(b) /\ r = [at |-> end, text |-> SubSeq(b, p + 3, end)]
  BY <1>1 DEF decode_binary
<1>3. end \in Nat /\ end >= p + 2
  <2>1. PICK w \in Nat : w = WordAt(b, p)
    BY <1>2, WordRead
  <2>2. p + 2 + w \in Nat /\ p + 2 + w >= p + 2
    OBVIOUS
  <2> QED
    BY <1>1, <2>1, <2>2
<1>4. SubSeq(b, p + 3, end) \in Seq(Byte)
  <2>1. PICK m \in Nat : m = p + 3
    OBVIOUS
  <2>2. \A i \in m..end : b[i] \in Byte
    BY <1>2, <1>3, <2>1
  <2> QED
    BY <1>3, <2>1, <2>2
<1> QED
  BY <1>2, <1>3, <1>4

LEMMA CharactersRead ==
  ASSUME NEW s \in Seq(Byte)
  PROVE  Characters(s) \subseteq Seq(Byte)
<1>1. PICK g \in [1..(Len(s) + 1) -> SUBSET Seq(Byte)] : Characters(s) = g[1]
  BY CharactersFunction
<1> QED
  BY <1>1

LEMMA StringRead ==
  ASSUME NEW b \in Seq(Byte), NEW p \in Nat, NEW r \in decode_string(b, p)
  PROVE  /\ r = [at |-> r.at, text |-> r.text]
         /\ r.at \in (p + 2)..Len(b) /\ r.text \in Seq(Byte)
<1>1. PICK q \in decode_binary(b, p) : \E t \in Characters(q.text) : r = [at |-> q.at, text |-> t]
  BY DEF decode_string
<1>2. PICK t \in Characters(q.text) : r = [at |-> q.at, text |-> t]
  BY <1>1
<1>3. q.at \in (p + 2)..Len(b) /\ t \in Seq(Byte)
  BY <1>1, <1>2, BinaryRead, CharactersRead
<1> QED
  BY <1>2, <1>3

\* Texts one after the other.
Texts(b, p) == [at : p..Len(b), texts : Seq(Seq(Byte))]
Field(b, p, kind) == IF kind = "string" THEN decode_string(b, p) ELSE decode_binary(b, p)
AddField(b, results, kind) ==
  UNION {{[at |-> s.at, texts |-> Append(r.texts, s.text)] : s \in Field(b, r.at, kind)} : r \in results}

LEMMA FieldAdded ==
  ASSUME NEW b \in Seq(Byte), NEW p \in Nat, NEW kind, NEW results \in SUBSET Texts(b, p)
  PROVE  AddField(b, results, kind) \subseteq Texts(b, p)
<1> SUFFICES ASSUME NEW x \in AddField(b, results, kind)
             PROVE  x \in Texts(b, p)
  OBVIOUS
<1>1. PICK r \in results : x \in {[at |-> s.at, texts |-> Append(r.texts, s.text)] : s \in Field(b, r.at, kind)}
  BY DEF AddField
<1>2. PICK s \in Field(b, r.at, kind) : x = [at |-> s.at, texts |-> Append(r.texts, s.text)]
  BY <1>1
<1>3. r.at \in p..Len(b) /\ r.texts \in Seq(Seq(Byte)) /\ Len(b) \in Nat
  BY DEF Texts
<1>4. s.at \in (r.at + 2)..Len(b) /\ s.text \in Seq(Byte)
  <2>1. PICK q \in Nat : q = r.at
    BY <1>3
  <2> QED
    BY <1>2, <2>1, StringRead, BinaryRead DEF Field
<1>5. s.at \in p..Len(b) /\ Append(r.texts, s.text) \in Seq(Seq(Byte))
  BY <1>3, <1>4
<1> QED
  BY <1>2, <1>5 DEF Texts

LEMMA FieldsFunction ==
  ASSUME NEW b \in Seq(Byte), NEW p \in 0..Len(b), NEW kinds \in Seq({"string", "binary"})
  PROVE  \E f \in [0..Len(kinds) -> SUBSET Texts(b, p)] :
           /\ f[0] = {[at |-> p, texts |-> <<>>]}
           /\ \A k \in 1..Len(kinds) : f[k] = AddField(b, f[k - 1], kinds[k])
           /\ ParseFields(b, p, kinds) = f[Len(kinds)]
<1> DEFINE n == Len(kinds)
           D == 0..n
           S == SUBSET Texts(b, p)
           start == {[at |-> p, texts |-> <<>>]}
           rank == [k \in D |-> k]
           step == [g \in [D -> S] |-> [k \in D |-> IF k = 0 THEN start ELSE AddField(b, g[k - 1], kinds[k])]]
<1>1. start \in S /\ n \in Nat /\ p \in Nat
  <2>1. <<>> \in Seq(Seq(Byte)) /\ p \in p..Len(b) /\ n \in Nat
    OBVIOUS
  <2> QED
    BY <2>1 DEF Texts
<1> HIDE DEF start
<1>2. ASSUME NEW g \in [D -> S], NEW k \in D
      PROVE  (IF k = 0 THEN start ELSE AddField(b, g[k - 1], kinds[k])) \in S
  <2>1. CASE k # 0
    <3>1. k - 1 \in D
      BY <1>1, <2>1
    <3>2. PICK u \in S : u = g[k - 1]
      BY <3>1
    <3>3. AddField(b, u, kinds[k]) \in S
      BY <1>1, FieldAdded
    <3> QED
      BY <2>1, <3>2, <3>3
  <2> QED
    BY <1>1, <2>1
<1>3. step \in [[D -> S] -> [D -> S]]
  BY <1>2
<1>4. ASSUME NEW g \in [D -> S], NEW h \in [D -> S], NEW k \in D,
             \A e \in D : rank[e] < rank[k] => g[e] = h[e]
      PROVE  step[g][k] = step[h][k]
  <2>1. k # 0 => k - 1 \in D /\ rank[k - 1] < rank[k]
    BY <1>1
  <2>2. k # 0 => g[k - 1] = h[k - 1]
    BY <1>4, <2>1
  <2> QED
    BY <2>2
<1>5. Ranked(D, S, rank, step)
  <2>1. rank \in [D -> Nat]
    BY <1>1
  <2>2. S # {}
    BY ONLY <1>1
  <2> QED
    BY <1>3, <1>4, <2>1, <2>2 DEF Ranked
<1> HIDE DEF D, S, step, rank
<1>6. PICK f \in [D -> S] : f = step[f]
  BY <1>5, RecursiveFunction
<1> USE DEF D, S, step
<1>7. f = [k \in D |-> IF k = 0 THEN start ELSE AddField(b, f[k - 1], kinds[k])]
  BY <1>6
<1>8. PICK c : c = CHOOSE g : g = [k \in D |-> IF k = 0 THEN start ELSE AddField(b, g[k - 1], kinds[k])]
  OBVIOUS
<1>9. c = [k \in D |-> IF k = 0 THEN start ELSE AddField(b, c[k - 1], kinds[k])]
  BY <1>7, <1>8
<1>10. ParseFields(b, p, kinds) = c[n]
  BY <1>8 DEF ParseFields, AddField, Field, start
<1>11. \A k \in D : c[k] \in S
  <2> DEFINE T == {k \in Nat : k \in D /\ c[k] \notin S}
  <2>1. SUFFICES ASSUME T # {}
                 PROVE  FALSE
    BY <1>1
  <2>2. PICK k \in T : \A i \in T : k <= i
    BY <2>1, LeastNat
  <2>3. k # 0
    BY <1>1, <1>9, <2>2
  <2>4. PICK j \in Nat : j = k - 1
    BY <2>2, <2>3
  <2>5. j \in D /\ j < k
    BY <1>1, <2>2, <2>4
  <2>6. c[j] \in S
    BY <2>2, <2>5
  <2>7. AddField(b, c[j], kinds[k]) \in S
    BY <1>1, <2>6, FieldAdded
  <2> QED
    BY <1>9, <2>2, <2>3, <2>4, <2>7
<1>12. c \in [D -> S]
  BY <1>9, <1>11
<1>13. c[0] = start /\ \A k \in 1..n : c[k] = AddField(b, c[k - 1], kinds[k])
  BY <1>1, <1>9
<1> QED
  BY <1>10, <1>12, <1>13 DEF start

\* Filters one after the other.
Lists(b) == [at : 1..Len(b), filters : Seq(Seq(Byte)), qoses : Seq(Byte)]
WithQos(type, s) == type = SUBSCRIBE /\ ValidFilter(s.text)
NextAt(type, s) == s.at + Bit(WithQos(type, s), 1)
QosPut(b, type, s) == IF WithQos(type, s) THEN <<b[NextAt(type, s)]>> ELSE If(type = SUBSCRIBE, <<128>>)
Rest(type, s, remain) == remain - (Len(s.text) + 2 + Bit(WithQos(type, s), 1))
PutBefore(b, type, s, results) ==
  IF NextAt(type, s) > Len(b) \/ (WithQos(type, s) /\ b[NextAt(type, s)] >= 3) THEN {}
  ELSE {[at |-> r.at, filters |-> <<s.text>> \o r.filters, qoses |-> QosPut(b, type, s) \o r.qoses] :
          r \in results}
FiltersFrom(b, type, f, q, remain) ==
  IF remain <= 0 THEN {[at |-> q, filters |-> <<>>, qoses |-> <<>>]}
  ELSE UNION {PutBefore(b, type, s, f[NextAt(type, s)][Rest(type, s, remain)]) :
                s \in {t \in decode_string(b, q) : t.text # <<>>}}
FiltersPacket(b, type, f, p, length) ==
  IF ~Has(b, p, 2) THEN {}
  ELSE {[at |-> r.at, packet |-> [type |-> type, id |-> WordAt(b, p),
                                  filters |-> r.filters, qoses |-> r.qoses]] :
          r \in {x \in f[p + 2][length - 2] : x.filters # <<>>}}

LEMMA FilterRead ==
  ASSUME NEW b \in Seq(Byte), NEW type, NEW q \in 1..Len(b), NEW remain \in Int,
         NEW s \in decode_string(b, q)
  PROVE  /\ NextAt(type, s) \in Nat /\ NextAt(type, s) > q /\ Rest(type, s, remain) \in Int
         /\ NextAt(type, s) <= Len(b) => NextAt(type, s) \in 1..Len(b) /\ QosPut(b, type, s) \in Seq(Byte)
         /\ s.text \in Seq(Byte) /\ Len(b) \in Nat
<1>1. s.at \in (q + 2)..Len(b) /\ s.text \in Seq(Byte) /\ Len(s.text) \in Nat /\ Len(b) \in Nat /\ q \in Nat
  BY StringRead
<1>2. Bit(WithQos(type, s), 1) \in {0, 1}
  BY DEF Bit
<1>3. NextAt(type, s) \in Nat /\ NextAt(type, s) > q
  BY <1>1, <1>2 DEF NextAt
<1>4. Rest(type, s, remain) \in Int
  BY <1>1, <1>2 DEF Rest
<1>5. ASSUME NextAt(type, s) <= Len(b)
      PROVE  NextAt(type, s) \in 1..Len(b) /\ QosPut(b, type, s) \in Seq(Byte)
  <2>1. NextAt(type, s) \in 1..Len(b)
    BY <1>1, <1>3, <1>5
  <2>2. b[NextAt(type, s)] \in Byte
    BY <2>1
  <2>3. <<b[NextAt(type, s)]>> \in Seq(Byte)
    BY <2>2
  <2>4. <<128>> \in Seq(Byte) /\ <<>> \in Seq(Byte)
    BY DEF Byte
  <2> QED
    BY <2>1, <2>3, <2>4 DEF QosPut, If
<1> QED
  BY <1>1, <1>3, <1>4, <1>5

LEMMA FilterPut ==
  ASSUME NEW b \in Seq(Byte), NEW type, NEW q \in 1..Len(b), NEW s \in decode_string(b, q),
         NEW results, NextAt(type, s) <= Len(b) => results \subseteq Lists(b)
  PROVE  PutBefore(b, type, s, results) \subseteq Lists(b)
<1> SUFFICES ASSUME NEW x \in PutBefore(b, type, s, results)
             PROVE  x \in Lists(b)
  OBVIOUS
<1>0. NextAt(type, s) \in Nat /\ Len(b) \in Nat
  <2>1. 0 \in Int
    OBVIOUS
  <2> QED
    BY <2>1, FilterRead
<1>1. NextAt(type, s) <= Len(b)
  BY <1>0 DEF PutBefore
<1>2. PICK u : u = QosPut(b, type, s) /\ u \in Seq(Byte)
  <2>1. 0 \in Int
    OBVIOUS
  <2> QED
    BY <1>1, <2>1, FilterRead
<1>3. s.text \in Seq(Byte)
  BY StringRead
<1>4. PICK r \in results :
        x = [at |-> r.at, filters |-> <<s.text>> \o r.filters, qoses |-> u \o r.qoses]
  BY <1>2 DEF PutBefore
<1>5. r.at \in 1..Len(b) /\ r.filters \in Seq(Seq(Byte)) /\ r.qoses \in Seq(Byte)
  BY <1>1 DEF Lists
<1>6. <<s.text>> \o r.filters \in Seq(Seq(Byte))
  BY <1>3, <1>5
<1>7. u \o r.qoses \in Seq(Byte)
  BY <1>2, <1>5
<1> QED
  BY <1>4, <1>5, <1>6, <1>7 DEF Lists

LEMMA FiltersFunction ==
  ASSUME NEW b \in Seq(Byte), NEW type
  PROVE  \E f \in [1..Len(b) -> [Int -> SUBSET Lists(b)]] :
           /\ \A q \in 1..Len(b) : \A remain \in Int : f[q][remain] = FiltersFrom(b, type, f, q, remain)
           /\ \A p, length : ParseFilters(b, p, type, length) = FiltersPacket(b, type, f, p, length)
<1> DEFINE D == 1..Len(b)
           S == [Int -> SUBSET Lists(b)]
           rank == [q \in D |-> Len(b) - q]
           step == [g \in [D -> S] |-> [q \in D |-> [remain \in Int |-> FiltersFrom(b, type, g, q, remain)]]]
<1>1. ASSUME NEW g, NEW q \in D, NEW remain \in Int, \A e \in D : e > q => g[e] \in S
      PROVE  FiltersFrom(b, type, g, q, remain) \subseteq Lists(b)
  <2>1. CASE remain <= 0
    <3>1. <<>> \in Seq(Seq(Byte)) /\ <<>> \in Seq(Byte)
      OBVIOUS
    <3> QED
      BY <2>1, <3>1 DEF FiltersFrom, Lists
  <2>2. CASE ~(remain <= 0)
    <3>1. ASSUME NEW s \in decode_string(b, q)
          PROVE  PutBefore(b, type, s, g[NextAt(type, s)][Rest(type, s, remain)]) \subseteq Lists(b)
      <4>1. ASSUME NextAt(type, s) <= Len(b)
            PROVE  g[NextAt(type, s)][Rest(type, s, remain)] \subseteq Lists(b)
        <5>1. PICK e \in D, m \in Int : e = NextAt(type, s) /\ m = Rest(type, s, remain) /\ e > q
          BY <4>1, FilterRead
        <5> QED
          BY <1>1, <5>1
      <4> QED
        BY <4>1, FilterPut
    <3> QED
      BY <2>2, <3>1 DEF FiltersFrom
  <2> QED
    BY <2>1, <2>2
<1>2. step \in [[D -> S] -> [D -> S]]
  BY <1>1
<1>3. ASSUME NEW g \in [D -> S], NEW h \in [D -> S], NEW q \in D,
             \A e \in D : rank[e] < rank[q] => g[e] = h[e]
      PROVE  step[g][q] = step[h][q]
  <2>1. ASSUME NEW remain \in Int, NEW s \in decode_string(b, q)
        PROVE  PutBefore(b, type, s, g[NextAt(type, s)][Rest(type, s, remain)])
               = PutBefore(b, type, s, h[NextAt(type, s)][Rest(type, s, remain)])
    <3>1. NextAt(type, s) \in Nat /\ NextAt(type, s) > q /\ Len(b) \in Nat
      BY FilterRead
    <3>2. CASE NextAt(type, s) <= Len(b)
      <4>1. PICK e \in D : e = NextAt(type, s) /\ e > q
        BY <3>1, <3>2
      <4>2. rank[e] < rank[q]
        BY <3>1, <4>1
      <4> QED
        BY <1>3, <4>1, <4>2
    <3>3. CASE NextAt(type, s) > Len(b)
      BY <3>3 DEF PutBefore
    <3> QED
      BY <3>1, <3>2, <3>3
  <2>2. \A remain \in Int : FiltersFrom(b, type, g, q, remain) = FiltersFrom(b, type, h, q, remain)
    BY <2>1 DEF FiltersFrom
  <2> QED
    BY <2>2
<1>4. Ranked(D, S, rank, step)
  <2>1. rank \in [D -> Nat]
    OBVIOUS
  <2>2. S # {}
    <3>1. [i \in Int |-> {}] \in S
      OBVIOUS
    <3> QED
      BY <3>1
  <2> QED
    BY <1>2, <1>3, <2>1, <2>2 DEF Ranked
<1> HIDE DEF D, S, step, rank
<1>5. PICK f \in [D -> S] : f = step[f]
  BY <1>4, RecursiveFunction
<1> USE DEF D, S, step
<1>6. f = [q \in D |-> [remain \in Int |-> FiltersFrom(b, type, f, q, remain)]]
  BY <1>5
<1>7. PICK c : c = CHOOSE g : g = [q \in D |-> [remain \in Int |-> FiltersFrom(b, type, g, q, remain)]]
  OBVIOUS
<1>8. c = [q \in D |-> [remain \in Int |-> FiltersFrom(b, type, c, q, remain)]]
  BY <1>6, <1>7
<1>9. ASSUME NEW p, NEW length
      PROVE  ParseFilters(b, p, type, length) = FiltersPacket(b, type, c, p, length)
  BY <1>7 DEF FiltersPacket, ParseFilters, FiltersFrom, PutBefore, NextAt, WithQos, QosPut, Rest
<1>10. \A q \in D : c[q] \in S
  <2> DEFINE T == {j \in Nat : \E q \in D : j = rank[q] /\ c[q] \notin S}
  <2>0. \A q \in D : rank[q] \in Nat /\ rank[q] = Len(b) - q
    BY DEF rank
  <2>1. SUFFICES ASSUME T # {}
                 PROVE  FALSE
    BY <2>0
  <2>2. PICK j \in T : \A i \in T : j <= i
    BY <2>1, LeastNat
  <2>3. PICK q \in D : j = rank[q] /\ c[q] \notin S
    BY <2>2
  <2>4. ASSUME NEW e \in D, e > q
        PROVE  c[e] \in S
    <3>1. rank[e] < rank[q] /\ rank[e] \in Nat
      BY <2>0, <2>4
    <3>2. rank[e] \in T => rank[q] <= rank[e]
      BY <2>2, <2>3
    <3>3. rank[e] \notin T
      BY <2>0, <3>1, <3>2
    <3> QED
      BY <3>1, <3>3
  <2>5. \A remain \in Int : FiltersFrom(b, type, c, q, remain) \subseteq Lists(b)
    BY <1>1, <2>4
  <2>6. c[q] = [remain \in Int |-> FiltersFrom(b, type, c, q, remain)]
    BY <1>8
  <2>7. c[q] \in S
    BY <2>5, <2>6
  <2> QED
    BY <2>3, <2>7
<1>11. \A q \in D : c[q] = [remain \in Int |-> FiltersFrom(b, type, c, q, remain)]
  BY <1>8
<1>12. \A q \in D : \A remain \in Int : c[q][remain] = FiltersFrom(b, type, c, q, remain)
  BY <1>11
<1>13. DOMAIN c = D /\ c = [q \in D |-> c[q]]
  <2>1. DOMAIN c = D
    BY <1>8
  <2> QED
    BY <1>8, <1>11, <2>1
<1> HIDE DEF S
<1>14. c \in [D -> S]
  BY ONLY <1>10, <1>13
<1> QED
  BY <1>9, <1>12, <1>14 DEF S

-----------------------------------------------------------------------------
(* Sequences after each other                                              *)

Flattens(S, ss, g) ==
  /\ g \in [0..Len(ss) -> Seq(S)] /\ g[0] = <<>>
  /\ \A k \in 1..Len(ss) : g[k] = g[k - 1] \o ss[k]

LEMMA Flattened ==
  ASSUME NEW S, NEW ss \in Seq(Seq(S))
  PROVE  \E g : Flattens(S, ss, g) /\ FlattenSeq(ss) = g[Len(ss)]
<1>1. PICK n \in Nat : n = Len(ss)
  OBVIOUS
<1>2. CASE n = 0
  <2>1. PICK g : g = [k \in 0..0 |-> <<>>]
    OBVIOUS
  <2>2. g \in [0..0 -> Seq(S)] /\ g[0] = <<>>
    BY <2>1
  <2>3. ss = <<>>
    BY <1>1, <1>2, EmptySeq
  <2>4. FlattenSeq(ss) = <<>>
    BY <1>1, <1>2, <2>3 DEF FlattenSeq
  <2> QED
    BY <1>1, <1>2, <2>2, <2>4 DEF Flattens
<1>3. CASE n # 0
  <2>1. PICK c : /\ c = [i \in 1..n |-> IF i = 1 THEN ss[i] ELSE c[i - 1] \o ss[i]]
                 /\ FlattenSeq(ss) = c[n]
    <3>1. ss # <<>>
      BY <1>1, <1>3
    <3> QED
      BY <1>1, <3>1, FlattenFunction
  <2>2. \A i \in 1..n : c[i] = IF i = 1 THEN ss[i] ELSE c[i - 1] \o ss[i]
    BY <2>1
  <2>3. \A i \in 1..n : c[i] \in Seq(S)
    <3> DEFINE T == {i \in Nat : i \in 1..n /\ c[i] \notin Seq(S)}
    <3>1. SUFFICES ASSUME T # {}
                   PROVE  FALSE
      OBVIOUS
    <3>2. PICK i \in T : \A k \in T : i <= k
      BY <3>1, LeastNat
    <3>3. PICK x : x = ss[i] /\ x \in Seq(S)
      BY <1>1, <3>2
    <3>4. i # 1
      BY <2>2, <3>2, <3>3
    <3>5. PICK j \in 1..n : j = i - 1 /\ j < i
      BY <3>2, <3>4
    <3>6. PICK y : y = c[j] /\ y \in Seq(S)
      BY <3>2, <3>5
    <3>7. y \o x \in Seq(S)
      BY ONLY <3>3, <3>6
    <3>8. c[i] = y \o x
      BY <2>2, <3>2, <3>3, <3>4, <3>5, <3>6
    <3> QED
      BY <3>2, <3>7, <3>8
  <2>4. PICK g : g = [k \in 0..n |-> IF k = 0 THEN <<>> ELSE c[k]]
    OBVIOUS
  <2>5. g \in [0..n -> Seq(S)] /\ g[0] = <<>>
    BY <2>3, <2>4
  <2>6. ASSUME NEW k \in 1..n
        PROVE  g[k] = g[k - 1] \o ss[k]
    <3>1. k \in 0..n /\ k - 1 \in 0..n /\ k # 0 /\ (k = 1 <=> k - 1 = 0)
      OBVIOUS
    <3>2. PICK x : x = ss[k] /\ x \in Seq(S)
      BY <1>1
    <3>3. <<>> \o x = x
      BY ONLY <3>2
    <3>4. g[k] = c[k] /\ g[k - 1] = IF k = 1 THEN <<>> ELSE c[k - 1]
      BY <2>4, <3>1
    <3> QED
      BY <2>2, <3>2, <3>3, <3>4
  <2>7. FlattenSeq(ss) = g[n]
    BY <1>3, <2>1, <2>4
  <2> QED
    BY <1>1, <2>5, <2>6, <2>7 DEF Flattens
<1> QED
  BY <1>2, <1>3

\* The first k of the sequences after each other.
Joined(ss, k) == FlattenSeq(SubSeq(ss, 1, k))

LEMMA FirstElements ==
  ASSUME NEW S, NEW ss \in Seq(S), NEW k \in 0..Len(ss)
  PROVE  /\ SubSeq(ss, 1, k) \in Seq(S) /\ Len(SubSeq(ss, 1, k)) = k
         /\ \A i \in 1..k : SubSeq(ss, 1, k)[i] = ss[i]
         /\ SubSeq(ss, 1, Len(ss)) = ss
<1>1. \A i \in 1..k : ss[i] \in S
  OBVIOUS
<1>2. SubSeq(ss, 1, k) \in Seq(S) /\ Len(SubSeq(ss, 1, k)) = k
  BY <1>1
<1>3. \A i \in 1..k : SubSeq(ss, 1, k)[i] = ss[i]
  OBVIOUS
<1>4. SubSeq(ss, 1, Len(ss)) = ss
  OBVIOUS
<1> QED
  BY <1>2, <1>3, <1>4

LEMMA FlattensPrefix ==
  ASSUME NEW S, NEW ss \in Seq(Seq(S)), NEW g, Flattens(S, ss, g), NEW n \in 0..Len(ss)
  PROVE  Joined(ss, n) = g[n]
<1>1. PICK t \in Seq(Seq(S)) : t = SubSeq(ss, 1, n) /\ Len(t) = n /\ \A i \in 1..n : t[i] = ss[i]
  BY FirstElements
<1>2. PICK h : Flattens(S, t, h) /\ FlattenSeq(t) = h[n]
  BY <1>1, Flattened
<1>3. \A k \in 0..n : h[k] = g[k]
  <2> DEFINE T == {k \in Nat : k \in 0..n /\ h[k] # g[k]}
  <2>1. SUFFICES ASSUME T # {}
                 PROVE  FALSE
    OBVIOUS
  <2>2. PICK k \in T : \A i \in T : k <= i
    BY <2>1, LeastNat
  <2>3. k # 0
    BY <1>2, <2>2 DEF Flattens
  <2>4. PICK j \in 0..n : j = k - 1 /\ j < k /\ j \in Nat
    BY <2>2, <2>3
  <2>5. h[j] = g[j]
    BY <2>2, <2>4
  <2>6. k \in 1..n /\ k \in 1..Len(ss) /\ k \in 1..Len(t)
    BY <1>1, <2>2, <2>3
  <2>7. h[k] = h[j] \o t[k] /\ g[k] = g[j] \o ss[k]
    BY <1>2, <2>4, <2>6 DEF Flattens
  <2> QED
    BY <1>1, <2>2, <2>5, <2>6, <2>7
<1> QED
  BY <1>1, <1>2, <1>3 DEF Joined

LEMMA JoinedStep ==
  ASSUME NEW S, NEW ss \in Seq(Seq(S))
  PROVE  /\ Joined(ss, 0) = <<>> /\ Joined(ss, Len(ss)) = FlattenSeq(ss)
         /\ \A k \in 0..Len(ss) : Joined(ss, k) \in Seq(S)
         /\ \A k \in 1..Len(ss) : Joined(ss, k) = Joined(ss, k - 1) \o ss[k]
<1>1. PICK g : Flattens(S, ss, g) /\ FlattenSeq(ss) = g[Len(ss)]
  BY Flattened
<1>2. \A k \in 0..Len(ss) : Joined(ss, k) = g[k]
  BY <1>1, FlattensPrefix
<1>3. \A k \in 1..Len(ss) : k \in 0..Len(ss) /\ k - 1 \in 0..Len(ss)
  OBVIOUS
<1>4. 0 \in 0..Len(ss) /\ Len(ss) \in 0..Len(ss)
  OBVIOUS
<1> QED
  BY <1>1, <1>2, <1>3, <1>4 DEF Flattens

LEMMA FlattenBytes ==
  ASSUME NEW S, NEW ss \in Seq(Seq(S))
  PROVE  FlattenSeq(ss) \in Seq(S)
<1>1. Len(ss) \in 0..Len(ss)
  OBVIOUS
<1> QED
  BY <1>1, JoinedStep

-----------------------------------------------------------------------------
(* Bytes at a position                                                     *)

Holds(b, p, s) == p + Len(s) <= Len(b) /\ \A i \in 1..Len(s) : b[p + i] = s[i]

LEMMA HoldsConcat ==
  ASSUME NEW S, NEW b \in Seq(S), NEW p \in Nat, NEW s \in Seq(S), NEW t \in Seq(S)
  PROVE  /\ Len(s \o t) = Len(s) + Len(t) /\ s \o t \in Seq(S)
         /\ Holds(b, p, s \o t) <=> Holds(b, p, s) /\ Holds(b, p + Len(s), t)
<1>1. Len(s \o t) = Len(s) + Len(t) /\ s \o t \in Seq(S) /\ Len(s) \in Nat /\ Len(t) \in Nat /\ Len(b) \in Nat
  OBVIOUS
<1>2. PICK m \in Nat, n \in Nat : m = Len(s) /\ n = Len(t)
  BY <1>1
<1>3. PICK u : u = s \o t
  OBVIOUS
<1>4. \A i \in 1..(m + n) : u[i] = IF i <= m THEN s[i] ELSE t[i - m]
  BY <1>2, <1>3
<1>5. (\A i \in 1..m : u[i] = s[i]) /\ \A i \in 1..n : u[m + i] = t[i]
  <2>1. \A i \in 1..m : i \in 1..(m + n) /\ i <= m
    OBVIOUS
  <2>2. \A i \in 1..n : m + i \in 1..(m + n) /\ ~(m + i <= m) /\ (m + i) - m = i
    OBVIOUS
  <2> QED
    BY <1>4, <2>1, <2>2
<1>6. ASSUME Holds(b, p, u)
      PROVE  Holds(b, p, s) /\ Holds(b, p + m, t)
  <2>1. p + (m + n) <= Len(b) /\ \A i \in 1..(m + n) : b[p + i] = u[i]
    BY <1>1, <1>2, <1>3, <1>6 DEF Holds
  <2>2. p + m <= Len(b) /\ (p + m) + n <= Len(b)
    BY <1>1, <2>1
  <2>3. \A i \in 1..m : b[p + i] = s[i]
    BY <1>5, <2>1
  <2>4. \A i \in 1..n : m + i \in 1..(m + n) /\ p + (m + i) = (p + m) + i
    OBVIOUS
  <2>5. \A i \in 1..n : b[(p + m) + i] = t[i]
    BY <1>5, <2>1, <2>4
  <2> QED
    BY <1>2, <2>2, <2>3, <2>5 DEF Holds
<1>7. ASSUME Holds(b, p, s), Holds(b, p + m, t)
      PROVE  Holds(b, p, u)
  <2>1. (\A i \in 1..m : b[p + i] = s[i]) /\ \A i \in 1..n : b[(p + m) + i] = t[i]
    BY <1>2, <1>7 DEF Holds
  <2>2. p + (m + n) <= Len(b)
    BY <1>1, <1>2, <1>7 DEF Holds
  <2>3. ASSUME NEW i \in 1..(m + n)
        PROVE  b[p + i] = u[i]
    <3>1. CASE i <= m
      BY <1>4, <2>1, <3>1
    <3>2. CASE ~(i <= m)
      <4>1. i - m \in 1..n /\ (p + m) + (i - m) = p + i
        BY <3>2
      <4> QED
        BY <1>4, <2>1, <3>2, <4>1
    <3> QED
      BY <3>1, <3>2
  <2> QED
    BY <1>1, <1>2, <1>3, <2>2, <2>3 DEF Holds
<1> QED
  BY <1>1, <1>2, <1>3, <1>6, <1>7

LEMMA HoldsSubSeq ==
  ASSUME NEW S, NEW b \in Seq(S), NEW p \in Nat, NEW s \in Seq(S), Holds(b, p, s)
  PROVE  SubSeq(b, p + 1, p + Len(s)) = s
<1>1. PICK m \in Nat : m = Len(s)
  OBVIOUS
<1>2. p + m <= Len(b) /\ \A i \in 1..m : b[p + i] = s[i]
  BY <1>1 DEF Holds
<1>3. PICK u : u = SubSeq(b, p + 1, p + m)
  OBVIOUS
<1>4. \A i \in (p + 1)..(p + m) : b[i] \in S
  BY <1>2
<1>5. u \in Seq(S) /\ Len(u) = m /\ \A i \in 1..m : u[i] = b[p + i]
  <2>1. p + 1 \in Nat /\ p + m \in Nat /\ p + 1 <= (p + m) + 1
    OBVIOUS
  <2>2. u \in Seq(S)
    BY <1>3, <1>4
  <2>3. Len(u) = m
    BY <1>3, <2>1
  <2>4. \A i \in 1..m : u[i] = b[(p + 1) + i - 1]
    BY <1>3, <2>1, <2>3
  <2>5. \A i \in 1..m : (p + 1) + i - 1 = p + i
    OBVIOUS
  <2> QED
    BY <2>2, <2>3, <2>4, <2>5
<1>6. u = s
  <2>1. \A i \in 1..m : u[i] = s[i]
    BY <1>2, <1>5
  <2> QED
    BY <1>1, <1>5, <2>1
<1> QED
  BY <1>1, <1>3, <1>6

\* The sequences that follow each other are each at its place.
LEMMA HoldsJoined ==
  ASSUME NEW S, NEW b \in Seq(S), NEW p \in Nat, NEW ss \in Seq(Seq(S)),
         Holds(b, p, FlattenSeq(ss)), NEW k \in 1..Len(ss)
  PROVE  /\ Holds(b, p + Len(Joined(ss, k - 1)), ss[k])
         /\ Len(Joined(ss, k)) = Len(Joined(ss, k - 1)) + Len(ss[k])
         /\ Len(Joined(ss, k - 1)) \in Nat /\ Len(ss[k]) \in Nat
<1>1. PICK n \in Nat : n = Len(ss)
  OBVIOUS
<1>2. /\ Joined(ss, n) = FlattenSeq(ss)
      /\ \A i \in 0..n : Joined(ss, i) \in Seq(S)
      /\ \A i \in 1..n : Joined(ss, i) = Joined(ss, i - 1) \o ss[i]
  BY <1>1, JoinedStep
<1>3. \A i \in 1..n : i \in 0..n /\ i - 1 \in 0..n /\ ss[i] \in Seq(S)
  BY <1>1
<1>4. ASSUME NEW i \in 1..n, Holds(b, p, Joined(ss, i))
      PROVE  Holds(b, p, Joined(ss, i - 1)) /\ Holds(b, p + Len(Joined(ss, i - 1)), ss[i])
  <2>1. PICK s \in Seq(S), t \in Seq(S) : s = Joined(ss, i - 1) /\ t = ss[i]
    BY <1>2, <1>3
  <2>2. Holds(b, p, s \o t)
    BY <1>2, <1>4, <2>1
  <2> QED
    BY <2>1, <2>2, HoldsConcat
<1>5. \A i \in 0..n : Holds(b, p, Joined(ss, n - i))
  <2>1. PICK H : H = {i \in 0..n : Holds(b, p, Joined(ss, n - i))}
    OBVIOUS
  <2> DEFINE T == {i \in Nat : i \in 0..n /\ i \notin H}
  <2>2. SUFFICES ASSUME T # {}
                 PROVE  FALSE
    <3>1. ASSUME NEW i \in 0..n
          PROVE  i \in H
      <4>1. i \notin H => i \in T
        OBVIOUS
      <4> QED
        BY <2>2, <4>1
    <3> QED
      BY ONLY <2>1, <3>1
  <2>3. PICK i \in T : \A j \in T : i <= j
    BY <2>2, LeastNat
  <2>4. i # 0
    BY <1>2, <2>1, <2>3
  <2>5. PICK j \in 0..n : j = i - 1 /\ j < i /\ j \in Nat /\ n - j \in 1..n /\ (n - j) - 1 = n - i
    BY <2>3, <2>4
  <2>6. j \in H
    BY <2>3, <2>5
  <2>7. Holds(b, p, Joined(ss, n - j))
    BY ONLY <2>1, <2>6
  <2>8. Holds(b, p, Joined(ss, (n - j) - 1))
    BY <1>4, <2>5, <2>7
  <2>9. i \in H
    BY ONLY <2>1, <2>3, <2>5, <2>8
  <2> QED
    BY ONLY <2>3, <2>9
<1>6. Holds(b, p, Joined(ss, k))
  <2>1. n - k \in 0..n /\ n - (n - k) = k
    BY <1>1
  <2> QED
    BY <1>5, <2>1
<1>7. Holds(b, p + Len(Joined(ss, k - 1)), ss[k])
  BY <1>1, <1>4, <1>6
<1>8. PICK s \in Seq(S), t \in Seq(S) : s = Joined(ss, k - 1) /\ t = ss[k]
  BY <1>1, <1>2, <1>3
<1>9. Joined(ss, k) = s \o t
  BY <1>1, <1>2, <1>8
<1>10. Len(s \o t) = Len(s) + Len(t) /\ Len(s) \in Nat /\ Len(t) \in Nat
  OBVIOUS
<1> QED
  BY <1>7, <1>8, <1>9, <1>10

-----------------------------------------------------------------------------
(* What is serialized are bytes                                            *)

LEMMA ConcatBytes ==
  ASSUME NEW S, NEW s \in Seq(S), NEW t \in Seq(S)
  PROVE  s \o t \in Seq(S) /\ Len(s \o t) = Len(s) + Len(t) /\ Len(s) \in Nat /\ Len(t) \in Nat
OBVIOUS

LEMMA WordBytes ==
  ASSUME NEW n \in Uint16
  PROVE  Word(n) \in Seq(Byte) /\ Len(Word(n)) = 2
<1>1. n \in Nat /\ n <= 65535
  BY SMT DEF Uint16
<1>2. n \div 256 \in Byte /\ n % 256 \in Byte
  BY <1>1, SMT DEF Byte
<1>3. PICK x \in Byte, y \in Byte : Word(n) = <<x, y>>
  BY <1>2 DEF Word
<1> QED
  BY <1>3

LEMMA EncodedBytes ==
  ASSUME NEW s \in Bytes16
  PROVE  /\ Encoded(s) \in Seq(Byte) /\ Len(Encoded(s)) = Len(s) + 2
         /\ s \in Seq(Byte) /\ Len(s) \in Uint16 /\ Len(s) \in Nat
<1>1. s \in Seq(Byte) /\ Len(s) \in Uint16 /\ Len(s) \in Nat
  BY DEF Bytes16
<1>2. PICK w \in Seq(Byte) : w = Word(Len(s)) /\ Len(w) = 2
  BY <1>1, WordBytes
<1>3. w \o s \in Seq(Byte) /\ Len(w \o s) = Len(s) + 2
  <2>1. w \o s \in Seq(Byte) /\ Len(w \o s) = Len(w) + Len(s)
    BY <1>1, ConcatBytes
  <2>2. Len(w \o s) = Len(s) + 2
    BY ONLY <1>1, <1>2, <2>1
  <2> QED
    BY <2>1, <2>2
<1> QED
  BY <1>1, <1>2, <1>3 DEF Encoded

LEMMA ConnectBytes ==
  ASSUME NEW p, p.protocol \in Bytes16, p.level \in Byte, p.flags \in Byte, p.keep_alive \in Uint16,
         p.payload \in Seq(Bytes16)
  PROVE  /\ SerializeConnect(p) \in Seq(Byte)
         /\ [k \in DOMAIN p.payload |-> Encoded(p.payload[k])] \in Seq(Seq(Byte))
<1>1. PICK s \in Seq(Byte) : s = Encoded(p.protocol)
  BY EncodedBytes
<1>2. PICK t \in Seq(Byte) : t = <<p.level, p.flags>>
  <2>1. PICK x \in Byte, y \in Byte : x = p.level /\ y = p.flags
    OBVIOUS
  <2>2. <<x, y>> \in Seq(Byte)
    OBVIOUS
  <2> QED
    BY <2>1, <2>2
<1>3. PICK w \in Seq(Byte) : w = Word(p.keep_alive)
  BY WordBytes
<1>4. PICK l : l = [k \in DOMAIN p.payload |-> Encoded(p.payload[k])]
  OBVIOUS
<1>5. l \in Seq(Seq(Byte))
  <2>1. PICK y \in Seq(Bytes16) : y = p.payload
    OBVIOUS
  <2>2. DOMAIN y = 1..Len(y) /\ Len(y) \in Nat /\ \A k \in 1..Len(y) : y[k] \in Bytes16
    OBVIOUS
  <2>3. l = [k \in 1..Len(y) |-> Encoded(y[k])]
    BY <1>4, <2>1, <2>2
  <2>4. \A k \in 1..Len(y) : Encoded(y[k]) \in Seq(Byte)
    BY <2>2, EncodedBytes
  <2> QED
    BY ONLY <2>2, <2>3, <2>4
<1>6. PICK f \in Seq(Byte) : f = FlattenSeq(l)
  BY <1>5, FlattenBytes
<1>7. s \o t \o w \o f \in Seq(Byte)
  OBVIOUS
<1> QED
  BY <1>1, <1>2, <1>3, <1>4, <1>5, <1>6, <1>7 DEF SerializeConnect

LEMMA PublishBytes ==
  ASSUME NEW p, p.topic \in Bytes16, p.qos \in 0..2, p.id \in Uint16, p.payload \in Seq(Byte)
  PROVE  SerializePublish(p) \in Seq(Byte)
<1>1. PICK s \in Seq(Byte) : s = Encoded(p.topic)
  BY EncodedBytes
<1>2. PICK t \in Seq(Byte) : t = If(p.qos > 0, Word(p.id))
  <2>1. Word(p.id) \in Seq(Byte) /\ <<>> \in Seq(Byte)
    BY WordBytes
  <2> QED
    BY <2>1 DEF If
<1>3. s \o t \o p.payload \in Seq(Byte)
  OBVIOUS
<1> QED
  BY <1>1, <1>2, <1>3 DEF SerializePublish

\* The filters as they follow each other.
Entries(p) ==
  [k \in DOMAIN p.filters |-> Encoded(p.filters[k]) \o If(p.type = SUBSCRIBE, <<p.qoses[k]>>)]

LEMMA FiltersBytes ==
  ASSUME NEW p, p.id \in Uint16, p.filters \in Seq(Bytes16),
         p.type = SUBSCRIBE => p.qoses \in Seq(0..2) /\ Len(p.qoses) = Len(p.filters)
  PROVE  /\ SerializeFilters(p) \in Seq(Byte)
         /\ Entries(p) \in Seq(Seq(Byte)) /\ Len(Entries(p)) = Len(p.filters)
<1>1. PICK y \in Seq(Bytes16) : y = p.filters
  OBVIOUS
<1>2. DOMAIN y = 1..Len(y) /\ Len(y) \in Nat /\ \A k \in 1..Len(y) : y[k] \in Bytes16
  OBVIOUS
<1>3. PICK e : e = [k \in 1..Len(y) |-> Encoded(y[k]) \o If(p.type = SUBSCRIBE, <<p.qoses[k]>>)]
  OBVIOUS
<1>4. ASSUME NEW k \in 1..Len(y)
      PROVE  e[k] \in Seq(Byte)
  <2>1. PICK s \in Seq(Byte) : s = Encoded(y[k])
    BY <1>2, EncodedBytes
  <2>2. PICK t \in Seq(Byte) : t = If(p.type = SUBSCRIBE, <<p.qoses[k]>>)
    <3>1. CASE p.type = SUBSCRIBE
      <4>1. p.qoses[k] \in 0..2
        BY <1>1, <3>1
      <4>2. p.qoses[k] \in Byte
        BY <4>1 DEF Byte
      <4>3. <<p.qoses[k]>> \in Seq(Byte)
        BY <4>2
      <4> QED
        BY <3>1, <4>3 DEF If
    <3>2. CASE p.type # SUBSCRIBE
      <4>1. <<>> \in Seq(Byte)
        OBVIOUS
      <4> QED
        BY <3>2, <4>1 DEF If
    <3> QED
      BY <3>1, <3>2
  <2>3. s \o t \in Seq(Byte)
    OBVIOUS
  <2> QED
    BY <1>3, <2>1, <2>2, <2>3
<1>5. e \in Seq(Seq(Byte)) /\ Len(e) = Len(y)
  <2>1. e \in [1..Len(y) -> Seq(Byte)]
    BY <1>3, <1>4
  <2> QED
    BY ONLY <1>2, <2>1
<1>6. e = Entries(p)
  BY <1>1, <1>2, <1>3 DEF Entries
<1>7. PICK f \in Seq(Byte) : f = FlattenSeq(e)
  BY <1>5, FlattenBytes
<1>8. PICK w \in Seq(Byte) : w = Word(p.id)
  BY WordBytes
<1>9. w \o f \in Seq(Byte)
  OBVIOUS
<1> QED
  BY <1>1, <1>5, <1>6, <1>7, <1>8, <1>9 DEF SerializeFilters, Entries

LEMMA PacketKinds ==
  ASSUME NEW p \in PacketType
  PROVE  /\ p.type \in {Raw, CONNECT, PUBLISH, SUBSCRIBE, UNSUBSCRIBE, PINGREQ, DISCONNECT} \cup Acknowledgements
         /\ p.type = CONNECT =>
              p \in [type : {CONNECT}, protocol : Bytes16, level : Byte, flags : Byte, keep_alive : Uint16,
                     payload : Seq(Bytes16)]
         /\ p.type = PUBLISH =>
              p \in [type : {PUBLISH}, dup : BOOLEAN, qos : 0..2, retain : BOOLEAN, topic : Bytes16,
                     id : Uint16, payload : Seq(Byte)]
         /\ p.type = SUBSCRIBE =>
              /\ p \in [type : {SUBSCRIBE}, id : Uint16, filters : Seq(Bytes16), qoses : Seq(0..2)]
              /\ Len(p.qoses) = Len(p.filters)
         /\ p.type = UNSUBSCRIBE =>
              p \in [type : {UNSUBSCRIBE}, id : Uint16, filters : Seq(Bytes16), qoses : {<<>>}]
         /\ p.type \in Acknowledgements => p \in [type : Acknowledgements, id : Uint16]
         /\ p.type \in {PINGREQ, DISCONNECT} => p \in [type : {PINGREQ, DISCONNECT}]
         /\ p.type = Raw => p.bytes \in Seq(Byte)
BY DEF PacketType, Raw, CONNECT, PUBLISH, SUBSCRIBE, UNSUBSCRIBE, PINGREQ, DISCONNECT, Acknowledgements,
       PUBACK, PUBREC, PUBREL, PUBCOMP

LEMMA BodyBytes ==
  ASSUME NEW p \in PacketType, p.type # Raw
  PROVE  Body(p) \in Seq(Byte)
<1>0. /\ CONNECT = 1 /\ PUBLISH = 3 /\ SUBSCRIBE = 8 /\ UNSUBSCRIBE = 10
      /\ Acknowledgements = {4, 5, 6, 7} /\ PINGREQ = 12 /\ DISCONNECT = 14
  BY DEF CONNECT, PUBLISH, SUBSCRIBE, UNSUBSCRIBE, PINGREQ, DISCONNECT, Acknowledgements,
         PUBACK, PUBREC, PUBREL, PUBCOMP
<1>1. CASE p.type = CONNECT
  <2>1. Body(p) = SerializeConnect(p)
    BY <1>0, <1>1 DEF Body
  <2> QED
    BY <1>1, <2>1, PacketKinds, ConnectBytes
<1>2. CASE p.type = PUBLISH
  <2>1. Body(p) = SerializePublish(p)
    BY <1>0, <1>2 DEF Body
  <2> QED
    BY <1>2, <2>1, PacketKinds, PublishBytes
<1>3. CASE p.type \in {SUBSCRIBE, UNSUBSCRIBE}
  <2>1. Body(p) = SerializeFilters(p)
    BY <1>0, <1>3 DEF Body
  <2>2. /\ p.id \in Uint16 /\ p.filters \in Seq(Bytes16)
        /\ p.type = SUBSCRIBE => p.qoses \in Seq(0..2) /\ Len(p.qoses) = Len(p.filters)
    BY <1>0, <1>3, PacketKinds
  <2> QED
    BY <2>1, <2>2, FiltersBytes
<1>4. CASE p.type \in Acknowledgements
  <2>1. Body(p) = Word(p.id)
    BY <1>0, <1>4 DEF Body
  <2>2. p.id \in Uint16
    BY <1>4, PacketKinds
  <2> QED
    BY <2>1, <2>2, WordBytes
<1>5. CASE p.type \in {PINGREQ, DISCONNECT}
  <2>1. Body(p) = <<>>
    BY <1>0, <1>5 DEF Body
  <2> QED
    BY <2>1
<1> QED
  BY <1>1, <1>2, <1>3, <1>4, <1>5, PacketKinds

LEMMA FlagsRange ==
  ASSUME NEW p \in PacketType, p.type # Raw
  PROVE  /\ p.type \in 1..14 /\ Flags(p) \in 0..15
         /\ p.type = PUBLISH => p.dup \in BOOLEAN /\ p.qos \in 0..2 /\ p.retain \in BOOLEAN
<1>1. p.type = PUBLISH => p.dup \in BOOLEAN /\ p.qos \in 0..2 /\ p.retain \in BOOLEAN
  BY PacketKinds
<1>2. p.type \in 1..14
  BY PacketKinds DEF CONNECT, PUBLISH, SUBSCRIBE, UNSUBSCRIBE, PINGREQ, DISCONNECT, Acknowledgements,
         PUBACK, PUBREC, PUBREL, PUBCOMP
<1>3. Flags(p) \in 0..15
  <2>1. CASE p.type = PUBLISH
    <3>1. Flags(p) = Bit(p.dup, 8) + 2 * p.qos + Bit(p.retain, 1)
      BY <2>1 DEF Flags, PUBLISH, PUBREL, SUBSCRIBE, UNSUBSCRIBE
    <3>2. Bit(p.dup, 8) \in {0, 8} /\ Bit(p.retain, 1) \in {0, 1} /\ p.qos \in 0..2
      BY <1>1, <2>1 DEF Bit
    <3> QED
      BY <3>1, <3>2
  <2>2. CASE p.type # PUBLISH
    BY <2>2 DEF Flags
  <2> QED
    BY <2>1, <2>2
<1> QED
  BY <1>1, <1>2, <1>3

LEMMA SerializedBytes ==
  ASSUME NEW p \in PacketType
  PROVE  Serialize(p) \in Seq(Byte)
<1>1. CASE p.type = Raw
  BY <1>1, PacketKinds DEF Serialize
<1>2. CASE p.type # Raw
  <2>1. PICK t \in 1..14, f \in 0..15 : t = p.type /\ f = Flags(p)
    BY <1>2, FlagsRange
  <2>2. PICK x \in Byte : x = 16 * t + f
    BY DEF Byte
  <2>3. PICK y \in Seq(Byte) : y = Body(p)
    BY <1>2, BodyBytes
  <2>4. PICK e \in Seq(Byte) : e = EncodeLength[Len(y)]
    <3>1. Len(y) \in Nat
      OBVIOUS
    <3> QED
      BY <3>1, EncodedLength
  <2>5. <<x>> \o e \o y \in Seq(Byte)
    OBVIOUS
  <2> QED
    BY <1>2, <2>1, <2>2, <2>3, <2>4, <2>5 DEF Serialize
<1> QED
  BY <1>1, <1>2

LEMMA Serialized ==
  ASSUME NEW ps \in Seq(PacketType)
  PROVE  /\ [k \in DOMAIN ps |-> Serialize(ps[k])] \in Seq(Seq(Byte))
         /\ Len([k \in DOMAIN ps |-> Serialize(ps[k])]) = Len(ps)
<1>1. DOMAIN ps = 1..Len(ps) /\ Len(ps) \in Nat /\ \A k \in 1..Len(ps) : ps[k] \in PacketType
  OBVIOUS
<1>2. \A k \in 1..Len(ps) : Serialize(ps[k]) \in Seq(Byte)
  BY <1>1, SerializedBytes
<1>3. PICK l : l = [k \in 1..Len(ps) |-> Serialize(ps[k])]
  OBVIOUS
<1>4. l \in [1..Len(ps) -> Seq(Byte)]
  BY <1>2, <1>3
<1>5. l \in Seq(Seq(Byte)) /\ Len(l) = Len(ps)
  BY ONLY <1>1, <1>4
<1> QED
  BY <1>1, <1>3, <1>5

LEMMA StreamBytes ==
  ASSUME NEW ps \in Seq(PacketType)
  PROVE  StreamOf(ps) \in Seq(Byte)
BY Serialized, FlattenBytes DEF StreamOf

-----------------------------------------------------------------------------
(* A parser reads something, and never past the end of the streambuf       *)

LEMMA ByteRange == \A x \in Byte : x \in Nat /\ x <= 255
BY SMT DEF Byte

LEMMA Nibbles ==
  ASSUME NEW x \in Nat, x <= 255
  PROVE  x \div 16 \in 0..15 /\ x % 16 \in 0..15
<1>1. x \div 16 \in Nat /\ x % 16 \in Nat /\ x % 16 <= 15
  BY SMT
<1>2. x \div 16 <= 15
  BY SMT
<1> QED
  BY <1>1, <1>2, SMT

LEMMA ConnectKinds ==
  ASSUME NEW flags
  PROVE  /\ ConnectFields(flags) \in Seq({"string", "binary"})
         /\ Len(ConnectFields(flags)) \in Nat
<1> DEFINE S == {"string", "binary"}
<1>0. /\ <<>> \in Seq(S) /\ <<"string", "binary">> \in Seq(S)
      /\ <<"string">> \in Seq(S) /\ <<"binary">> \in Seq(S)
  OBVIOUS
<1> HIDE DEF S
<1>1. PICK u \in Seq(S) : u = If((flags \div 4) % 2 = 1, <<"string", "binary">>)
  BY <1>0 DEF If
<1>2. PICK v \in Seq(S) : v = If((flags \div 128) % 2 = 1, <<"string">>)
  BY <1>0 DEF If
<1>3. PICK w \in Seq(S) : w = If((flags \div 64) % 2 = 1, <<"binary">>)
  BY <1>0 DEF If
<1>4. ConnectFields(flags) = <<"string">> \o u \o v \o w
  BY <1>1, <1>2, <1>3 DEF ConnectFields
<1>5. PICK t \in Seq(S) : t = <<"string">>
  BY <1>0
<1>6. t \o u \o v \o w \in Seq(S) /\ Len(t \o u \o v \o w) \in Nat
  OBVIOUS
<1> QED
  BY <1>4, <1>5, <1>6 DEF S

LEMMA ConnectRead ==
  ASSUME NEW b \in Seq(Byte), NEW p \in 1..Len(b), NEW r \in ParseConnect(b, p)
  PROVE  r.at \in 1..Len(b)
<1>1. PICK s \in decode_string(b, p) :
        /\ Has(b, s.at, 4) /\ ConnectFlagsOk(b[s.at + 2])
        /\ \E x \in ParseFields(b, s.at + 4, ConnectFields(b[s.at + 2])) : r.at = x.at
  BY DEF ParseConnect
<1>2. PICK kinds : kinds = ConnectFields(b[s.at + 2])
  OBVIOUS
<1>3. kinds \in Seq({"string", "binary"})
  BY <1>2, ConnectKinds
<1>4. s.at \in (p + 2)..Len(b) /\ p \in Nat /\ Len(b) \in Nat
  BY StringRead
<1>5. PICK q \in 0..Len(b) : q = s.at + 4 /\ q >= 1
  BY <1>1, <1>4 DEF Has
<1>6. PICK x \in ParseFields(b, q, kinds) : r.at = x.at
  BY <1>1, <1>2, <1>5
<1>7. PICK f \in [0..Len(kinds) -> SUBSET Texts(b, q)] : ParseFields(b, q, kinds) = f[Len(kinds)]
  BY <1>3, FieldsFunction
<1>8. Len(kinds) \in 0..Len(kinds)
  BY <1>3
<1>9. x \in Texts(b, q)
  BY <1>6, <1>7, <1>8
<1> QED
  BY <1>4, <1>5, <1>6, <1>9 DEF Texts

LEMMA PublishRead ==
  ASSUME NEW b \in Seq(Byte), NEW p \in 1..Len(b), NEW flags \in 0..15, NEW length \in Nat,
         NEW r \in ParsePublish(b, p, flags, length)
  PROVE  r.at \in 1..Len(b)
<1>1. PICK q : q = (flags \div 2) % 4
  OBVIOUS
<1>2. PICK s \in decode_string(b, p) :
        /\ PayloadLength(length, s.text, q) >= 0
        /\ Has(b, s.at + Bit(q > 0, 2), PayloadLength(length, s.text, q))
        /\ r.at = s.at + Bit(q > 0, 2) + PayloadLength(length, s.text, q)
  BY <1>1 DEF ParsePublish
<1>3. s.at \in (p + 2)..Len(b) /\ p \in Nat /\ Len(b) \in Nat /\ s.text \in Seq(Byte) /\ Len(s.text) \in Nat
  BY StringRead
<1>4. Bit(q > 0, 2) \in {0, 2}
  BY DEF Bit
<1>5. PICK z \in Int : z = PayloadLength(length, s.text, q)
  BY <1>3, <1>4 DEF PayloadLength
<1> QED
  BY <1>2, <1>3, <1>4, <1>5 DEF Has

LEMMA FiltersRead ==
  ASSUME NEW b \in Seq(Byte), NEW p \in 1..Len(b), NEW type, NEW length \in Nat,
         NEW r \in ParseFilters(b, p, type, length)
  PROVE  r.at \in 1..Len(b)
<1>1. PICK f \in [1..Len(b) -> [Int -> SUBSET Lists(b)]] :
        \A q, n : ParseFilters(b, q, type, n) = FiltersPacket(b, type, f, q, n)
  BY FiltersFunction
<1>2. Has(b, p, 2) /\ \E x \in f[p + 2][length - 2] : r.at = x.at
  BY <1>1 DEF FiltersPacket
<1>3. p + 2 \in 1..Len(b) /\ length - 2 \in Int
  BY <1>2 DEF Has
<1>4. f[p + 2][length - 2] \subseteq Lists(b)
  BY <1>3
<1> QED
  BY <1>2, <1>4 DEF Lists

LEMMA PacketRead ==
  ASSUME NEW b \in Seq(Byte), NEW r \in Packet(b)
  PROVE  r.at \in 1..Len(b)
<1>1. PICK h \in Header(b) : r \in Parse(b, h.at, b[1] \div 16, b[1] % 16, h.length)
  BY DEF Packet
<1>2. PICK n \in Digits(b) : h.at = n + 1 /\
        h.length = (IF 1 <= n THEN b[2] % 128 ELSE 0) + 128 * (IF 2 <= n THEN b[3] % 128 ELSE 0)
                   + 16384 * (IF 3 <= n THEN b[4] % 128 ELSE 0)
  BY <1>1 DEF Header, decode_remaining_length
<1>3. n \in 1..3 /\ 1 + n <= Len(b) /\ Len(b) \in Nat
  BY DEF Digits, Has
<1>4. PICK p \in 1..Len(b) : p = h.at
  BY <1>2, <1>3
<1>5. \A k \in 1..Len(b) : b[k] \in Nat /\ b[k] <= 255
  BY ByteRange
<1>6. PICK length \in Nat : length = h.length
  <2>1. (IF 1 <= n THEN b[2] % 128 ELSE 0) \in Nat
    BY <1>3, <1>5
  <2>2. (IF 2 <= n THEN b[3] % 128 ELSE 0) \in Nat
    BY <1>3, <1>5
  <2>3. (IF 3 <= n THEN b[4] % 128 ELSE 0) \in Nat
    BY <1>3, <1>5
  <2> QED
    BY <1>2, <2>1, <2>2, <2>3
<1>7. PICK type, flags \in 0..15 : type = b[1] \div 16 /\ flags = b[1] % 16
  <2>1. PICK x \in Nat : x = b[1] /\ x <= 255
    BY <1>3, <1>5
  <2>2. x \div 16 \in 0..15 /\ x % 16 \in 0..15
    BY <2>1, Nibbles
  <2> QED
    BY <2>1, <2>2
<1>8. r \in Parse(b, p, type, flags, length)
  BY <1>1, <1>4, <1>6, <1>7
<1>9. \/ r \in ParseConnect(b, p)
      \/ r \in ParsePublish(b, p, flags, length)
      \/ r \in ParseFilters(b, p, SUBSCRIBE, length)
      \/ r \in ParseFilters(b, p, UNSUBSCRIBE, length)
      \/ Has(b, p, 2) /\ r.at = p + 2
      \/ r.at = p
  BY <1>8 DEF Parse, ParseSubscribe, ParseUnsubscribe, AckEnd
<1>10. Has(b, p, 2) /\ r.at = p + 2 => r.at \in 1..Len(b)
  BY <1>3 DEF Has
<1> QED
  BY <1>9, <1>10, ConnectRead, PublishRead, FiltersRead

-----------------------------------------------------------------------------
(* The channel                                                             *)

LEMMA TypeInit ==
  ASSUME Init
  PROVE  TypeOK
<1>1. packets \in Seq(PacketType)
  BY ScriptAssumption DEF Init
<1>2. Stream \in Seq(Byte)
  BY <1>1, StreamBytes DEF Stream
<1>3. Len(Stream) \in Nat
  BY <1>2
<1> QED
  BY <1>3 DEF Init, TypeOK

\* The streambuf, and what is read of it.
LEMMA StreambufBytes ==
  ASSUME TypeOK
  PROVE  /\ SubSeq(Stream, read + 1, arrived) \in Seq(Byte)
         /\ Len(SubSeq(Stream, read + 1, arrived)) = arrived - read
         /\ \A i \in 1..(arrived - read) : SubSeq(Stream, read + 1, arrived)[i] = Stream[read + i]
         /\ packets \in Seq(PacketType) /\ Stream \in Seq(Byte)
<1>1. packets \in Seq(PacketType)
  BY ScriptAssumption DEF TypeOK
<1>2. PICK s \in Seq(Byte) : s = Stream
  BY <1>1, StreamBytes DEF Stream
<1>3. PICK m \in Nat, n \in Nat : m = read /\ n = arrived /\ m <= n /\ n <= Len(s)
  BY <1>2 DEF TypeOK
<1>4. \A i \in (m + 1)..n : s[i] \in Byte
  BY <1>3
<1>5. SubSeq(s, m + 1, n) \in Seq(Byte) /\ Len(SubSeq(s, m + 1, n)) = n - m
  BY <1>3, <1>4
<1>6. \A i \in 1..(n - m) : SubSeq(s, m + 1, n)[i] = s[m + i]
  BY <1>3
<1> QED
  BY <1>1, <1>2, <1>3, <1>5, <1>6

LEMMA TypeNext ==
  ASSUME TypeOK, [Next]_vars
  PROVE  TypeOK'
<1>0. Stream \in Seq(Byte) /\ Len(Stream) \in Nat
  BY StreambufBytes
<1>1. CASE UNCHANGED vars
  BY <1>1 DEF vars, TypeOK, Stream
<1>2. ASSUME NEW n \in 1..(Len(Stream) - arrived), SegmentArrives(n)
      PROVE  TypeOK'
  <2>1. Stream' = Stream
    BY <1>2 DEF SegmentArrives, Stream
  <2>2. arrived' = arrived + n /\ waiting' = FALSE /\ UNCHANGED <<packets, read, open, handed>>
    BY <1>2 DEF SegmentArrives
  <2>3. arrived \in Nat /\ arrived' \in 0..Len(Stream) /\ read' \in 0..arrived'
    BY <1>0, <2>2 DEF TypeOK
  <2> QED
    BY <2>1, <2>2, <2>3 DEF TypeOK
<1>3. CASE channel_read
  <2>1. PICK b \in Seq(Byte) : b = SubSeq(Stream, read + 1, arrived) /\ Len(b) = arrived - read
    BY StreambufBytes
  <2>2. Stream' = Stream /\ packets' = packets /\ arrived' = arrived /\ open
    BY <1>3 DEF channel_read, Stream
  <2>3. CASE UNCHANGED <<read, handed>>
    BY <1>3, <2>2, <2>3 DEF channel_read, TypeOK
  <2>4. ASSUME NEW r \in Packet(b), read' = read + r.at, handed' = Append(handed, r.packet),
               waiting' = (read' = arrived), open' = open
        PROVE  TypeOK'
    <3>1. r.at \in 1..Len(b)
      BY PacketRead
    <3>2. read' \in 0..arrived
      BY <2>1, <2>4, <3>1 DEF TypeOK
    <3> QED
      BY <2>2, <2>4, <3>1, <3>2 DEF TypeOK
  <2> QED
    BY <1>3, <2>1, <2>3, <2>4 DEF channel_read
<1> QED
  BY <1>1, <1>2, <1>3 DEF Next

\* The codec never reads past what has arrived, and what it hands on it has read,
\* whatever bytes the client sends and wherever they are cut.
THEOREM TypeCorrect == FairSpec => []TypeOK
<1>1. TypeOK /\ [Next]_vars => TypeOK'
  BY TypeNext
<1>2. Init => TypeOK
  BY TypeInit
<1> QED
  BY <1>1, <1>2, PTL DEF FairSpec

-----------------------------------------------------------------------------
(* Words, strings and lists of them are read as they were written          *)

LEMMA WordHeld ==
  ASSUME NEW b \in Seq(Byte), NEW p \in Nat, NEW n \in Uint16, Holds(b, p, Word(n))
  PROVE  Has(b, p, 2) /\ WordAt(b, p) = n
<1>1. n \in Nat
  BY SMT DEF Uint16
<1>2. PICK x, y : x = n \div 256 /\ y = n % 256
  OBVIOUS
<1>3. 256 * x + y = n
  BY <1>1, <1>2, SMT
<1>4. p + 2 <= Len(b) /\ b[p + 1] = x /\ b[p + 2] = y
  <2>1. PICK w : w = <<x, y>>
    OBVIOUS
  <2>2. Len(w) = 2 /\ w[1] = x /\ w[2] = y
    BY <2>1
  <2>3. Holds(b, p, w)
    BY <1>2, <2>1 DEF Word
  <2> QED
    BY <2>2, <2>3 DEF Holds
<1> QED
  BY <1>3, <1>4 DEF Has, WordAt

LEMMA BinaryHeld ==
  ASSUME NEW b \in Seq(Byte), NEW p \in Nat, NEW s \in Bytes16, Holds(b, p, Encoded(s))
  PROVE  decode_binary(b, p) = {[at |-> p + 2 + Len(s), text |-> s]}
<1>1. s \in Seq(Byte) /\ Len(s) \in Uint16 /\ Len(s) \in Nat
  BY EncodedBytes
<1>2. PICK w \in Seq(Byte) : w = Word(Len(s)) /\ Len(w) = 2
  BY <1>1, WordBytes
<1>3. Holds(b, p, w) /\ Holds(b, p + 2, s)
  <2>1. Holds(b, p, w \o s)
    BY <1>2 DEF Encoded
  <2>2. Holds(b, p, w) /\ Holds(b, p + Len(w), s)
    BY <1>1, <2>1, HoldsConcat
  <2> QED
    BY <1>2, <2>2
<1>4. Has(b, p, 2) /\ WordAt(b, p) = Len(s)
  BY <1>1, <1>2, <1>3, WordHeld
<1>5. PICK q \in Nat : q = p + 2
  OBVIOUS
<1>6. SubSeq(b, q + 1, q + Len(s)) = s /\ q + Len(s) <= Len(b)
  BY <1>1, <1>3, <1>5, HoldsSubSeq DEF Holds
<1>7. q + 1 = p + 3
  BY <1>5
<1> QED
  BY <1>4, <1>5, <1>6, <1>7 DEF decode_binary

LEMMA LeadByte ==
  ASSUME NEW x \in 1..247
  PROVE  x \in Int /\ x >= 1 /\ x <= 247
BY SMT

\* The bytes of s from k on.
From(s, k) == SubSeq(s, k, Len(s))

LEMMA FromSplit ==
  ASSUME NEW S, NEW s \in Seq(S), NEW k \in 1..Len(s), NEW m \in (k + 1)..(Len(s) + 1)
  PROVE  From(s, k) = SubSeq(s, k, m - 1) \o From(s, m)
<1>1. PICK n \in Nat : n = Len(s)
  OBVIOUS
<1>2. \A i \in 1..n : s[i] \in S
  BY <1>1
<1>3. PICK u : u = SubSeq(s, k, m - 1)
  OBVIOUS
<1>4. u \in Seq(S) /\ Len(u) = m - k /\ \A i \in 1..(m - k) : u[i] = s[k + i - 1]
  <2>1. \A i \in k..(m - 1) : i \in 1..n
    BY <1>1
  <2> QED
    BY <1>1, <1>2, <1>3, <2>1
<1>5. PICK v : v = From(s, m)
  OBVIOUS
<1>6. v \in Seq(S) /\ Len(v) = n + 1 - m /\ \A i \in 1..(n + 1 - m) : v[i] = s[m + i - 1]
  <2>1. \A i \in m..n : i \in 1..n
    BY <1>1
  <2> QED
    BY <1>1, <1>2, <1>5, <2>1 DEF From
<1>7. PICK t : t = From(s, k)
  OBVIOUS
<1>8. t \in Seq(S) /\ Len(t) = n + 1 - k /\ \A i \in 1..(n + 1 - k) : t[i] = s[k + i - 1]
  <2>1. \A i \in k..n : i \in 1..n
    BY <1>1
  <2> QED
    BY <1>1, <1>2, <1>7, <2>1 DEF From
<1>9. PICK z : z = u \o v
  OBVIOUS
<1>10. z \in Seq(S) /\ Len(z) = n + 1 - k
  <2>1. Len(z) = Len(u) + Len(v) /\ z \in Seq(S)
    BY <1>4, <1>6, <1>9, ConcatBytes
  <2>2. (m - k) + (n + 1 - m) = n + 1 - k
    BY <1>1
  <2> QED
    BY <1>4, <1>6, <2>1, <2>2
<1>11. ASSUME NEW i \in 1..(n + 1 - k)
       PROVE  z[i] = t[i]
  <2>1. z[i] = IF i <= m - k THEN u[i] ELSE v[i - (m - k)]
    BY <1>4, <1>6, <1>9, <1>10
  <2>2. CASE i <= m - k
    BY <1>4, <1>8, <2>1, <2>2
  <2>3. CASE ~(i <= m - k)
    <3>1. i - (m - k) \in 1..(n + 1 - m) /\ m + (i - (m - k)) - 1 = k + i - 1
      BY <1>1, <2>3
    <3> QED
      BY <1>6, <1>8, <2>1, <2>3, <3>1
  <2> QED
    BY <2>2, <2>3
<1>12. z = t
  BY <1>8, <1>10, <1>11
<1> QED
  BY <1>3, <1>5, <1>7, <1>9, <1>12

LEMMA TextKept ==
  ASSUME NEW s \in Seq(Byte), IsText(s)
  PROVE  Characters(s) = {s}
<1>1. PICK n \in Nat : n = Len(s)
  OBVIOUS
<1>2. PICK starts \in SUBSET (1..n) :
        /\ s # <<>> => 1 \in starts
        /\ \A k \in starts : /\ s[k] \in 1..247
                             /\ k + Width(s[k]) \in starts \cup {n + 1}
                             /\ s[k] = 237 => s[k + 1] < 160
  BY <1>1 DEF IsText
<1>3. PICK g \in [1..(n + 1) -> SUBSET Seq(Byte)] :
        /\ g = [k \in 1..(n + 1) |->
                  IF k = n + 1 THEN {<<>>}
                  ELSE IF IllFormed(s, k) THEN {}
                  ELSE {If(s[k] <= 247, SubSeq(s, k, k + Width(s[k]) - 1)) \o t : t \in g[k + Width(s[k])]}]
        /\ Characters(s) = g[1]
  BY <1>1, CharactersFunction
<1>4. From(s, n + 1) = <<>>
  BY <1>1 DEF From
<1> DEFINE Good == {k \in starts \cup {n + 1} : g[k] = {From(s, k)}}
<1>5. \A k \in starts \cup {n + 1} : k \in Good
  <2> DEFINE T == {j \in Nat : \E k \in starts \cup {n + 1} : j = n + 1 - k /\ k \notin Good}
  <2>1. \A k \in starts \cup {n + 1} : n + 1 - k \in Nat /\ k \in Nat /\ k \in 1..(n + 1)
    OBVIOUS
  <2> HIDE DEF Good
  <2>2. SUFFICES ASSUME T # {}
                 PROVE  FALSE
    BY <2>1
  <2>3. PICK j \in T : \A i \in T : j <= i
    BY <2>2, LeastNat
  <2>4. PICK k \in starts \cup {n + 1} : j = n + 1 - k /\ k \notin Good
    BY <2>3
  <2>5. k # n + 1
    <3>1. g[n + 1] = {<<>>}
      BY <1>3
    <3> QED
      BY <1>4, <2>4, <3>1 DEF Good
  <2>6. k \in starts /\ k \in 1..n /\ s[k] \in Byte /\ s[k] \in 1..247
    BY <1>1, <1>2, <2>4, <2>5
  <2> PICK x \in Int : x = s[k] /\ x >= 1 /\ x <= 247
    <3>1. s[k] \in Int /\ s[k] >= 1 /\ s[k] <= 247
      BY <2>6, LeadByte
    <3> QED
      BY <3>1
  <2>7. PICK m \in starts \cup {n + 1} : m = k + Width(s[k]) /\ Width(s[k]) \in 1..4 /\ k \in Nat /\ m > k
    BY <1>2, <2>6 DEF Width
  <2>8. m \in Good
    <3>1. n + 1 - m < j /\ n + 1 - m \in Nat
      BY <2>1, <2>4, <2>7
    <3>2. m \notin Good => n + 1 - m \in T
      BY <3>1
    <3>3. n + 1 - m \notin T
      <4>1. PICK i \in Nat : i = n + 1 - m /\ i < j
        BY <3>1
      <4>2. j \in Nat /\ (i \in T => j <= i)
        BY <2>3
      <4> QED
        BY <4>1, <4>2
    <3> QED
      BY <3>2, <3>3
  <2>9. ~IllFormed(s, k)
    <3>1. k + Width(s[k]) <= n + 1
      BY <2>1, <2>7
    <3>2. s[k] # 0
      OBVIOUS
    <3>3. ~(s[k] = 237 /\ s[k + 1] >= 160)
      <4>1. SUFFICES ASSUME s[k] = 237
                     PROVE  ~(s[k + 1] >= 160)
        OBVIOUS
      <4>2. Width(s[k]) = 3
        BY <4>1 DEF Width
      <4>3. k + 1 \in 1..n
        BY <2>6, <3>1, <4>2
      <4>4. s[k + 1] < 160 /\ s[k + 1] \in Nat
        BY <1>1, <1>2, <2>6, <4>1, <4>3, ByteRange
      <4> QED
        BY <4>4
    <3> QED
      BY <1>1, <2>7, <3>1, <3>2, <3>3 DEF IllFormed
  <2>10. g[k] = {SubSeq(s, k, m - 1) \o t : t \in g[m]}
    <3>1. s[k] <= 247 /\ k \in 1..(n + 1)
      BY <1>1, <2>1, <2>6
    <3>2. If(s[k] <= 247, SubSeq(s, k, m - 1)) = SubSeq(s, k, m - 1)
      BY <3>1 DEF If
    <3>3. k + Width(s[k]) = m
      BY <2>7
    <3>4. g[k] = {If(s[k] <= 247, SubSeq(s, k, k + Width(s[k]) - 1)) \o t : t \in g[k + Width(s[k])]}
      BY <1>3, <2>5, <2>9, <3>1
    <3>5. PICK c : c = If(s[k] <= 247, SubSeq(s, k, k + Width(s[k]) - 1))
      OBVIOUS
    <3>6. c = SubSeq(s, k, m - 1)
      <4>1. k + Width(s[k]) - 1 = m - 1
        BY <2>7
      <4>2. c = SubSeq(s, k, k + Width(s[k]) - 1)
        BY <3>1, <3>5 DEF If
      <4> QED
        BY ONLY <4>1, <4>2
    <3>7. g[k] = {c \o t : t \in g[m]}
      BY <3>3, <3>4, <3>5
    <3> QED
      BY <3>6, <3>7
  <2>11. g[m] = {From(s, m)}
    BY <2>8 DEF Good
  <2>12. SubSeq(s, k, m - 1) \o From(s, m) = From(s, k)
    <3>1. k \in 1..Len(s) /\ m \in (k + 1)..(Len(s) + 1)
      BY <1>1, <2>1, <2>6, <2>7
    <3> QED
      BY <3>1, FromSplit
  <2>13. g[k] = {From(s, k)}
    <3>1. PICK u, v : u = SubSeq(s, k, m - 1) /\ v = From(s, m)
      OBVIOUS
    <3>2. {u \o t : t \in {v}} = {u \o v}
      OBVIOUS
    <3> QED
      BY <2>10, <2>11, <2>12, <3>1, <3>2
  <2> QED
    BY <2>4, <2>13 DEF Good
<1>6. 1 \in starts \cup {n + 1}
  <2>1. s = <<>> => n = 0
    BY <1>1
  <2> QED
    BY <1>2, <2>1
<1>7. From(s, 1) = s
  BY DEF From
<1> QED
  BY <1>3, <1>5, <1>6, <1>7

LEMMA StringHeld ==
  ASSUME NEW b \in Seq(Byte), NEW p \in Nat, NEW s \in Bytes16, IsText(s), Holds(b, p, Encoded(s))
  PROVE  decode_string(b, p) = {[at |-> p + 2 + Len(s), text |-> s]}
<1>1. decode_binary(b, p) = {[at |-> p + 2 + Len(s), text |-> s]}
  BY BinaryHeld
<1>2. Characters(s) = {s}
  BY EncodedBytes, TextKept
<1> QED
  BY <1>1, <1>2 DEF decode_string

\* The texts each with its length before it.
Fields(texts) == [k \in DOMAIN texts |-> Encoded(texts[k])]

LEMMA FieldPut ==
  ASSUME NEW b, NEW kind, NEW r, NEW at, NEW text,
         Field(b, r.at, kind) = {[at |-> at, text |-> text]}
  PROVE  AddField(b, {r}, kind) = {[at |-> at, texts |-> Append(r.texts, text)]}
<1>1. PICK x : x = [at |-> at, text |-> text]
  OBVIOUS
<1>2. AddField(b, {r}, kind) = {[at |-> s.at, texts |-> Append(r.texts, s.text)] : s \in Field(b, r.at, kind)}
  BY DEF AddField
<1>3. AddField(b, {r}, kind) = {[at |-> x.at, texts |-> Append(r.texts, x.text)]}
  BY <1>1, <1>2
<1> QED
  BY <1>1, <1>3

LEMMA FieldsHeld ==
  ASSUME NEW b \in Seq(Byte), NEW p \in Nat, NEW kinds \in Seq({"string", "binary"}),
         NEW texts \in Seq(Bytes16), Len(texts) = Len(kinds),
         \A k \in 1..Len(kinds) : kinds[k] = "string" => IsText(texts[k]),
         Holds(b, p, FlattenSeq(Fields(texts)))
  PROVE  ParseFields(b, p, kinds) = {[at |-> p + Len(FlattenSeq(Fields(texts))), texts |-> texts]}
<1>1. PICK n \in Nat : n = Len(kinds)
  OBVIOUS
<1>2. DOMAIN texts = 1..n /\ \A k \in 1..n : texts[k] \in Bytes16
  BY <1>1
<1>3. PICK ss : ss = Fields(texts)
  OBVIOUS
<1>4. (ss \in Seq(Seq(Byte)) /\ Len(ss) = n) /\ \A k \in 1..n : ss[k] = Encoded(texts[k])
  <2>1. \A k \in 1..n : Encoded(texts[k]) \in Seq(Byte)
    BY <1>2, EncodedBytes
  <2>2. ss = [k \in 1..n |-> Encoded(texts[k])]
    BY <1>2, <1>3 DEF Fields
  <2>3. ss \in [1..n -> Seq(Byte)]
    BY <2>1, <2>2
  <2> QED
    BY <2>2, <2>3
<1>5. Holds(b, p, FlattenSeq(ss))
  BY <1>3
<1>6. /\ Joined(ss, 0) = <<>> /\ Joined(ss, n) = FlattenSeq(ss)
      /\ \A k \in 0..n : Joined(ss, k) \in Seq(Byte)
  BY <1>4, JoinedStep
<1>7. ASSUME NEW k \in 1..n
      PROVE  /\ Holds(b, p + Len(Joined(ss, k - 1)), Encoded(texts[k]))
             /\ Len(Joined(ss, k)) = Len(Joined(ss, k - 1)) + (Len(texts[k]) + 2)
             /\ Len(Joined(ss, k - 1)) \in Nat /\ Len(texts[k]) \in Nat
  <2>1. Len(Encoded(texts[k])) = Len(texts[k]) + 2 /\ Len(texts[k]) \in Nat
    BY <1>2, EncodedBytes
  <2>2. k \in 1..Len(ss) /\ ss[k] = Encoded(texts[k])
    BY <1>4
  <2>3. /\ Holds(b, p + Len(Joined(ss, k - 1)), ss[k])
        /\ Len(Joined(ss, k)) = Len(Joined(ss, k - 1)) + Len(ss[k])
        /\ Len(Joined(ss, k - 1)) \in Nat
    <3>1. ss \in Seq(Seq(Byte))
      BY <1>4
    <3>2. PICK i \in 1..Len(ss) : i = k
      BY <2>2
    <3>3. /\ Holds(b, p + Len(Joined(ss, i - 1)), ss[i])
          /\ Len(Joined(ss, i)) = Len(Joined(ss, i - 1)) + Len(ss[i])
          /\ Len(Joined(ss, i - 1)) \in Nat
      BY <1>5, <3>1, HoldsJoined
    <3> QED
      BY <3>2, <3>3
  <2> QED
    BY <2>1, <2>2, <2>3
<1>8. p \in 0..Len(b)
  <2>1. Len(FlattenSeq(ss)) \in Nat
    BY <1>4, FlattenBytes
  <2> QED
    BY <1>5, <2>1 DEF Holds
<1>9. PICK f \in [0..n -> SUBSET Texts(b, p)] :
           /\ f[0] = {[at |-> p, texts |-> <<>>]}
           /\ \A k \in 1..n : f[k] = AddField(b, f[k - 1], kinds[k])
           /\ ParseFields(b, p, kinds) = f[n]
  BY <1>1, <1>8, FieldsFunction
<1> DEFINE Result(k) == [at |-> p + Len(Joined(ss, k)), texts |-> SubSeq(texts, 1, k)]
           Good == {k \in 0..n : f[k] = {Result(k)}}
<1>10. \A k \in 0..n : k \in Good
  <2> DEFINE T == {k \in Nat : k \in 0..n /\ k \notin Good}
  <2> HIDE DEF Good, Result
  <2>1. SUFFICES ASSUME T # {}
                 PROVE  FALSE
    OBVIOUS
  <2>2. PICK k \in T : \A i \in T : k <= i
    BY <2>1, LeastNat
  <2>3. k # 0
    <3>1. Result(0) = [at |-> p, texts |-> <<>>]
      <4>1. SubSeq(texts, 1, 0) = <<>> /\ Len(Joined(ss, 0)) = 0
        BY <1>6
      <4>2. p + Len(Joined(ss, 0)) = p
        <5>1. p + 0 = p
          OBVIOUS
        <5> QED
          BY ONLY <4>1, <5>1
      <4> QED
        BY <4>1, <4>2 DEF Result
    <3>2. 0 \in Good
      BY <1>9, <3>1 DEF Good
    <3> QED
      BY <2>2, <3>2
  <2>4. PICK j \in 0..n : j = k - 1 /\ j < k /\ j \in Nat /\ k \in 1..n
    BY <2>2, <2>3
  <2>5. f[j] = {Result(j)}
    <3>1. j \in Good
      BY <2>2, <2>4
    <3> QED
      BY <3>1 DEF Good
  <2>6. PICK q \in Nat : q = p + Len(Joined(ss, j)) /\ q = Result(j).at
    BY <1>7, <2>4 DEF Result
  <2>7. PICK t \in Bytes16 : t = texts[k] /\ Len(t) \in Nat
    BY <1>2, <1>7, <2>4
  <2>8. Field(b, q, kinds[k]) = {[at |-> q + 2 + Len(t), text |-> t]}
    <3>1. Holds(b, q, Encoded(t))
      BY <1>7, <2>4, <2>6, <2>7
    <3>2. kinds[k] = "string" => IsText(t)
      BY <1>1, <2>4, <2>7
    <3> QED
      BY <3>1, <3>2, BinaryHeld, StringHeld DEF Field
  <2>9. q + 2 + Len(t) = p + Len(Joined(ss, k))
    <3>1. PICK y \in Nat : y = Len(Joined(ss, j)) /\ Len(Joined(ss, k)) = y + (Len(t) + 2)
      BY <1>7, <2>4, <2>7
    <3>2. p + (y + (Len(t) + 2)) = (p + y) + 2 + Len(t)
      BY <2>7
    <3> QED
      BY <2>6, <3>1, <3>2
  <2>10. Append(SubSeq(texts, 1, j), t) = SubSeq(texts, 1, k)
    <3>1. PICK u : u = SubSeq(texts, 1, j)
      OBVIOUS
    <3>2. PICK v : v = SubSeq(texts, 1, k)
      OBVIOUS
    <3>3. u \in Seq(Bytes16) /\ Len(u) = j /\ \A i \in 1..j : u[i] = texts[i]
      BY <1>1, <2>4, <3>1, FirstElements
    <3>4. v \in Seq(Bytes16) /\ Len(v) = k /\ \A i \in 1..k : v[i] = texts[i]
      BY <1>1, <2>4, <3>2, FirstElements
    <3>5. Append(u, t) \in Seq(Bytes16) /\ Len(Append(u, t)) = k
      BY <2>4, <3>3
    <3>6. \A i \in 1..k : Append(u, t)[i] = v[i]
      <4>1. ASSUME NEW i \in 1..k
            PROVE  Append(u, t)[i] = v[i]
        <5>1. Append(u, t)[i] = IF i <= j THEN u[i] ELSE t
          BY <2>4, <3>3
        <5>2. ~(i <= j) => i = k
          BY <2>4
        <5>3. i <= j => i \in 1..j
          OBVIOUS
        <5> QED
          BY <2>7, <3>3, <3>4, <5>1, <5>2, <5>3
      <4> QED
        BY <4>1
    <3>7. Append(u, t) = v
      BY ONLY <3>4, <3>5, <3>6
    <3> QED
      BY <3>1, <3>2, <3>7
  <2>11. f[k] = {[at |-> q + 2 + Len(t), texts |-> Append(SubSeq(texts, 1, j), t)]}
    <3>1. f[k] = AddField(b, {Result(j)}, kinds[k])
      BY <1>9, <2>4, <2>5
    <3>2. Result(j).texts = SubSeq(texts, 1, j)
      BY DEF Result
    <3>3. PICK r, a, kind : r = Result(j) /\ a = q + 2 + Len(t) /\ kind = kinds[k]
      OBVIOUS
    <3>4. Field(b, r.at, kind) = {[at |-> a, text |-> t]}
      BY <2>6, <2>8, <3>3
    <3>5. AddField(b, {r}, kind) = {[at |-> a, texts |-> Append(r.texts, t)]}
      BY ONLY <3>4, FieldPut
    <3>6. AddField(b, {Result(j)}, kinds[k])
          = {[at |-> q + 2 + Len(t), texts |-> Append(Result(j).texts, t)]}
      BY <3>3, <3>5
    <3> QED
      BY <3>1, <3>2, <3>6
  <2>12. f[k] = {Result(k)}
    BY <2>9, <2>10, <2>11 DEF Result
  <2> QED
    BY <2>2, <2>12 DEF Good
<1>11. SubSeq(texts, 1, n) = texts
  BY <1>1, FirstElements
<1>12. f[n] = {Result(n)}
  BY <1>10
<1> QED
  BY <1>3, <1>6, <1>9, <1>11, <1>12

-----------------------------------------------------------------------------
(* The parsers of the packets give what was serialized                     *)

LEMMA PublishFields ==
  ASSUME NEW p \in [type : {PUBLISH}, dup : BOOLEAN, qos : 0..2, retain : BOOLEAN, topic : Bytes16,
                    id : Uint16, payload : Seq(Byte)]
  PROVE  /\ p = [type |-> PUBLISH, dup |-> p.dup, qos |-> p.qos, retain |-> p.retain, topic |-> p.topic,
                 id |-> p.id, payload |-> p.payload]
         /\ p.type = PUBLISH /\ p.dup \in BOOLEAN /\ p.qos \in 0..2 /\ p.retain \in BOOLEAN
         /\ p.topic \in Bytes16 /\ p.id \in Uint16 /\ p.payload \in Seq(Byte)
OBVIOUS

LEMMA PublishFlags ==
  ASSUME NEW dup \in BOOLEAN, NEW qos \in 0..2, NEW retain \in BOOLEAN,
         NEW flags, flags = Bit(dup, 8) + 2 * qos + Bit(retain, 1)
  PROVE  /\ (flags >= 8) = dup /\ (flags \div 2) % 4 = qos /\ (flags % 2 = 1) = retain
         /\ flags \in 0..15 /\ (~dup => flags < 8)
<1>1. PICK x \in {0, 8}, y \in {0, 1} :
        flags = x + 2 * qos + y /\ (dup <=> x = 8) /\ (retain <=> y = 1)
  BY DEF Bit
<1>2. /\ (flags >= 8 <=> x = 8) /\ (flags \div 2) % 4 = qos /\ (flags % 2 = 1 <=> y = 1)
      /\ flags \in 0..15 /\ (x = 0 => flags < 8)
  BY <1>1, SMT
<1> QED
  BY <1>1, <1>2

LEMMA HoldsThree ==
  ASSUME NEW S, NEW b \in Seq(S), NEW p \in Nat, NEW s \in Seq(S), NEW t \in Seq(S), NEW u \in Seq(S),
         Holds(b, p, s \o t \o u)
  PROVE  /\ Holds(b, p, s) /\ Holds(b, p + Len(s), t) /\ Holds(b, p + Len(s) + Len(t), u)
         /\ Len(s \o t \o u) = Len(s) + Len(t) + Len(u)
         /\ p + Len(s) + Len(t) + Len(u) <= Len(b) /\ Len(b) \in Nat
<1>0. PICK m \in Nat, n \in Nat, k \in Nat : m = Len(s) /\ n = Len(t) /\ k = Len(u)
  <2>1. Len(s) \in Nat /\ Len(t) \in Nat /\ Len(u) \in Nat
    OBVIOUS
  <2> QED
    BY <2>1
<1>1. PICK v \in Seq(S) : v = s \o t /\ Len(v) = m + n
  BY <1>0, ConcatBytes
<1>2. Len(v \o u) = m + n + k
  BY <1>0, <1>1, ConcatBytes
<1>3. Holds(b, p, v \o u)
  BY <1>1
<1>4. Holds(b, p, v) /\ Holds(b, p + Len(v), u)
  BY <1>3, HoldsConcat
<1>5. Holds(b, p, s) /\ Holds(b, p + Len(s), t)
  BY <1>1, <1>4, HoldsConcat
<1>6. p + Len(v) = p + m + n /\ p + Len(s) = p + m /\ Len(b) \in Nat
  BY <1>0, <1>1
<1>7. p + m + n + k <= Len(b)
  <2>1. p + Len(v \o u) <= Len(b)
    BY <1>3 DEF Holds
  <2>2. p + (m + n + k) = p + m + n + k
    OBVIOUS
  <2> QED
    BY <1>2, <2>1, <2>2
<1>8. v \o u = s \o t \o u
  BY <1>1
<1> QED
  BY <1>0, <1>2, <1>4, <1>5, <1>6, <1>7, <1>8

LEMMA HoldsTwo ==
  ASSUME NEW b, NEW p \in Nat, NEW x, NEW y, Holds(b, p, <<x, y>>)
  PROVE  b[p + 1] = x /\ b[p + 2] = y
<1>1. PICK v : v = <<x, y>>
  OBVIOUS
<1>2. Len(v) = 2 /\ v[1] = x /\ v[2] = y
  BY <1>1
<1>3. \A k \in 1..2 : b[p + k] = v[k]
  BY <1>1, <1>2 DEF Holds
<1>4. 1 \in 1..2 /\ 2 \in 1..2
  OBVIOUS
<1> QED
  BY <1>2, <1>3, <1>4

\* What follows the topic name in a PUBLISH, and where it ends.
LEMMA PublishLayout ==
  ASSUME NEW b \in Seq(Byte), NEW q \in Nat, NEW w \in Seq(Byte),
         NEW t \in Bytes16, NEW load \in Seq(Byte),
         Holds(b, q, Encoded(t) \o w \o load)
  PROVE  \E lt \in Nat, lw \in Nat, ll \in Nat :
           /\ lt = Len(t) /\ lw = Len(w) /\ ll = Len(load)
           /\ Len(Encoded(t) \o w \o load) = lt + 2 + lw + ll
           /\ Holds(b, q, Encoded(t)) /\ Holds(b, q + 2 + lt, w)
           /\ SubSeq(b, q + 2 + lt + lw + 1, q + (lt + 2 + lw + ll)) = load
           /\ q + (lt + 2 + lw + ll) <= Len(b)
<1>1. PICK e \in Seq(Byte) : e = Encoded(t) /\ Len(e) = Len(t) + 2 /\ Len(t) \in Nat
  BY EncodedBytes
<1>2. Holds(b, q, e \o w \o load)
  BY <1>1
<1>3. /\ Holds(b, q, e) /\ Holds(b, q + Len(e), w) /\ Holds(b, q + Len(e) + Len(w), load)
      /\ Len(e \o w \o load) = Len(e) + Len(w) + Len(load) /\ q + Len(e) + Len(w) + Len(load) <= Len(b)
  BY <1>2, HoldsThree
<1>4. PICK lt \in Nat : lt = Len(t)
  BY <1>1
<1>5. PICK lw \in Nat : lw = Len(w)
  OBVIOUS
<1>6. PICK ll \in Nat : ll = Len(load)
  OBVIOUS
<1>7. PICK i \in Nat : i = q + 2 + lt
  OBVIOUS
<1>8. PICK n \in Nat : n = lt + 2 + lw + ll
  OBVIOUS
<1>9. q + Len(e) = i /\ q + Len(e) + Len(w) = i + lw
  BY <1>1, <1>4, <1>5, <1>7
<1>10. Len(e) + Len(w) + Len(load) = n /\ q + Len(e) + Len(w) + Len(load) = q + n
  BY <1>1, <1>4, <1>5, <1>6, <1>8
<1>11. PICK j \in Nat : j = i + lw
  OBVIOUS
<1>12. SubSeq(b, j + 1, j + Len(load)) = load
  BY <1>3, <1>9, <1>11, HoldsSubSeq
<1>13. j + Len(load) = q + n
  BY <1>6, <1>7, <1>8, <1>11
<1>14. n = lt + 2 + lw + ll /\ j = q + 2 + lt + lw /\ i = q + 2 + lt
  BY <1>7, <1>8, <1>11
<1>15. Holds(b, q, Encoded(t)) /\ Holds(b, q + 2 + lt, w) /\ Len(Encoded(t) \o w \o load) = lt + 2 + lw + ll
  <2>1. Holds(b, q, e) /\ Holds(b, i, w) /\ Len(e \o w \o load) = n
    BY <1>3, <1>9, <1>10
  <2> QED
    BY <2>1, <1>1, <1>14
<1>16. SubSeq(b, j + 1, q + n) = load /\ q + n <= Len(b)
  BY <1>3, <1>10, <1>12, <1>13
<1>17. SubSeq(b, q + 2 + lt + lw + 1, q + (lt + 2 + lw + ll)) = load /\ q + (lt + 2 + lw + ll) <= Len(b)
  BY <1>14, <1>16
<1> QED
  BY <1>4, <1>5, <1>6, <1>15, <1>17

Identifier(qos, id) == IF qos > 0 THEN Word(id) ELSE <<>>
IdentifierLength(qos) == IF qos > 0 THEN 2 ELSE 0

LEMMA IdentifierBytes ==
  ASSUME NEW qos \in 0..2, NEW id \in Uint16
  PROVE  /\ Identifier(qos, id) \in Seq(Byte)
         /\ Len(Identifier(qos, id)) = IdentifierLength(qos)
         /\ qos > 0 => Identifier(qos, id) = Word(id)
         /\ IdentifierLength(qos) \in Nat
<1>1. Word(id) \in Seq(Byte) /\ Len(Word(id)) = 2
  BY WordBytes
<1>2. <<>> \in Seq(Byte) /\ Len(<<>>) = 0
  OBVIOUS
<1>3. CASE qos > 0
  <2>1. Identifier(qos, id) = Word(id) /\ IdentifierLength(qos) = 2
    BY <1>3 DEF Identifier, IdentifierLength
  <2> QED
    BY <1>1, <2>1
<1>4. CASE ~(qos > 0)
  <2>1. Identifier(qos, id) = <<>> /\ IdentifierLength(qos) = 0
    BY <1>4 DEF Identifier, IdentifierLength
  <2> QED
    BY <1>2, <1>4, <2>1
<1> QED
  BY <1>3, <1>4

\* A topic name that a PUBLISH may have.
PlainName(t) == IsText(t) /\ t # <<>> /\ t[1] # 36 /\ \A k \in DOMAIN t : t[k] \notin {35, 43}

PublishOf(flags, qos, t, id, load) ==
  [type |-> PUBLISH, dup |-> flags >= 8, qos |-> qos, retain |-> flags % 2 = 1, topic |-> t,
   id |-> id, payload |-> load]

\* The bytes b have this PUBLISH from q on.
PublishLaid(b, q, flags, qos, t, id, load) ==
  /\ b \in Seq(Byte) /\ q \in Nat /\ flags \in 0..15 /\ qos \in 0..2 /\ id \in Uint16
  /\ t \in Bytes16 /\ load \in Seq(Byte) /\ PlainName(t)
  /\ (flags \div 2) % 4 = qos /\ (qos = 0 => flags < 8 /\ id = 0)
  /\ Holds(b, q, Encoded(t) \o Identifier(qos, id) \o load)

LEMMA PublishParsed ==
  ASSUME NEW b, NEW q, NEW flags, NEW qos, NEW t, NEW id, NEW load,
         PublishLaid(b, q, flags, qos, t, id, load)
  PROVE  ParsePublish(b, q, flags, Len(Encoded(t) \o Identifier(qos, id) \o load))
         = {[at |-> q + Len(Encoded(t) \o Identifier(qos, id) \o load),
             packet |-> PublishOf(flags, qos, t, id, load)]}
<1> /\ b \in Seq(Byte) /\ q \in Nat /\ flags \in 0..15 /\ qos \in 0..2 /\ id \in Uint16
    /\ t \in Bytes16 /\ load \in Seq(Byte) /\ PlainName(t)
    /\ (flags \div 2) % 4 = qos /\ (qos = 0 => flags < 8 /\ id = 0)
    /\ Holds(b, q, Encoded(t) \o Identifier(qos, id) \o load)
  BY DEF PublishLaid
<1>1. PICK w \in Seq(Byte) : w = Identifier(qos, id) /\ Len(w) = IdentifierLength(qos)
  BY IdentifierBytes
<1>2. Holds(b, q, Encoded(t) \o w \o load)
  BY <1>1
<1>3. PICK length : length = Len(Encoded(t) \o w \o load)
  OBVIOUS
<1> PICK lt \in Nat : lt = Len(t)
  BY EncodedBytes
<1> PICK ll \in Nat : ll = Len(load)
  OBVIOUS
<1> PICK two \in Nat : two = IdentifierLength(qos)
  BY IdentifierBytes
<1> PICK i \in Nat : i = q + 2 + lt
  OBVIOUS
<1> PICK at \in Nat : at = i + two
  OBVIOUS
<1>0. /\ q \in Nat /\ lt \in Nat /\ ll \in Nat /\ two \in Nat /\ i \in Nat /\ at \in Nat
      /\ lt = Len(t) /\ ll = Len(load) /\ two = Len(w) /\ i = q + 2 + lt /\ at = i + two
      /\ b \in Seq(Byte) /\ w \in Seq(Byte) /\ t \in Bytes16 /\ load \in Seq(Byte)
  BY <1>1
<1>4. /\ length = lt + 2 + two + ll /\ Holds(b, q, Encoded(t)) /\ Holds(b, i, w)
      /\ SubSeq(b, at + 1, q + length) = load /\ q + length <= Len(b)
  <2>1. PICK l1 \in Nat, l2 \in Nat, l3 \in Nat :
           /\ l1 = Len(t) /\ l2 = Len(w) /\ l3 = Len(load)
           /\ Len(Encoded(t) \o w \o load) = l1 + 2 + l2 + l3
           /\ Holds(b, q, Encoded(t)) /\ Holds(b, q + 2 + l1, w)
           /\ SubSeq(b, q + 2 + l1 + l2 + 1, q + (l1 + 2 + l2 + l3)) = load
           /\ q + (l1 + 2 + l2 + l3) <= Len(b)
    <3>1. b \in Seq(Byte) /\ q \in Nat /\ w \in Seq(Byte) /\ t \in Bytes16 /\ load \in Seq(Byte)
      BY <1>0
    <3> QED
      BY ONLY <1>2, <3>1, PublishLayout
  <2>2. l1 = lt /\ l2 = two /\ l3 = ll
    BY ONLY <1>0, <2>1
  <2>3. length = lt + 2 + two + ll
    BY ONLY <1>3, <2>1, <2>2
  <2>4. q + (l1 + 2 + l2 + l3) = q + length /\ q + 2 + l1 = i /\ q + 2 + l1 + l2 = at
    BY ONLY <1>0, <2>2, <2>3
  <2>5. Holds(b, i, w) /\ SubSeq(b, at + 1, q + length) = load /\ q + length <= Len(b)
    BY ONLY <2>1, <2>4
  <2> QED
    BY <2>1, <2>3, <2>5
<1>16. length \in Nat /\ q + length \in Nat /\ q + length = at + ll
  BY ONLY <1>0, <1>4
<1>17. PICK end \in Nat : end = q + length /\ length \in Nat
  BY <1>16
<1>5. decode_string(b, q) = {[at |-> i, text |-> t]}
  <2>1. IsText(t)
    BY DEF PlainName
  <2> QED
    BY ONLY <1>0, <1>4, <2>1, StringHeld
<1>6. qos > 0 => WordAt(b, i) = id
  <2>1. (qos > 0 => w = Word(id)) /\ id \in Uint16
    BY <1>1, IdentifierBytes
  <2> QED
    BY ONLY <1>0, <1>4, <2>1, WordHeld
<1>7. PayloadLength(length, t, qos) = ll
  <2>1. PayloadLength(length, t, qos) = length - (lt + 2 + two)
    BY DEF PayloadLength, IdentifierLength, Bit
  <2> QED
    BY ONLY <1>0, <1>4, <2>1
<1> DEFINE level == (flags \div 2) % 4
           Ok(r) == /\ (level = 0 => flags < 8) /\ level < 3
                    /\ r.text # <<>> /\ r.text[1] # 36
                    /\ {r.text[k] : k \in DOMAIN r.text} \cap {35, 43} = {}
                    /\ PayloadLength(length, r.text, level) >= 0
                    /\ Has(b, r.at + IdentifierLength(level), PayloadLength(length, r.text, level))
           Result(r) == [at |-> r.at + IdentifierLength(level) + PayloadLength(length, r.text, level),
                         packet |-> [type |-> PUBLISH, dup |-> flags >= 8, qos |-> level,
                            retain |-> flags % 2 = 1, topic |-> r.text,
                            id |-> IF level > 0 THEN WordAt(b, r.at) ELSE 0,
                            payload |-> SubSeq(b, r.at + IdentifierLength(level) + 1,
                                          r.at + IdentifierLength(level) + PayloadLength(length, r.text, level))]]
<1>8. PICK s : s = [at |-> i, text |-> t]
  OBVIOUS
<1>9. ParsePublish(b, q, flags, length) = {Result(r) : r \in {x \in decode_string(b, q) : Ok(x)}}
  BY DEF ParsePublish, IdentifierLength, Bit
<1>10. s.text = t /\ s.at = i /\ level = qos /\ s.at + IdentifierLength(level) = at
  BY <1>8
<1> HIDE DEF level
<1>11. Ok(s)
  <2>1. {t[k] : k \in DOMAIN t} \cap {35, 43} = {} /\ t # <<>> /\ t[1] # 36
    BY DEF PlainName
  <2>2. (qos = 0 => flags < 8) /\ qos < 3
    OBVIOUS
  <2>3. Has(b, at, ll)
    BY ONLY <1>0, <1>4, <1>16 DEF Has
  <2>4. {s.text[k] : k \in DOMAIN s.text} \cap {35, 43} = {} /\ s.text # <<>> /\ s.text[1] # 36
    BY ONLY <1>10, <2>1
  <2>5. (level = 0 => flags < 8) /\ level < 3
    BY ONLY <1>10, <2>2
  <2>6. PayloadLength(length, s.text, level) >= 0
        /\ Has(b, s.at + IdentifierLength(level), PayloadLength(length, s.text, level))
    BY ONLY <1>0, <1>7, <1>10, <2>3
  <2> QED
    BY ONLY <2>4, <2>5, <2>6
<1>12. Result(s) = [at |-> end,
                    packet |-> [type |-> PUBLISH, dup |-> flags >= 8, qos |-> qos, retain |-> flags % 2 = 1,
                                topic |-> t, id |-> id, payload |-> load]]
  <2>1. (IF level > 0 THEN WordAt(b, s.at) ELSE 0) = id
    <3>1. qos \in 0..2 /\ (qos = 0 => id = 0)
      OBVIOUS
    <3> QED
      BY ONLY <1>6, <1>10, <3>1
  <2>2. s.at + IdentifierLength(level) + PayloadLength(length, s.text, level) = end
    <3>1. end = at + ll
      BY ONLY <1>0, <1>16, <1>17
    <3> QED
      BY ONLY <1>7, <1>10, <3>1
  <2>3. SubSeq(b, s.at + IdentifierLength(level) + 1,
               s.at + IdentifierLength(level) + PayloadLength(length, s.text, level)) = load
    BY ONLY <1>4, <1>10, <1>17, <2>2
  <2> QED
    BY <1>10, <2>1, <2>2, <2>3
<1> HIDE DEF Ok, Result
<1>13. {x \in decode_string(b, q) : Ok(x)} = {s}
  BY <1>5, <1>8, <1>11
<1>14. ParsePublish(b, q, flags, length) = {Result(s)}
  BY <1>9, <1>13
<1> QED
  <2>1. length = Len(Encoded(t) \o Identifier(qos, id) \o load)
    BY <1>1, <1>3
  <2>2. ParsePublish(b, q, flags, length)
        = {[at |-> q + length, packet |-> PublishOf(flags, qos, t, id, load)]}
    BY <1>12, <1>14, <1>17 DEF PublishOf
  <2> QED
    BY ONLY <2>1, <2>2

PublishWritten(b, q, p, flags) ==
  /\ p \in [type : {PUBLISH}, dup : BOOLEAN, qos : 0..2, retain : BOOLEAN, topic : Bytes16,
            id : Uint16, payload : Seq(Byte)]
  /\ SoundPublish(p) /\ Holds(b, q, SerializePublish(p))
  /\ flags = Bit(p.dup, 8) + 2 * p.qos + Bit(p.retain, 1)

LEMMA PublishHeld ==
  ASSUME NEW b \in Seq(Byte), NEW q \in Nat, NEW p, NEW flags, PublishWritten(b, q, p, flags)
  PROVE  ParsePublish(b, q, flags, Len(SerializePublish(p)))
         = {[at |-> q + Len(SerializePublish(p)), packet |-> p]}
<1> /\ p \in [type : {PUBLISH}, dup : BOOLEAN, qos : 0..2, retain : BOOLEAN, topic : Bytes16,
              id : Uint16, payload : Seq(Byte)]
    /\ SoundPublish(p) /\ Holds(b, q, SerializePublish(p))
    /\ flags = Bit(p.dup, 8) + 2 * p.qos + Bit(p.retain, 1)
  BY DEF PublishWritten
<1>1. PICK dup \in BOOLEAN, qos \in 0..2, retain \in BOOLEAN, t \in Bytes16, id \in Uint16,
           load \in Seq(Byte) :
        /\ p = [type |-> PUBLISH, dup |-> dup, qos |-> qos, retain |-> retain, topic |-> t,
                id |-> id, payload |-> load]
        /\ p.dup = dup /\ p.qos = qos /\ p.retain = retain /\ p.topic = t /\ p.id = id /\ p.payload = load
  BY PublishFields
<1>2. /\ (flags >= 8) = dup /\ (flags \div 2) % 4 = qos /\ (flags % 2 = 1) = retain
      /\ flags \in 0..15 /\ (~dup => flags < 8)
  BY <1>1, PublishFlags
<1>3. /\ IsText(t) /\ t # <<>> /\ t[1] # 36 /\ \A k \in DOMAIN t : t[k] \notin {35, 43}
      /\ qos = 0 => ~dup /\ id = 0
  BY <1>1 DEF SoundPublish
<1>4. SerializePublish(p) = Encoded(t) \o Identifier(qos, id) \o load
  BY <1>1 DEF SerializePublish, Identifier, If
<1>5. PICK n : n = Len(Encoded(t) \o Identifier(qos, id) \o load)
  OBVIOUS
<1>6. ParsePublish(b, q, flags, n) = {[at |-> q + n, packet |-> PublishOf(flags, qos, t, id, load)]}
  <2>1. Holds(b, q, Encoded(t) \o Identifier(qos, id) \o load)
    BY <1>4
  <2>2. qos = 0 => flags < 8 /\ id = 0
    BY <1>2, <1>3
  <2> HIDE DEF PUBLISH
  <2>3. /\ PlainName(t)
        /\ (flags \div 2) % 4 = qos /\ (qos = 0 => flags < 8 /\ id = 0) /\ flags \in 0..15
    BY <1>2, <1>3, <2>2 DEF PlainName
  <2>4. ParsePublish(b, q, flags, Len(Encoded(t) \o Identifier(qos, id) \o load))
        = {[at |-> q + Len(Encoded(t) \o Identifier(qos, id) \o load),
            packet |-> PublishOf(flags, qos, t, id, load)]}
    <3>1. PublishLaid(b, q, flags, qos, t, id, load)
      BY <2>1, <2>3 DEF PublishLaid
    <3> QED
      BY ONLY <3>1, PublishParsed
  <2> QED
    BY <1>5, <2>4, Zenon
<1> QED
  <2>1. p = PublishOf(flags, qos, t, id, load)
    BY <1>1, <1>2 DEF PublishOf
  <2> QED
    BY <1>4, <1>5, <1>6, <2>1

\* Texts for fields of these kinds.
TextsOf(kinds, texts) ==
  Len(texts) = Len(kinds) /\ \A k \in 1..Len(kinds) : kinds[k] = "string" => IsText(texts[k])

LEMMA TextsHeld ==
  ASSUME NEW b \in Seq(Byte), NEW p \in Nat, NEW kinds \in Seq({"string", "binary"}),
         NEW texts \in Seq(Bytes16), TextsOf(kinds, texts), Holds(b, p, FlattenSeq(Fields(texts)))
  PROVE  ParseFields(b, p, kinds) = {[at |-> p + Len(FlattenSeq(Fields(texts))), texts |-> texts]}
BY FieldsHeld DEF TextsOf

LEMMA Associative ==
  ASSUME NEW s \in Seq(Byte), NEW t \in Seq(Byte), NEW u \in Seq(Byte)
  PROVE  s \o t \o u = s \o (t \o u)
BY ConcatAssociative

LEMMA ConnectRecord ==
  ASSUME NEW p \in [type : {CONNECT}, protocol : Bytes16, level : Byte, flags : Byte, keep_alive : Uint16,
                    payload : Seq(Bytes16)]
  PROVE  /\ p = [type |-> CONNECT, protocol |-> p.protocol, level |-> p.level, flags |-> p.flags,
                 keep_alive |-> p.keep_alive, payload |-> p.payload]
         /\ p.protocol \in Bytes16 /\ p.level \in Byte /\ p.flags \in Byte /\ p.keep_alive \in Uint16
         /\ p.payload \in Seq(Bytes16)
OBVIOUS

ConnectOf(s, x, y, n, texts) ==
  [type |-> CONNECT, protocol |-> s, level |-> x, flags |-> y, keep_alive |-> n, payload |-> texts]

Pair(x, y) == <<x, y>>

LEMMA ConnectParsed ==
  ASSUME NEW b \in Seq(Byte), NEW q \in Nat, NEW s \in Bytes16, NEW x \in Byte, NEW y \in Byte,
         NEW n \in Uint16, NEW texts \in Seq(Bytes16), IsText(s), ConnectFlagsOk(y),
         TextsOf(ConnectFields(y), texts),
         NEW f \in Seq(Byte), f = FlattenSeq(Fields(texts)),
         Holds(b, q, Encoded(s) \o Pair(x, y) \o (Word(n) \o f))
  PROVE  ParseConnect(b, q)
         = {[at |-> q + 6 + Len(s) + Len(f), packet |-> ConnectOf(s, x, y, n, texts)]}
<1>1. PICK e \in Seq(Byte), m \in Nat, l \in Nat : e = Encoded(s) /\ m = Len(e) /\ l = Len(s) /\ m = l + 2
  BY EncodedBytes
<1>2. PICK w \in Seq(Byte) : w = Word(n) /\ Len(w) = 2
  BY WordBytes
<1>3. PICK v \in Seq(Byte) : v = Pair(x, y) /\ Len(v) = 2
  <2>1. Pair(x, y) \in Seq(Byte) /\ Len(Pair(x, y)) = 2
    BY DEF Pair
  <2> QED
    BY <2>1
<1>4. PICK u \in Seq(Byte) : u = w \o f /\ Len(u) = 2 + Len(f)
  <2>1. w \o f \in Seq(Byte) /\ Len(w \o f) = Len(w) + Len(f) /\ Len(f) \in Nat
    BY ConcatBytes
  <2> QED
    BY <1>2, <2>1
<1> PICK lf \in Nat : lf = Len(f)
  OBVIOUS
<1>5. PICK i \in Nat : i = q + m
  OBVIOUS
<1>6. Holds(b, q, e) /\ Holds(b, i, v) /\ Holds(b, i + 2, u) /\ i + 4 + lf <= Len(b) /\ Len(b) \in Nat
  <2>1. Holds(b, q, e \o v \o u)
    BY <1>1, <1>2, <1>3, <1>4
  <2>2. /\ Holds(b, q, e) /\ Holds(b, q + Len(e), v) /\ Holds(b, q + Len(e) + Len(v), u)
        /\ q + Len(e) + Len(v) + Len(u) <= Len(b) /\ Len(b) \in Nat
    BY <2>1, HoldsThree
  <2>3. q + Len(e) = i /\ q + Len(e) + Len(v) = i + 2 /\ q + Len(e) + Len(v) + Len(u) = i + 4 + lf
    BY <1>1, <1>3, <1>4, <1>5
  <2> QED
    BY <2>2, <2>3
<1> PICK j \in Nat : j = i + 2
  OBVIOUS
<1>7. PICK k \in Nat : k = i + 4 /\ k = j + 2
  OBVIOUS
<1>8. Holds(b, j, w) /\ Holds(b, k, f)
  <2>1. Holds(b, j, w \o f)
    BY <1>4, <1>6
  <2>2. Holds(b, j, w) /\ Holds(b, j + Len(w), f)
    BY <2>1, HoldsConcat
  <2>3. j + Len(w) = k
    BY <1>2, <1>7
  <2> QED
    BY <2>2, <2>3
<1>9. decode_string(b, q) = {[at |-> i, text |-> s]}
  <2>1. q + 2 + l = i
    BY <1>1, <1>5
  <2>2. decode_string(b, q) = {[at |-> q + 2 + Len(s), text |-> s]}
    <3>1. b \in Seq(Byte) /\ q \in Nat /\ s \in Bytes16 /\ IsText(s)
      OBVIOUS
    <3>2. Holds(b, q, Encoded(s))
      BY <1>1, <1>6
    <3> QED
      BY ONLY <3>1, <3>2, StringHeld
  <2> QED
    BY <1>1, <2>1, <2>2
<1>10. b[i + 1] = x /\ b[i + 2] = y
  <2>1. Holds(b, i, <<x, y>>)
    BY <1>3, <1>6 DEF Pair
  <2> QED
    BY <2>1, HoldsTwo
<1>11. WordAt(b, i + 2) = n
  BY <1>2, <1>7, <1>8, WordHeld
<1>12. Has(b, i, 4)
  <2>1. i + 4 <= Len(b)
    BY <1>6
  <2> QED
    BY <2>1 DEF Has
<1>13. PICK kinds \in Seq({"string", "binary"}) : kinds = ConnectFields(y)
  BY ConnectKinds
<1>14. ParseFields(b, k, kinds) = {[at |-> k + lf, texts |-> texts]}
  <2>1. ParseFields(b, k, kinds) = {[at |-> k + Len(FlattenSeq(Fields(texts))), texts |-> texts]}
    <3>1. Holds(b, k, FlattenSeq(Fields(texts)))
      BY <1>8
    <3>2. TextsOf(kinds, texts)
      BY <1>13
    <3> QED
      <4>1. b \in Seq(Byte) /\ k \in Nat /\ kinds \in Seq({"string", "binary"}) /\ texts \in Seq(Bytes16)
        OBVIOUS
      <4> QED
        BY ONLY <3>1, <3>2, <4>1, TextsHeld
  <2> QED
    BY <1>4, <2>1
<1>15. PICK r, z : r = [at |-> i, text |-> s] /\ z = [at |-> k + lf, texts |-> texts]
  OBVIOUS
<1> DEFINE Ok(t) == Has(b, t.at, 4) /\ ConnectFlagsOk(b[t.at + 2])
           Follow(t) == ParseFields(b, t.at + 4, ConnectFields(b[t.at + 2]))
           Result(t, c) == [at |-> c.at,
             packet |-> [type |-> CONNECT, protocol |-> t.text, level |-> b[t.at + 1],
                         flags |-> b[t.at + 2], keep_alive |-> WordAt(b, t.at + 2),
                         payload |-> c.texts]]
<1>16. ParseConnect(b, q)
       = UNION {{Result(t, c) : c \in Follow(t)} : t \in {t \in decode_string(b, q) : Ok(t)}}
  BY DEF ParseConnect
<1>17. Ok(r)
  BY <1>10, <1>12, <1>15
<1>18. Follow(r) = {z}
  BY <1>7, <1>10, <1>13, <1>14, <1>15
<1>19. Result(r, z)
       = [at |-> k + lf, packet |-> ConnectOf(s, x, y, n, texts)]
  BY <1>10, <1>11, <1>15 DEF ConnectOf
<1> HIDE DEF Ok, Follow, Result
<1>20. {t \in decode_string(b, q) : Ok(t)} = {r}
  BY <1>9, <1>15, <1>17
<1>21. ParseConnect(b, q) = {Result(r, z)}
  <2>1. UNION {{Result(t, c) : c \in Follow(t)} : t \in {r}} = {Result(r, z)}
    BY <1>18
  <2> QED
    BY <1>16, <1>20, <2>1, Zenon
<1>22. k + lf = q + 6 + l + lf
  BY <1>1, <1>5, <1>7
<1> QED
  BY <1>1, <1>4, <1>19, <1>21, <1>22

\* The bytes b have this CONNECT from q on, f being those of its texts.
ConnectLaid(b, q, s, x, y, n, texts, f) ==
  /\ b \in Seq(Byte) /\ q \in Nat /\ s \in Bytes16 /\ x \in Byte /\ y \in Byte /\ n \in Uint16
  /\ texts \in Seq(Bytes16) /\ f \in Seq(Byte) /\ f = FlattenSeq(Fields(texts))
  /\ IsText(s) /\ ConnectFlagsOk(y) /\ TextsOf(ConnectFields(y), texts)
  /\ Holds(b, q, Encoded(s) \o Pair(x, y) \o (Word(n) \o f))

LEMMA ConnectLaidParsed ==
  ASSUME NEW b, NEW q, NEW s, NEW x, NEW y, NEW n, NEW texts, NEW f,
         ConnectLaid(b, q, s, x, y, n, texts, f)
  PROVE  ParseConnect(b, q) = {[at |-> q + 6 + Len(s) + Len(f), packet |-> ConnectOf(s, x, y, n, texts)]}
BY ConnectParsed DEF ConnectLaid

LEMMA ConnectHeld ==
  ASSUME NEW b \in Seq(Byte), NEW q \in Nat,
         NEW p \in [type : {CONNECT}, protocol : Bytes16, level : Byte, flags : Byte, keep_alive : Uint16,
                    payload : Seq(Bytes16)],
         SoundConnect(p), Holds(b, q, SerializeConnect(p))
  PROVE  ParseConnect(b, q) = {[at |-> q + Len(SerializeConnect(p)), packet |-> p]}
<1>1. PICK s \in Bytes16, texts \in Seq(Bytes16), x \in Byte, y \in Byte, n \in Uint16 :
        /\ p = [type |-> CONNECT, protocol |-> s, level |-> x, flags |-> y, keep_alive |-> n, payload |-> texts]
        /\ s = p.protocol /\ texts = p.payload /\ x = p.level /\ y = p.flags /\ n = p.keep_alive
  BY ConnectRecord
<1>2. PICK e \in Seq(Byte), l \in Nat : e = Encoded(s) /\ l = Len(s) /\ Len(e) = l + 2
  BY EncodedBytes
<1>3. PICK f \in Seq(Byte), lf \in Nat : f = FlattenSeq(Fields(texts)) /\ lf = Len(f)
  <2>1. Fields(texts) \in Seq(Seq(Byte))
    BY <1>1, ConnectBytes, ConnectRecord DEF Fields
  <2>2. FlattenSeq(Fields(texts)) \in Seq(Byte)
    BY <2>1, FlattenBytes
  <2> QED
    BY <2>2
<1>4. PICK w \in Seq(Byte) : w = Word(n) /\ Len(w) = 2
  BY WordBytes
<1>5. PICK v \in Seq(Byte) : v = Pair(x, y) /\ Len(v) = 2
  <2>1. Pair(x, y) \in Seq(Byte) /\ Len(Pair(x, y)) = 2
    BY DEF Pair
  <2> QED
    BY <2>1
<1>6. SerializeConnect(p) = e \o v \o w \o f
  BY <1>1, <1>2, <1>3, <1>4, <1>5 DEF SerializeConnect, Fields, Pair
<1>7. e \o v \o w \o f = e \o v \o (w \o f) /\ Len(e \o v \o w \o f) = l + 6 + lf
  <2>1. PICK t \in Seq(Byte) : t = e \o v /\ Len(t) = l + 4
    <3>1. e \o v \in Seq(Byte) /\ Len(e \o v) = Len(e) + Len(v)
      BY ConcatBytes
    <3>2. Len(e) + Len(v) = l + 4
      BY <1>2, <1>5
    <3> QED
      BY <3>1, <3>2
  <2>2. PICK u \in Seq(Byte) : u = t \o w /\ Len(u) = l + 6
    <3>1. t \o w \in Seq(Byte) /\ Len(t \o w) = Len(t) + Len(w)
      BY ConcatBytes
    <3>2. Len(t) + Len(w) = l + 6
      BY <1>4, <2>1
    <3> QED
      BY <3>1, <3>2
  <2>3. Len(u \o f) = l + 6 + lf
    BY <1>3, <2>2, ConcatBytes
  <2>4. t \o w \o f = t \o (w \o f)
    <3>1. t \in Seq(Byte) /\ w \in Seq(Byte) /\ f \in Seq(Byte)
      OBVIOUS
    <3> QED
      BY ONLY <3>1, Associative
  <2> QED
    BY <2>1, <2>2, <2>3, <2>4
<1>8. Holds(b, q, Encoded(s) \o Pair(x, y) \o (Word(n) \o f))
  BY <1>2, <1>4, <1>5, <1>6, <1>7
<1>9. IsText(s) /\ ConnectFlagsOk(y) /\ TextsOf(ConnectFields(y), texts)
  <2>1. PICK kinds \in Seq({"string", "binary"}) : kinds = ConnectFields(y)
    BY ConnectKinds
  <2>2. DOMAIN kinds = 1..Len(kinds)
    OBVIOUS
  <2>3. /\ IsText(s) /\ ConnectFlagsOk(y) /\ Len(texts) = Len(kinds)
        /\ \A k \in DOMAIN kinds : kinds[k] = "string" => IsText(texts[k])
    BY <1>1, <2>1 DEF SoundConnect
  <2> QED
    BY <2>1, <2>2, <2>3 DEF TextsOf
<1>10. ParseConnect(b, q)
       = {[at |-> q + 6 + Len(s) + Len(f), packet |-> ConnectOf(s, x, y, n, texts)]}
  <2>1. ConnectLaid(b, q, s, x, y, n, texts, f)
    BY <1>3, <1>8, <1>9 DEF ConnectLaid
  <2> QED
    BY ONLY <2>1, ConnectLaidParsed
<1>11. q + 6 + Len(s) + Len(f) = q + Len(SerializeConnect(p))
  BY <1>2, <1>3, <1>6, <1>7
<1> QED
  <2>1. p = ConnectOf(s, x, y, n, texts)
    BY <1>1 DEF ConnectOf
  <2> QED
    BY <1>10, <1>11, <2>1, Zenon

-----------------------------------------------------------------------------
(* A list of filters is parsed as it was serialized                        *)

\* What stands after a filter.
Qos(type, x) == IF type = SUBSCRIBE THEN <<x>> ELSE <<>>
One(type) == IF type = SUBSCRIBE THEN 1 ELSE 0

\* A sound filter stands at q.
EntryAt(b, type, q, t, x) ==
  /\ q \in 1..Len(b) /\ t \in Bytes16 /\ IsText(t) /\ t # <<>>
  /\ type = SUBSCRIBE => ValidFilter(t) /\ x \in 0..2
  /\ Holds(b, q, Encoded(t) \o Qos(type, x))

LEMMA QosBytes ==
  ASSUME NEW type, NEW x, type = SUBSCRIBE => x \in 0..2
  PROVE  Qos(type, x) \in Seq(Byte) /\ Len(Qos(type, x)) = One(type) /\ One(type) \in {0, 1}
<1>1. CASE type = SUBSCRIBE
  <2>1. x \in Byte
    BY <1>1 DEF Byte
  <2>2. <<x>> \in Seq(Byte) /\ Len(<<x>>) = 1
    BY <2>1
  <2> QED
    BY <1>1, <2>2 DEF Qos, One
<1>2. CASE type # SUBSCRIBE
  <2>1. <<>> \in Seq(Byte) /\ Len(<<>>) = 0
    OBVIOUS
  <2> QED
    BY <1>2, <2>1 DEF Qos, One
<1> QED
  BY <1>1, <1>2

LEMMA EntryRead ==
  ASSUME NEW b \in Seq(Byte), NEW type, NEW q, NEW t, NEW x, EntryAt(b, type, q, t, x)
  PROVE  /\ decode_string(b, q) = {[at |-> q + 2 + Len(t), text |-> t]}
         /\ q + 2 + Len(t) + One(type) <= Len(b)
         /\ type = SUBSCRIBE => b[q + 2 + Len(t) + 1] = x /\ x \in 0..2
         /\ q \in Nat /\ Len(t) \in Nat
<1>1. /\ q \in Nat /\ t \in Bytes16 /\ IsText(t) /\ (type = SUBSCRIBE => x \in 0..2)
      /\ Holds(b, q, Encoded(t) \o Qos(type, x))
  BY DEF EntryAt
<1>2. PICK e \in Seq(Byte) : e = Encoded(t) /\ Len(e) = Len(t) + 2 /\ Len(t) \in Nat
  BY <1>1, EncodedBytes
<1>3. PICK v \in Seq(Byte) : v = Qos(type, x) /\ Len(v) = One(type) /\ One(type) \in {0, 1}
  BY <1>1, QosBytes
<1>4. Holds(b, q, e \o v)
  BY <1>1, <1>2, <1>3
<1>5. Holds(b, q, e) /\ Holds(b, q + Len(e), v)
  BY <1>1, <1>4, HoldsConcat
<1>6. PICK i \in Nat : i = q + 2 + Len(t) /\ i = q + Len(e)
  BY <1>1, <1>2
<1>7. i + One(type) <= Len(b)
  BY <1>3, <1>5, <1>6 DEF Holds
<1>8. type = SUBSCRIBE => b[i + 1] = x
  <2>1. SUFFICES ASSUME type = SUBSCRIBE
                 PROVE  b[i + 1] = x
    OBVIOUS
  <2>2. v = <<x>> /\ One(type) = 1
    BY <1>3, <2>1 DEF Qos, One
  <2>3. 1 \in 1..Len(v) /\ v[1] = x
    BY <2>2
  <2> QED
    BY <1>5, <1>6, <2>3 DEF Holds
<1>9. Holds(b, q, Encoded(t))
  BY <1>2, <1>5
<1>10. decode_string(b, q) = {[at |-> q + 2 + Len(t), text |-> t]}
  BY <1>1, <1>9, StringHeld
<1> QED
  BY <1>1, <1>2, <1>6, <1>7, <1>8, <1>10

\* A sound filter at q, and what is made of what follows it.
EntryBefore(b, type, q, t, x, f, remain, r) ==
  /\ EntryAt(b, type, q, t, x) /\ remain \in Int /\ remain > 0
  /\ f[q + 2 + Len(t) + One(type)][remain - (Len(t) + 2 + One(type))] = {r}

Before(type, t, x, r) == [at |-> r.at, filters |-> <<t>> \o r.filters, qoses |-> Qos(type, x) \o r.qoses]

LEMMA FilterStep ==
  ASSUME NEW b \in Seq(Byte), NEW type, NEW q, NEW t, NEW x, NEW f, NEW remain, NEW r,
         EntryBefore(b, type, q, t, x, f, remain, r)
  PROVE  FiltersFrom(b, type, f, q, remain) = {Before(type, t, x, r)}
<1> PICK next : next = q + 2 + Len(t) + One(type)
  OBVIOUS
<1> PICK rest : rest = remain - (Len(t) + 2 + One(type))
  OBVIOUS
<1> EntryAt(b, type, q, t, x) /\ remain \in Int /\ remain > 0 /\ f[next][rest] = {r}
  BY DEF EntryBefore
<1>1. PICK i \in Nat : /\ i = q + 2 + Len(t) /\ decode_string(b, q) = {[at |-> i, text |-> t]}
                       /\ i + One(type) <= Len(b)
                       /\ type = SUBSCRIBE => b[i + 1] = x /\ x \in 0..2
  BY EntryRead
<1>2. PICK s : s = [at |-> i, text |-> t]
  OBVIOUS
<1>3. s.at = i /\ s.text = t
  BY <1>2
<1>4. t # <<>> /\ (type = SUBSCRIBE => ValidFilter(t))
  BY DEF EntryAt
<1>5. {u \in decode_string(b, q) : u.text # <<>>} = {s}
  BY <1>1, <1>2, <1>3, <1>4
<1>6. WithQos(type, s) <=> type = SUBSCRIBE
  BY <1>3, <1>4 DEF WithQos
<1>7. Bit(WithQos(type, s), 1) = One(type) /\ One(type) \in {0, 1} /\ (type = SUBSCRIBE => One(type) = 1)
  BY <1>6 DEF Bit, One
<1>8. NextAt(type, s) = next
  BY <1>1, <1>3, <1>7 DEF NextAt
<1>9. Rest(type, s, remain) = rest
  BY <1>3, <1>7 DEF Rest
<1>10. QosPut(b, type, s) = Qos(type, x)
  <2>1. CASE type = SUBSCRIBE
    <3>1. next = i + 1 /\ b[next] = x
      BY <1>1, <1>7, <2>1
    <3> QED
      BY <1>6, <1>8, <2>1, <3>1 DEF QosPut, Qos
  <2>2. CASE type # SUBSCRIBE
    BY <1>6, <2>2 DEF QosPut, Qos, If
  <2> QED
    BY <2>1, <2>2
<1>11. ~(NextAt(type, s) > Len(b) \/ (WithQos(type, s) /\ b[NextAt(type, s)] >= 3))
  <2>1. next <= Len(b) /\ next \in Nat /\ Len(b) \in Nat
    BY <1>1, <1>7
  <2>2. type = SUBSCRIBE => b[next] < 3 /\ b[next] \in 0..2
    BY <1>1, <1>7
  <2> QED
    BY <1>6, <1>8, <2>1, <2>2
<1>12. PutBefore(b, type, s, {r}) = {Before(type, t, x, r)}
  <2>1. PICK c : c = Qos(type, x)
    OBVIOUS
  <2>2. PutBefore(b, type, s, {r})
        = {[at |-> y.at, filters |-> <<s.text>> \o y.filters, qoses |-> QosPut(b, type, s) \o y.qoses] :
             y \in {r}}
    BY <1>11 DEF PutBefore
  <2> QED
    BY <1>3, <1>10, <2>2 DEF Before
<1>13. FiltersFrom(b, type, f, q, remain)
       = UNION {PutBefore(b, type, y, f[NextAt(type, y)][Rest(type, y, remain)]) : y \in {s}}
  BY <1>5 DEF FiltersFrom
<1>14. UNION {PutBefore(b, type, y, f[NextAt(type, y)][Rest(type, y, remain)]) : y \in {s}}
       = PutBefore(b, type, s, {r})
  BY <1>8, <1>9
<1> QED
  BY <1>12, <1>13, <1>14

LEMMA FromStep ==
  ASSUME NEW S, NEW s \in Seq(S), NEW k \in 1..Len(s)
  PROVE  From(s, k) = <<s[k]>> \o From(s, k + 1)
<1>1. PICK n \in Nat : n = Len(s) /\ k \in 1..n
  OBVIOUS
<1>2. k + 1 \in (k + 1)..(Len(s) + 1) /\ (k + 1) - 1 = k
  BY <1>1
<1>3. From(s, k) = SubSeq(s, k, k) \o From(s, k + 1)
  BY <1>2, FromSplit
<1>4. SubSeq(s, k, k) = <<s[k]>>
  <2>1. PICK x \in S : x = s[k]
    BY <1>1
  <2>2. PICK u : u = SubSeq(s, k, k)
    OBVIOUS
  <2>3. u \in Seq(S) /\ Len(u) = 1 /\ u[1] = x
    BY <1>1, <2>1, <2>2
  <2>4. PICK v : v = <<x>>
    OBVIOUS
  <2>5. v \in Seq(S) /\ Len(v) = 1 /\ v[1] = x
    BY <2>4
  <2>6. u = v
    BY <2>3, <2>5
  <2> QED
    BY <2>1, <2>2, <2>4, <2>6
<1> QED
  BY <1>3, <1>4
\* What remains of the QoS after k filters.
QosesFrom(type, qs, k) == IF type = SUBSCRIBE THEN From(qs, k) ELSE <<>>

\* J[k] is where filter k + 1 stands, relative to the first.
FiltersAt(b, type, n, fs, qs, J, q) ==
  /\ n \in Nat /\ fs \in Seq(Bytes16) /\ Len(fs) = n /\ J \in [0..n -> Nat]
  /\ type = SUBSCRIBE => qs \in Seq(0..2) /\ Len(qs) = n
  /\ q \in 1..Len(b) /\ q + J[n] <= Len(b)
  /\ \A k \in 1..n : /\ EntryAt(b, type, q + J[k - 1], fs[k], qs[k])
                     /\ J[k] = J[k - 1] + (Len(fs[k]) + 2 + One(type))

ReadsFilters(b, type, f) ==
  \A q \in 1..Len(b) : \A remain \in Int : f[q][remain] = FiltersFrom(b, type, f, q, remain)

LEMMA FiltersChain ==
  ASSUME NEW b \in Seq(Byte), NEW type, NEW n, NEW fs, NEW qs, NEW J, NEW q,
         FiltersAt(b, type, n, fs, qs, J, q), NEW f, ReadsFilters(b, type, f)
  PROVE  f[q + J[0]][J[n] - J[0]]
         = {[at |-> q + J[n], filters |-> From(fs, 1), qoses |-> QosesFrom(type, qs, 1)]}
<1>1. /\ n \in Nat /\ fs \in Seq(Bytes16) /\ Len(fs) = n /\ J \in [0..n -> Nat]
      /\ (type = SUBSCRIBE => qs \in Seq(0..2) /\ Len(qs) = n)
      /\ q \in Nat /\ q >= 1 /\ q + J[n] <= Len(b) /\ Len(b) \in Nat
  BY DEF FiltersAt
<1>2. ASSUME NEW k \in 1..n
      PROVE  /\ EntryAt(b, type, q + J[k - 1], fs[k], qs[k])
             /\ J[k] = J[k - 1] + (Len(fs[k]) + 2 + One(type))
             /\ Len(fs[k]) \in Nat /\ One(type) \in {0, 1}
  <2>1. fs[k] \in Bytes16
    BY <1>1
  <2> QED
    BY <2>1, EncodedBytes DEF FiltersAt, One
<1> DEFINE Result(k) == [at |-> q + J[n], filters |-> From(fs, k), qoses |-> QosesFrom(type, qs, k)]
           Good(k) == J[k] <= J[n] /\ f[q + J[k]][J[n] - J[k]] = {Result(k + 1)}
<1>3. Good(n)
  <2>1. From(fs, n + 1) = <<>> /\ QosesFrom(type, qs, n + 1) = <<>>
    BY <1>1 DEF From, QosesFrom
  <2>2. PICK p \in 1..Len(b) : p = q + J[n]
    BY <1>1
  <2>3. J[n] - J[n] = 0 /\ J[n] \in Nat
    BY <1>1
  <2>4. f[p][0] = FiltersFrom(b, type, f, p, 0)
    BY DEF ReadsFilters
  <2>5. FiltersFrom(b, type, f, p, 0) = {[at |-> p, filters |-> <<>>, qoses |-> <<>>]}
    BY DEF FiltersFrom
  <2> QED
    BY <2>1, <2>2, <2>3, <2>4, <2>5
<1>4. ASSUME NEW k \in 1..n, Good(k)
      PROVE  Good(k - 1)
  <2>1. PICK t : t = fs[k] /\ t \in Bytes16
    BY <1>1
  <2>2. PICK x : x = qs[k]
    OBVIOUS
  <2>3. PICK l \in Nat : l = Len(t) + 2 + One(type) /\ l >= 2
    BY <1>2, <2>1
  <2>4. PICK i \in Nat, j \in Nat : i = J[k - 1] /\ j = J[k] /\ j = i + l
    <3>1. J[k - 1] \in Nat /\ J[k] \in Nat
      BY <1>1
    <3> QED
      BY <1>2, <2>1, <2>3, <3>1
  <2>5. PICK m \in Nat : m = J[n]
    BY <1>1
  <2>6. EntryAt(b, type, q + i, t, x)
    BY <1>2, <2>1, <2>2, <2>4
  <2>7. j <= m /\ f[q + j][m - j] = {Result(k + 1)}
    BY <1>4, <2>4, <2>5
  <2>8. m - i \in Int /\ m - i > 0 /\ q + j = q + i + 2 + Len(t) + One(type)
        /\ m - j = (m - i) - (Len(t) + 2 + One(type)) /\ i <= m
    <3>1. PICK lt \in Nat, o \in Nat : lt = Len(t) /\ o = One(type)
      BY <1>2, <2>1
    <3>2. l = lt + 2 + o /\ q \in Nat /\ i \in Nat /\ j \in Nat /\ m \in Nat /\ j = i + l /\ j <= m
      BY <1>1, <2>3, <2>4, <2>7, <3>1
    <3>3. m - i \in Int /\ m - i > 0 /\ q + j = q + i + 2 + lt + o /\ m - j = (m - i) - (lt + 2 + o) /\ i <= m
      BY ONLY <3>1, <3>2
    <3> QED
      BY <3>1, <3>3
  <2> HIDE DEF Result
  <2>9. FiltersFrom(b, type, f, q + i, m - i)
        = {Before(type, t, x, Result(k + 1))}
    <3>1. PICK a, remain, next, rest, r :
            a = q + i /\ remain = m - i /\ next = q + j /\ rest = m - j /\ r = Result(k + 1)
      OBVIOUS
    <3>2. b \in Seq(Byte) /\ EntryBefore(b, type, a, t, x, f, remain, r)
      <4>1. /\ EntryAt(b, type, a, t, x) /\ remain \in Int /\ remain > 0
            /\ next = a + 2 + Len(t) + One(type) /\ rest = remain - (Len(t) + 2 + One(type))
            /\ f[next][rest] = {r}
        BY <2>6, <2>7, <2>8, <3>1
      <4> QED
        BY <4>1 DEF EntryBefore
    <3>3. FiltersFrom(b, type, f, a, remain) = {Before(type, t, x, r)}
      BY ONLY <3>2, FilterStep
    <3> QED
      BY <3>1, <3>3
  <2>10. f[q + i][m - i] = FiltersFrom(b, type, f, q + i, m - i)
    <3>1. q + i \in 1..Len(b)
      BY <2>6 DEF EntryAt
    <3> QED
      BY <2>8, <3>1 DEF ReadsFilters
  <2>11. <<t>> \o From(fs, k + 1) = From(fs, k)
    BY <1>1, <2>1, FromStep
  <2>12. Qos(type, x) \o QosesFrom(type, qs, k + 1) = QosesFrom(type, qs, k)
    <3>1. CASE type = SUBSCRIBE
      <4>1. <<x>> \o From(qs, k + 1) = From(qs, k)
        BY <1>1, <2>2, <3>1, FromStep
      <4> QED
        BY <3>1, <4>1 DEF Qos, QosesFrom
    <3>2. CASE type # SUBSCRIBE
      <4>1. <<>> \o <<>> = <<>>
        OBVIOUS
      <4> QED
        BY <3>2, <4>1 DEF Qos, QosesFrom
    <3> QED
      BY <3>1, <3>2
  <2>13. Before(type, t, x, Result(k + 1)) = Result(k)
    BY <2>11, <2>12 DEF Result, Before
  <2>14. k - 1 + 1 = k
    OBVIOUS
  <2>15. J[k - 1] <= J[n] /\ f[q + J[k - 1]][J[n] - J[k - 1]] = {Result(k)}
    BY <2>4, <2>5, <2>8, <2>9, <2>10, <2>13
  <2> QED
    BY <2>14, <2>15
<1> HIDE DEF Good
<1>5. Good(0)
  <2> DEFINE T == {j \in 0..n : Good(j)}
  <2>1. PICK U : U = {j \in Nat : j \in T}
    OBVIOUS
  <2>2. n \in U
    BY <1>1, <1>3, <2>1
  <2>3. PICK j \in U : \A i \in U : j <= i
    <3>1. U \subseteq Nat /\ U # {}
      BY <2>1, <2>2
    <3> QED
      BY <3>1, LeastNat
  <2>4. j \in 0..n /\ Good(j) /\ j \in Nat
    BY <2>1
  <2>5. j # 0 => FALSE
    <3>1. SUFFICES ASSUME j # 0
                   PROVE  FALSE
      OBVIOUS
    <3>2. j \in 1..n /\ j - 1 \in 0..n /\ j - 1 \in Nat /\ j - 1 < j
      BY <1>1, <2>4, <3>1
    <3>3. Good(j - 1)
      BY <1>4, <2>4, <3>2
    <3>4. j - 1 \in U
      BY <2>1, <3>2, <3>3
    <3> QED
      BY <2>3, <2>4, <3>2, <3>4
  <2> QED
    BY <2>4, <2>5
<1>6. 0 + 1 = 1
  OBVIOUS
<1> QED
  BY <1>5, <1>6 DEF Good
LEMMA FiltersRecord ==
  ASSUME NEW p \in PacketType, p.type \in {SUBSCRIBE, UNSUBSCRIBE}
  PROVE  /\ p = [type |-> p.type, id |-> p.id, filters |-> p.filters, qoses |-> p.qoses]
         /\ p.id \in Uint16 /\ p.filters \in Seq(Bytes16)
         /\ p.type = SUBSCRIBE => p.qoses \in Seq(0..2) /\ Len(p.qoses) = Len(p.filters)
         /\ p.type # SUBSCRIBE => p.qoses = <<>>
<1>1. CASE p.type = SUBSCRIBE
  BY <1>1, PacketKinds
<1>2. CASE p.type = UNSUBSCRIBE /\ p.type # SUBSCRIBE
  BY <1>2, PacketKinds
<1> QED
  BY <1>1, <1>2

\* Where the filters stand.
Starts(p) == [k \in 0..Len(p.filters) |-> Len(Joined(Entries(p), k))]

LEMMA EntriesHeld ==
  ASSUME NEW b \in Seq(Byte), NEW q \in Nat, NEW p \in PacketType, p.type \in {SUBSCRIBE, UNSUBSCRIBE},
         SoundFilters(p), Holds(b, q, FlattenSeq(Entries(p))), q >= 1
  PROVE  /\ FiltersAt(b, p.type, Len(p.filters), p.filters, p.qoses, Starts(p), q)
         /\ Starts(p)[0] = 0 /\ Starts(p)[Len(p.filters)] = Len(FlattenSeq(Entries(p)))
         /\ Len(p.filters) \in Nat /\ Len(p.filters) >= 1
<1> PICK n : n = Len(p.filters)
  OBVIOUS
<1> PICK J : J = Starts(p) /\ J = [k \in 0..n |-> Len(Joined(Entries(p), k))]
  BY DEF Starts
<1>1. PICK fs, qs, type :
        /\ fs \in Seq(Bytes16) /\ fs = p.filters /\ qs = p.qoses /\ type = p.type
        /\ type = SUBSCRIBE => qs \in Seq(0..2) /\ Len(qs) = Len(fs)
  BY FiltersRecord
<1>2. n = Len(fs) /\ n \in Nat /\ DOMAIN fs = 1..n /\ \A k \in 1..n : fs[k] \in Bytes16
  BY <1>1
<1>3. fs # <<>> /\ \A k \in 1..n : IsText(fs[k]) /\ fs[k] # <<>> /\ (type = SUBSCRIBE => ValidFilter(fs[k]))
  BY <1>1, <1>2 DEF SoundFilters
<1>4. n >= 1
  BY <1>2, <1>3
<1>5. PICK ss : ss = Entries(p)
  OBVIOUS
<1>6. ss \in Seq(Seq(Byte)) /\ Len(ss) = n
  BY <1>1, <1>2, <1>5, FiltersBytes, FiltersRecord
<1>7. \A k \in 1..n : ss[k] = Encoded(fs[k]) \o Qos(type, qs[k])
  BY <1>1, <1>2, <1>5 DEF Entries, Qos, If
<1>8. /\ Joined(ss, 0) = <<>> /\ Joined(ss, n) = FlattenSeq(ss)
      /\ \A k \in 0..n : Joined(ss, k) \in Seq(Byte)
  BY <1>6, JoinedStep
<1>9. J \in [0..n -> Nat] /\ \A k \in 0..n : J[k] = Len(Joined(ss, k))
  <2>1. \A k \in 0..n : Len(Joined(ss, k)) \in Nat
    BY <1>8
  <2> QED
    BY <1>5, <2>1
<1>10. J[0] = 0 /\ J[n] = Len(FlattenSeq(ss)) /\ J[n] \in Nat
  BY <1>2, <1>8, <1>9
<1>11. q + J[n] <= Len(b) /\ Len(b) \in Nat
  BY <1>5, <1>10 DEF Holds
<1>12. ASSUME NEW k \in 1..n
       PROVE  /\ EntryAt(b, type, q + J[k - 1], fs[k], qs[k])
              /\ J[k] = J[k - 1] + (Len(fs[k]) + 2 + One(type))
  <2>1. PICK t, x : t \in Bytes16 /\ t = fs[k] /\ x = qs[k]
    BY <1>2
  <2>2. type = SUBSCRIBE => x \in 0..2
    BY <1>1, <1>2, <2>1
  <2>3. PICK e \in Seq(Byte) : e = Encoded(t) /\ Len(e) = Len(t) + 2 /\ Len(t) \in Nat
    BY <2>1, EncodedBytes
  <2>4. PICK v \in Seq(Byte) : v = Qos(type, x) /\ Len(v) = One(type) /\ One(type) \in {0, 1}
    BY <2>2, QosBytes
  <2>5. ss[k] = e \o v
    BY <1>7, <2>1, <2>3, <2>4
  <2>6. Len(ss[k]) = Len(t) + 2 + One(type)
    BY <2>3, <2>4, <2>5, ConcatBytes
  <2>7. /\ Holds(b, q + Len(Joined(ss, k - 1)), ss[k])
        /\ Len(Joined(ss, k)) = Len(Joined(ss, k - 1)) + Len(ss[k])
        /\ Len(Joined(ss, k - 1)) \in Nat
    <3>1. PICK i \in 1..Len(ss) : i = k
      BY <1>6
    <3>2. /\ Holds(b, q + Len(Joined(ss, i - 1)), ss[i])
          /\ Len(Joined(ss, i)) = Len(Joined(ss, i - 1)) + Len(ss[i])
          /\ Len(Joined(ss, i - 1)) \in Nat
      <4>1. b \in Seq(Byte) /\ q \in Nat /\ Holds(b, q, FlattenSeq(ss)) /\ i \in 1..Len(ss)
        BY <1>5
      <4> QED
        BY ONLY <1>6, <4>1, HoldsJoined
    <3> QED
      BY <3>1, <3>2
  <2>8. J[k - 1] = Len(Joined(ss, k - 1)) /\ J[k] = Len(Joined(ss, k)) /\ J[k - 1] \in Nat
    BY <1>2, <1>9
  <2>9. PICK a \in Nat : a = q + J[k - 1] /\ a >= 1
    BY <2>8
  <2>10. Holds(b, a, ss[k])
    BY <2>7, <2>8, <2>9
  <2>11. a \in 1..Len(b)
    <3>1. a + Len(ss[k]) <= Len(b)
      BY <2>10 DEF Holds
    <3> QED
      BY <1>11, <2>3, <2>4, <2>6, <2>9, <3>1
  <2>12. EntryAt(b, type, a, t, x)
    <3>1. Encoded(t) \o Qos(type, x) = ss[k]
      BY <2>3, <2>4, <2>5
    <3>2. Holds(b, a, Encoded(t) \o Qos(type, x))
      BY ONLY <2>10, <3>1
    <3>3. /\ t \in Bytes16 /\ IsText(t) /\ t # <<>>
          /\ type = SUBSCRIBE => ValidFilter(t) /\ x \in 0..2
      <4>1. IsText(fs[k]) /\ fs[k] # <<>> /\ (type = SUBSCRIBE => ValidFilter(fs[k]))
        <5>1. k \in 1..n
          OBVIOUS
        <5> QED
          BY ONLY <1>3, <5>1
      <4> QED
        BY <2>1, <2>2, <4>1
    <3> QED
      BY ONLY <2>11, <3>2, <3>3 DEF EntryAt
  <2> QED
    BY <2>1, <2>6, <2>7, <2>8, <2>9, <2>12
<1>13. FiltersAt(b, type, n, fs, qs, J, q)
  <2>1. q \in 1..Len(b)
    BY <1>10, <1>11
  <2> QED
    BY <1>1, <1>2, <1>9, <1>11, <1>12, <2>1 DEF FiltersAt
<1> QED
  BY <1>1, <1>2, <1>4, <1>5, <1>10, <1>13

LEMMA FiltersHeld ==
  ASSUME NEW b \in Seq(Byte), NEW q \in Nat, NEW p \in PacketType, p.type \in {SUBSCRIBE, UNSUBSCRIBE},
         SoundFilters(p), Holds(b, q, SerializeFilters(p))
  PROVE  ParseFilters(b, q, p.type, Len(SerializeFilters(p)))
         = {[at |-> q + Len(SerializeFilters(p)), packet |-> p]}
<1>1. PICK fs, qs, type, id :
        /\ fs \in Seq(Bytes16) /\ id \in Uint16
        /\ fs = p.filters /\ qs = p.qoses /\ type = p.type /\ id = p.id
        /\ type = SUBSCRIBE => qs \in Seq(0..2) /\ Len(qs) = Len(fs)
        /\ type # SUBSCRIBE => qs = <<>>
        /\ p = [type |-> type, id |-> id, filters |-> fs, qoses |-> qs]
  BY FiltersRecord
<1>2. PICK w \in Seq(Byte) : w = Word(id) /\ Len(w) = 2
  BY <1>1, WordBytes
<1>3. PICK z \in Seq(Byte), m \in Nat : z = FlattenSeq(Entries(p)) /\ m = Len(z)
  <2>1. Entries(p) \in Seq(Seq(Byte))
    BY FiltersBytes, FiltersRecord
  <2>2. FlattenSeq(Entries(p)) \in Seq(Byte)
    BY <2>1, FlattenBytes
  <2> QED
    BY <2>2
<1>4. SerializeFilters(p) = w \o z
  BY <1>1, <1>2, <1>3 DEF SerializeFilters, Entries
<1>5. PICK length \in Nat : length = Len(SerializeFilters(p)) /\ length = m + 2
  <2>1. Len(w \o z) = Len(w) + Len(z)
    BY ConcatBytes
  <2>2. Len(w) + Len(z) = m + 2
    BY <1>2, <1>3
  <2> QED
    BY <1>4, <2>1, <2>2
<1>6. PICK a \in Nat : a = q + 2 /\ a >= 1
  OBVIOUS
<1>7. Holds(b, q, w) /\ Holds(b, a, z)
  <2>1. Holds(b, q, w) /\ Holds(b, q + Len(w), z)
    BY <1>4, HoldsConcat
  <2> QED
    BY <1>2, <1>6, <2>1
<1>8. Has(b, q, 2) /\ WordAt(b, q) = id
  BY <1>1, <1>2, <1>7, WordHeld
<1>9. PICK n, J : n = Len(fs) /\ J = Starts(p)
  OBVIOUS
<1>10. FiltersAt(b, type, n, fs, qs, J, a) /\ J[0] = 0 /\ J[n] = m /\ n \in Nat /\ n >= 1
  <2>1. n = Len(p.filters) /\ Holds(b, a, FlattenSeq(Entries(p)))
    BY <1>1, <1>3, <1>7, <1>9
  <2>2. /\ FiltersAt(b, p.type, Len(p.filters), p.filters, p.qoses, Starts(p), a)
        /\ Starts(p)[0] = 0 /\ Starts(p)[Len(p.filters)] = Len(FlattenSeq(Entries(p)))
        /\ Len(p.filters) \in Nat /\ Len(p.filters) >= 1
    BY <1>6, <2>1, EntriesHeld
  <2> QED
    BY <1>1, <1>3, <1>9, <2>1, <2>2
<1>11. PICK f : /\ ReadsFilters(b, type, f)
                /\ \A e, l : ParseFilters(b, e, type, l) = FiltersPacket(b, type, f, e, l)
  BY FiltersFunction DEF ReadsFilters
<1>12. f[a + J[0]][J[n] - J[0]]
       = {[at |-> a + J[n], filters |-> From(fs, 1), qoses |-> QosesFrom(type, qs, 1)]}
  BY <1>10, <1>11, FiltersChain
<1>13. From(fs, 1) = fs /\ QosesFrom(type, qs, 1) = qs
  <2>1. From(fs, 1) = fs
    BY <1>1 DEF From
  <2>2. type = SUBSCRIBE => From(qs, 1) = qs
    BY <1>1 DEF From
  <2> QED
    BY <1>1, <2>1, <2>2 DEF QosesFrom
<1>14. a + J[0] = a /\ J[n] - J[0] = m /\ a + J[n] = a + m
  BY <1>3, <1>6, <1>10
<1>15. PICK r : r = [at |-> a + m, filters |-> fs, qoses |-> qs]
  OBVIOUS
<1>16. f[a][m] = {r}
  BY <1>12, <1>13, <1>14, <1>15
<1>17. fs # <<>>
  BY <1>9, <1>10
<1>18. length - 2 = m /\ a + m = q + length /\ a = q + 2
  BY <1>3, <1>5, <1>6
<1>19. FiltersPacket(b, type, f, q, length)
       = {[at |-> x.at, packet |-> [type |-> type, id |-> id, filters |-> x.filters, qoses |-> x.qoses]] :
            x \in {x \in f[a][m] : x.filters # <<>>}}
  BY <1>8, <1>18 DEF FiltersPacket
<1>20. {x \in f[a][m] : x.filters # <<>>} = {r}
  BY <1>15, <1>16, <1>17
<1>21. FiltersPacket(b, type, f, q, length)
       = {[at |-> r.at, packet |-> [type |-> type, id |-> id, filters |-> r.filters, qoses |-> r.qoses]]}
  BY <1>19, <1>20
<1>22. FiltersPacket(b, type, f, q, length) = {[at |-> q + length, packet |-> p]}
  BY <1>1, <1>15, <1>18, <1>21
<1> QED
  BY <1>1, <1>5, <1>11, <1>22

-----------------------------------------------------------------------------
(* The fixed header is read as it was written                              *)

Digit(e, k) == IF k <= Len(e) THEN e[k] % 128 ELSE 0

\* A remaining length of at most three bytes, of this value.
LengthBytes(e, n) ==
  /\ e \in Seq(Byte) /\ Len(e) \in 1..3
  /\ e[Len(e)] < 128
  /\ \A k \in 1..Len(e) : k < Len(e) => e[k] >= 128
  /\ Digit(e, 1) + 128 * Digit(e, 2) + 16384 * Digit(e, 3) = n

LEMMA LengthArithmetic ==
  ASSUME NEW n \in Nat, n < 128 * 128 * 128
  PROVE  /\ n \div 128 \in Nat /\ (n \div 128) \div 128 \in Nat
         /\ n % 128 \in Nat /\ n % 128 < 128 /\ (n \div 128) % 128 \in Nat /\ (n \div 128) % 128 < 128
         /\ (n \div 128) \div 128 < 128
         /\ n < 128 => n % 128 = n
         /\ n = (n % 128) + 128 * (n \div 128)
         /\ n \div 128 = ((n \div 128) % 128) + 128 * ((n \div 128) \div 128)
<1>1. PICK a \in Nat, x \in Nat : a = n \div 128 /\ x = n % 128 /\ n = x + 128 * a /\ x < 128
  BY SMT
<1>2. PICK c \in Nat, y \in Nat : c = a \div 128 /\ y = a % 128 /\ a = y + 128 * c /\ y < 128
  BY SMT
<1>4. c < 128
  BY <1>1, <1>2, SMT
<1>5. n < 128 => x = n
  BY <1>1, SMT
<1> QED
  BY <1>1, <1>2, <1>4, <1>5, SMT

LEMMA HighByte ==
  ASSUME NEW x \in Nat, x < 128
  PROVE  128 + x \in Byte /\ 128 + x >= 128 /\ (128 + x) % 128 = x /\ x \in Byte /\ x % 128 = x
BY SMT DEF Byte

LEMMA Prepended ==
  ASSUME NEW u \in Byte, NEW s \in Seq(Byte)
  PROVE  /\ <<u>> \o s \in Seq(Byte) /\ Len(<<u>> \o s) = Len(s) + 1 /\ Len(s) \in Nat
         /\ (<<u>> \o s)[1] = u /\ \A k \in 1..Len(s) : (<<u>> \o s)[k + 1] = s[k]
<1>1. PICK t : t = <<u>>
  OBVIOUS
<1>2. t \in Seq(Byte) /\ Len(t) = 1 /\ t[1] = u
  BY <1>1
<1>3. PICK v : v = t \o s
  OBVIOUS
<1>4. v \in Seq(Byte) /\ Len(v) = Len(s) + 1 /\ Len(s) \in Nat
  <2>1. v \in Seq(Byte) /\ Len(v) = Len(t) + Len(s) /\ Len(s) \in Nat
    BY <1>2, <1>3, ConcatBytes
  <2>2. Len(t) + Len(s) = Len(s) + 1
    BY <1>2, <2>1
  <2> QED
    BY <2>1, <2>2
<1>5. v[1] = u
  BY <1>2, <1>3, <1>4
<1>6. \A k \in 1..Len(s) : v[k + 1] = s[k]
  BY <1>2, <1>3, <1>4
<1> QED
  BY <1>1, <1>3, <1>4, <1>5, <1>6

\* One byte, and a byte before others.
LEMMA LastByte ==
  ASSUME NEW n \in Nat, n < 128
  PROVE  EncodeLength[n] \in Seq(Byte) /\ Len(EncodeLength[n]) = 1 /\ EncodeLength[n][1] = n
<1>1. PICK e : e = <<n>> /\ n \in Byte
  BY HighByte
<1>2. e \in Seq(Byte) /\ Len(e) = 1 /\ e[1] = n
  BY <1>1
<1>3. EncodeLength[n] = e
  BY <1>1, EncodedLength
<1> QED
  BY <1>2, <1>3

Preceded(e, u, t) ==
  e \in Seq(Byte) /\ Len(e) = Len(t) + 1 /\ e[1] = u /\ \A k \in 1..Len(t) : e[k + 1] = t[k]

LEMMA BeforeLast ==
  ASSUME NEW n \in Nat, ~(n < 128)
  PROVE  Preceded(EncodeLength[n], 128 + (n % 128), EncodeLength[n \div 128])
<1>1. PICK a \in Nat, x \in Nat : a = n \div 128 /\ x = n % 128 /\ x < 128
  BY SMT
<1>2. PICK u \in Byte : u = 128 + x
  BY <1>1, HighByte
<1>3. PICK t \in Seq(Byte) : t = EncodeLength[a]
  BY EncodedLength
<1>4. EncodeLength[n] = <<u>> \o t
  BY <1>1, <1>2, <1>3, EncodedLength
<1>5. Preceded(EncodeLength[n], u, t)
  BY <1>4, Prepended DEF Preceded
<1> QED
  BY <1>1, <1>2, <1>3, <1>5

LEMMA TwoBytes ==
  ASSUME NEW e \in Seq(Byte), Len(e) = 2, NEW x \in Nat, NEW y \in Nat,
         e[1] >= 128, e[1] % 128 = x, e[2] = y, y < 128
  PROVE  LengthBytes(e, x + 128 * y)
<1>1. Digit(e, 1) = x /\ Digit(e, 2) = y /\ Digit(e, 3) = 0
  <2>1. y % 128 = y
    BY HighByte
  <2> QED
    BY <2>1 DEF Digit
<1>2. \A k \in 1..2 : k < 2 => e[k] >= 128
  OBVIOUS
<1> QED
  BY <1>1, <1>2, SMT DEF LengthBytes

Value(x, y, z) == x + 128 * (y + 128 * z)

LEMMA ThreeBytes ==
  ASSUME NEW e \in Seq(Byte), Len(e) = 3, NEW x \in Nat, NEW y \in Nat, NEW z \in Nat,
         e[1] >= 128, e[1] % 128 = x, e[2] >= 128, e[2] % 128 = y, e[3] = z, z < 128
  PROVE  LengthBytes(e, Value(x, y, z))
<1>1. Digit(e, 1) = x /\ Digit(e, 2) = y /\ Digit(e, 3) = z
  <2>1. z % 128 = z
    BY HighByte
  <2> QED
    BY <2>1 DEF Digit
<1>2. \A k \in 1..3 : k < 3 => e[k] >= 128
  <2>1. \A k \in 1..3 : k = 1 \/ k = 2 \/ k = 3
    OBVIOUS
  <2> QED
    BY <2>1
<1>3. x + 128 * y + 16384 * z = Value(x, y, z)
  BY SMT DEF Value
<1> QED
  BY <1>1, <1>2, <1>3, SMT DEF LengthBytes

LEMMA LengthEncoded ==
  ASSUME NEW n \in Nat, n < 128 * 128 * 128
  PROVE  LengthBytes(EncodeLength[n], n)
<1>2. PICK a \in Nat, c \in Nat, x \in Nat, y \in Nat :
        /\ a = n \div 128 /\ c = a \div 128 /\ x = n % 128 /\ y = a % 128 /\ x < 128 /\ y < 128 /\ c < 128
        /\ n < 128 => x = n
        /\ n = x + 128 * a /\ a = y + 128 * c
  BY LengthArithmetic
<1>3. PICK u \in Byte, v \in Byte : u = 128 + x /\ v = 128 + y /\ u >= 128 /\ v >= 128 /\ u % 128 = x /\ v % 128 = y
  BY <1>2, HighByte
<1>4. CASE n < 128
  <2>1. n % 128 = n
    BY <1>4, HighByte
  <2>2. PICK e : e = EncodeLength[n]
    OBVIOUS
  <2>3. e \in Seq(Byte) /\ Len(e) = 1 /\ e[1] = n
    BY <1>4, <2>2, LastByte
  <2>4. Digit(e, 1) = n /\ Digit(e, 2) = 0 /\ Digit(e, 3) = 0
    BY <2>1, <2>3 DEF Digit
  <2>5. LengthBytes(e, n)
    BY <1>4, <2>3, <2>4, SMT DEF LengthBytes
  <2> QED
    BY <2>2, <2>5
<1>5. CASE ~(n < 128) /\ a < 128
  <2>2. PICK e, t : e = EncodeLength[n] /\ t = EncodeLength[a]
    OBVIOUS
  <2>3. t \in Seq(Byte) /\ Len(t) = 1 /\ t[1] = a
    BY <1>5, <2>2, LastByte
  <2>4. Preceded(e, u, t)
    BY <1>2, <1>3, <1>5, <2>2, BeforeLast
  <2>5. e \in Seq(Byte) /\ Len(e) = 2 /\ e[1] = u /\ e[2] = a
    BY ONLY <2>3, <2>4 DEF Preceded
  <2>6. LengthBytes(e, x + 128 * a)
    <3>1. a \in Nat /\ x \in Nat /\ a < 128
      BY <1>5
    <3> QED
      BY ONLY <1>3, <2>5, <3>1, TwoBytes
  <2> QED
    BY <1>2, <2>2, <2>6
<1>6. CASE ~(n < 128) /\ ~(a < 128)
  <2>2. PICK e, t, z : e = EncodeLength[n] /\ t = EncodeLength[a] /\ z = EncodeLength[c]
    OBVIOUS
  <2>3. z \in Seq(Byte) /\ Len(z) = 1 /\ z[1] = c
    BY <1>2, <2>2, LastByte
  <2>4. Preceded(t, v, z) /\ Preceded(e, u, t)
    BY <1>2, <1>3, <1>6, <2>2, BeforeLast
  <2>5. Len(t) = 2 /\ t[1] = v /\ t[2] = c
    BY ONLY <2>3, <2>4 DEF Preceded
  <2>6. e \in Seq(Byte) /\ Len(e) = 3 /\ e[1] = u /\ e[2] = v /\ e[3] = c
    BY ONLY <2>4, <2>5 DEF Preceded
  <2>7. LengthBytes(e, Value(x, y, c))
    <3>1. c \in Nat /\ x \in Nat /\ y \in Nat /\ c < 128
      BY <1>2
    <3> QED
      BY ONLY <1>3, <2>6, <3>1, ThreeBytes
  <2> QED
    BY <1>2, <2>2, <2>7 DEF Value
<1> QED
  BY <1>4, <1>5, <1>6

LEMMA LengthParts ==
  ASSUME NEW e, NEW n, LengthBytes(e, n)
  PROVE  \E l \in 1..3 : /\ l = Len(e) /\ e \in Seq(Byte) /\ e[l] < 128
                        /\ \A k \in 1..l : k < l => e[k] >= 128
BY SMT DEF LengthBytes

LEMMA HeaderRead ==
  ASSUME NEW b \in Seq(Byte), NEW e, NEW n \in Nat, LengthBytes(e, n), Holds(b, 1, e),
         FlagsOk(b[1] \div 16, b[1] % 16)
  PROVE  Header(b) = {[at |-> Len(e) + 1, length |-> n]}
<1>1. PICK l \in 1..3 : /\ l = Len(e) /\ e \in Seq(Byte) /\ e[l] < 128
                        /\ \A k \in 1..l : k < l => e[k] >= 128
  BY LengthParts, SMT
<1>11. Digit(e, 1) + 128 * Digit(e, 2) + 16384 * Digit(e, 3) = n
  BY SMT DEF LengthBytes
<1>2. 1 + l <= Len(b) /\ Len(b) \in Nat /\ \A k \in 1..l : b[k + 1] = e[k]
  BY <1>1, SMT DEF Holds
<1>3. \A k \in 1..l : e[k] \in Nat
  BY <1>1, ByteRange, SMT
<1>4. l \in Digits(b)
  <2>1. \A k \in 2..l : b[k] >= 128
    <3>1. SUFFICES ASSUME NEW k \in 2..l
                   PROVE  b[k] >= 128
      OBVIOUS
    <3>2. PICK j \in 1..l : j = k - 1 /\ j < l /\ k = j + 1
      BY SMT
    <3>3. b[j + 1] = e[j] /\ e[j] >= 128
      BY <1>1, <1>2, <3>2, SMT
    <3> QED
      BY <3>2, <3>3, SMT
  <2>2. b[l + 1] < 128
    BY <1>1, <1>2, SMT
  <2> QED
    BY <1>2, <2>1, <2>2, SMT DEF Digits, Has
<1>5. ASSUME NEW m \in Digits(b)
      PROVE  m = l
  <2>1. m \in 1..3 /\ b[m + 1] < 128 /\ \A k \in 2..m : b[k] >= 128
    BY SMT DEF Digits
  <2>2. ~(m < l)
    <3>1. SUFFICES ASSUME m < l
                   PROVE  FALSE
      OBVIOUS
    <3>2. m \in 1..l /\ e[m] >= 128 /\ e[m] \in Nat /\ b[m + 1] = e[m]
      BY <1>1, <1>2, <1>3, <2>1, <3>1, SMT
    <3> QED
      BY <2>1, <3>2, SMT
  <2>3. ~(l < m)
    <3>1. SUFFICES ASSUME l < m
                   PROVE  FALSE
      OBVIOUS
    <3>2. l + 1 \in 2..m /\ l \in 1..l
      BY <2>1, <3>1, SMT
    <3>3. b[l + 1] >= 128 /\ b[l + 1] = e[l] /\ e[l] \in Nat /\ e[l] < 128
      BY <1>1, <1>2, <1>3, <2>1, <3>2, SMT
    <3> QED
      BY <3>3, SMT
  <2> QED
    BY <2>1, <2>2, <2>3, SMT
<1>6. Digits(b) = {l}
  BY <1>4, <1>5
<1>7. \A k \in 1..3 : (IF k <= l THEN b[k + 1] % 128 ELSE 0) = Digit(e, k)
  BY <1>1, <1>2, SMT DEF Digit
<1>8. decode_remaining_length(b)
      = {[at |-> m + 1, length |-> (IF 1 <= m THEN b[1 + 1] % 128 ELSE 0)
                                   + 128 * (IF 2 <= m THEN b[2 + 1] % 128 ELSE 0)
                                   + 16384 * (IF 3 <= m THEN b[3 + 1] % 128 ELSE 0)] : m \in {l}}
  BY <1>6, SMT DEF decode_remaining_length
<1>9. (IF 1 <= l THEN b[1 + 1] % 128 ELSE 0) = Digit(e, 1)
      /\ (IF 2 <= l THEN b[2 + 1] % 128 ELSE 0) = Digit(e, 2)
      /\ (IF 3 <= l THEN b[3 + 1] % 128 ELSE 0) = Digit(e, 3)
  BY <1>7, SMT
<1>10. decode_remaining_length(b) = {[at |-> l + 1, length |-> n]}
  <2>1. decode_remaining_length(b)
        = {[at |-> l + 1, length |-> (IF 1 <= l THEN b[1 + 1] % 128 ELSE 0)
                                     + 128 * (IF 2 <= l THEN b[2 + 1] % 128 ELSE 0)
                                     + 16384 * (IF 3 <= l THEN b[3 + 1] % 128 ELSE 0)]}
    BY <1>8, SMT
  <2> QED
    BY <1>1, <1>9, <1>11, <2>1, SMT
<1> QED
  BY <1>1, <1>10, SMT DEF Header

\* The end of a segment inside the remaining length.
LEMMA HeaderUnfinished ==
  ASSUME NEW b \in Seq(Byte), NEW e, NEW n \in Nat, LengthBytes(e, n), Len(b) >= 2, Len(b) < Len(e) + 1,
         \A j \in 1..(Len(b) - 1) : b[j + 1] = e[j]
  PROVE  /\ Header(b) = {} /\ Len(b) - 1 \in 1..2
         /\ \A j \in 1..(Len(b) - 1) : b[1 + j] >= 128
<1>1. PICK l \in 1..3 : /\ l = Len(e) /\ e \in Seq(Byte)
                        /\ \A k \in 1..l : k < l => e[k] >= 128
  BY LengthParts, SMT
<1>2. PICK m \in Nat : m = Len(b)
  OBVIOUS
<1>3. m - 1 \in 1..2 /\ m - 1 < l
  BY <1>1, <1>2, SMT
<1>4. ASSUME NEW j \in 1..(m - 1)
      PROVE  b[1 + j] >= 128 /\ b[j + 1] >= 128
  <2>1. j \in 1..l /\ j < l /\ 1 + j = j + 1
    BY <1>1, <1>3, SMT
  <2>2. b[j + 1] = e[j] /\ e[j] >= 128
    BY <1>1, <1>2, <2>1, SMT
  <2> QED
    BY <2>1, <2>2, SMT
<1>5. Digits(b) = {}
  <2>1. SUFFICES ASSUME NEW k \in Digits(b)
                 PROVE  FALSE
    BY SMT
  <2>2. k \in 1..3 /\ 1 + k <= m /\ b[k + 1] < 128
    BY <1>2, SMT DEF Digits, Has
  <2>3. k \in 1..(m - 1) /\ k + 1 \in 1..Len(b)
    BY <1>2, <2>2, SMT
  <2>4. b[k + 1] \in Nat
    BY <2>3, ByteRange, SMT
  <2> QED
    BY <1>4, <2>2, <2>3, <2>4, SMT
<1>6. Header(b) = {}
  BY <1>5, SMT DEF Header, decode_remaining_length
<1> QED
  BY <1>2, <1>3, <1>4, <1>6, SMT

LEMMA PacketNumbers ==
  /\ CONNECT = 1 /\ PUBLISH = 3 /\ PUBREL = 6 /\ SUBSCRIBE = 8 /\ UNSUBSCRIBE = 10
  /\ Acknowledgements = {4, 5, 6, 7} /\ PINGREQ = 12 /\ DISCONNECT = 14
BY DEF CONNECT, PUBLISH, SUBSCRIBE, UNSUBSCRIBE, PINGREQ, DISCONNECT, Acknowledgements,
       PUBACK, PUBREC, PUBREL, PUBCOMP

LEMMA FirstByte ==
  ASSUME NEW p \in PacketType, p.type # Raw
  PROVE  /\ 16 * p.type + Flags(p) \in Byte
         /\ (16 * p.type + Flags(p)) \div 16 = p.type /\ (16 * p.type + Flags(p)) % 16 = Flags(p)
         /\ FlagsOk(p.type, Flags(p))
<1>1. PICK t \in 1..14, f \in 0..15 : t = p.type /\ f = Flags(p)
  BY FlagsRange
<1>2. 16 * t + f \in Byte /\ (16 * t + f) \div 16 = t /\ (16 * t + f) % 16 = f
  BY SMT DEF Byte
<1>3. FlagsOk(p.type, Flags(p))
  <2>1. CASE p.type = PUBLISH
    <3>1. p.dup \in BOOLEAN /\ p.qos \in 0..2 /\ p.retain \in BOOLEAN
      BY <2>1, PacketKinds
    <3>2. Flags(p) = Bit(p.dup, 8) + 2 * p.qos + Bit(p.retain, 1)
      BY <2>1, PacketNumbers DEF Flags
    <3>3. (Flags(p) \div 2) % 4 = p.qos
      BY <3>1, <3>2, PublishFlags
    <3>4. (Flags(p) \div 2) % 4 # 3
      BY <3>1, <3>3
    <3> QED
      BY <2>1, <3>4 DEF FlagsOk, PUBLISH, PUBREL, SUBSCRIBE, UNSUBSCRIBE
  <2>2. CASE p.type # PUBLISH /\ p.type \in {PUBREL, SUBSCRIBE, UNSUBSCRIBE}
    BY <2>2 DEF Flags, FlagsOk, PUBLISH, PUBREL, SUBSCRIBE, UNSUBSCRIBE
  <2>3. CASE p.type # PUBLISH /\ p.type \notin {PUBREL, SUBSCRIBE, UNSUBSCRIBE}
    <3>1. p.type \notin {0, 15}
      BY <1>1
    <3> QED
      BY <2>3, <3>1 DEF Flags, FlagsOk
  <2> QED
    BY <2>1, <2>2, <2>3
<1> QED
  BY <1>1, <1>2, <1>3

-----------------------------------------------------------------------------
(* A packet is read as it was written                                      *)

LEMMA BodyParsed ==
  ASSUME NEW p \in PacketType, Sound(p), NEW b \in Seq(Byte), NEW q \in Nat, Holds(b, q, Body(p))
  PROVE  Parse(b, q, p.type, Flags(p), Len(Body(p))) = {[at |-> q + Len(Body(p)), packet |-> p]}
<1>0. p.type # Raw
  BY DEF Sound
<1>1. CASE p.type = CONNECT
  <2>1. Body(p) = SerializeConnect(p)
    BY <1>1, PacketNumbers DEF Body
  <2>2. SoundConnect(p)
    BY <1>1 DEF Sound
  <2>3. ParseConnect(b, q) = {[at |-> q + Len(SerializeConnect(p)), packet |-> p]}
    BY <1>1, <2>1, <2>2, PacketKinds, ConnectHeld
  <2>4. Parse(b, q, p.type, Flags(p), Len(Body(p))) = ParseConnect(b, q)
    BY <1>1, PacketNumbers DEF Parse
  <2> QED
    BY <2>1, <2>3, <2>4
<1>2. CASE p.type = PUBLISH
  <2>1. Body(p) = SerializePublish(p)
    BY <1>2, PacketNumbers DEF Body
  <2>2. SoundPublish(p)
    BY <1>2 DEF Sound
  <2>3. PICK flags : flags = Flags(p) /\ flags = Bit(p.dup, 8) + 2 * p.qos + Bit(p.retain, 1)
    BY <1>2, PacketNumbers DEF Flags
  <2>4. p \in [type : {PUBLISH}, dup : BOOLEAN, qos : 0..2, retain : BOOLEAN, topic : Bytes16,
               id : Uint16, payload : Seq(Byte)]
    BY <1>2, PacketKinds
  <2>5. ParsePublish(b, q, flags, Len(SerializePublish(p)))
        = {[at |-> q + Len(SerializePublish(p)), packet |-> p]}
    <3>1. b \in Seq(Byte) /\ q \in Nat /\ PublishWritten(b, q, p, flags)
      BY <2>1, <2>2, <2>3, <2>4 DEF PublishWritten
    <3> QED
      BY ONLY <3>1, PublishHeld
  <2>6. Parse(b, q, p.type, Flags(p), Len(Body(p))) = ParsePublish(b, q, Flags(p), Len(Body(p)))
    BY <1>2, PacketNumbers DEF Parse
  <2> QED
    BY <2>1, <2>3, <2>5, <2>6
<1>3. CASE p.type \in {SUBSCRIBE, UNSUBSCRIBE}
  <2>1. Body(p) = SerializeFilters(p)
    BY <1>3, PacketNumbers DEF Body
  <2>2. SoundFilters(p)
    BY <1>3 DEF Sound
  <2>3. ParseFilters(b, q, p.type, Len(SerializeFilters(p)))
        = {[at |-> q + Len(SerializeFilters(p)), packet |-> p]}
    BY <1>3, <2>1, <2>2, FiltersHeld
  <2>4. Parse(b, q, p.type, Flags(p), Len(Body(p))) = ParseFilters(b, q, p.type, Len(Body(p)))
    BY <1>3, PacketNumbers DEF Parse, ParseSubscribe, ParseUnsubscribe
  <2> QED
    BY <2>1, <2>3, <2>4
<1>4. CASE p.type \in Acknowledgements
  <2>1. Body(p) = Word(p.id)
    BY <1>4, PacketNumbers DEF Body
  <2>2. p \in [type : Acknowledgements, id : Uint16]
    BY <1>4, PacketKinds
  <2>3. PICK id \in Uint16 : id = p.id /\ p = [type |-> p.type, id |-> id]
    BY <2>2
  <2>4. Len(Body(p)) = 2
    BY <2>1, <2>3, WordBytes
  <2>5. Has(b, q, 2) /\ WordAt(b, q) = id
    BY <2>1, <2>3, WordHeld
  <2>6. Parse(b, q, p.type, Flags(p), Len(Body(p)))
        = {[at |-> q + 2, packet |-> [type |-> p.type, id |-> id]]}
    BY <1>4, <2>5, PacketNumbers DEF Parse, AckEnd
  <2> QED
    BY <2>3, <2>4, <2>6
<1>5. CASE p.type \in {PINGREQ, DISCONNECT}
  <2>1. Body(p) = <<>>
    BY <1>5, PacketNumbers DEF Body
  <2>2. p = [type |-> p.type]
    BY <1>5, PacketKinds
  <2>3. Parse(b, q, p.type, Flags(p), Len(Body(p))) = {[at |-> q, packet |-> [type |-> p.type]]}
    BY <1>5, PacketNumbers DEF Parse
  <2>4. q + Len(Body(p)) = q
    BY <2>1
  <2> QED
    BY <2>2, <2>3, <2>4
<1> QED
  BY <1>0, <1>1, <1>2, <1>3, <1>4, <1>5, PacketKinds

\* The first byte, the remaining length and what follows it.
Parts(s, x, t, e, y) ==
  /\ t \in Seq(Byte) /\ y \in Seq(Byte) /\ LengthBytes(e, Len(y))
  /\ Preceded(t, x, e) /\ s = t \o y

LEMMA SerializedParts ==
  ASSUME NEW p \in PacketType, Sound(p)
  PROVE  \E t, e : Parts(Serialize(p), 16 * p.type + Flags(p), t, e, Body(p))
<1>1. p.type # Raw /\ Len(Body(p)) < 128 * 128 * 128
  BY SMT DEF Sound
<1>2. PICK x \in Byte : x = 16 * p.type + Flags(p)
  BY <1>1, FirstByte, SMT
<1>3. PICK y \in Seq(Byte) : y = Body(p)
  BY <1>1, BodyBytes, SMT
<1>4. PICK n \in Nat : n = Len(y) /\ n < 128 * 128 * 128
  BY <1>1, <1>3, SMT
<1>5. PICK e \in Seq(Byte) : e = EncodeLength[n] /\ LengthBytes(e, n)
  <2>1. EncodeLength[n] \in Seq(Byte)
    BY EncodedLength, SMT
  <2> QED
    BY <1>4, <2>1, LengthEncoded, SMT
<1>6. PICK t : t = <<x>> \o e
  OBVIOUS
<1>7. t \in Seq(Byte) /\ Preceded(t, x, e)
  BY <1>6, Prepended, SMT DEF Preceded
<1>8. Serialize(p) = t \o y
  BY <1>1, <1>2, <1>3, <1>4, <1>5, <1>6, SMT DEF Serialize
<1>9. Parts(Serialize(p), x, t, e, y)
  BY <1>4, <1>5, <1>7, <1>8, SMT DEF Parts
<1> QED
  BY <1>2, <1>3, <1>9, Zenon

\* What the parts of a packet say of a streambuf that begins with it.
LEMMA PartsHeld ==
  ASSUME NEW b \in Seq(Byte), NEW s, NEW x, NEW t, NEW e, NEW y, Parts(s, x, t, e, y)
  PROVE  /\ Len(s) = Len(e) + 1 + Len(y) /\ s \in Seq(Byte) /\ Len(e) \in 1..3
         /\ Len(y) \in Nat /\ e \in Seq(Byte) /\ LengthBytes(e, Len(y))
         /\ s[1] = x /\ \A k \in 1..Len(e) : s[k + 1] = e[k]
         /\ Holds(b, 0, s) => /\ b[1] = x /\ Holds(b, 1, e) /\ Holds(b, Len(e) + 1, y)
<1> /\ t \in Seq(Byte) /\ y \in Seq(Byte) /\ LengthBytes(e, Len(y))
    /\ Preceded(t, x, e) /\ s = t \o y
  BY SMT DEF Parts
<1>1. PICK l \in 1..3 : l = Len(e) /\ e \in Seq(Byte)
  BY LengthParts, SMT
<1>2. PICK n \in Nat : n = Len(y)
  BY SMT
<1>3. Len(t) = l + 1 /\ t[1] = x /\ \A k \in 1..l : t[k + 1] = e[k]
  BY <1>1, SMT DEF Preceded
<1>4. Len(s) = (l + 1) + n /\ s \in Seq(Byte)
  BY <1>2, <1>3, ConcatBytes, SMT
<1>5. \A k \in 1..(l + 1) : s[k] = t[k]
  BY <1>3, SMT
<1>6. s[1] = x /\ \A k \in 1..l : s[k + 1] = e[k]
  BY <1>3, <1>5, SMT
<1>7. ASSUME Holds(b, 0, s)
      PROVE  b[1] = x /\ Holds(b, 1, e) /\ Holds(b, l + 1, y)
  <2>1. Holds(b, 0, t \o y)
    BY <1>7
  <2>2. Holds(b, 0, t) /\ Holds(b, 0 + Len(t), y)
    BY <2>1, HoldsConcat, SMT
  <2>3. 0 + Len(t) = l + 1
    BY <1>3, SMT
  <2>4. l + 1 <= Len(b) /\ \A i \in 1..(l + 1) : b[i] = t[i]
    BY <1>3, <2>2, SMT DEF Holds
  <2>5. b[1] = x /\ \A k \in 1..l : b[1 + k] = e[k]
    BY <1>3, <2>4, SMT
  <2>6. Holds(b, 1, e)
    BY <1>1, <2>4, <2>5, SMT DEF Holds
  <2> QED
    BY <2>2, <2>3, <2>5, <2>6, SMT
<1> QED
  BY <1>1, <1>2, <1>4, <1>6, <1>7, SMT

\* The parsers are the inverse of serialize: a streambuf that begins with a sound packet is
\* read as that packet, every field of it, and exactly its bytes are consumed.
THEOREM ReadAsWritten ==
  ASSUME NEW p \in PacketType, Sound(p), NEW b \in Seq(Byte), Holds(b, 0, Serialize(p))
  PROVE  ~AwaitsMore(b) /\ Packet(b) = {[at |-> Len(Serialize(p)), packet |-> p]}
<1>1. PICK s, y, x : s = Serialize(p) /\ y = Body(p) /\ x = 16 * p.type + Flags(p)
  OBVIOUS
<1>2. PICK t : \E e : Parts(s, x, t, e, y)
  BY <1>1, SerializedParts, Zenon
<1>3. PICK e : Parts(s, x, t, e, y)
  BY <1>2
<1>4. /\ Len(s) = Len(e) + 1 + Len(y) /\ Len(e) \in 1..3 /\ Len(y) \in Nat /\ LengthBytes(e, Len(y))
      /\ b[1] = x /\ Holds(b, 1, e) /\ Holds(b, Len(e) + 1, y)
  BY <1>1, <1>3, PartsHeld, SMT
<1>5. PICK l \in 1..3, n \in Nat : l = Len(e) /\ n = Len(y)
  BY <1>4
<1>6. b[1] \div 16 = p.type /\ b[1] % 16 = Flags(p) /\ FlagsOk(p.type, Flags(p))
  BY <1>1, <1>4, FirstByte, SMT DEF Sound
<1>7. Header(b) = {[at |-> l + 1, length |-> n]}
  <2>1. LengthBytes(e, n) /\ Holds(b, 1, e) /\ FlagsOk(b[1] \div 16, b[1] % 16)
    BY <1>4, <1>5, <1>6
  <2> QED
    BY <1>5, <2>1, HeaderRead
<1>8. Parse(b, l + 1, p.type, Flags(p), n) = {[at |-> l + 1 + n, packet |-> p]}
  BY <1>1, <1>4, <1>5, BodyParsed
<1>9. l + 1 + n <= Len(b)
  BY <1>4, <1>5, SMT DEF Holds
<1>10. ~AwaitsMore(b)
  <2>1. ~(Len(b) < 2)
    BY <1>9, SMT
  <2>2. ASSUME NEW h \in Header(b)
        PROVE  ~Incomplete(b, h)
    <3>1. h.at = l + 1 /\ h.length = n
      BY <1>7
    <3> QED
      BY <1>9, <3>1, SMT DEF Incomplete
  <2> QED
    BY <2>1, <2>2 DEF AwaitsMore
<1>11. Packet(b) = {[at |-> l + 1 + n, packet |-> p]}
  <2>1. Packet(b) = UNION {Parse(b, h.at, p.type, Flags(p), h.length) : h \in {[at |-> l + 1, length |-> n]}}
    BY <1>6, <1>7 DEF Packet
  <2>2. Packet(b) = Parse(b, l + 1, p.type, Flags(p), n)
    BY <2>1
  <2> QED
    BY <1>8, <2>2
<1> QED
  BY <1>1, <1>4, <1>5, <1>10, <1>11

\* A streambuf that ends inside a sound packet: the codec asks for more, or it ends
\* inside the remaining length and there is no packet.
InsideLength(b) ==
  Packet(b) = {} /\ Len(b) - 1 \in 1..2 /\ \A j \in 1..(Len(b) - 1) : b[1 + j] >= 128

LEMMA Unparsed ==
  ASSUME NEW p \in PacketType, Sound(p), NEW b \in Seq(Byte), Len(b) < Len(Serialize(p)),
         \A i \in 1..Len(b) : b[i] = Serialize(p)[i], ~AwaitsMore(b)
  PROVE  InsideLength(b)
<1>1. PICK s, y, x : s = Serialize(p) /\ y = Body(p) /\ x = 16 * p.type + Flags(p)
  OBVIOUS
<1>2. PICK t : \E e : Parts(s, x, t, e, y)
  BY <1>1, SerializedParts, Zenon
<1>3. PICK e : Parts(s, x, t, e, y)
  BY <1>2
<1>4. /\ Len(s) = Len(e) + 1 + Len(y) /\ Len(e) \in 1..3 /\ Len(y) \in Nat /\ LengthBytes(e, Len(y))
      /\ s[1] = x /\ \A k \in 1..Len(e) : s[k + 1] = e[k]
  BY <1>1, <1>3, PartsHeld, SMT
<1>5. PICK l \in 1..3, n \in Nat, m \in Nat : l = Len(e) /\ n = Len(y) /\ m = Len(b)
  BY <1>4
<1>6. m >= 2 /\ m < l + 1 + n /\ \A i \in 1..m : b[i] = s[i]
  BY <1>1, <1>4, <1>5, SMT DEF AwaitsMore
<1>7. CASE m < l + 1
  <2>1. \A j \in 1..(m - 1) : b[j + 1] = e[j]
    <3>1. SUFFICES ASSUME NEW j \in 1..(m - 1)
                   PROVE  b[j + 1] = e[j]
      OBVIOUS
    <3>2. j + 1 \in 1..m /\ j \in 1..l
      BY <1>7, SMT
    <3> QED
      BY <1>4, <1>5, <1>6, <3>2, SMT
  <2>2. Header(b) = {} /\ Len(b) - 1 \in 1..2 /\ \A j \in 1..(Len(b) - 1) : b[1 + j] >= 128
    <3>1. /\ LengthBytes(e, n) /\ Len(b) >= 2 /\ Len(b) < Len(e) + 1
          /\ \A j \in 1..(Len(b) - 1) : b[j + 1] = e[j]
      BY <1>4, <1>5, <1>6, <1>7, <2>1
    <3> QED
      BY <1>5, <3>1, HeaderUnfinished
  <2>3. Packet(b) = {}
    BY <2>2 DEF Packet
  <2> QED
    BY <2>2, <2>3 DEF InsideLength
<1>8. CASE ~(m < l + 1)
  <2>1. b[1] = x /\ Holds(b, 1, e)
    <3>1. b[1] = x
      BY <1>4, <1>6, SMT
    <3>2. \A k \in 1..l : b[1 + k] = e[k]
      <4>1. SUFFICES ASSUME NEW k \in 1..l
                     PROVE  b[1 + k] = e[k]
        OBVIOUS
      <4>2. k + 1 \in 1..m /\ k + 1 = 1 + k
        BY <1>8, SMT
      <4> QED
        BY <1>4, <1>5, <1>6, <4>2, SMT
    <3> QED
      BY <1>5, <1>8, <3>1, <3>2, SMT DEF Holds
  <2>2. b[1] \div 16 = p.type /\ b[1] % 16 = Flags(p) /\ FlagsOk(p.type, Flags(p))
    BY <1>1, <2>1, FirstByte, SMT DEF Sound
  <2>3. Header(b) = {[at |-> l + 1, length |-> n]}
    <3>1. LengthBytes(e, n) /\ Holds(b, 1, e) /\ FlagsOk(b[1] \div 16, b[1] % 16)
      BY <1>4, <1>5, <2>1, <2>2
    <3> QED
      BY <1>5, <3>1, HeaderRead
  <2>4. Incomplete(b, [at |-> l + 1, length |-> n])
    BY <1>5, <1>6, SMT DEF Incomplete
  <2> QED
    BY <2>3, <2>4 DEF AwaitsMore
<1> QED
  BY <1>7, <1>8

-----------------------------------------------------------------------------
(* The stream is its packets, one after the other                          *)

EndIn(ps, k) == Len(StreamOf(SubSeq(ps, 1, k)))

LEMMA FirstPackets ==
  ASSUME NEW ps \in Seq(PacketType), NEW ss, ss = [j \in DOMAIN ps |-> Serialize(ps[j])],
         NEW k \in 0..Len(ps)
  PROVE  EndIn(ps, k) = Len(Joined(ss, k))
<1>1. PICK n \in Nat : n = Len(ps) /\ DOMAIN ps = 1..n
  OBVIOUS
<1>2. ss \in Seq(Seq(Byte)) /\ Len(ss) = n /\ \A j \in 1..n : ss[j] = Serialize(ps[j])
  <2>1. ss \in Seq(Seq(Byte)) /\ Len(ss) = n
    BY <1>1, Serialized
  <2>2. \A j \in 1..n : ss[j] = Serialize(ps[j])
    BY <1>1
  <2> QED
    BY <2>1, <2>2
<1>3. PICK qs : qs = SubSeq(ps, 1, k)
  OBVIOUS
<1>4. qs \in Seq(PacketType) /\ Len(qs) = k /\ \A j \in 1..k : qs[j] = ps[j]
  BY <1>3, FirstElements
<1>5. PICK us : us = SubSeq(ss, 1, k)
  OBVIOUS
<1>6. us \in Seq(Seq(Byte)) /\ Len(us) = k /\ \A j \in 1..k : us[j] = ss[j]
  BY <1>1, <1>2, <1>5, FirstElements
<1>7. [j \in DOMAIN qs |-> Serialize(qs[j])] = us
  <2>1. PICK vs : vs = [j \in DOMAIN qs |-> Serialize(qs[j])]
    OBVIOUS
  <2>2. vs \in Seq(Seq(Byte)) /\ Len(vs) = k
    BY <1>4, <2>1, Serialized
  <2>3. DOMAIN qs = 1..k
    BY <1>4
  <2>4. ASSUME NEW j \in 1..k
        PROVE  vs[j] = us[j]
    <3>1. vs[j] = Serialize(qs[j])
      BY <2>1, <2>3
    <3>2. qs[j] = ps[j] /\ us[j] = ss[j]
      BY <1>4, <1>6
    <3>3. j \in 1..n
      BY <1>1, SMT
    <3> QED
      BY <1>2, <3>1, <3>2, <3>3
  <2>5. vs = us
    BY <1>6, <2>2, <2>4
  <2> QED
    BY <2>1, <2>5
<1> QED
  BY <1>3, <1>5, <1>7 DEF EndIn, StreamOf, Joined

LEMMA PacketHeld ==
  ASSUME NEW ps \in Seq(PacketType), NEW k \in 1..Len(ps)
  PROVE  /\ Holds(StreamOf(ps), EndIn(ps, k - 1), Serialize(ps[k]))
         /\ EndIn(ps, k) = EndIn(ps, k - 1) + Len(Serialize(ps[k]))
         /\ EndIn(ps, k - 1) \in Nat /\ Len(Serialize(ps[k])) \in Nat
<1>1. PICK ss : ss = [j \in DOMAIN ps |-> Serialize(ps[j])]
  OBVIOUS
<1>2. ss \in Seq(Seq(Byte)) /\ Len(ss) = Len(ps) /\ Len(ps) \in Nat
  BY <1>1, Serialized
<1>3. ss[k] = Serialize(ps[k])
  BY <1>1
<1>4. PICK s \in Seq(Byte) : s = StreamOf(ps) /\ s = FlattenSeq(ss)
  BY <1>1, StreamBytes DEF StreamOf
<1>5. Holds(s, 0, FlattenSeq(ss))
  <2>1. Holds(s, 0, s)
    BY SMT DEF Holds
  <2> QED
    BY <1>4, <2>1
<1>6. k - 1 \in 0..Len(ps) /\ k \in 0..Len(ps) /\ k \in 1..Len(ss)
  BY <1>2
<1>7. EndIn(ps, k - 1) = Len(Joined(ss, k - 1)) /\ EndIn(ps, k) = Len(Joined(ss, k))
  BY <1>1, <1>6, FirstPackets
<1>8. /\ Holds(s, 0 + Len(Joined(ss, k - 1)), ss[k])
      /\ Len(Joined(ss, k)) = Len(Joined(ss, k - 1)) + Len(ss[k])
      /\ Len(Joined(ss, k - 1)) \in Nat /\ Len(ss[k]) \in Nat
  BY <1>2, <1>5, <1>6, HoldsJoined
<1>9. 0 + Len(Joined(ss, k - 1)) = Len(Joined(ss, k - 1))
  BY <1>8, SMT
<1> QED
  BY <1>3, <1>4, <1>7, <1>8, <1>9

LEMMA NoPackets ==
  ASSUME NEW ps \in Seq(PacketType)
  PROVE  EndIn(ps, 0) = 0
<1>1. PICK ss : ss = [j \in DOMAIN ps |-> Serialize(ps[j])]
  OBVIOUS
<1>2. ss \in Seq(Seq(Byte)) /\ 0 \in 0..Len(ps)
  BY <1>1, Serialized
<1>3. Joined(ss, 0) = <<>>
  BY <1>2, JoinedStep
<1>4. EndIn(ps, 0) = Len(Joined(ss, 0))
  BY <1>1, <1>2, FirstPackets
<1> QED
  BY <1>3, <1>4

-----------------------------------------------------------------------------
(* What the codec hands on                                                 *)

\* While all is sound the codec has read exactly the packets it has handed on.
ReadAreHanded == SoundUpTo(Len(handed)) => read = EndOf(Len(handed))

IInv ==
  /\ TypeOK
  /\ handed \in Seq({handed[k] : k \in DOMAIN handed})
  /\ HandedAreSent
  /\ ReadAreHanded
  /\ ClosedOnlyInsideLength

\* A call of channel_read that does not ask for more: the next packet, if it is sound.
LEMMA NextRead ==
  ASSUME TypeOK, ReadAreHanded, handed \in Seq({handed[j] : j \in DOMAIN handed}),
         NEW k, k = Len(handed) + 1, SoundUpTo(k), NEW b, b = SubSeq(Stream, read + 1, arrived),
         ~AwaitsMore(b)
  PROVE  /\ k \in 1..Len(packets) /\ read = EndOf(k - 1) /\ Len(b) = arrived - read
         /\ \A i \in 1..Len(b) : b[i] = Stream[read + i]
         /\ \/ /\ Packet(b) = {[at |-> Len(Serialize(packets[k])), packet |-> packets[k]]}
               /\ read + Len(Serialize(packets[k])) = EndOf(k)
            \/ InsideLength(b)
<1>1. PICK s \in Seq(Byte) : s = Stream /\ packets \in Seq(PacketType)
  BY StreambufBytes
<1>2. PICK l \in Nat : l = arrived - read /\ Len(b) = l /\ b \in Seq(Byte) /\ \A i \in 1..l : b[i] = s[read + i]
  BY <1>1, StreambufBytes DEF TypeOK
<1>3. k \in 1..Len(packets) /\ SoundUpTo(k - 1) /\ Sound(packets[k]) /\ packets[k] \in PacketType
      /\ Len(handed) = k - 1
  <2>1. k \in Nat /\ k >= 1 /\ Len(handed) = k - 1
    BY SMT
  <2>2. k \in 1..k
    BY <2>1, SMT
  <2>3. k \in DOMAIN packets /\ Sound(packets[k])
    BY <2>2, Zenon DEF SoundUpTo
  <2>4. SoundUpTo(k - 1)
    <3>1. \A j \in 1..(k - 1) : j \in 1..k
      BY <2>1, SMT
    <3> QED
      BY <3>1, Zenon DEF SoundUpTo
  <2> QED
    BY <1>1, <2>1, <2>3, <2>4
<1>4. read = EndOf(k - 1)
  BY <1>3 DEF ReadAreHanded
<1>5. PICK q : q = Serialize(packets[k])
  OBVIOUS
<1>6. Holds(s, read, q) /\ EndOf(k) = read + Len(q) /\ read \in Nat /\ Len(q) \in Nat
  <2>1. EndOf(k - 1) = EndIn(packets, k - 1) /\ EndOf(k) = EndIn(packets, k) /\ s = StreamOf(packets)
    BY <1>1 DEF EndOf, EndIn, Stream
  <2> QED
    BY <1>1, <1>3, <1>4, <1>5, <2>1, PacketHeld
<1>7. \A i \in 1..Len(q) : s[read + i] = q[i]
  BY <1>6 DEF Holds
<1>8. CASE Len(q) <= l
  <2>1. \A i \in 1..Len(q) : b[0 + i] = q[i]
    BY <1>2, <1>6, <1>7, <1>8, SMT
  <2>2. Holds(b, 0, q)
    BY <1>2, <1>6, <1>8, <2>1, SMT DEF Holds
  <2>3. Packet(b) = {[at |-> Len(q), packet |-> packets[k]]}
    <3>1. packets[k] \in PacketType /\ Sound(packets[k]) /\ b \in Seq(Byte) /\ Holds(b, 0, Serialize(packets[k]))
      BY <1>2, <1>3, <1>5, <2>2
    <3>2. Packet(b) = {[at |-> Len(Serialize(packets[k])), packet |-> packets[k]]}
      BY ONLY <3>1, ReadAsWritten
    <3> QED
      BY <1>5, <3>2
  <2> QED
    BY <1>1, <1>2, <1>3, <1>4, <1>5, <1>6, <2>3
<1>9. CASE ~(Len(q) <= l)
  <2>1. Len(b) < Len(q) /\ \A i \in 1..Len(b) : b[i] = q[i]
    BY <1>2, <1>6, <1>7, <1>9, SMT
  <2>2. InsideLength(b)
    BY <1>2, <1>3, <1>5, <2>1, Unparsed
  <2> QED
    BY <1>1, <1>2, <1>3, <1>4, <2>2
<1> QED
  BY <1>8, <1>9

LEMMA InvInit ==
  ASSUME Init
  PROVE  IInv
<1>1. handed = <<>> /\ read = 0 /\ open = TRUE /\ Len(handed) = 0
  BY DEF Init
<1>2. packets \in Seq(PacketType)
  BY ScriptAssumption DEF Init
<1>3. EndOf(0) = 0
  BY <1>2, NoPackets DEF EndOf, EndIn
<1>4. handed \in Seq({handed[k] : k \in DOMAIN handed})
  BY <1>1
<1>5. HandedAreSent
  BY <1>1 DEF HandedAreSent
<1>6. ReadAreHanded
  BY <1>1, <1>3 DEF ReadAreHanded
<1>7. ClosedOnlyInsideLength
  BY <1>1 DEF ClosedOnlyInsideLength
<1> QED
  BY <1>4, <1>5, <1>6, <1>7, TypeInit DEF IInv

\* A packet handed on is the last of those handed on.
IsSequence(h) == h \in Seq({h[j] : j \in DOMAIN h})
Extends(g, h, p) ==
  /\ Len(h) \in Nat /\ DOMAIN h = 1..Len(h) /\ IsSequence(g)
  /\ Len(g) = Len(h) + 1 /\ DOMAIN g = 1..(Len(h) + 1)
  /\ g[Len(h) + 1] = p /\ \A j \in 1..Len(h) : g[j] = h[j]

LEMMA HandedOn ==
  ASSUME NEW h, IsSequence(h), NEW p, NEW g, g = Append(h, p)
  PROVE  Extends(g, h, p)
<1>1. PICK S : S = {h[j] : j \in DOMAIN h} \cup {p}
  OBVIOUS
<1>2. h \in Seq(S) /\ p \in S
  BY <1>1 DEF IsSequence
<1>3. /\ Len(h) \in Nat /\ DOMAIN h = 1..Len(h) /\ g \in Seq(S)
      /\ Len(g) = Len(h) + 1 /\ DOMAIN g = 1..(Len(h) + 1)
      /\ g[Len(h) + 1] = p /\ \A j \in 1..Len(h) : g[j] = h[j]
  BY <1>2
<1>4. IsSequence(g)
  BY <1>3 DEF IsSequence
<1> QED
  BY <1>3, <1>4 DEF Extends

LEMMA InvNext ==
  ASSUME IInv, [Next]_vars
  PROVE  IInv'
<1> /\ TypeOK /\ handed \in Seq({handed[j] : j \in DOMAIN handed})
    /\ HandedAreSent /\ ReadAreHanded /\ ClosedOnlyInsideLength
  BY DEF IInv
<1>0. TypeOK'
  BY TypeNext
<1>1. CASE UNCHANGED <<packets, read, handed>> /\ open'
  <2>1. (handed \in Seq({handed[j] : j \in DOMAIN handed}))'
    BY <1>1
  <2>2. HandedAreSent'
    BY <1>1 DEF HandedAreSent, SoundUpTo
  <2>3. ReadAreHanded'
    BY <1>1 DEF ReadAreHanded, SoundUpTo, EndOf
  <2>4. ClosedOnlyInsideLength'
    BY <1>1 DEF ClosedOnlyInsideLength
  <2> QED
    BY <1>0, <2>1, <2>2, <2>3, <2>4 DEF IInv
<1>2. CASE UNCHANGED vars
  <2>1. UNCHANGED <<packets, arrived, read, handed, open>>
    BY <1>2 DEF vars
  <2>2. (handed \in Seq({handed[j] : j \in DOMAIN handed}))'
    BY <2>1
  <2>3. HandedAreSent'
    BY <2>1 DEF HandedAreSent, SoundUpTo
  <2>4. ReadAreHanded'
    BY <2>1 DEF ReadAreHanded, SoundUpTo, EndOf
  <2>5. ClosedOnlyInsideLength'
    BY <2>1 DEF ClosedOnlyInsideLength, SoundUpTo, EndOf, Stream
  <2> QED
    BY <1>0, <2>2, <2>3, <2>4, <2>5 DEF IInv
<1>3. ASSUME NEW n \in 1..(Len(Stream) - arrived), SegmentArrives(n)
      PROVE  UNCHANGED <<packets, read, handed>> /\ open'
  BY <1>3 DEF SegmentArrives
<1>4. CASE channel_read
  <2>1. PICK b : b = SubSeq(Stream, read + 1, arrived)
    OBVIOUS
  <2>2. PICK k : k = Len(handed) + 1
    OBVIOUS
  <2>3. open /\ packets' = packets /\ arrived' = arrived
    BY <1>4 DEF channel_read
  <2>4. CASE UNCHANGED <<read, open, handed>>
    BY <1>1, <2>3, <2>4
  <2>5. ASSUME ~AwaitsMore(b), NEW r \in Packet(b), read' = read + r.at,
               handed' = Append(handed, r.packet), open' = open
        PROVE  IInv'
    <3>1. /\ Len(handed) \in Nat /\ DOMAIN handed = 1..(k - 1)
          /\ handed' \in Seq({handed'[j] : j \in DOMAIN handed'})
          /\ Len(handed') = k /\ DOMAIN handed' = 1..k
          /\ handed'[k] = r.packet /\ \A j \in 1..(k - 1) : handed'[j] = handed[j]
      <4>1. PICK h, g : h = handed /\ g = handed'
        OBVIOUS
      <4>2. /\ Len(h) \in Nat /\ DOMAIN h = 1..Len(h) /\ g \in Seq({g[j] : j \in DOMAIN g})
            /\ Len(g) = Len(h) + 1 /\ DOMAIN g = 1..(Len(h) + 1)
            /\ g[Len(h) + 1] = r.packet /\ \A j \in 1..Len(h) : g[j] = h[j]
        <5>1. IsSequence(h) /\ g = Append(h, r.packet)
          BY <2>5, <4>1 DEF IsSequence
        <5>2. Extends(g, h, r.packet)
          BY ONLY <5>1, HandedOn
        <5> QED
          BY <5>2 DEF Extends, IsSequence
      <4>3. Len(h) + 1 = k /\ Len(h) = k - 1
        BY <2>2, <4>1, <4>2
      <4> QED
        BY <4>1, <4>2, <4>3
    <3>2. ASSUME SoundUpTo(k)
          PROVE  r.packet = packets[k] /\ read' = EndOf(k)
      <4>1. /\ Packet(b) = {[at |-> Len(Serialize(packets[k])), packet |-> packets[k]]}
            /\ read + Len(Serialize(packets[k])) = EndOf(k)
        BY <2>1, <2>2, <2>5, <3>2, NextRead DEF InsideLength
      <4>2. r = [at |-> Len(Serialize(packets[k])), packet |-> packets[k]]
        BY <2>5, <4>1
      <4> QED
        BY <2>5, <4>1, <4>2
    <3>3. HandedAreSent'
      <4>1. SUFFICES ASSUME NEW j \in 1..k, SoundUpTo(j)'
                     PROVE  handed'[j] = packets'[j]
        BY <3>1 DEF HandedAreSent
      <4>2. SoundUpTo(j)
        BY <2>3, <4>1 DEF SoundUpTo
      <4>3. CASE j = k
        BY <2>3, <3>1, <3>2, <4>2, <4>3
      <4>4. CASE j # k
        <5>1. j \in 1..(k - 1)
          BY <2>2, <3>1, <4>4
        <5> QED
          BY <2>3, <3>1, <4>2, <5>1 DEF HandedAreSent
      <4> QED
        BY <4>3, <4>4
    <3>4. ReadAreHanded'
      <4>1. SUFFICES ASSUME SoundUpTo(k)'
                     PROVE  read' = EndOf(k)'
        BY <3>1 DEF ReadAreHanded
      <4>2. SoundUpTo(k) /\ EndOf(k)' = EndOf(k)
        BY <2>3, <4>1 DEF SoundUpTo, EndOf
      <4> QED
        BY <3>2, <4>2
    <3>5. ClosedOnlyInsideLength'
      BY <2>3, <2>5 DEF ClosedOnlyInsideLength
    <3> QED
      BY <1>0, <3>1, <3>3, <3>4, <3>5 DEF IInv
  <2>6. ASSUME ~AwaitsMore(b), Packet(b) = {}, open' = FALSE, UNCHANGED <<read, handed>>
        PROVE  IInv'
    <3>1. (handed \in Seq({handed[j] : j \in DOMAIN handed}))'
      BY <2>6
    <3>2. HandedAreSent'
      BY <2>3, <2>6 DEF HandedAreSent, SoundUpTo
    <3>3. ReadAreHanded'
      BY <2>3, <2>6 DEF ReadAreHanded, SoundUpTo, EndOf
    <3>4. ASSUME SoundUpTo(k)
          PROVE  \E n \in 1..2 : /\ arrived = EndOf(k - 1) + 1 + n
                                 /\ \A j \in 1..n : Stream[EndOf(k - 1) + 1 + j] >= 128
      <4>1. /\ read = EndOf(k - 1) /\ Len(b) = arrived - read
            /\ (\A i \in 1..Len(b) : b[i] = Stream[read + i]) /\ InsideLength(b)
        BY <2>1, <2>2, <2>6, <3>4, NextRead
      <4>2. PICK n \in 1..2 : n = Len(b) - 1 /\ \A j \in 1..n : b[1 + j] >= 128
        BY <4>1 DEF InsideLength
      <4>3. read \in Nat /\ arrived \in Nat
        BY StreambufBytes, SMT DEF TypeOK
      <4>4. Len(b) = n + 1 /\ arrived = read + 1 + n
        BY <4>1, <4>2, <4>3, SMT
      <4>5. \A j \in 1..n : Stream[read + 1 + j] >= 128
        <5>1. SUFFICES ASSUME NEW j \in 1..n
                       PROVE  Stream[read + 1 + j] >= 128
          OBVIOUS
        <5>2. 1 + j \in 1..Len(b) /\ read + (1 + j) = read + 1 + j
          BY <4>3, <4>4, SMT
        <5> QED
          BY <4>1, <4>2, <5>2
      <4> QED
        BY <4>1, <4>4, <4>5
    <3>5. ClosedOnlyInsideLength'
      BY <2>2, <2>3, <2>6, <3>4 DEF ClosedOnlyInsideLength, SoundUpTo, EndOf, Stream
    <3> QED
      BY <1>0, <3>1, <3>2, <3>3, <3>5 DEF IInv
  <2> QED
    BY <1>4, <2>1, <2>4, <2>5, <2>6 DEF channel_read
<1> QED
  BY <1>1, <1>2, <1>3, <1>4 DEF Next

\* What is handed on is what was sent, and what has been read is what was handed on.
THEOREM Invariance == FairSpec => []IInv
<1>1. IInv /\ [Next]_vars => IInv'
  BY InvNext
<1>2. Init => IInv
  BY InvInit
<1> QED
  BY <1>1, <1>2, PTL DEF FairSpec

\* What packet_handler is given is what a client serialized, packet by packet and field by
\* field, wherever TCP cut the stream, up to the first packet that is not sound.
THEOREM HandedAreAsSent == FairSpec => []HandedAreSent
<1>1. IInv => HandedAreSent
  BY DEF IInv
<1> QED
  BY <1>1, Invariance, PTL

\* Sound packets make the codec close the channel in one case only: a segment that ends
\* inside the remaining length of a packet.
THEOREM ClosedInsideLength == FairSpec => []ClosedOnlyInsideLength
<1>1. IInv => ClosedOnlyInsideLength
  BY DEF IInv
<1> QED
  BY <1>1, Invariance, PTL
=============================================================================
