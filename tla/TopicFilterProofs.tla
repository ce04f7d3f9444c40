------------------------- MODULE TopicFilterProofs -------------------------
(***************************************************************************)
(* Theorems about module TopicFilter, for filters and names of any length  *)
(* and any characters.                                                     *)
(***************************************************************************)
EXTENDS TopicFilter, SequenceLemmas

-----------------------------------------------------------------------------
(* Cuts.  What CutsOf computes by rank are the separators and the ends of  *)
(* a string in their order: all there is to know of it.                    *)

CutUp(s, c) ==
  /\ c \in Seq(Nat)
  /\ Len(c) >= 2
  /\ c[1] = 0
  /\ c[Len(c)] = Len(s) + 1
  /\ \A i, j \in DOMAIN c : i < j => c[i] < c[j]
  /\ \A i \in DOMAIN c : c[i] \in Separators(s)
  /\ \A k \in Separators(s) : \E i \in DOMAIN c : c[i] = k

\* In a finite set of numbers every rank is that of one element.
LEMMA Ranks ==
  ASSUME NEW T \in SUBSET Nat, IsFiniteSet(T),
         NEW rank, rank = [k \in T |-> Cardinality({j \in T : j <= k})]
  PROVE  /\ rank \in [T -> 1..Cardinality(T)]
         /\ \A j, k \in T : j < k => rank[j] < rank[k]
         /\ \A i \in 1..Cardinality(T) : \E k \in T : rank[k] = i
<1> DEFINE UpTo(k) == {j \in T : j <= k}
<1>1. Cardinality(T) \in Nat
  BY FS_CardinalityType
<1>2. ASSUME NEW k \in T
      PROVE  /\ rank[k] = Cardinality(UpTo(k)) /\ IsFiniteSet(UpTo(k))
             /\ rank[k] \in 1..Cardinality(T)
  <2>1. UpTo(k) \in SUBSET T /\ k \in UpTo(k)
    OBVIOUS
  <2>2. IsFiniteSet(UpTo(k)) /\ Cardinality(UpTo(k)) <= Cardinality(T)
    BY <2>1, FS_Subset
  <2>3. Cardinality(UpTo(k)) \in Nat /\ Cardinality(UpTo(k)) # 0
    BY <2>1, <2>2, FS_CardinalityType, FS_EmptySet
  <2>4. rank[k] = Cardinality(UpTo(k))
    OBVIOUS
  <2> QED
    BY <1>1, <2>2, <2>3, <2>4
<1>3. ASSUME NEW j \in T, NEW k \in T, j < k
      PROVE  rank[j] < rank[k]
  <2>1. UpTo(j) \in SUBSET UpTo(k) /\ k \in UpTo(k) /\ k \notin UpTo(j)
    <3>1. j \in Nat /\ k \in Nat /\ \A x \in T : x \in Nat
      OBVIOUS
    <3>2. \A x \in T : x <= j => x <= k
      BY <1>3, <3>1
    <3>3. k <= k /\ ~(k <= j)
      BY <1>3, <3>1
    <3> QED
      BY <3>2, <3>3
  <2>2. Cardinality(UpTo(j)) <= Cardinality(UpTo(k)) /\ Cardinality(UpTo(j)) # Cardinality(UpTo(k))
    <3>1. IsFiniteSet(UpTo(k))
      BY <1>2
    <3> HIDE DEF UpTo
    <3> QED
      BY <2>1, <3>1, FS_Subset
  <2>3. rank[j] \in Nat /\ rank[k] \in Nat
    BY <1>1, <1>2
  <2> QED
    BY <1>2, <2>2, <2>3
<1>4. rank \in [T -> 1..Cardinality(T)]
  BY <1>2
<1> HIDE DEF UpTo
<1>5. rank \in Injection(T, 1..Cardinality(T))
  <2>1. ASSUME NEW j \in T, NEW k \in T, rank[j] = rank[k]
        PROVE  j = k
    <3>1. j \in Nat /\ k \in Nat /\ rank[j] \in Nat
      BY <1>1, <1>4
    <3>2. ~(j < k) /\ ~(k < j)
      BY <1>3, <2>1, <3>1
    <3> QED
      BY <3>1, <3>2
  <2> QED
    BY <1>4, <2>1 DEF Injection, IsInjective
<1>6. rank \in Surjection(T, 1..Cardinality(T))
  <2>1. IsFiniteSet(1..Cardinality(T)) /\ Cardinality(1..Cardinality(T)) = Cardinality(T)
    BY <1>1, FS_Interval
  <2> QED
    BY <1>5, <2>1, FS_Injection
<1>7. \A i \in 1..Cardinality(T) : \E k \in T : rank[k] = i
  BY <1>6 DEF Surjection
<1> QED
  BY <1>3, <1>4, <1>7

\* The inverse of a rank is an increasing sequence.
InverseOf(T, n, rank, c) ==
  /\ rank \in [T -> 1..n]
  /\ \A j, k \in T : j < k => rank[j] < rank[k]
  /\ c \in [1..n -> T]
  /\ \A i \in 1..n : rank[c[i]] = i
Increasing(T, n, c) ==
  /\ n \in Nat /\ c \in [1..n -> T]
  /\ \A i, j \in 1..n : i < j => c[i] < c[j]
  /\ \A k \in T : \E i \in 1..n : c[i] = k

LEMMA InverseOfRank ==
  ASSUME NEW T \in SUBSET Nat, NEW n \in Nat, NEW rank, NEW c, InverseOf(T, n, rank, c)
  PROVE  Increasing(T, n, c)
<1> USE DEF InverseOf
<1>a. \A k \in T : k \in Nat
  OBVIOUS
<1>b. \A i \in 1..n : i \in Nat
  OBVIOUS
<1>c. \A i \in 1..n : c[i] \in Nat
  BY <1>a
<1>1. ASSUME NEW i \in 1..n, NEW j \in 1..n, i < j
      PROVE  c[i] < c[j]
  <2>1. c[i] \in T /\ c[j] \in T /\ rank[c[i]] = i /\ rank[c[j]] = j
    OBVIOUS
  <2>2. c[i] \in Nat /\ c[j] \in Nat /\ i \in Nat /\ j \in Nat
    BY ONLY <1>a, <1>b, <1>c, i \in 1..n, j \in 1..n
  <2>3. ~(c[j] < c[i])
    BY <1>1, <2>1, <2>2
  <2>4. c[i] # c[j]
    BY <1>1, <2>1, <2>2
  <2> QED
    BY <2>2, <2>3, <2>4
<1>2. ASSUME NEW k \in T
      PROVE  \E i \in 1..n : c[i] = k
  <2>1. PICK i \in 1..n : rank[k] = i
    OBVIOUS
  <2>2. c[i] \in T /\ rank[c[i]] = i
    OBVIOUS
  <2>3. k \in Nat /\ c[i] \in Nat /\ i \in Nat
    BY ONLY <1>a, <1>b, <1>c, k \in T, i \in 1..n
  <2>4. ~(k < c[i]) /\ ~(c[i] < k)
    BY <2>1, <2>2, <2>3
  <2> QED
    BY <2>3, <2>4
<1> QED
  BY <1>1, <1>2 DEF Increasing

\* Sorted by rank, a finite set of numbers is an increasing sequence of its elements.
SortedByRank(T, c) ==
  c = [i \in 1..Cardinality(T) |-> CHOOSE k \in T : Cardinality({j \in T : j <= k}) = i]

LEMMA SortedIncreases ==
  ASSUME NEW T \in SUBSET Nat, IsFiniteSet(T), NEW n, n = Cardinality(T),
         NEW c, SortedByRank(T, c)
  PROVE  Increasing(T, n, c)
<1>1. PICK rank : rank = [k \in T |-> Cardinality({j \in T : j <= k})]
  OBVIOUS
<1>2. /\ rank \in [T -> 1..n]
      /\ \A j, k \in T : j < k => rank[j] < rank[k]
      /\ \A i \in 1..n : \E k \in T : rank[k] = i
  BY <1>1, Ranks
<1>3. n \in Nat
  BY FS_CardinalityType
<1>4. ASSUME NEW i \in 1..n
      PROVE  c[i] \in T /\ rank[c[i]] = i
  <2>1. c[i] = CHOOSE k \in T : Cardinality({j \in T : j <= k}) = i
    BY DEF SortedByRank
  <2>2. PICK x \in T : Cardinality({j \in T : j <= x}) = i
    BY <1>1, <1>2
  <2>3. c[i] \in T /\ Cardinality({j \in T : j <= c[i]}) = i
    BY <2>1, <2>2
  <2> QED
    BY <1>1, <2>3
<1>5. c \in [1..n -> T]
  <2> DEFINE At(i) == CHOOSE k \in T : Cardinality({j \in T : j <= k}) = i
  <2>1. c = [i \in 1..n |-> At(i)]
    BY DEF SortedByRank
  <2> HIDE DEF At
  <2>2. \A i \in 1..n : c[i] \in T
    BY <1>4
  <2> QED
    BY ONLY <2>1, <2>2
<1>6. T \in SUBSET Nat
  OBVIOUS
<1>7. InverseOf(T, n, rank, c)
  BY ONLY <1>2, <1>4, <1>5 DEF InverseOf
<1> QED
  BY <1>3, <1>7, InverseOfRank

LEMMA CutsAre ==
  ASSUME NEW S, NEW s \in Seq(S), NEW c, c = CutsOf(s)
  PROVE  CutUp(s, c)
<1>1. PICK T : T = Separators(s)
  OBVIOUS
<1>2. PICK last : last = Len(s) + 1
  OBVIOUS
<1>3. /\ T \in SUBSET Nat /\ last \in Nat
      /\ 0 \in T /\ last \in T /\ \A k \in T : k <= last
  BY <1>1, <1>2 DEF Separators
<1>4. IsFiniteSet(T)
  BY <1>3, FS_BoundedSetOfNaturals
<1>5. PICK n : n = Cardinality(T)
  OBVIOUS
<1>6. SortedByRank(T, c)
  BY <1>1 DEF CutsOf, SortedByRank
<1>7. /\ n \in Nat /\ c \in [1..n -> T]
      /\ \A i, j \in 1..n : i < j => c[i] < c[j]
      /\ \A k \in T : \E i \in 1..n : c[i] = k
  <2>1. Increasing(T, n, c)
    BY <1>3, <1>4, <1>5, <1>6, SortedIncreases
  <2> QED
    BY <2>1 DEF Increasing
<1>8. c \in [1..n -> Nat]
  BY <1>3, <1>7
<1>9. c \in Seq(Nat) /\ Len(c) = n /\ DOMAIN c = 1..n
  BY <1>7, <1>8
<1>10. n >= 2 /\ c[1] = 0 /\ c[n] = last
  <2>1. PICK a \in 1..n, b \in 1..n : c[a] = 0 /\ c[b] = last
    BY <1>3, <1>7
  <2>2. last # 0
    BY <1>2
  <2>3. n >= 2 /\ 1 \in 1..n /\ n \in 1..n
    BY <1>7, <2>1, <2>2
  <2>4. c[1] \in Nat /\ c[n] \in Nat /\ c[n] <= last
    BY <1>3, <1>7, <1>8, <2>3
  <2>5. ~(1 < a)
    BY <1>7, <2>1, <2>3, <2>4
  <2>6. ~(b < n)
    BY <1>3, <1>7, <2>1, <2>3, <2>4
  <2> QED
    BY <1>7, <2>1, <2>3, <2>5, <2>6
<1> QED
  BY <1>1, <1>2, <1>7, <1>9, <1>10 DEF CutUp

-----------------------------------------------------------------------------
(* Levels.  What the levels of a string are, in terms of its cuts.         *)

Chars == UNION {Range(s) : s \in Filters \cup Names}

Split(s, c, l) ==
  /\ s \in Seq(Chars)
  /\ CutUp(s, c)
  /\ l \in Seq(Seq(Chars))
  /\ Len(l) = Len(c) - 1
  /\ \A i \in 1..Len(l) :
       /\ Len(l[i]) = c[i + 1] - c[i] - 1
       /\ \A d \in 1..Len(l[i]) : l[i][d] = s[c[i] + d]

\* A level lies between its two cuts.
LEMMA LevelLies ==
  ASSUME NEW s, NEW c, NEW l, Split(s, c, l), NEW i \in 1..Len(l)
  PROVE  /\ Len(s) \in Nat /\ Len(l) \in Nat /\ DOMAIN s = 1..Len(s)
         /\ i \in Nat /\ c[i] \in Nat /\ c[i + 1] \in Nat /\ c[i] < c[i + 1]
         /\ c[i + 1] <= Len(s) + 1
         /\ c[i + 1] = Len(s) + 1 <=> i = Len(l)
         /\ i = 1 <=> c[i] = 0
         /\ i # 1 => s[c[i]] = Slash
         /\ i # Len(l) => s[c[i + 1]] = Slash
<1>1. /\ c \in Seq(Nat) /\ s \in Seq(Chars) /\ Len(c) \in Nat /\ Len(s) \in Nat
      /\ DOMAIN c = 1..Len(c) /\ Len(l) = Len(c) - 1 /\ Len(l) \in Nat
      /\ DOMAIN s = 1..Len(s)
  BY DEF Split, CutUp
<1>2. i \in DOMAIN c /\ i + 1 \in DOMAIN c /\ i \in Nat /\ i < i + 1
      /\ 1 \in DOMAIN c /\ Len(c) \in DOMAIN c
  BY <1>1
<1>3. c[i] \in Nat /\ c[i + 1] \in Nat
  BY <1>1, <1>2
<1>4. /\ \A j, k \in DOMAIN c : j < k => c[j] < c[k]
      /\ c[1] = 0 /\ c[Len(c)] = Len(s) + 1
      /\ \A j \in DOMAIN c : c[j] \in Separators(s)
  BY DEF Split, CutUp
<1>5. c[i] < c[i + 1]
  BY <1>2, <1>4
<1>6. i + 1 = Len(c) \/ c[i + 1] < Len(s) + 1
  <2>1. CASE i + 1 < Len(c)
    BY <1>2, <1>4, <2>1
  <2> QED
    BY <1>1, <1>2, <2>1
<1>7. i = 1 \/ 0 < c[i]
  <2>1. CASE 1 < i
    BY <1>2, <1>4, <2>1
  <2> QED
    BY <1>2, <2>1
<1>8. i # 1 => s[c[i]] = Slash
  <2> SUFFICES ASSUME i # 1
               PROVE  s[c[i]] = Slash
    OBVIOUS
  <2>1. c[i] \in Separators(s) /\ c[i] # 0 /\ c[i] # Len(s) + 1
    BY <1>1, <1>2, <1>3, <1>4, <1>5, <1>6, <1>7
  <2> QED
    BY <2>1 DEF Separators
<1>9. i # Len(l) => s[c[i + 1]] = Slash
  <2> SUFFICES ASSUME i # Len(l)
               PROVE  s[c[i + 1]] = Slash
    OBVIOUS
  <2>1. c[i + 1] < Len(s) + 1
    BY <1>1, <1>2, <1>6
  <2>2. c[i + 1] \in Separators(s) /\ c[i + 1] # 0 /\ c[i + 1] # Len(s) + 1
    BY <1>1, <1>2, <1>3, <1>4, <1>5, <2>1
  <2> QED
    BY <2>2 DEF Separators
<1>10. i + 1 = Len(c) <=> i = Len(l)
  <2>1. Len(l) = Len(c) - 1 /\ Len(c) \in Nat /\ i \in Nat
    BY <1>1, <1>2
  <2> QED
    BY ONLY <2>1
<1>11. i + 1 = Len(c) => c[i + 1] = Len(s) + 1
  BY <1>4
<1>12. /\ c[i + 1] <= Len(s) + 1
       /\ c[i + 1] = Len(s) + 1 <=> i = Len(l)
  <2>1. c[i + 1] \in Nat /\ Len(s) \in Nat
    BY <1>1, <1>3
  <2> QED
    BY ONLY <1>6, <1>10, <1>11, <2>1
<1>13. i = 1 <=> c[i] = 0
  BY <1>3, <1>4, <1>7
<1> QED
  BY <1>1, <1>2, <1>3, <1>5, <1>8, <1>9, <1>12, <1>13

\* There is no separator inside a level.
LEMMA NextCut ==
  ASSUME NEW s, NEW c, NEW l, Split(s, c, l), NEW i \in 1..Len(l),
         NEW k \in Separators(s), c[i] < k, k <= c[i + 1]
  PROVE  k = c[i + 1]
<1>1. /\ c \in Seq(Nat) /\ Len(c) \in Nat /\ DOMAIN c = 1..Len(c) /\ Len(l) = Len(c) - 1
      /\ \A a, b \in DOMAIN c : a < b => c[a] < c[b]
  <2>1. CutUp(s, c) /\ Len(l) = Len(c) - 1
    BY DEF Split
  <2>2. c \in Seq(Nat) /\ \A a, b \in DOMAIN c : a < b => c[a] < c[b]
    BY ONLY <2>1 DEF CutUp
  <2>3. Len(c) \in Nat /\ DOMAIN c = 1..Len(c)
    BY ONLY <2>2
  <2> QED
    BY ONLY <2>1, <2>2, <2>3
<1>2. PICK j \in DOMAIN c : c[j] = k
  BY DEF Split, CutUp
<1>3. i \in Nat /\ j \in Nat /\ i \in DOMAIN c /\ i + 1 \in DOMAIN c
      /\ c[i] \in Nat /\ c[j] \in Nat /\ c[i + 1] \in Nat
  BY <1>1, <1>2
<1>4. ~(j < i)
  <2> SUFFICES ASSUME j < i
               PROVE  FALSE
    OBVIOUS
  <2>1. c[j] < c[i]
    BY <1>1, <1>3
  <2> QED
    BY <1>2, <1>3, <2>1
<1>5. j # i
  BY <1>2, <1>3
<1>6. ~(i + 1 < j)
  <2> SUFFICES ASSUME i + 1 < j
               PROVE  FALSE
    OBVIOUS
  <2>1. c[i + 1] < c[j]
    BY <1>1, <1>3
  <2> QED
    BY <1>2, <1>3, <2>1
<1>7. j = i + 1
  BY <1>3, <1>4, <1>5, <1>6
<1> QED
  BY <1>2, <1>7

\* Every character that is not a separator is in a level.
LEMMA InLevel ==
  ASSUME NEW s, NEW c, NEW l, Split(s, c, l), NEW k \in 1..Len(s), s[k] # Slash
  PROVE  \E i \in 1..Len(l) : c[i] < k /\ k < c[i + 1]
<1>1. /\ c \in Seq(Nat) /\ Len(c) \in Nat /\ DOMAIN c = 1..Len(c) /\ Len(l) = Len(c) - 1
      /\ Len(c) >= 2 /\ c[1] = 0 /\ c[Len(c)] = Len(s) + 1 /\ Len(s) \in Nat
      /\ \A j \in DOMAIN c : c[j] \in Separators(s)
  BY DEF Split, CutUp
<1>2. PICK T : T = {j \in DOMAIN c : k < c[j]}
  OBVIOUS
<1>3. T \in SUBSET Nat /\ Len(c) \in T
  BY <1>1, <1>2
<1>4. PICK j \in T : \A x \in T : j <= x
  BY <1>3, LeastNat
<1>5. j \in DOMAIN c /\ k < c[j] /\ j \in Nat /\ k \in Nat
  BY <1>1, <1>2, <1>3
<1>6. j # 1
  BY <1>1, <1>5
<1>7. j - 1 \in DOMAIN c /\ j - 1 \in 1..Len(l) /\ (j - 1) + 1 = j
  BY <1>1, <1>5, <1>6
<1>8. j - 1 \notin T
  BY <1>4, <1>5
<1>9. c[j - 1] \in Nat /\ ~(k < c[j - 1])
  BY <1>1, <1>2, <1>7, <1>8
<1>10. c[j - 1] # k
  <2>1. k \notin Separators(s)
    BY <1>1, <1>5 DEF Separators
  <2> QED
    BY <1>1, <1>7, <2>1
<1>11. c[j - 1] < k /\ k < c[(j - 1) + 1]
  BY <1>5, <1>7, <1>9, <1>10
<1> QED
  BY <1>7, <1>11

\* A level of a string.
LEMMA LevelIs ==
  ASSUME NEW s, NEW c, NEW l, Split(s, c, l), NEW i \in 1..Len(l)
  PROVE  /\ l[i] \in Seq(Chars) /\ c[i] \in Nat /\ c[i + 1] \in Nat
         /\ Len(l[i]) = c[i + 1] - c[i] - 1
         /\ \A d \in 1..Len(l[i]) : l[i][d] = s[c[i] + d]
<1>1. c[i] \in Nat /\ c[i + 1] \in Nat
  BY LevelLies
<1>2. l \in Seq(Seq(Chars))
  BY DEF Split
<1>3. l[i] \in Seq(Chars)
  BY ONLY <1>2, i \in 1..Len(l)
<1>4. /\ Len(l[i]) = c[i + 1] - c[i] - 1
      /\ \A d \in 1..Len(l[i]) : l[i][d] = s[c[i] + d]
  BY ONLY Split(s, c, l), i \in 1..Len(l) DEF Split
<1> QED
  BY ONLY <1>1, <1>3, <1>4

\* A level of one character, an empty level, and two levels that are equal.
LEMMA OneCharacter ==
  ASSUME NEW s, NEW c, NEW l, Split(s, c, l), NEW i \in 1..Len(l), NEW x
  PROVE  l[i] = <<x>> <=> c[i + 1] = c[i] + 2 /\ s[c[i] + 1] = x
<1>1. l[i] \in Seq(Chars) /\ c[i] \in Nat /\ c[i + 1] \in Nat
      /\ Len(l[i]) = c[i + 1] - c[i] - 1
      /\ \A d \in 1..Len(l[i]) : l[i][d] = s[c[i] + d]
  BY LevelIs
<1>2. l[i] = <<x>> <=> Len(l[i]) = 1 /\ l[i][1] = x
  <2>1. l[i] = <<x>> => Len(l[i]) = 1 /\ l[i][1] = x
    OBVIOUS
  <2>2. ASSUME Len(l[i]) = 1, l[i][1] = x
        PROVE  l[i] = <<x>>
    BY <1>1, <2>2
  <2> QED
    BY <2>1, <2>2
<1>3. Len(l[i]) = 1 <=> c[i + 1] = c[i] + 2
  BY <1>1
<1>4. Len(l[i]) = 1 => l[i][1] = s[c[i] + 1]
  BY <1>1
<1> QED
  BY <1>2, <1>3, <1>4

LEMMA NoCharacter ==
  ASSUME NEW s, NEW c, NEW l, Split(s, c, l), NEW i \in 1..Len(l)
  PROVE  l[i] = <<>> <=> c[i + 1] = c[i] + 1
<1>1. l[i] \in Seq(Chars) /\ c[i] \in Nat /\ c[i + 1] \in Nat
      /\ Len(l[i]) = c[i + 1] - c[i] - 1
  <2>1. c[i] \in Nat /\ c[i + 1] \in Nat
    BY LevelLies
  <2>2. l \in Seq(Seq(Chars)) /\ Len(l[i]) = c[i + 1] - c[i] - 1
    BY DEF Split
  <2>3. l[i] \in Seq(Chars)
    BY <2>2
  <2> QED
    BY ONLY <2>1, <2>2, <2>3
<1>2. l[i] = <<>> <=> Len(l[i]) = 0
  BY <1>1
<1> QED
  BY <1>1, <1>2

LEMMA SameCharacters ==
  ASSUME NEW s, NEW c, NEW l, Split(s, c, l), NEW i \in 1..Len(l),
         NEW t, NEW e, NEW m, Split(t, e, m), NEW j \in 1..Len(m)
  PROVE  l[i] = m[j] <=> /\ c[i + 1] - c[i] = e[j + 1] - e[j]
                         /\ \A d \in 1..(c[i + 1] - c[i] - 1) : s[c[i] + d] = t[e[j] + d]
<1>1. l[i] \in Seq(Chars) /\ c[i] \in Nat /\ c[i + 1] \in Nat
      /\ Len(l[i]) = c[i + 1] - c[i] - 1
      /\ \A d \in 1..Len(l[i]) : l[i][d] = s[c[i] + d]
  BY ONLY LevelIs, Split(s, c, l), i \in 1..Len(l)
<1>2. m[j] \in Seq(Chars) /\ e[j] \in Nat /\ e[j + 1] \in Nat
      /\ Len(m[j]) = e[j + 1] - e[j] - 1
      /\ \A d \in 1..Len(m[j]) : m[j][d] = t[e[j] + d]
  BY ONLY LevelIs, Split(t, e, m), j \in 1..Len(m)
<1>3. l[i] = m[j] <=> Len(l[i]) = Len(m[j]) /\ \A d \in 1..Len(l[i]) : l[i][d] = m[j][d]
  BY <1>1, <1>2, SeqEqual
<1>4. Len(l[i]) = Len(m[j]) <=> c[i + 1] - c[i] = e[j + 1] - e[j]
  <2>1. /\ Len(l[i]) = c[i + 1] - c[i] - 1 /\ c[i] \in Nat /\ c[i + 1] \in Nat
        /\ Len(m[j]) = e[j + 1] - e[j] - 1 /\ e[j] \in Nat /\ e[j + 1] \in Nat
    BY <1>1, <1>2
  <2>2. PICK p \in Int, q \in Int : p = c[i + 1] - c[i] /\ q = e[j + 1] - e[j]
    BY ONLY <2>1
  <2>3. Len(l[i]) = p - 1 /\ Len(m[j]) = q - 1
    BY ONLY <2>1, <2>2
  <2>4. p - 1 = q - 1 <=> p = q
    OBVIOUS
  <2> QED
    BY ONLY <2>2, <2>3, <2>4
<1>5. ASSUME Len(l[i]) = Len(m[j]), NEW d \in 1..Len(l[i])
      PROVE  l[i][d] = s[c[i] + d] /\ m[j][d] = t[e[j] + d]
  BY <1>1, <1>2, <1>5
<1>6. 1..Len(l[i]) = 1..(c[i + 1] - c[i] - 1)
  BY <1>1
<1> QED
  BY <1>3, <1>4, <1>5, <1>6

LEMMA SplitIs ==
  ASSUME NEW s \in Seq(Chars)
  PROVE  Split(s, CutsOf(s), LevelsOf(s))
<1>1. PICK c : c = CutsOf(s)
  OBVIOUS
<1>2. PICK l : l = LevelsOf(s)
  OBVIOUS
<1>3. CutUp(s, c)
  BY <1>1, CutsAre
<1>4. c \in Seq(Nat) /\ Len(c) \in Nat /\ Len(c) >= 2 /\ DOMAIN c = 1..Len(c)
      /\ \A i, j \in DOMAIN c : i < j => c[i] < c[j]
      /\ c[Len(c)] = Len(s) + 1 /\ Len(s) \in Nat /\ DOMAIN s = 1..Len(s)
  BY <1>3 DEF CutUp
<1>5. l = [i \in 1..(Len(c) - 1) |-> SubSeq(s, c[i] + 1, c[i + 1] - 1)]
  BY <1>1, <1>2 DEF LevelsOf
<1>6. ASSUME NEW i \in 1..(Len(c) - 1)
      PROVE  /\ l[i] \in Seq(Chars)
             /\ Len(l[i]) = c[i + 1] - c[i] - 1
             /\ \A d \in 1..Len(l[i]) : l[i][d] = s[c[i] + d]
  <2>1. i \in DOMAIN c /\ i + 1 \in DOMAIN c /\ i \in Nat /\ Len(c) \in DOMAIN c
    BY <1>4
  <2>2. c[i] \in Nat /\ c[i + 1] \in Nat
    BY <1>4, <2>1
  <2>3. c[i] < c[i + 1]
    BY <1>4, <2>1
  <2>4. c[i + 1] <= Len(s) + 1
    <3>1. CASE i + 1 < Len(c)
      <4>1. c[i + 1] < c[Len(c)]
        BY <1>4, <2>1, <3>1
      <4>2. c[Len(c)] = Len(s) + 1 /\ Len(s) \in Nat
        BY <1>4
      <4> QED
        BY ONLY <2>2, <4>1, <4>2
    <3>2. CASE i + 1 = Len(c)
      BY <1>4, <3>2
    <3> QED
      BY <1>4, <2>1, <3>1, <3>2
  <2>5. PICK a \in Nat, b \in Nat : a = c[i] + 1 /\ b = c[i + 1] - 1
    BY <2>2, <2>3
  <2>6. \A k \in a..b : s[k] \in Chars
    <3>1. Len(s) \in Nat
      OBVIOUS
    <3>2. \A k \in a..b : k \in 1..Len(s)
      BY ONLY <2>2, <2>4, <2>5, <3>1
    <3> QED
      BY <3>2
  <2>7. l[i] = SubSeq(s, a, b)
    BY <1>5, <2>5
  <2>8. /\ l[i] \in Seq(Chars)
        /\ Len(l[i]) = IF a <= b THEN b - a + 1 ELSE 0
        /\ \A d \in 1..(b - a + 1) : l[i][d] = s[a + d - 1]
    <3>1. a \in Int /\ b \in Int
      BY <2>5
    <3>2. /\ SubSeq(s, a, b) \in Seq(Chars)
          /\ Len(SubSeq(s, a, b)) = IF a <= b THEN b - a + 1 ELSE 0
          /\ \A d \in 1..(b - a + 1) : SubSeq(s, a, b)[d] = s[a + d - 1]
      BY ONLY <2>6, <3>1, SubSeqProperties
    <3> QED
      <4>1. PICK g : g = SubSeq(s, a, b)
        OBVIOUS
      <4>2. /\ g \in Seq(Chars)
            /\ Len(g) = IF a <= b THEN b - a + 1 ELSE 0
            /\ \A d \in 1..(b - a + 1) : g[d] = s[a + d - 1]
        BY ONLY <3>2, <4>1
      <4>3. l[i] = g
        BY ONLY <2>7, <4>1
      <4> QED
        BY ONLY <4>2, <4>3
  <2>9. Len(l[i]) = b - a + 1 /\ b - a + 1 = c[i + 1] - c[i] - 1
    <3>1. PICK u \in Nat, v \in Nat : u = c[i] /\ v = c[i + 1]
      BY <2>2
    <3>2. u < v /\ a = u + 1 /\ b = v - 1 /\ a \in Nat /\ b \in Nat
      BY ONLY <2>3, <2>5, <3>1, a \in Nat, b \in Nat
    <3>3. b - a + 1 = v - u - 1 /\ (~(a <= b) => b - a + 1 = 0)
      BY ONLY <3>2, u \in Nat, v \in Nat
    <3> QED
      BY ONLY <2>8, <3>1, <3>3
  <2>10. \A d \in 1..Len(l[i]) : a + d - 1 = c[i] + d
    <3>1. \A d \in 1..(b - a + 1) : a + d - 1 = c[i] + d
      BY ONLY <2>2, <2>5
    <3> QED
      BY ONLY <2>9, <3>1
  <2>11. \A d \in 1..Len(l[i]) : l[i][d] = s[a + d - 1]
    BY ONLY <2>8, <2>9
  <2> QED
    BY ONLY <2>8, <2>9, <2>10, <2>11
<1>7. l \in Seq(Seq(Chars)) /\ Len(l) = Len(c) - 1
  <2>1. PICK n \in Nat : n = Len(c) - 1
    <3>1. Len(c) \in Nat /\ Len(c) >= 2
      BY <1>4
    <3>2. Len(c) - 1 \in Nat
      BY ONLY <3>1
    <3> QED
      BY ONLY <3>2
  <2>2. \A i \in 1..n : l[i] \in Seq(Chars)
    BY <1>6, <2>1
  <2>3. DOMAIN l = 1..n /\ l = [i \in 1..n |-> l[i]]
    BY <1>5, <2>1
  <2>4. l \in [1..n -> Seq(Chars)]
    BY ONLY <2>2, <2>3
  <2> QED
    BY ONLY <2>1, <2>4
<1>8. Split(s, c, l)
  BY <1>3, <1>6, <1>7 DEF Split
<1> QED
  BY <1>1, <1>2, <1>8

-----------------------------------------------------------------------------
(* Validity.  What is_topic_filter_valid tests at each character, against  *)
(* what the standard says of levels.                                       *)

\* In a filter that is accepted a wildcard is a level of its own, and '#' the last.
LEMMA WildcardAlone ==
  ASSUME NEW f, NEW c, NEW l, Split(f, c, l), is_topic_filter_valid(f),
         NEW i \in 1..Len(l), NEW k \in 1..Len(f), c[i] < k, k < c[i + 1],
         f[k] \in {Plus, Hash}
  PROVE  /\ k = c[i] + 1
         /\ c[i + 1] = k + 1
         /\ f[k] = Hash => i = Len(l)
<1>1. /\ Len(f) \in Nat /\ DOMAIN f = 1..Len(f)
      /\ c[i] \in Nat /\ c[i + 1] \in Nat /\ c[i + 1] <= Len(f) + 1
      /\ c[i + 1] = Len(f) + 1 <=> i = Len(l)
  BY LevelLies
<1>2. k \in Nat /\ k >= 1 /\ k <= Len(f)
  BY <1>1
<1>3. ~BadWildcard(f, k)
  BY <1>1 DEF is_topic_filter_valid
<1>4. /\ k = 1 \/ f[k - 1] = Slash
      /\ k = Len(f) \/ f[k + 1] = Slash
      /\ f[k] = Hash => k = Len(f)
  BY <1>2, <1>3 DEF BadWildcard
<1>5. k = c[i] + 1
  <2>1. CASE k = 1
    BY ONLY <1>1, <1>2, <2>1, c[i] < k
  <2>2. CASE k # 1
    <3>1. k - 1 \in 1..Len(f) /\ f[k - 1] = Slash
      <4>1. f[k - 1] = Slash
        BY ONLY <1>4, <2>2
      <4>2. k - 1 \in 1..Len(f)
        BY ONLY Len(f) \in Nat, <1>1, <1>2, <2>2
      <4> QED
        BY <4>1, <4>2
    <3>2. k - 1 \in Separators(f)
      BY <1>1, <3>1 DEF Separators
    <3>3. ~(c[i] < k - 1)
      <4> SUFFICES ASSUME c[i] < k - 1
                   PROVE  FALSE
        OBVIOUS
      <4>1. k - 1 <= c[i + 1]
        BY ONLY <1>1, <1>2, k < c[i + 1]
      <4>2. k - 1 = c[i + 1]
        BY <3>2, <4>1, NextCut
      <4> QED
        BY ONLY <1>1, <1>2, <4>2, k < c[i + 1]
    <3> QED
      BY ONLY <1>1, <1>2, <3>3, c[i] < k
  <2> QED
    BY <2>1, <2>2
<1>6. c[i + 1] = k + 1
  <2>1. k + 1 \in Separators(f)
    <3>1. CASE k = Len(f)
      BY <3>1 DEF Separators
    <3>2. CASE k # Len(f)
      <4>1. k + 1 \in 1..Len(f) /\ f[k + 1] = Slash
        <5>1. f[k + 1] = Slash
          BY ONLY <1>4, <3>2
        <5>2. k + 1 \in 1..Len(f)
          <6>1. k \in Nat /\ Len(f) \in Nat /\ k >= 1 /\ k <= Len(f) /\ k # Len(f)
            BY <1>1, <1>2, <3>2
          <6> QED
            BY ONLY <6>1
        <5> QED
          BY <5>1, <5>2
      <4> QED
        BY <1>1, <4>1 DEF Separators
    <3> QED
      BY <3>1, <3>2
  <2>2. c[i] < k + 1 /\ k + 1 <= c[i + 1]
    BY ONLY <1>1, <1>2, c[i] < k, k < c[i + 1]
  <2> QED
    BY <2>1, <2>2, NextCut
<1>7. f[k] = Hash => i = Len(l)
  BY <1>1, <1>4, <1>6
<1> QED
  BY <1>5, <1>6, <1>7

\* mqtt_subscribe::is_topic_filter_valid accepts the filters that are valid level by
\* level.
LEMMA ValidityAgrees ==
  ASSUME NEW f \in Seq(Chars)
  PROVE  is_topic_filter_valid(f) <=> ValidLevels(f)
<1>1. PICK c : c = CutsOf(f)
  OBVIOUS
<1>2. PICK l : l = LevelsOf(f)
  OBVIOUS
<1>3. Split(f, c, l)
  BY <1>1, <1>2, SplitIs
<1>4. /\ Len(f) \in Nat /\ DOMAIN f = 1..Len(f) /\ DOMAIN l = 1..Len(l) /\ Len(l) \in Nat
  BY <1>3 DEF Split
<1>5. ASSUME is_topic_filter_valid(f), NEW i \in 1..Len(l), NEW x \in {Plus, Hash},
             x \in Range(l[i])
      PROVE  l[i] = <<x>> /\ (x = Hash => i = Len(l))
  <2>1. PICK d \in DOMAIN l[i] : l[i][d] = x
    BY <1>5 DEF Range
  <2>2. /\ c[i] \in Nat /\ c[i + 1] \in Nat /\ c[i + 1] <= Len(f) + 1 /\ c[i] < c[i + 1]
    BY <1>3, LevelLies
  <2>3. /\ l \in Seq(Seq(Chars)) /\ Len(l[i]) = c[i + 1] - c[i] - 1
        /\ \A e \in 1..Len(l[i]) : l[i][e] = f[c[i] + e]
    BY <1>3 DEF Split
  <2>4. l[i] \in Seq(Chars)
    BY <1>4, <2>3
  <2>5. d \in 1..Len(l[i])
    BY <2>4
  <2>6. PICK k : k = c[i] + d
    OBVIOUS
  <2>7. k \in 1..Len(f) /\ c[i] < k /\ k < c[i + 1]
    <3>1. d \in Nat /\ 1 <= d /\ d <= Len(l[i]) /\ Len(l[i]) = c[i + 1] - c[i] - 1
      BY <2>3, <2>4, <2>5
    <3> QED
      BY ONLY <1>4, <2>2, <2>6, <3>1
  <2>8. f[k] = x
    BY <2>1, <2>3, <2>5, <2>6
  <2>9. k = c[i] + 1 /\ c[i + 1] = k + 1 /\ (x = Hash => i = Len(l))
    BY <1>3, <1>5, <2>7, <2>8, WildcardAlone
  <2>10. c[i + 1] = c[i] + 2 /\ f[c[i] + 1] = x
    BY <2>2, <2>8, <2>9
  <2>11. l[i] = <<x>>
    BY <1>3, <2>10, OneCharacter
  <2> QED
    BY <2>9, <2>11
<1>6. ASSUME ValidLevels(f), NEW k \in 1..Len(f)
      PROVE  ~BadWildcard(f, k)
  <2> SUFFICES ASSUME f[k] \in {Plus, Hash}
               PROVE  ~BadWildcard(f, k)
    BY DEF BadWildcard
  <2>1. f[k] # Slash
    BY CharacterAssumption
  <2>2. PICK i \in 1..Len(l) : c[i] < k /\ k < c[i + 1]
    BY <1>3, <2>1, InLevel
  <2>3. /\ c[i] \in Nat /\ c[i + 1] \in Nat /\ c[i + 1] <= Len(f) + 1 /\ c[i] < c[i + 1]
        /\ c[i + 1] = Len(f) + 1 <=> i = Len(l)
        /\ i = 1 <=> c[i] = 0
        /\ i # 1 => f[c[i]] = Slash
        /\ i # Len(l) => f[c[i + 1]] = Slash
    BY <1>3, LevelLies
  <2>4. /\ l \in Seq(Seq(Chars)) /\ Len(l[i]) = c[i + 1] - c[i] - 1
        /\ \A e \in 1..Len(l[i]) : l[i][e] = f[c[i] + e]
    BY <1>3 DEF Split
  <2>5. PICK n \in Nat, a \in Nat, b \in Nat : n = Len(f) /\ a = c[i] /\ b = c[i + 1]
    BY <1>4, <2>3
  <2>6. k \in 1..n /\ a < k /\ k < b /\ Len(l[i]) = b - a - 1
    BY <2>2, <2>4, <2>5
  <2>7. k - a \in 1..Len(l[i]) /\ a + (k - a) = k
    <3>1. k - a \in 1..(b - a - 1) /\ a + (k - a) = k
      BY ONLY <2>6, a \in Nat, b \in Nat, n \in Nat
    <3> QED
      BY <2>6, <3>1
  <2>8. f[k] \in Range(l[i])
    <3>1. l[i] \in Seq(Chars)
      BY <1>4, <2>4
    <3>2. l[i][k - a] = f[a + (k - a)]
      BY <2>4, <2>5, <2>7
    <3>3. l[i][k - a] = f[k] /\ k - a \in DOMAIN l[i]
      BY <2>7, <3>1, <3>2
    <3> QED
      BY <3>3 DEF Range
  <2>9. l[i] = <<f[k]>> /\ (f[k] = Hash => i = Len(l))
    BY <1>2, <1>4, <1>6, <2>8 DEF ValidLevels
  <2>10. b = a + 2
    <3>1. PICK x : x = f[k]
      OBVIOUS
    <3>2. l[i] = <<x>>
      BY <2>9, <3>1
    <3>3. c[i + 1] = c[i] + 2
      BY <1>3, <3>2, OneCharacter
    <3> QED
      BY <2>5, <3>3
  <2>11. k = a + 1 /\ k + 1 = b /\ k - 1 = a
    BY ONLY <2>6, <2>10, a \in Nat, b \in Nat, n \in Nat
  <2>12. k # 1 => f[k - 1] = Slash
    <3>1. k # 1 => a # 0
      BY ONLY <2>11, a \in Nat
    <3>2. a # 0 => f[a] = Slash
      BY <2>3, <2>5
    <3> QED
      BY <2>11, <3>1, <3>2
  <2>13. k # Len(f) => f[k + 1] = Slash
    <3>1. k # n => b # n + 1
      BY ONLY <2>11, a \in Nat, b \in Nat, n \in Nat
    <3>2. b # n + 1 => f[b] = Slash
      BY <2>3, <2>5
    <3> QED
      BY <2>5, <2>11, <3>1, <3>2
  <2>14. f[k] = Hash => k = Len(f)
    <3>1. b = n + 1 => k = n
      BY ONLY <2>11, a \in Nat, b \in Nat, n \in Nat
    <3>2. f[k] = Hash => b = n + 1
      BY <2>3, <2>5, <2>9
    <3> QED
      BY <2>5, <3>1, <3>2
  <2> QED
    BY <2>12, <2>13, <2>14, CharacterAssumption DEF BadWildcard
<1> QED
  BY <1>2, <1>4, <1>5, <1>6 DEF is_topic_filter_valid, ValidLevels

-----------------------------------------------------------------------------
(* The loop of match.  Between two iterations the iterators stand in levels of the *)
(* same number; all levels before fit, and what was read of these two is the same, *)
(* or '+' has taken the whole level of the name.                                   *)

FitAt(f, n, j) == LevelsOf(f)[j] \in {<<Plus>>, LevelsOf(n)[j]}

\* The level of the filter between a and b, and that of the name between u and v.
OneLevel(f, a, b, x) == b = a + 2 /\ f[a + 1] = x
SameLevel(f, a, b, n, u, v) ==
  b - a = v - u /\ \A d \in 1..(b - a - 1) : f[a + d] = n[u + d]

\* What was read of them, the iterators being at p and q.
ReadSame(f, n, a, u, p, q) ==
  /\ p - a = q - u
  /\ \A d \in 1..(p - a - 1) : f[a + d] = n[u + d] /\ f[a + d] \notin {Plus, Hash}
PassedPlus(f, n, a, b, u, v, p, q) ==
  /\ OneLevel(f, a, b, Plus)
  /\ p = b
  /\ q = v
  /\ ~(v = Len(n) + 1 /\ v = u + 1)

At(f, n, i, p, q) ==
  LET a == CutsOf(f)[i]
      b == CutsOf(f)[i + 1]
      u == CutsOf(n)[i]
      v == CutsOf(n)[i + 1]
  IN  /\ i \in 1..Len(LevelsOf(f))
      /\ i \in 1..Len(LevelsOf(n))
      /\ p \in Nat /\ a < p /\ p <= b
      /\ q \in Nat /\ u < q /\ q <= v
      /\ \A j \in 1..(i - 1) : FitAt(f, n, j)
      /\ \/ ReadSame(f, n, a, u, p, q)
         \/ PassedPlus(f, n, a, b, u, v, p, q)

\* Level i of s, the lt-th of them the last, lies between a and b.
Between(s, i, a, b) ==
  /\ a \in Nat /\ b \in Nat
  /\ a = CutsOf(s)[i] /\ b = CutsOf(s)[i + 1]
  /\ a < b
  /\ b <= Len(s) + 1
  /\ b = Len(s) + 1 <=> i = Len(LevelsOf(s))
  /\ i = 1 <=> a = 0
  /\ i # 1 => s[a] = Slash
  /\ i # Len(LevelsOf(s)) => s[b] = Slash
  /\ \A k \in Separators(s) : a < k /\ k <= b => k = b
  /\ \A x : LevelsOf(s)[i] = <<x>> <=> OneLevel(s, a, b, x)
  /\ LevelsOf(s)[i] = <<>> <=> b = a + 1

LEMMA LevelBetween ==
  ASSUME NEW s \in Seq(Chars), NEW i \in 1..Len(LevelsOf(s))
  PROVE  \E a, b \in Nat : Between(s, i, a, b)
<1>1. PICK c : c = CutsOf(s)
  OBVIOUS
<1>2. PICK l : l = LevelsOf(s)
  OBVIOUS
<1>3. Split(s, c, l) /\ i \in 1..Len(l)
  BY <1>1, <1>2, SplitIs
<1>4. /\ c[i] \in Nat /\ c[i + 1] \in Nat
      /\ c[i] < c[i + 1]
      /\ c[i + 1] <= Len(s) + 1
      /\ c[i + 1] = Len(s) + 1 <=> i = Len(l)
      /\ i = 1 <=> c[i] = 0
      /\ i # 1 => s[c[i]] = Slash
      /\ i # Len(l) => s[c[i + 1]] = Slash
  BY <1>3, LevelLies
<1>5. ASSUME NEW k \in Separators(s), c[i] < k, k <= c[i + 1]
      PROVE  k = c[i + 1]
  BY <1>3, <1>5, NextCut
<1>6. ASSUME NEW x
      PROVE  l[i] = <<x>> <=> OneLevel(s, c[i], c[i + 1], x)
  <2>1. l[i] = <<x>> <=> c[i + 1] = c[i] + 2 /\ s[c[i] + 1] = x
    BY <1>3, OneCharacter
  <2> QED
    BY <2>1 DEF OneLevel
<1>7. l[i] = <<>> <=> c[i + 1] = c[i] + 1
  BY <1>3, NoCharacter
<1>8. PICK a \in Nat, b \in Nat : a = c[i] /\ b = c[i + 1]
  BY <1>4
<1>9. Between(s, i, a, b)
  BY <1>1, <1>2, <1>4, <1>5, <1>6, <1>7, <1>8 DEF Between
<1> QED
  BY <1>9

LEMMA FitIs ==
  ASSUME NEW f \in Seq(Chars), NEW n \in Seq(Chars),
         NEW i \in 1..Len(LevelsOf(f)), i \in 1..Len(LevelsOf(n)),
         NEW a, NEW b, NEW u, NEW v, Between(f, i, a, b), Between(n, i, u, v)
  PROVE  FitAt(f, n, i) <=> OneLevel(f, a, b, Plus) \/ SameLevel(f, a, b, n, u, v)
<1>1. LevelsOf(f)[i] = <<Plus>> <=> OneLevel(f, a, b, Plus)
  BY DEF Between
<1>2. a = CutsOf(f)[i] /\ b = CutsOf(f)[i + 1] /\ u = CutsOf(n)[i] /\ v = CutsOf(n)[i + 1]
  BY DEF Between
<1>3. Split(f, CutsOf(f), LevelsOf(f)) /\ Split(n, CutsOf(n), LevelsOf(n))
  BY SplitIs
<1>4. LevelsOf(f)[i] = LevelsOf(n)[i] <=> SameLevel(f, a, b, n, u, v)
  <2>1. LevelsOf(f)[i] = LevelsOf(n)[i] <=>
          /\ CutsOf(f)[i + 1] - CutsOf(f)[i] = CutsOf(n)[i + 1] - CutsOf(n)[i]
          /\ \A d \in 1..(CutsOf(f)[i + 1] - CutsOf(f)[i] - 1) :
               f[CutsOf(f)[i] + d] = n[CutsOf(n)[i] + d]
    BY <1>3, SameCharacters
  <2> QED
    BY <1>2, <2>1 DEF SameLevel
<1> QED
  BY <1>1, <1>4 DEF FitAt

\* Where match stands.
LEMMA AtBetween ==
  ASSUME NEW f \in Seq(Chars), NEW n \in Seq(Chars), NEW i, NEW p, NEW q, At(f, n, i, p, q)
  PROVE  \E a, b, u, v \in Nat :
           /\ Between(f, i, a, b) /\ Between(n, i, u, v)
           /\ a < p /\ p <= b /\ u < q /\ q <= v
           /\ FitAt(f, n, i) <=> OneLevel(f, a, b, Plus) \/ SameLevel(f, a, b, n, u, v)
           /\ \/ ReadSame(f, n, a, u, p, q)
              \/ PassedPlus(f, n, a, b, u, v, p, q)
<1>1. i \in 1..Len(LevelsOf(f)) /\ i \in 1..Len(LevelsOf(n))
  BY DEF At
<1>2. PICK a \in Nat, b \in Nat : Between(f, i, a, b)
  BY <1>1, LevelBetween
<1>3. PICK u \in Nat, v \in Nat : Between(n, i, u, v)
  BY <1>1, LevelBetween
<1>4. a = CutsOf(f)[i] /\ b = CutsOf(f)[i + 1] /\ u = CutsOf(n)[i] /\ v = CutsOf(n)[i + 1]
  BY <1>2, <1>3 DEF Between
<1>5. /\ a < p /\ p <= b /\ u < q /\ q <= v
      /\ \/ ReadSame(f, n, a, u, p, q)
         \/ PassedPlus(f, n, a, b, u, v, p, q)
  BY <1>4 DEF At
<1>6. FitAt(f, n, i) <=> OneLevel(f, a, b, Plus) \/ SameLevel(f, a, b, n, u, v)
  BY <1>1, <1>2, <1>3, FitIs
<1> QED
  BY <1>2, <1>3, <1>5, <1>6

\* What match is to return.
Expected(f, n) == LevelsMatch(f, n) /\ ~WildcardAtEmptyEnd(f, n)

Meaning(f, n, lf, ln) ==
  /\ lf = Len(LevelsOf(f)) /\ ln = Len(LevelsOf(n))
  /\ LevelsOf(f)[lf] = <<Hash>> =>
       (LevelsMatch(f, n) <=> lf - 1 <= ln /\ \A j \in 1..(lf - 1) : FitAt(f, n, j))
  /\ LevelsOf(f)[lf] # <<Hash>> =>
       (LevelsMatch(f, n) <=> lf = ln /\ \A j \in 1..lf : FitAt(f, n, j))
  /\ WildcardAtEmptyEnd(f, n) <=>
       LevelsOf(n)[ln] = <<>> /\ ln <= lf /\ LevelsOf(f)[ln] \in {<<Plus>>, <<Hash>>}

LEMMA ExpectedIs ==
  ASSUME NEW f \in Seq(Chars), NEW n \in Seq(Chars)
  PROVE  \E lf, ln \in Nat : Meaning(f, n, lf, ln)
<1>1. PICK lf \in Nat, ln \in Nat : lf = Len(LevelsOf(f)) /\ ln = Len(LevelsOf(n))
  <2>1. Split(f, CutsOf(f), LevelsOf(f)) /\ Split(n, CutsOf(n), LevelsOf(n))
    BY SplitIs
  <2> QED
    BY <2>1 DEF Split
<1>2. Meaning(f, n, lf, ln)
  BY <1>1 DEF Meaning, LevelsMatch, WildcardAtEmptyEnd, FitAt, Last
<1> QED
  BY <1>2

\* No wildcard is among what was read one by one.
LEMMA NoWildcardRead ==
  ASSUME NEW f, NEW n, NEW a \in Nat, NEW b \in Nat, NEW u \in Nat, NEW p \in Nat, NEW q,
         a < p, p <= b, ReadSame(f, n, a, u, p, q), NEW x \in {Plus, Hash}, OneLevel(f, a, b, x)
  PROVE  p = a + 1
<1> SUFFICES ASSUME p # a + 1
             PROVE  FALSE
  OBVIOUS
<1>1. 1 \in 1..(p - a - 1)
  OBVIOUS
<1>2. f[a + 1] \notin {Plus, Hash}
  BY <1>1 DEF ReadSame
<1> QED
  BY <1>2 DEF OneLevel

\* A level read to its end matches, and no wildcard has matched an empty end.
LEMMA ReadToItsEnd ==
  ASSUME NEW f, NEW n, NEW a \in Nat, NEW b \in Nat, NEW u \in Nat, NEW v \in Nat, a < b, u < v,
         \/ ReadSame(f, n, a, u, b, v)
         \/ PassedPlus(f, n, a, b, u, v, b, v)
  PROVE  /\ OneLevel(f, a, b, Plus) \/ SameLevel(f, a, b, n, u, v)
         /\ ~OneLevel(f, a, b, Hash)
         /\ OneLevel(f, a, b, Plus) => ~(v = Len(n) + 1 /\ v = u + 1)
<1>1. CASE ReadSame(f, n, a, u, b, v)
  <2>1. ASSUME NEW x \in {Plus, Hash}, OneLevel(f, a, b, x)
        PROVE  FALSE
    <3>1. b <= b
      OBVIOUS
    <3>2. b = a + 1
      BY <1>1, <2>1, <3>1, NoWildcardRead
    <3> QED
      BY <2>1, <3>2 DEF OneLevel
  <2>2. SameLevel(f, a, b, n, u, v)
    BY <1>1 DEF ReadSame, SameLevel
  <2> QED
    BY <2>1, <2>2
<1>2. CASE PassedPlus(f, n, a, b, u, v, b, v)
  BY <1>2, CharacterAssumption DEF PassedPlus, OneLevel
<1> QED
  BY <1>1, <1>2

\* Where match stands, in numbers.
Standing(f, n, i, p, q, a, b, u, v, lf, ln) ==
  /\ Meaning(f, n, lf, ln)
  /\ i \in Nat /\ i \in 1..lf /\ i \in 1..ln
  /\ \A j \in 1..(i - 1) : FitAt(f, n, j)
  /\ Between(f, i, a, b) /\ Between(n, i, u, v)
  /\ p \in Nat /\ a < p /\ p <= b
  /\ q \in Nat /\ u < q /\ q <= v
  /\ b <= Len(f) + 1 /\ (b = Len(f) + 1 <=> i = lf)
  /\ v <= Len(n) + 1 /\ (v = Len(n) + 1 <=> i = ln)
  /\ i # lf => f[b] = Slash
  /\ i # ln => n[v] = Slash
  /\ LevelsOf(f)[i] = <<Plus>> <=> OneLevel(f, a, b, Plus)
  /\ LevelsOf(f)[i] = <<Hash>> <=> OneLevel(f, a, b, Hash)
  /\ LevelsOf(n)[i] = <<>> <=> v = u + 1
  /\ FitAt(f, n, i) <=> OneLevel(f, a, b, Plus) \/ SameLevel(f, a, b, n, u, v)
  /\ \/ ReadSame(f, n, a, u, p, q)
     \/ PassedPlus(f, n, a, b, u, v, p, q)

LEMMA AtStands ==
  ASSUME NEW f \in Seq(Chars), NEW n \in Seq(Chars), NEW i, NEW p, NEW q, At(f, n, i, p, q)
  PROVE  \E a, b, u, v, lf, ln \in Nat : Standing(f, n, i, p, q, a, b, u, v, lf, ln)
<1>1. PICK lf \in Nat, ln \in Nat : Meaning(f, n, lf, ln)
  BY ExpectedIs
<1>2. PICK a \in Nat, b \in Nat, u \in Nat, v \in Nat :
        /\ Between(f, i, a, b) /\ Between(n, i, u, v)
        /\ a < p /\ p <= b /\ u < q /\ q <= v
        /\ FitAt(f, n, i) <=> OneLevel(f, a, b, Plus) \/ SameLevel(f, a, b, n, u, v)
        /\ \/ ReadSame(f, n, a, u, p, q)
           \/ PassedPlus(f, n, a, b, u, v, p, q)
  BY AtBetween
<1>3. /\ i \in 1..lf /\ i \in 1..ln /\ \A j \in 1..(i - 1) : FitAt(f, n, j)
      /\ p \in Nat /\ q \in Nat
  BY <1>1 DEF At, Meaning
<1>4. lf = Len(LevelsOf(f)) /\ ln = Len(LevelsOf(n))
  BY <1>1 DEF Meaning
<1>5. /\ b <= Len(f) + 1 /\ (b = Len(f) + 1 <=> i = lf)
      /\ i # lf => f[b] = Slash
      /\ LevelsOf(f)[i] = <<Plus>> <=> OneLevel(f, a, b, Plus)
      /\ LevelsOf(f)[i] = <<Hash>> <=> OneLevel(f, a, b, Hash)
  BY <1>2, <1>4 DEF Between
<1>6. /\ v <= Len(n) + 1 /\ (v = Len(n) + 1 <=> i = ln)
      /\ i # ln => n[v] = Slash
      /\ LevelsOf(n)[i] = <<>> <=> v = u + 1
  BY <1>2, <1>4 DEF Between
<1>7. i \in Nat
  BY <1>3
<1>8. Standing(f, n, i, p, q, a, b, u, v, lf, ln)
  BY ONLY <1>1, <1>2, <1>3, <1>5, <1>6, <1>7 DEF Standing
<1> QED
  BY <1>8

\* Both at their ends: they match.
LEMMA BothEnd ==
  ASSUME NEW f \in Seq(Chars), NEW n \in Seq(Chars), NEW i, NEW p, NEW q,
         At(f, n, i, p, q), p = Len(f) + 1, q = Len(n) + 1
  PROVE  Expected(f, n)
<1>1. PICK a \in Nat, b \in Nat, u \in Nat, v \in Nat, lf \in Nat, ln \in Nat :
        Standing(f, n, i, p, q, a, b, u, v, lf, ln)
  BY AtStands
<1>2. b = p /\ v = q
  BY <1>1 DEF Standing
<1>3. i = lf /\ i = ln
  BY <1>1, <1>2 DEF Standing
<1>4. /\ OneLevel(f, a, b, Plus) \/ SameLevel(f, a, b, n, u, v)
      /\ ~OneLevel(f, a, b, Hash)
      /\ OneLevel(f, a, b, Plus) => ~(v = Len(n) + 1 /\ v = u + 1)
  <2>1. /\ a < b /\ u < v
        /\ \/ ReadSame(f, n, a, u, b, v)
           \/ PassedPlus(f, n, a, b, u, v, b, v)
    BY <1>1, <1>2 DEF Standing
  <2> QED
    BY <2>1, ReadToItsEnd
<1>5. /\ LevelsOf(f)[i] = <<Plus>> <=> OneLevel(f, a, b, Plus)
      /\ LevelsOf(f)[i] = <<Hash>> <=> OneLevel(f, a, b, Hash)
      /\ LevelsOf(n)[i] = <<>> <=> v = u + 1
      /\ Meaning(f, n, lf, ln)
  BY <1>1 DEF Standing
<1>6. \A j \in 1..lf : FitAt(f, n, j)
  BY <1>1, <1>3, <1>4 DEF Standing
<1>7. LevelsMatch(f, n)
  BY <1>3, <1>4, <1>5, <1>6 DEF Meaning
<1>8. ~WildcardAtEmptyEnd(f, n)
  BY <1>2, <1>3, <1>4, <1>5 DEF Meaning
<1> QED
  BY <1>7, <1>8 DEF Expected

\* The filter at its end and the name not: they do not match.
LEMMA FilterEnds ==
  ASSUME NEW f \in Seq(Chars), NEW n \in Seq(Chars), NEW i, NEW p, NEW q,
         At(f, n, i, p, q), p = Len(f) + 1, q # Len(n) + 1
  PROVE  ~Expected(f, n)
<1>1. PICK a \in Nat, b \in Nat, u \in Nat, v \in Nat, lf \in Nat, ln \in Nat :
        Standing(f, n, i, p, q, a, b, u, v, lf, ln)
  BY AtStands
<1>2. p = b /\ i = lf
  BY <1>1 DEF Standing
<1>3. Meaning(f, n, lf, ln) /\ (LevelsOf(f)[i] = <<Hash>> <=> OneLevel(f, a, b, Hash))
  BY <1>1 DEF Standing
<1>4. ~OneLevel(f, a, b, Hash)
  <2>1. CASE ReadSame(f, n, a, u, p, q)
    <3> SUFFICES ASSUME OneLevel(f, a, b, Hash)
                 PROVE  FALSE
      OBVIOUS
    <3>1. a < p /\ p <= b /\ p \in Nat
      BY <1>1 DEF Standing
    <3>2. p = a + 1
      BY <2>1, <3>1, NoWildcardRead
    <3> QED
      BY <1>2, <3>2 DEF OneLevel
  <2>2. CASE PassedPlus(f, n, a, b, u, v, p, q)
    BY <2>2, CharacterAssumption DEF PassedPlus, OneLevel
  <2> QED
    BY <1>1, <2>1, <2>2 DEF Standing
<1>5. LevelsMatch(f, n) => lf = ln /\ FitAt(f, n, lf)
  <2>1. LevelsOf(f)[lf] # <<Hash>> /\ lf \in 1..lf
    BY <1>1, <1>2, <1>3, <1>4 DEF Standing
  <2> QED
    BY <1>3, <2>1 DEF Meaning
<1>6. SUFFICES ASSUME LevelsMatch(f, n)
               PROVE  FALSE
  BY DEF Expected
<1>7. i = ln /\ FitAt(f, n, i)
  BY <1>2, <1>5, <1>6
<1>8. v = Len(n) + 1 /\ q # v
  BY <1>1, <1>7 DEF Standing
<1>9. ReadSame(f, n, a, u, p, q) /\ a < p /\ p \in Nat
  BY <1>1, <1>8 DEF Standing, PassedPlus
<1>10. CASE OneLevel(f, a, b, Plus)
  <2>1. p <= b
    BY <1>2
  <2>2. p = a + 1
    BY <1>9, <1>10, <2>1, NoWildcardRead
  <2> QED
    BY <1>2, <1>10, <2>2 DEF OneLevel
<1>11. CASE SameLevel(f, a, b, n, u, v)
  <2>1. b - a = v - u /\ b - a = q - u
    BY <1>2, <1>9, <1>11 DEF SameLevel, ReadSame
  <2>2. q \in Nat
    BY <1>1 DEF Standing
  <2> QED
    BY <1>8, <2>1, <2>2
<1> QED
  BY <1>1, <1>7, <1>10, <1>11 DEF Standing

\* A wildcard in the filter stands for the level match stands in.
LEMMA WildcardRead ==
  ASSUME NEW f \in Seq(Chars), NEW n \in Seq(Chars), NEW i, NEW p, NEW q,
         NEW a \in Nat, NEW b \in Nat, NEW u \in Nat, NEW v \in Nat,
         NEW lf \in Nat, NEW ln \in Nat, Standing(f, n, i, p, q, a, b, u, v, lf, ln),
         is_topic_filter_valid(f), p \in 1..Len(f), f[p] \in {Plus, Hash}
  PROVE  /\ p = a + 1 /\ b = p + 1
         /\ f[p] = Hash => i = lf
<1>1. p # b
  <2>1. i # lf => f[b] = Slash
    BY DEF Standing
  <2>2. i = lf => b = Len(f) + 1
    BY DEF Standing
  <2>3. p # Len(f) + 1
    OBVIOUS
  <2> QED
    BY <2>1, <2>2, <2>3, CharacterAssumption
<1>2. /\ i \in 1..Len(LevelsOf(f)) /\ lf = Len(LevelsOf(f))
      /\ a = CutsOf(f)[i] /\ b = CutsOf(f)[i + 1]
  BY DEF Standing, Between, Meaning
<1>3. a < p /\ p < b
  BY <1>1 DEF Standing
<1>4. Split(f, CutsOf(f), LevelsOf(f))
  BY SplitIs
<1>5. CutsOf(f)[i] < p /\ p < CutsOf(f)[i + 1]
  BY <1>2, <1>3
<1>6. p = CutsOf(f)[i] + 1 /\ CutsOf(f)[i + 1] = p + 1 /\ (f[p] = Hash => i = Len(LevelsOf(f)))
  BY ONLY <1>2, <1>4, <1>5, is_topic_filter_valid(f), p \in 1..Len(f), f[p] \in {Plus, Hash},
          WildcardAlone
<1> QED
  BY <1>2, <1>6

\* '#' in the filter: they match.
LEMMA HashMatches ==
  ASSUME NEW f \in Seq(Chars), NEW n \in Seq(Chars), NEW i, NEW p, NEW q,
         At(f, n, i, p, q), is_topic_filter_valid(f), p \in 1..Len(f), q # Len(n) + 1,
         f[p] = Hash
  PROVE  Expected(f, n)
<1>1. PICK a \in Nat, b \in Nat, u \in Nat, v \in Nat, lf \in Nat, ln \in Nat :
        Standing(f, n, i, p, q, a, b, u, v, lf, ln)
  BY AtStands
<1>2. f[p] \in {Plus, Hash}
  OBVIOUS
<1>3. p = a + 1 /\ b = p + 1 /\ i = lf
  BY <1>1, <1>2, WildcardRead
<1>4. OneLevel(f, a, b, Hash)
  BY <1>3 DEF OneLevel
<1>5. LevelsOf(f)[lf] = <<Hash>> /\ Meaning(f, n, lf, ln)
  BY <1>1, <1>3, <1>4 DEF Standing
<1>6. LevelsMatch(f, n)
  <2>1. lf \in 1..ln /\ \A j \in 1..(lf - 1) : FitAt(f, n, j)
    BY <1>1, <1>3 DEF Standing
  <2>2. lf - 1 <= ln
    BY ONLY <2>1, lf \in Nat, ln \in Nat
  <2> QED
    BY <1>5, <2>1, <2>2 DEF Meaning
<1>7. ~WildcardAtEmptyEnd(f, n)
  <2> SUFFICES ASSUME WildcardAtEmptyEnd(f, n)
               PROVE  FALSE
    OBVIOUS
  <2>1. LevelsOf(n)[ln] = <<>> /\ ln <= lf
    BY <1>5 DEF Meaning
  <2>2. i = ln
    BY <1>1, <1>3, <2>1 DEF Standing
  <2>3. v = u + 1 /\ v = Len(n) + 1
    BY <1>1, <2>1, <2>2 DEF Standing
  <2>4. u < q /\ q <= v /\ q \in Nat /\ q # v
    BY <1>1, <2>3 DEF Standing
  <2> QED
    BY <2>3, <2>4
<1> QED
  BY <1>6, <1>7 DEF Expected

\* The name at its end inside a level of the filter: they do not match.
LEMMA NameEndsInside ==
  ASSUME NEW f \in Seq(Chars), NEW n \in Seq(Chars), NEW i, NEW p, NEW q,
         NEW a \in Nat, NEW b \in Nat, NEW u \in Nat, NEW v \in Nat,
         NEW lf \in Nat, NEW ln \in Nat, Standing(f, n, i, p, q, a, b, u, v, lf, ln),
         p # b, q = Len(n) + 1
  PROVE  ~Expected(f, n)
<1> SUFFICES ASSUME LevelsMatch(f, n), ~WildcardAtEmptyEnd(f, n)
             PROVE  FALSE
  BY DEF Expected
<1>1. /\ i \in 1..lf /\ i = ln /\ v = q /\ Meaning(f, n, lf, ln)
      /\ p \in Nat /\ a < p /\ p <= b
      /\ LevelsOf(f)[i] = <<Plus>> <=> OneLevel(f, a, b, Plus)
      /\ LevelsOf(f)[i] = <<Hash>> <=> OneLevel(f, a, b, Hash)
      /\ LevelsOf(n)[i] = <<>> <=> v = u + 1
  BY DEF Standing
<1>2. ReadSame(f, n, a, u, p, q)
  BY DEF Standing, PassedPlus
<1>3. ASSUME NEW x \in {Plus, Hash}, OneLevel(f, a, b, x)
      PROVE  FALSE
  <2>1. p = a + 1
    BY <1>1, <1>2, <1>3, NoWildcardRead
  <2>2. v = u + 1
    <3>1. p - a = v - u
      BY <1>1, <1>2 DEF ReadSame
    <3> QED
      BY <2>1, <3>1
  <2>3. LevelsOf(f)[i] = <<x>> /\ LevelsOf(n)[i] = <<>>
    BY <1>1, <1>3, <2>2
  <2>4. LevelsOf(n)[ln] = <<>> /\ ln <= lf /\ LevelsOf(f)[ln] \in {<<Plus>>, <<Hash>>}
    <3>1. i = ln /\ ln <= lf
      BY <1>1
    <3>2. <<x>> \in {<<Plus>>, <<Hash>>}
      OBVIOUS
    <3> QED
      BY ONLY <2>3, <3>1, <3>2
  <2>5. WildcardAtEmptyEnd(f, n)
    BY <1>1, <2>4 DEF Meaning
  <2> QED
    BY <2>5
<1>4. FitAt(f, n, i)
  <2>1. CASE LevelsOf(f)[lf] = <<Hash>>
    <3>1. i # lf
      BY <1>1, <1>3, <2>1
    <3>2. i \in 1..(lf - 1)
      BY <1>1, <3>1
    <3> QED
      BY <1>1, <2>1, <3>2 DEF Meaning
  <2>2. CASE LevelsOf(f)[lf] # <<Hash>>
    BY <1>1, <2>2 DEF Meaning
  <2> QED
    BY <2>1, <2>2
<1>5. SameLevel(f, a, b, n, u, v)
  BY <1>3, <1>4 DEF Standing
<1>6. b - a = v - u /\ p - a = v - u
  BY <1>1, <1>2, <1>5 DEF SameLevel, ReadSame
<1> QED
  BY <1>1, <1>6

\* The name at its end: they match if all that is left of the filter is "/#".
LEMMA NameEnds ==
  ASSUME NEW f \in Seq(Chars), NEW n \in Seq(Chars), NEW i, NEW p, NEW q,
         At(f, n, i, p, q), is_topic_filter_valid(f), p # Len(f) + 1, q = Len(n) + 1
  PROVE  Expected(f, n) <=> f[p] = Slash /\ p < Len(f) /\ f[p + 1] = Hash
<1>1. PICK a \in Nat, b \in Nat, u \in Nat, v \in Nat, lf \in Nat, ln \in Nat :
        Standing(f, n, i, p, q, a, b, u, v, lf, ln)
  BY AtStands
<1>2. PICK m \in Nat : m = Len(f)
  OBVIOUS
<1>3. /\ p \in Nat /\ a < p /\ p <= b /\ b <= m + 1 /\ p # m + 1 /\ DOMAIN f = 1..m
      /\ i \in Nat /\ i \in 1..lf /\ i = ln /\ v = q /\ Meaning(f, n, lf, ln)
      /\ lf = Len(LevelsOf(f))
      /\ a = CutsOf(f)[i] /\ b = CutsOf(f)[i + 1]
      /\ b = m + 1 <=> i = lf
  <2>1. /\ p \in Nat /\ a < p /\ p <= b /\ b <= Len(f) + 1 /\ i \in Nat /\ i \in 1..lf
        /\ q <= v /\ v <= Len(n) + 1 /\ (v = Len(n) + 1 <=> i = ln)
        /\ b = Len(f) + 1 <=> i = lf
        /\ Meaning(f, n, lf, ln) /\ Between(f, i, a, b)
    BY ONLY <1>1 DEF Standing
  <2>2. lf = Len(LevelsOf(f)) /\ a = CutsOf(f)[i] /\ b = CutsOf(f)[i + 1]
    BY ONLY <2>1 DEF Meaning, Between
  <2>3. PICK k \in Nat : k = Len(n)
    OBVIOUS
  <2>4. v = q /\ v = k + 1
    BY ONLY <2>1, <2>3, q = Len(n) + 1, v \in Nat, k \in Nat
  <2>5. i = ln
    BY ONLY <2>1, <2>3, <2>4
  <2>6. DOMAIN f = 1..m /\ p # m + 1
    BY <1>2
  <2> QED
    BY ONLY <1>2, <2>1, <2>2, <2>4, <2>5, <2>6
<1>4. CASE p # b
  <2>1. f[p] # Slash
    <3> SUFFICES ASSUME f[p] = Slash
                 PROVE  FALSE
      OBVIOUS
    <3>1. p \in 1..m
      BY <1>3
    <3>2. p \in Separators(f)
      BY <1>2, <1>3, <3>1 DEF Separators
    <3> QED
      BY <1>1, <1>3, <1>4, <3>2 DEF Standing, Between
  <2>2. ~Expected(f, n)
    BY <1>1, <1>4, NameEndsInside
  <2> QED
    BY <2>1, <2>2
<1>5. CASE p = b
  <2>1. i + 1 \in 1..Len(LevelsOf(f)) /\ i # lf
    BY <1>3, <1>5
  <2>2. f[p] = Slash
    BY <1>1, <1>5, <2>1 DEF Standing
  <2>3. PICK c \in Nat, d \in Nat : Between(f, i + 1, c, d)
    BY <2>1, LevelBetween
  <2>4. /\ c = b /\ b < d /\ d <= m + 1 /\ d = CutsOf(f)[(i + 1) + 1]
        /\ d = m + 1 <=> i + 1 = lf
        /\ i + 1 # lf => f[d] = Slash
        /\ LevelsOf(f)[i + 1] = <<Hash>> <=> OneLevel(f, b, d, Hash)
    BY <1>2, <1>3, <2>3 DEF Between
  <2>5. /\ OneLevel(f, a, b, Plus) \/ SameLevel(f, a, b, n, u, v)
        /\ ~OneLevel(f, a, b, Hash)
        /\ OneLevel(f, a, b, Plus) => ~(v = Len(n) + 1 /\ v = u + 1)
    <3>1. /\ a < b /\ u < v
          /\ \/ ReadSame(f, n, a, u, b, v)
             \/ PassedPlus(f, n, a, b, u, v, b, v)
      BY <1>1, <1>3, <1>5 DEF Standing
    <3> QED
      BY <3>1, ReadToItsEnd
  <2>6. ASSUME p < Len(f), f[p + 1] = Hash
        PROVE  Expected(f, n)
    <3>1. p + 1 \in 1..m /\ b < p + 1
      BY <1>2, <1>3, <1>5, <2>6
    <3>2. p + 1 < d
      <4>1. p + 1 # d
        BY <1>2, <1>3, <2>4, <2>6, <3>1, CharacterAssumption
      <4>2. p = b /\ b < d /\ b \in Nat /\ d \in Nat
        BY <1>5, <2>4
      <4> QED
        BY ONLY <4>1, <4>2
    <3>3. CutsOf(f)[i + 1] < p + 1 /\ p + 1 < CutsOf(f)[(i + 1) + 1]
      BY <1>3, <2>4, <3>1, <3>2
    <3>4. Split(f, CutsOf(f), LevelsOf(f))
      BY SplitIs
    <3>5. p + 1 \in 1..Len(f) /\ f[p + 1] \in {Plus, Hash}
      BY <1>2, <2>6, <3>1
    <3>6. CutsOf(f)[(i + 1) + 1] = (p + 1) + 1 /\ (f[p + 1] = Hash => i + 1 = Len(LevelsOf(f)))
      BY ONLY <2>1, <3>3, <3>4, <3>5, is_topic_filter_valid(f), WildcardAlone
    <3>7. i + 1 = lf
      BY <1>3, <2>6, <3>6
    <3>8. d = b + 2 /\ f[b + 1] = Hash
      BY <1>5, <2>4, <2>6, <3>6
    <3>9. LevelsOf(f)[lf] = <<Hash>>
      BY <2>4, <3>7, <3>8 DEF OneLevel
    <3>10. LevelsMatch(f, n)
      <4>1. lf - 1 = i /\ lf - 1 <= ln
        BY <1>3, <3>7
      <4>2. \A j \in 1..(lf - 1) : FitAt(f, n, j)
        BY <1>1, <2>5, <4>1 DEF Standing
      <4> QED
        BY <1>3, <3>9, <4>1, <4>2 DEF Meaning
    <3>11. ~WildcardAtEmptyEnd(f, n)
      BY <1>1, <1>3, <2>5 DEF Standing, Meaning
    <3> QED
      BY <3>10, <3>11 DEF Expected
  <2>7. ASSUME Expected(f, n)
        PROVE  p < Len(f) /\ f[p + 1] = Hash
    <3>1. LevelsMatch(f, n)
      BY <2>7 DEF Expected
    <3>2. LevelsOf(f)[lf] = <<Hash>>
      BY <1>3, <2>1, <3>1 DEF Meaning
    <3>3. lf - 1 <= ln
      BY <1>3, <3>1, <3>2 DEF Meaning
    <3>4. lf = i + 1
      BY <1>3, <2>1, <3>3
    <3>5. OneLevel(f, b, d, Hash)
      BY <2>4, <3>2, <3>4
    <3>6. d = b + 2 /\ f[b + 1] = Hash
      BY <3>5 DEF OneLevel
    <3>7. p < m
      BY ONLY <1>3, <1>5, <2>4, <3>6, m \in Nat, d \in Nat
    <3> QED
      BY ONLY <1>2, <1>5, <3>6, <3>7
  <2> QED
    BY <2>2, <2>6, <2>7
<1> QED
  BY <1>4, <1>5

\* '+' in the filter: match goes on behind both levels.
LEMMA PlusPasses ==
  ASSUME NEW f \in Seq(Chars), NEW n \in Seq(Chars), NEW i, NEW p, NEW q,
         At(f, n, i, p, q), is_topic_filter_valid(f), p \in 1..Len(f), q # Len(n) + 1,
         f[p] = Plus
  PROVE  \E v \in Nat : /\ At(f, n, i, p + 1, v)
                        /\ q <= v /\ v <= Len(n) + 1
                        /\ v \in Separators(n)
                        /\ \A k \in Separators(n) : q <= k /\ k <= v => k = v
<1>1. PICK a \in Nat, b \in Nat, u \in Nat, v \in Nat, lf \in Nat, ln \in Nat :
        Standing(f, n, i, p, q, a, b, u, v, lf, ln)
  BY AtStands
<1>2. f[p] \in {Plus, Hash}
  OBVIOUS
<1>3. p = a + 1 /\ b = p + 1
  BY <1>1, <1>2, WildcardRead
<1>4. /\ ReadSame(f, n, a, u, p, q) /\ u < q /\ q <= v /\ v <= Len(n) + 1 /\ q \in Nat /\ p \in Nat
      /\ Len(n) \in Nat /\ DOMAIN n = 1..Len(n)
      /\ Between(n, i, u, v)
  BY <1>1, <1>3 DEF Standing, PassedPlus
<1>5. q = u + 1
  <2>1. p - a = q - u
    BY <1>4 DEF ReadSame
  <2> QED
    BY <1>3, <1>4, <2>1
<1>6. PassedPlus(f, n, a, b, u, v, p + 1, v)
  <2>1. OneLevel(f, a, b, Plus)
    BY <1>3 DEF OneLevel
  <2> QED
    BY <1>3, <1>5, <2>1 DEF PassedPlus
<1>7. At(f, n, i, p + 1, v)
  <2>1. a = CutsOf(f)[i] /\ b = CutsOf(f)[i + 1] /\ u = CutsOf(n)[i] /\ v = CutsOf(n)[i + 1]
    BY <1>1 DEF Standing, Between
  <2>2. /\ i \in 1..Len(LevelsOf(f)) /\ i \in 1..Len(LevelsOf(n))
        /\ \A j \in 1..(i - 1) : FitAt(f, n, j)
    BY DEF At
  <2>3. p + 1 \in Nat /\ a < p + 1 /\ p + 1 <= b /\ u < v /\ v <= v
    BY <1>3, <1>4
  <2> QED
    BY <1>6, <2>1, <2>2, <2>3 DEF At
<1>8. v \in Separators(n)
  <2>1. v = Len(n) + 1 \/ n[v] = Slash
    BY <1>1 DEF Standing
  <2> QED
    BY <1>4, <2>1 DEF Separators
<1>9. \A k \in Separators(n) : u < k /\ k <= v => k = v
  BY <1>4 DEF Between
<1>10. \A k \in Separators(n) : k \in Nat
  BY <1>4 DEF Separators
<1>11. \A k \in Separators(n) : q <= k /\ k <= v => k = v
  BY <1>4, <1>5, <1>9, <1>10
<1> QED
  BY <1>4, <1>7, <1>8, <1>11

\* The same character in both, a separator: match enters the next levels.
LEMMA NextLevel ==
  ASSUME NEW f \in Seq(Chars), NEW n \in Seq(Chars), NEW i, NEW p, NEW q,
         At(f, n, i, p, q), p \in 1..Len(f), q \in 1..Len(n), f[p] = Slash, n[q] = Slash
  PROVE  At(f, n, i + 1, p + 1, q + 1)
<1>1. PICK a \in Nat, b \in Nat, u \in Nat, v \in Nat, lf \in Nat, ln \in Nat :
        Standing(f, n, i, p, q, a, b, u, v, lf, ln)
  BY AtStands
<1>2. /\ p \in Separators(f) /\ q \in Separators(n)
  BY DEF Separators
<1>3. p = b /\ q = v
  BY <1>1, <1>2 DEF Standing, Between
<1>4. i + 1 \in 1..Len(LevelsOf(f)) /\ i + 1 \in 1..Len(LevelsOf(n)) /\ i \in Nat
  <2>1. /\ i \in 1..lf /\ i \in 1..ln /\ lf = Len(LevelsOf(f)) /\ ln = Len(LevelsOf(n))
        /\ (b = Len(f) + 1 <=> i = lf) /\ (v = Len(n) + 1 <=> i = ln) /\ i \in Nat
    BY <1>1 DEF Standing, Meaning
  <2>2. i # lf /\ i # ln
    BY <1>3, <2>1
  <2> QED
    BY <2>1, <2>2
<1>5. PICK c \in Nat, d \in Nat : Between(f, i + 1, c, d)
  BY <1>4, LevelBetween
<1>6. PICK x \in Nat, y \in Nat : Between(n, i + 1, x, y)
  BY <1>4, LevelBetween
<1>7. /\ c = CutsOf(f)[i + 1] /\ d = CutsOf(f)[(i + 1) + 1] /\ c < d /\ c = b
      /\ x = CutsOf(n)[i + 1] /\ y = CutsOf(n)[(i + 1) + 1] /\ x < y /\ x = v
  BY <1>1, <1>5, <1>6 DEF Between, Standing
<1>8. p + 1 \in Nat /\ c < p + 1 /\ p + 1 <= d /\ q + 1 \in Nat /\ x < q + 1 /\ q + 1 <= y
  BY <1>3, <1>7
<1>9. ReadSame(f, n, c, x, p + 1, q + 1)
  BY <1>3, <1>7 DEF ReadSame
<1>10. FitAt(f, n, i)
  <2>1. /\ a < b /\ u < v
        /\ \/ ReadSame(f, n, a, u, b, v)
           \/ PassedPlus(f, n, a, b, u, v, b, v)
    BY <1>1, <1>3 DEF Standing
  <2>2. OneLevel(f, a, b, Plus) \/ SameLevel(f, a, b, n, u, v)
    BY <2>1, ReadToItsEnd
  <2> QED
    BY <1>1, <2>2 DEF Standing
<1>11. \A j \in 1..((i + 1) - 1) : FitAt(f, n, j)
  <2>1. \A j \in 1..(i - 1) : FitAt(f, n, j)
    BY <1>1 DEF Standing
  <2>2. \A j \in 1..((i + 1) - 1) : j \in 1..(i - 1) \/ j = i
    BY <1>4
  <2> QED
    BY <1>10, <2>1, <2>2
<1> QED
  BY <1>4, <1>7, <1>8, <1>9, <1>11 DEF At

\* The same character in both, no separator: match stays in the level.
LEMMA SameIsRead ==
  ASSUME NEW f \in Seq(Chars), NEW n \in Seq(Chars), NEW i, NEW p, NEW q,
         At(f, n, i, p, q), p \in 1..Len(f), q \in 1..Len(n),
         f[p] = n[q], f[p] \notin {Plus, Hash}, f[p] # Slash
  PROVE  At(f, n, i, p + 1, q + 1)
<1>1. PICK a \in Nat, b \in Nat, u \in Nat, v \in Nat, lf \in Nat, ln \in Nat :
        Standing(f, n, i, p, q, a, b, u, v, lf, ln)
  BY AtStands
<1>2. p # b /\ q # v
  <2>1. p # Len(f) + 1 /\ q # Len(n) + 1
    OBVIOUS
  <2> QED
    BY <1>1, <2>1 DEF Standing
<1>3. /\ ReadSame(f, n, a, u, p, q)
      /\ p \in Nat /\ a < p /\ p <= b /\ q \in Nat /\ u < q /\ q <= v
  BY <1>1, <1>2 DEF Standing, PassedPlus
<1>4. p + 1 \in Nat /\ a < p + 1 /\ p + 1 <= b /\ q + 1 \in Nat /\ u < q + 1 /\ q + 1 <= v
  BY <1>2, <1>3
<1>5. ReadSame(f, n, a, u, p + 1, q + 1)
  <2>1. p - a = q - u /\ \A d \in 1..(p - a - 1) : f[a + d] = n[u + d] /\ f[a + d] \notin {Plus, Hash}
    BY <1>3 DEF ReadSame
  <2>2. (p + 1) - a = (q + 1) - u
    <3>1. p \in Nat /\ q \in Nat /\ p - a = q - u
      BY <1>3, <2>1
    <3> QED
      BY ONLY <3>1, a \in Nat, u \in Nat
  <2>3. ASSUME NEW d \in 1..((p + 1) - a - 1)
        PROVE  f[a + d] = n[u + d] /\ f[a + d] \notin {Plus, Hash}
    <3>1. CASE d \in 1..(p - a - 1)
      BY <2>1, <3>1
    <3>2. CASE d \notin 1..(p - a - 1)
      <4>1. d \in Nat /\ d = p - a
        <5>1. p \in Nat /\ a < p
          BY <1>3
        <5> QED
          BY ONLY <3>2, <5>1, a \in Nat, d \in 1..((p + 1) - a - 1)
      <4>2. a + d = p /\ u + d = q
        <5>1. p \in Nat /\ a < p /\ q \in Nat /\ p - a = q - u
          BY <1>3, <2>1
        <5> QED
          BY ONLY <4>1, <5>1, a \in Nat, u \in Nat
      <4> QED
        BY ONLY <4>2, f[p] = n[q], f[p] \notin {Plus, Hash}
    <3> QED
      BY <3>1, <3>2
  <2> QED
    BY <2>2, <2>3 DEF ReadSame
<1>6. a = CutsOf(f)[i] /\ b = CutsOf(f)[i + 1] /\ u = CutsOf(n)[i] /\ v = CutsOf(n)[i + 1]
  BY <1>1 DEF Standing, Between
<1>7. /\ i \in 1..Len(LevelsOf(f)) /\ i \in 1..Len(LevelsOf(n))
      /\ \A j \in 1..(i - 1) : FitAt(f, n, j)
  BY DEF At
<1> QED
  BY <1>4, <1>5, <1>6, <1>7 DEF At

\* Different characters: they do not match.
LEMMA OtherDiffers ==
  ASSUME NEW f \in Seq(Chars), NEW n \in Seq(Chars), NEW i, NEW p, NEW q,
         At(f, n, i, p, q), p \in 1..Len(f), q \in 1..Len(n),
         f[p] # n[q], f[p] \notin {Plus, Hash}
  PROVE  ~Expected(f, n)
<1> SUFFICES ASSUME LevelsMatch(f, n)
             PROVE  FALSE
  BY DEF Expected
<1>1. PICK a \in Nat, b \in Nat, u \in Nat, v \in Nat, lf \in Nat, ln \in Nat :
        Standing(f, n, i, p, q, a, b, u, v, lf, ln)
  BY AtStands
<1>2. ~(p = b /\ q = v)
  <2>1. p # Len(f) + 1 /\ q # Len(n) + 1
    OBVIOUS
  <2> QED
    BY <1>1, <2>1 DEF Standing
<1>3. /\ ReadSame(f, n, a, u, p, q)
      /\ p \in Nat /\ a < p /\ p <= b /\ q \in Nat /\ u < q /\ q <= v
      /\ i \in 1..lf /\ i \in 1..ln /\ Meaning(f, n, lf, ln) /\ i \in Nat
      /\ LevelsOf(f)[i] = <<Hash>> <=> OneLevel(f, a, b, Hash)
  BY <1>1, <1>2 DEF Standing, PassedPlus
<1>4. ASSUME NEW x \in {Plus, Hash}, OneLevel(f, a, b, x)
      PROVE  FALSE
  <2>1. p = a + 1
    <3>1. p \in Nat /\ a < p /\ p <= b /\ ReadSame(f, n, a, u, p, q)
      BY <1>3
    <3> QED
      BY <1>4, <3>1, NoWildcardRead
  <2> QED
    BY <1>4, <2>1 DEF OneLevel
<1>5. FitAt(f, n, i)
  <2>1. CASE LevelsOf(f)[lf] = <<Hash>>
    <3>1. i # lf
      BY <1>3, <1>4, <2>1
    <3>2. i \in 1..(lf - 1)
      BY <1>3, <3>1
    <3> QED
      BY <1>3, <2>1, <3>2 DEF Meaning
  <2>2. CASE LevelsOf(f)[lf] # <<Hash>>
    BY <1>3, <2>2 DEF Meaning
  <2> QED
    BY <2>1, <2>2
<1>6. SameLevel(f, a, b, n, u, v)
  BY <1>1, <1>4, <1>5 DEF Standing
<1>7. /\ b - a = v - u /\ p - a = q - u
      /\ \A d \in 1..(b - a - 1) : f[a + d] = n[u + d]
  BY <1>3, <1>6 DEF SameLevel, ReadSame
<1>8. p # b
  BY <1>2, <1>3, <1>7
<1>9. p - a \in 1..(b - a - 1) /\ a + (p - a) = p /\ u + (p - a) = q
  BY <1>3, <1>7, <1>8
<1> QED
  BY <1>7, <1>9

-----------------------------------------------------------------------------
(* A filter without wildcards matches its own name, and no other.          *)

\* Two strings whose levels are the same are the same.
LEMMA LevelsTell ==
  ASSUME NEW f \in Seq(Chars), NEW n \in Seq(Chars),
         Len(LevelsOf(f)) = Len(LevelsOf(n)),
         \A j \in 1..Len(LevelsOf(f)) : LevelsOf(f)[j] = LevelsOf(n)[j]
  PROVE  f = n
<1>1. PICK c, l, e, m : c = CutsOf(f) /\ l = LevelsOf(f) /\ e = CutsOf(n) /\ m = LevelsOf(n)
  OBVIOUS
<1>2. Split(f, c, l) /\ Split(n, e, m) /\ Len(l) = Len(m) /\ \A j \in 1..Len(l) : l[j] = m[j]
  BY <1>1, SplitIs
<1>3. PICK k \in Nat : k = Len(c)
  BY <1>2 DEF Split, CutUp
<1>4. /\ c \in Seq(Nat) /\ e \in Seq(Nat) /\ Len(e) = k /\ k >= 2
      /\ Len(l) = k - 1 /\ Len(m) = k - 1
      /\ c[1] = 0 /\ e[1] = 0 /\ c[k] = Len(f) + 1 /\ e[k] = Len(n) + 1
  <2>1. /\ c \in Seq(Nat) /\ Len(c) >= 2 /\ Len(l) = Len(c) - 1 /\ c[1] = 0 /\ c[Len(c)] = Len(f) + 1
    BY <1>2 DEF Split, CutUp
  <2>2. /\ e \in Seq(Nat) /\ Len(e) >= 2 /\ Len(m) = Len(e) - 1 /\ e[1] = 0 /\ e[Len(e)] = Len(n) + 1
    BY <1>2 DEF Split, CutUp
  <2>3. Len(e) = Len(c)
    <3>1. Len(c) \in Nat
      BY <2>1
    <3>2. Len(e) \in Nat
      BY <2>2
    <3>3. Len(l) = Len(c) - 1 /\ Len(m) = Len(e) - 1 /\ Len(l) = Len(m)
      BY <1>2, <2>1, <2>2
    <3> QED
      BY ONLY <3>1, <3>2, <3>3
  <2> QED
    BY <1>2, <1>3, <2>1, <2>2, <2>3
<1>5. ASSUME NEW j \in 1..(k - 1)
      PROVE  /\ c[j + 1] - c[j] = e[j + 1] - e[j]
             /\ \A d \in 1..(c[j + 1] - c[j] - 1) : f[c[j] + d] = n[e[j] + d]
  <2>1. j \in 1..Len(l) /\ j \in 1..Len(m) /\ l[j] = m[j]
    BY <1>2, <1>4
  <2> QED
    BY <1>2, <2>1, SameCharacters
<1>6. \A j \in 1..k : c[j] \in Nat /\ e[j] \in Nat
  <2>1. c \in Seq(Nat) /\ e \in Seq(Nat) /\ Len(c) = k /\ Len(e) = k
    BY <1>3, <1>4
  <2>2. \A j \in 1..k : c[j] \in Nat
    BY ONLY <2>1
  <2>3. \A j \in 1..k : e[j] \in Nat
    BY ONLY <2>1
  <2> QED
    BY <2>2, <2>3
<1>7. ASSUME NEW j \in 1..k
      PROVE  c[j] = e[j]
  <2>1. PICK T : T = {x \in 1..k : c[x] # e[x]}
    OBVIOUS
  <2>2. ASSUME T # {}
        PROVE  FALSE
    <3>1. T \in SUBSET Nat
      BY <2>1
    <3>2. PICK x \in T : \A y \in T : x <= y
      BY <2>2, <3>1, LeastNat
    <3>3. x \in 1..k /\ c[x] # e[x] /\ x \in Nat
      BY <2>1, <3>2
    <3>4. x # 1
      BY <1>4, <3>3
    <3>5. PICK y \in Nat : y = x - 1
      BY <3>3, <3>4
    <3>6. y \in 1..(k - 1) /\ y \in 1..k /\ y + 1 = x
      BY <3>3, <3>4, <3>5
    <3>7. c[y] = e[y]
      <4>1. ~(x <= y)
        BY <3>3, <3>5
      <4> QED
        BY <2>1, <3>2, <3>6, <4>1
    <3>8. c[y + 1] - c[y] = e[y + 1] - e[y]
      BY <1>5, <3>6
    <3>9. c[x] \in Nat /\ e[x] \in Nat /\ c[y] \in Nat /\ c[x] - c[y] = e[x] - c[y]
      BY <1>6, <3>3, <3>6, <3>7, <3>8
    <3> QED
      BY <3>3, <3>9
  <2> QED
    BY <2>1, <2>2
<1>8. Len(f) = Len(n) /\ Len(f) \in Nat
  <2>1. c[k] = e[k]
    BY <1>4, <1>7
  <2>2. Len(f) + 1 = Len(n) + 1 /\ Len(f) \in Nat /\ Len(n) \in Nat
    BY <1>4, <2>1
  <2> QED
    BY ONLY <2>2
<1>9. ASSUME NEW x \in 1..Len(f)
      PROVE  f[x] = n[x]
  <2>1. CASE f[x] = Slash
    <3>1. x \in Separators(f)
      BY <2>1 DEF Separators
    <3>2. PICK j \in DOMAIN c : c[j] = x
      BY <1>2, <3>1 DEF Split, CutUp
    <3>3. j \in 1..k
      BY <1>3, <1>4, <3>2
    <3>4. e[j] = x /\ j \in DOMAIN e
      BY <1>4, <1>7, <3>2, <3>3
    <3>5. x \in Separators(n)
      BY <1>2, <3>4 DEF Split, CutUp
    <3>6. x # 0 /\ x # Len(n) + 1
      BY <1>8
    <3> QED
      BY <2>1, <3>5, <3>6 DEF Separators
  <2>2. CASE f[x] # Slash
    <3>1. PICK j \in 1..Len(l) : c[j] < x /\ x < c[j + 1]
      BY <1>2, <2>2, InLevel
    <3>2. j \in 1..(k - 1) /\ j \in 1..k /\ j + 1 \in 1..k
      BY <1>3, <1>4, <3>1
    <3>3. PICK a \in Nat, b \in Nat : a = c[j] /\ b = c[j + 1] /\ a = e[j]
      BY <1>6, <1>7, <3>2
    <3>4. \A d \in 1..(b - a - 1) : f[a + d] = n[a + d]
      BY <1>5, <3>2, <3>3
    <3>5. a < x /\ x < b /\ x \in Nat
      BY <3>1, <3>3
    <3>6. x - a \in 1..(b - a - 1) /\ a + (x - a) = x
      BY ONLY <3>5, a \in Nat, b \in Nat
    <3> QED
      BY <3>4, <3>6
  <2> QED
    BY <2>1, <2>2
<1> QED
  BY <1>8, <1>9, SeqEqual

\* mqtt_server::handle_publish looks a plain topic up by the name.
LEMMA PlainMatches ==
  ASSUME NEW f \in Seq(Chars), NEW n \in Seq(Chars), ~HasWildcard(f)
  PROVE  Expected(f, n) <=> n = f
<1>1. ASSUME NEW j \in 1..Len(LevelsOf(f)), NEW x \in {Plus, Hash}
      PROVE  LevelsOf(f)[j] # <<x>>
  <2> SUFFICES ASSUME LevelsOf(f)[j] = <<x>>
               PROVE  FALSE
    OBVIOUS
  <2>1. PICK a \in Nat, b \in Nat : Between(f, j, a, b)
    BY LevelBetween
  <2>2. b = a + 2 /\ f[a + 1] = x /\ b <= Len(f) + 1
    BY <2>1 DEF Between, OneLevel
  <2>3. a + 1 \in DOMAIN f
    BY <2>2
  <2> QED
    BY <2>2, <2>3 DEF HasWildcard
<1>2. PICK lf \in Nat, ln \in Nat : Meaning(f, n, lf, ln)
  BY ExpectedIs
<1>3. lf \in 1..lf
  <2>1. Split(f, CutsOf(f), LevelsOf(f)) /\ lf = Len(LevelsOf(f))
    BY <1>2, SplitIs DEF Meaning
  <2>2. Len(CutsOf(f)) >= 2 /\ Len(CutsOf(f)) \in Nat /\ lf = Len(CutsOf(f)) - 1
    BY <2>1 DEF Split, CutUp
  <2>3. lf >= 1
    BY ONLY <2>2
  <2> QED
    BY <2>3
<1>4. LevelsOf(f)[lf] # <<Hash>>
  BY <1>1, <1>2, <1>3 DEF Meaning
<1>5. LevelsMatch(f, n) <=> lf = ln /\ \A j \in 1..lf : FitAt(f, n, j)
  BY <1>2, <1>4 DEF Meaning
<1>6. ASSUME LevelsMatch(f, n)
      PROVE  f = n
  <2>1. Len(LevelsOf(f)) = Len(LevelsOf(n)) /\ lf = Len(LevelsOf(f))
    BY <1>2, <1>5, <1>6 DEF Meaning
  <2>2. \A j \in 1..Len(LevelsOf(f)) : LevelsOf(f)[j] = LevelsOf(n)[j]
    BY <1>1, <1>5, <1>6, <2>1 DEF FitAt
  <2> QED
    BY <2>1, <2>2, LevelsTell
<1>7. ASSUME f = n
      PROVE  LevelsMatch(f, n) /\ ~WildcardAtEmptyEnd(f, n)
  <2>1. lf = ln /\ lf = Len(LevelsOf(f))
    BY <1>2, <1>7 DEF Meaning
  <2>2. \A j \in 1..lf : FitAt(f, n, j)
    BY <1>7 DEF FitAt
  <2>3. ~WildcardAtEmptyEnd(f, n)
    BY <1>1, <1>2, <1>3, <2>1 DEF Meaning
  <2> QED
    BY <1>5, <2>1, <2>2, <2>3
<1> QED
  BY <1>6, <1>7 DEF Expected

-----------------------------------------------------------------------------
(* The invariant.                                                          *)

\* What handle_subscribe has decided, where the loop of match stands, and what it
\* has returned.
Decided ==
  /\ pc # "new" => is_wild = HasWildcard(filter)
  /\ pc = "refused" => ~is_topic_filter_valid(filter)
  /\ pc \notin {"new", "refused"} => is_topic_filter_valid(filter)
Stands ==
  /\ pc \in {"new", "refused", "subscribed"} => fit = 1 /\ nit = 1
  /\ pc \in {"matching", "done"} => name \in Names
  /\ pc = "matching" => \E i \in 1..Len(LevelsOf(filter)) : At(filter, name, i, fit, nit)
Returned == pc = "done" => (result <=> Expected(filter, name))

IInv == TypeOK /\ Decided /\ Stands /\ Returned

LEMMA StringsAre ==
  ASSUME NEW s \in Filters \cup Names
  PROVE  s \in Seq(Chars) /\ s # <<>> /\ Len(s) \in Nat
<1>1. s \in Seq(Range(s))
  BY NameAssumption
<1>2. Range(s) \subseteq Chars
  BY DEF Chars
<1>3. s \in Seq(Chars)
  <2>1. Len(s) \in Nat /\ s \in [1..Len(s) -> Range(s)]
    BY <1>1
  <2>2. s \in [1..Len(s) -> Chars]
    BY <1>2, <2>1
  <2> QED
    BY <2>1, <2>2
<1> QED
  BY <1>3, NameAssumption

LEMMA InitIInv == Init => IInv
<1> SUFFICES ASSUME Init
             PROVE  IInv
  OBVIOUS
<1>1. PICK len \in Nat : len = Len(filter)
  BY StringsAre DEF Init
<1>2. 1 \in 1..(len + 1) /\ 1 \in 1..(0 + 1) /\ Len(<<>>) = 0
  OBVIOUS
<1>3. TypeOK
  BY <1>1, <1>2 DEF Init, TypeOK
<1>4. Decided /\ Stands /\ Returned
  BY DEF Init, Decided, Stands, Returned
<1> QED
  BY <1>3, <1>4 DEF IInv

\* match begins with the first levels of both.
LEMMA AtStart ==
  ASSUME NEW f \in Seq(Chars), NEW n \in Seq(Chars)
  PROVE  At(f, n, 1, 1, 1)
<1>1. ASSUME NEW s \in Seq(Chars)
      PROVE  /\ 1 \in 1..Len(LevelsOf(s))
             /\ CutsOf(s)[1] = 0 /\ 1 <= CutsOf(s)[1 + 1]
  <2>1. Split(s, CutsOf(s), LevelsOf(s))
    BY SplitIs
  <2>2. PICK c, l : c = CutsOf(s) /\ l = LevelsOf(s)
    OBVIOUS
  <2>3. Len(l) = Len(c) - 1 /\ c \in Seq(Nat) /\ Len(c) >= 2
    BY <2>1, <2>2 DEF Split, CutUp
  <2>4. 1 \in 1..Len(l)
    BY ONLY <2>3
  <2>5. PICK a \in Nat, b \in Nat : Between(s, 1, a, b)
    BY <2>2, <2>4, LevelBetween
  <2>6. a = CutsOf(s)[1] /\ b = CutsOf(s)[1 + 1] /\ a < b /\ a = 0
    BY <2>5 DEF Between
  <2> QED
    BY <2>2, <2>4, <2>6
<1>2. CutsOf(f)[1] < 1 /\ CutsOf(n)[1] < 1
  BY <1>1
<1>3. ReadSame(f, n, CutsOf(f)[1], CutsOf(n)[1], 1, 1)
  <2>1. ReadSame(f, n, 0, 0, 1, 1)
    BY DEF ReadSame
  <2> QED
    BY <1>1, <2>1
<1>4. \A j \in 1..(1 - 1) : FitAt(f, n, j)
  OBVIOUS
<1> QED
  BY <1>1, <1>2, <1>3, <1>4 DEF At

\* What holds while match runs, and what a return must then show.
Matching(f, n, p, q) ==
  /\ f \in Filters /\ n \in Names
  /\ f \in Seq(Chars) /\ n \in Seq(Chars)
  /\ is_topic_filter_valid(f)
  /\ p \in Nat /\ q \in Nat
  /\ p >= 1 /\ p <= Len(f) + 1 /\ q >= 1 /\ q <= Len(n) + 1

LEMMA MatchingIs ==
  ASSUME IInv, pc = "matching"
  PROVE  Matching(filter, name, fit, nit) /\ \E i : At(filter, name, i, fit, nit)
<1>1. name \in Names /\ \E i : At(filter, name, i, fit, nit)
  BY DEF IInv, Stands
<1>2. filter \in Filters /\ fit \in 1..(Len(filter) + 1) /\ nit \in 1..(Len(name) + 1)
  BY DEF IInv, TypeOK
<1>3. is_topic_filter_valid(filter)
  BY DEF IInv, Decided
<1>4. filter \in Seq(Chars) /\ name \in Seq(Chars) /\ Len(filter) \in Nat /\ Len(name) \in Nat
  BY <1>1, <1>2, StringsAre
<1>5. fit \in Nat /\ nit \in Nat /\ fit >= 1 /\ nit >= 1
      /\ fit <= Len(filter) + 1 /\ nit <= Len(name) + 1
  BY <1>2, <1>4
<1> QED
  BY <1>1, <1>2, <1>3, <1>4, <1>5 DEF Matching

LEMMA ReturnIInv ==
  ASSUME IInv, NEW value \in BOOLEAN, Return(value), value <=> Expected(filter, name)
  PROVE  IInv'
<1>1. /\ pc = "matching" /\ pc' = "done" /\ result' = value
      /\ filter' = filter /\ name' = name /\ is_wild' = is_wild /\ fit' = fit /\ nit' = nit
  BY DEF Return
<1>2. TypeOK'
  BY <1>1 DEF IInv, TypeOK
<1>3. Decided'
  BY <1>1 DEF IInv, Decided
<1>4. Stands'
  BY <1>1 DEF IInv, Stands
<1>5. Returned'
  BY <1>1 DEF Returned
<1> QED
  BY <1>2, <1>3, <1>4, <1>5 DEF IInv

\* A step of the loop that goes on.
LEMMA GoesOn ==
  ASSUME IInv, pc = "matching",
         UNCHANGED <<filter, name, pc, is_wild, result>>,
         fit' \in 1..(Len(filter) + 1), nit' \in 1..(Len(name) + 1),
         NEW i \in Nat, At(filter, name, i, fit', nit')
  PROVE  IInv'
<1>1. TypeOK'
  BY DEF IInv, TypeOK
<1>2. Decided'
  BY DEF IInv, Decided
<1>3. Stands'
  <2>1. i \in 1..Len(LevelsOf(filter))
    BY DEF At
  <2> QED
    BY <2>1 DEF IInv, Stands
<1>4. Returned'
  BY DEF Returned
<1> QED
  BY <1>1, <1>2, <1>3, <1>4 DEF IInv

LEMMA PublishIInv ==
  ASSUME IInv, NEW n \in Names, handle_publish(n)
  PROVE  IInv'
<1>1. /\ pc = "subscribed" /\ name' = n /\ filter' = filter /\ is_wild' = is_wild
      /\ fit' = fit /\ nit' = nit /\ fit = 1 /\ nit = 1 /\ filter \in Filters
      /\ is_wild \in BOOLEAN /\ is_wild = HasWildcard(filter)
  BY DEF handle_publish, IInv, TypeOK, Decided, Stands
<1>2. filter \in Seq(Chars) /\ n \in Seq(Chars)
  BY <1>1, StringsAre
<1>3. At(filter, n, 1, 1, 1)
  BY <1>2, AtStart
<1>4. \/ is_wild /\ pc' = "matching" /\ result' = FALSE
      \/ ~is_wild /\ pc' = "done" /\ result' = (n = filter)
  BY DEF handle_publish
<1>5. TypeOK'
  <2>1. PICK len \in Nat : len = Len(n)
    BY <1>2
  <2>2. 1 \in 1..(len + 1)
    OBVIOUS
  <2>3. fit' \in 1..(Len(filter') + 1)
    BY <1>1 DEF IInv, TypeOK
  <2> QED
    BY <1>1, <1>4, <2>1, <2>2, <2>3 DEF TypeOK
<1>6. Decided'
  BY <1>1, <1>4 DEF IInv, Decided
<1>7. Stands'
  <2>1. 1 \in 1..Len(LevelsOf(filter))
    BY <1>3 DEF At
  <2>2. \E i \in 1..Len(LevelsOf(filter')) : At(filter', name', i, fit', nit')
    BY <1>1, <1>3, <2>1
  <2> QED
    BY <1>1, <1>4, <2>2 DEF Stands
<1>8. Returned'
  <2>1. ~is_wild => (Expected(filter, n) <=> n = filter)
    BY <1>1, <1>2, PlainMatches
  <2> QED
    BY <1>1, <1>4, <2>1 DEF Returned
<1> QED
  BY <1>5, <1>6, <1>7, <1>8 DEF IInv

LEMMA MatchIInv ==
  ASSUME IInv, match
  PROVE  IInv'
<1>1. pc = "matching"
  BY DEF match, AtEnd, AtHash, AtPlus, AtSameCharacter, AtOtherCharacter, Return
<1>2. Matching(filter, name, fit, nit)
  BY <1>1, MatchingIs
<1>3. PICK i : At(filter, name, i, fit, nit)
  BY <1>1, MatchingIs
<1>4. filter \in Seq(Chars) /\ name \in Seq(Chars) /\ is_topic_filter_valid(filter)
  BY <1>2 DEF Matching
<1>5. i \in Nat
  <2>1. i \in 1..Len(LevelsOf(filter))
    BY <1>3 DEF At
  <2> QED
    BY <2>1
<1>6. PICK lf \in Nat, ln \in Nat : lf = Len(filter) /\ ln = Len(name)
  BY <1>4
<1>7. /\ fit \in Nat /\ fit >= 1 /\ fit <= lf + 1
      /\ nit \in Nat /\ nit >= 1 /\ nit <= ln + 1
  BY <1>2, <1>6 DEF Matching
<1>8. /\ ~FilterEnd => fit \in 1..lf
      /\ ~NameEnd => nit \in 1..ln
  BY <1>6, <1>7 DEF FilterEnd, NameEnd
<1>9. CASE FilterEnd /\ NameEnd /\ Return(TRUE)
  <2>1. Expected(filter, name)
    BY <1>3, <1>4, <1>9, BothEnd DEF FilterEnd, NameEnd
  <2> QED
    BY <1>9, <2>1, ReturnIInv
<1>10. CASE FilterEnd /\ ~NameEnd /\ Return(FALSE)
  <2>1. ~Expected(filter, name)
    BY <1>3, <1>4, <1>10, FilterEnds DEF FilterEnd, NameEnd
  <2> QED
    BY <1>10, <2>1, ReturnIInv
<1>11. CASE ~FilterEnd /\ NameEnd /\ Return(ParentOfHash)
  <2>1. Expected(filter, name) <=> filter[fit] = Slash /\ fit < Len(filter) /\ filter[fit + 1] = Hash
    BY <1>3, <1>4, <1>11, NameEnds DEF FilterEnd, NameEnd
  <2>2. ParentOfHash \in BOOLEAN /\ (ParentOfHash <=> Expected(filter, name))
    BY <2>1 DEF ParentOfHash
  <2> QED
    BY <1>11, <2>2, ReturnIInv
<1>12. CASE AtHash
  <2>1. fit \in 1..Len(filter) /\ nit # Len(name) + 1 /\ filter[fit] = Hash /\ Return(TRUE)
    BY <1>6, <1>8, <1>12 DEF AtHash, NameEnd
  <2>2. Expected(filter, name)
    BY <1>3, <1>4, <2>1, HashMatches
  <2> QED
    BY <2>1, <2>2, ReturnIInv
<1>13. CASE AtPlus
  <2>1. /\ fit \in 1..Len(filter) /\ nit \in 1..ln /\ nit # Len(name) + 1 /\ filter[fit] = Plus
        /\ fit' = fit + 1 /\ nit' = LevelEnd(nit)
        /\ UNCHANGED <<filter, name, pc, is_wild, result>>
    BY <1>6, <1>8, <1>13 DEF AtPlus, NameEnd, PassPlus
  <2>2. PICK v \in Nat :
          /\ At(filter, name, i, fit + 1, v)
          /\ nit <= v /\ v <= Len(name) + 1
          /\ v \in Separators(name)
          /\ \A k \in Separators(name) : nit <= k /\ k <= v => k = v
    BY <1>3, <1>4, <2>1, PlusPasses
  <2>3. LevelEnd(nit) = v
    <3> DEFINE Ends == {k \in nit..Len(name) : name[k] = Slash} \cup {Len(name) + 1}
    <3>1. LevelEnd(nit) = CHOOSE x \in Ends : \A y \in Ends : x <= y
      BY DEF LevelEnd, Min
    <3>2. DOMAIN name = 1..ln
      BY <1>4, <1>6
    <3>3. v \in Ends
      <4>1. v = ln + 1 \/ (v \in 1..ln /\ name[v] = Slash)
        BY <1>6, <1>7, <2>2, <3>2 DEF Separators
      <4> QED
        BY <1>6, <1>7, <2>2, <4>1
    <3>4. \A y \in Ends : y \in Nat /\ nit <= y /\ y \in Separators(name)
      BY <1>6, <1>7, <3>2 DEF Separators
    <3> HIDE DEF Ends
    <3>5. \A y \in Ends : v <= y
      BY <1>7, <2>2, <3>4
    <3>6. \A x \in Ends : (\A y \in Ends : x <= y) => x = v
      BY <3>3, <3>4, <3>5
    <3> QED
      BY <3>1, <3>3, <3>5, <3>6
  <2>4. fit' \in 1..(Len(filter) + 1) /\ nit' \in 1..(Len(name) + 1)
    BY <1>6, <1>7, <2>1, <2>2, <2>3
  <2>5. At(filter, name, i, fit', nit')
    BY <2>1, <2>2, <2>3
  <2> QED
    BY <1>1, <1>5, <2>1, <2>4, <2>5, GoesOn
<1>14. CASE AtSameCharacter
  <2>1. /\ fit \in 1..Len(filter) /\ nit \in 1..Len(name)
        /\ filter[fit] \notin {Plus, Hash} /\ filter[fit] = name[nit]
        /\ fit' = fit + 1 /\ nit' = nit + 1
        /\ UNCHANGED <<filter, name, pc, is_wild, result>>
    BY <1>6, <1>8, <1>14 DEF AtSameCharacter
  <2>2. fit' \in 1..(Len(filter) + 1) /\ nit' \in 1..(Len(name) + 1)
    BY <1>6, <2>1
  <2>3. CASE filter[fit] = Slash
    <3>1. At(filter, name, i + 1, fit + 1, nit + 1)
      BY <1>3, <1>4, <2>1, <2>3, NextLevel
    <3>2. i + 1 \in Nat
      BY <1>5
    <3> QED
      BY <1>1, <2>1, <2>2, <3>1, <3>2, GoesOn
  <2>4. CASE filter[fit] # Slash
    <3>1. At(filter, name, i, fit + 1, nit + 1)
      BY <1>3, <1>4, <2>1, <2>4, SameIsRead
    <3> QED
      BY <1>1, <1>5, <2>1, <2>2, <3>1, GoesOn
  <2> QED
    BY <2>3, <2>4
<1>15. CASE AtOtherCharacter
  <2>1. /\ fit \in 1..Len(filter) /\ nit \in 1..Len(name)
        /\ filter[fit] \notin {Plus, Hash} /\ filter[fit] # name[nit] /\ Return(FALSE)
    BY <1>6, <1>8, <1>15 DEF AtOtherCharacter
  <2>2. ~Expected(filter, name)
    BY <1>3, <1>4, <2>1, OtherDiffers
  <2> QED
    BY <2>1, <2>2, ReturnIInv
<1> QED
  BY <1>9, <1>10, <1>11, <1>12, <1>13, <1>14, <1>15 DEF match, AtEnd

LEMMA NextIInv ==
  ASSUME IInv, [Next]_vars
  PROVE  IInv'
<1>1. CASE handle_subscribe
  <2>1. /\ pc = "new" /\ is_wild' = HasWildcard(filter)
        /\ pc' = IF is_topic_filter_valid(filter) THEN "subscribed" ELSE "refused"
        /\ UNCHANGED <<filter, name, fit, nit, result>>
    BY <1>1 DEF handle_subscribe
  <2>2. TypeOK'
    BY <2>1 DEF IInv, TypeOK, HasWildcard
  <2>3. Decided'
    BY <2>1 DEF Decided
  <2>4. Stands'
    BY <2>1 DEF IInv, Stands
  <2>5. Returned'
    BY <2>1 DEF Returned
  <2> QED
    BY <2>2, <2>3, <2>4, <2>5 DEF IInv
<1>2. ASSUME NEW n \in Names, handle_publish(n)
      PROVE  IInv'
  BY <1>2, PublishIInv
<1>3. CASE match
  BY <1>3, MatchIInv
<1>4. CASE UNCHANGED vars
  BY <1>4 DEF vars, IInv, TypeOK, Decided, Stands, Returned
<1> QED
  BY <1>1, <1>2, <1>3, <1>4 DEF Next

-----------------------------------------------------------------------------
(* The theorems.                                                           *)

\* is_topic_filter_valid, handle_publish and topic::match keep the invariant: what
\* was accepted, where match stands and what it returns.
THEOREM Invariance == FairSpec => []IInv
<1>1. Init => IInv
  BY InitIInv
<1>2. IInv /\ [Next]_vars => IInv'
  BY NextIInv
<1> QED
  BY <1>1, <1>2, PTL DEF FairSpec

\* The iterators of topic::match never leave the two strings: it reads no character
\* behind an end.
THEOREM TypeCorrect == FairSpec => []TypeOK
<1>1. IInv => TypeOK
  BY DEF IInv
<1> QED
  BY <1>1, Invariance, PTL

\* mqtt_subscribe.cpp:85-106: for filters of any length, those whose levels are
\* plain, '+', or a final '#' are accepted, and no others.
THEOREM AcceptedAccordingToLevels == FairSpec => []AcceptedAreValid
<1>1. IInv => AcceptedAreValid
  <2> SUFFICES ASSUME IInv
               PROVE  AcceptedAreValid
    OBVIOUS
  <2>1. filter \in Seq(Chars)
    BY StringsAre DEF IInv, TypeOK
  <2>2. is_topic_filter_valid(filter) <=> ValidLevels(filter)
    BY <2>1, ValidityAgrees
  <2> QED
    BY <2>2 DEF IInv, Decided, AcceptedAreValid
<1> QED
  BY <1>1, Invariance, PTL

\* topic.cpp:81-119: for filters and names of any length, match and the look-up of a
\* plain topic return what comparing level by level gives, except that no wildcard
\* matches the empty level a name ends with.
THEOREM MatchAgrees == FairSpec => []MatchesLevels
<1>1. IInv => MatchesLevels
  BY DEF IInv, Returned, Expected, MatchesLevels
<1> QED
  BY <1>1, Invariance, PTL

=============================================================================
