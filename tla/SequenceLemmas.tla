--------------------------- MODULE SequenceLemmas ---------------------------
(***************************************************************************)
(* Lemmas about the sequences that stand for the vectors and byte streams  *)
(* of a session: what erase, push_back and reading the head leave.         *)
(***************************************************************************)
EXTENDS Integers, SequencesExt, SequenceTheorems, FiniteSetTheorems, TLAPS

\* What std::vector::erase of one position leaves: the elements before it where
\* they were, those after it moved down by one.
LEMMA RemoveAtElements ==
  ASSUME NEW S, NEW s \in Seq(S), NEW i \in 1..Len(s)
  PROVE  /\ RemoveAt(s, i) \in Seq(S)
         /\ Len(RemoveAt(s, i)) = Len(s) - 1
         /\ \A k \in 1..(Len(s) - 1) : RemoveAt(s, i)[k] = IF k < i THEN s[k] ELSE s[k + 1]
<1> DEFINE before == SubSeq(s, 1, i - 1)
           after == SubSeq(s, i + 1, Len(s))
<1>1. /\ before \in Seq(S)
      /\ Len(before) = i - 1
      /\ \A k \in 1..(i - 1) : before[k] = s[k]
  <2>1. \A k \in 1..(i - 1) : s[k] \in S
    OBVIOUS
  <2> QED
    BY <2>1, SubSeqProperties, Z3
<1>2. /\ after \in Seq(S)
      /\ Len(after) = Len(s) - i
      /\ \A k \in 1..(Len(s) - i) : after[k] = s[i + k]
  <2>1. \A k \in (i + 1)..Len(s) : s[k] \in S
    OBVIOUS
  <2> QED
    BY <2>1, SubSeqProperties, Z3
<1>3. RemoveAt(s, i) = before \o after
  BY DEF RemoveAt
<1> HIDE DEF before, after
<1>4. /\ before \o after \in Seq(S)
      /\ Len(before \o after) = Len(before) + Len(after)
      /\ \A k \in 1..(Len(before) + Len(after)) :
           (before \o after)[k] = IF k <= Len(before) THEN before[k] ELSE after[k - Len(before)]
  BY <1>1, <1>2, ConcatProperties
<1>5. ASSUME NEW k \in 1..(Len(s) - 1)
      PROVE  RemoveAt(s, i)[k] = IF k < i THEN s[k] ELSE s[k + 1]
  <2>1. CASE k < i
    BY <1>1, <1>2, <1>3, <1>4, <2>1
  <2>2. CASE k >= i
    <3>1. k - (i - 1) \in 1..(Len(s) - i)
      BY <2>2
    <3>2. after[k - (i - 1)] = s[i + (k - (i - 1))]
      BY <1>2, <3>1
    <3>3. (before \o after)[k] = after[k - (i - 1)]
      BY <1>1, <1>2, <1>4, <2>2
    <3>4. i + (k - (i - 1)) = k + 1
      OBVIOUS
    <3> QED
      BY <1>3, <2>2, <3>2, <3>3, <3>4
  <2> QED
    BY <2>1, <2>2
<1> QED
  BY <1>1, <1>2, <1>3, <1>4, <1>5

\* A set of natural numbers that is not empty has a least element.
LEMMA LeastNat ==
  ASSUME NEW T \in SUBSET Nat, T # {}
  PROVE  \E i \in T : \A k \in T : i <= k
<1>1. PICK less : less = OpToRel(<, Nat)
  OBVIOUS
<1>2. PICK i \in T : \A k \in T : <<k, i>> \notin less
  <2>1. IsWellFoundedOn(less, Nat)
    BY <1>1, NatLessThanWellFounded
  <2> QED
    BY <2>1, WFMin
<1>3. \A k, j \in Nat : k < j => <<k, j>> \in less
  BY <1>1 DEF OpToRel
<1>4. ASSUME NEW k \in T
      PROVE  i <= k
  <2>1. i \in Nat /\ k \in Nat
    OBVIOUS
  <2>2. ~(k < i)
    BY <1>2, <1>3, <2>1
  <2> QED
    BY <2>1, <2>2
<1> QED
  BY <1>4

\* std::find and erase: nothing happens, or the first match goes.
LEMMA RemoveFirstElements ==
  ASSUME NEW S, NEW s \in Seq(S), NEW e, NEW r, r = RemoveFirst(s, e)
  PROVE  /\ r \in Seq(S)
         /\ \/ r = s
            \/ \E i \in 1..Len(s) :
                 /\ s[i] = e
                 /\ Len(r) = Len(s) - 1
                 /\ \A k \in 1..(Len(s) - 1) : r[k] = IF k < i THEN s[k] ELSE s[k + 1]
<1>1. CASE \E k \in 1..Len(s) : s[k] = e
  <2> DEFINE hits == {k \in 1..Len(s) : s[k] = e}
  <2>1. hits # {} /\ hits \subseteq Nat
    BY <1>1
  <2>2. PICK i \in hits : \A k \in hits : i <= k
    BY <2>1, LeastNat
  <2>3. SelectInSeq(s, LAMBDA v : v = e) = Min(hits)
    BY <2>1 DEF SelectInSeq
  <2>4. Min(hits) = i
    BY <2>1, <2>2 DEF Min
  <2>5. r = RemoveAt(s, i)
    BY <1>1, <2>3, <2>4 DEF RemoveFirst
  <2>6. i \in 1..Len(s) /\ s[i] = e
    BY <2>2
  <2> HIDE DEF hits
  <2> QED
    BY <2>5, <2>6, RemoveAtElements
<1>2. CASE ~\E k \in 1..Len(s) : s[k] = e
  BY <1>2 DEF RemoveFirst
<1> QED
  BY <1>1, <1>2

\* A push_back.
LEMMA AppendElements ==
  ASSUME NEW S, NEW s \in Seq(S), NEW x \in S, NEW t, t = Append(s, x)
  PROVE  /\ t \in Seq(S)
         /\ \A j \in DOMAIN s : j \in DOMAIN t /\ t[j] = s[j]
         /\ \A j \in DOMAIN t : j \notin DOMAIN s => j = Len(s) + 1 /\ t[j] = x
         /\ \E j \in DOMAIN t : t[j] = x
<1>1. t \in Seq(S) /\ Len(t) = Len(s) + 1 /\ t[Len(s) + 1] = x /\ \A j \in 1..Len(s) : t[j] = s[j]
  OBVIOUS
<1>2. Len(s) + 1 \in DOMAIN t
  BY <1>1
<1> QED
  BY <1>1, <1>2

\* What a step writes behind a stream: one packet put behind is a push_back.
LEMMA ConcatOne ==
  ASSUME NEW S, NEW s \in Seq(S), NEW x \in S
  PROVE  s \o <<x>> = Append(s, x)
OBVIOUS

\* The head of a stream is read: what is left was behind it.
LEMMA TailElements ==
  ASSUME NEW S, NEW s \in Seq(S), s # <<>>, NEW t, t = Tail(s)
  PROVE  /\ t \in Seq(S)
         /\ Head(s) = s[1] /\ 1 \in DOMAIN s /\ Head(s) \in S
         /\ \A j \in DOMAIN t : j + 1 \in DOMAIN s /\ j + 1 # 1 /\ t[j] = s[j + 1]
         /\ \A j, k \in DOMAIN t : j + 1 = k + 1 => j = k
<1>1. t \in Seq(S) /\ Len(t) = Len(s) - 1 /\ Len(s) >= 1
  OBVIOUS
<1>2. \A j \in 1..Len(t) : t[j] = s[j + 1]
  OBVIOUS
<1> QED
  BY <1>1, <1>2

=============================================================================
