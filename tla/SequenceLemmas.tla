--------------------------- MODULE SequenceLemmas ---------------------------
(***************************************************************************)
(* What the operations on sequences that the components use return.        *)
(***************************************************************************)
EXTENDS Integers, SequencesExt, SequenceTheorems, NaturalsInduction,
        WellFoundedInduction, TLAPS

\* A set of numbers has a least element.
LEMMA LeastExists ==
  ASSUME NEW S, S \subseteq Nat, S # {}
  PROVE  \E i \in S : \A j \in S : i <= j
  <1>1. PICK m \in S : \A k \in S : <<k, m>> \notin OpToRel(<, Nat)
    BY WFMin, NatLessThanWellFounded, Zenon
  <1>2. \A k \in S : ~(k < m)
    <2> SUFFICES ASSUME NEW k \in S, k < m PROVE FALSE
      OBVIOUS
    <2>1. k \in Nat /\ m \in Nat
      OBVIOUS
    <2>2. <<k, m>> \in OpToRel(<, Nat)
      BY <2>1, Zenon DEF OpToRel
    <2> QED BY <1>1, <2>2
  <1>3. \A k \in S : m <= k
    BY <1>2
  <1> QED BY <1>3

\* Induction, for sets of numbers and of sequences: what holds is a set here.
LEMMA NaturalsReached ==
  ASSUME NEW G, 0 \in G, \A n \in Nat : n \in G => n + 1 \in G
  PROVE  Nat \subseteq G
  <1> SUFFICES ASSUME Nat \ G # {} PROVE FALSE
    OBVIOUS
  <1>1. PICK m \in Nat \ G : \A n \in Nat \ G : m <= n
    <2>1. Nat \ G \subseteq Nat
      OBVIOUS
    <2> QED BY <2>1, LeastExists
  <1>2. m - 1 \in Nat /\ m - 1 \notin Nat \ G
    BY <1>1
  <1>3. (m - 1) + 1 \in G
    BY <1>2
  <1> QED BY <1>1, <1>2, <1>3

LEMMA SequencesReached ==
  ASSUME NEW S, NEW G, <<>> \in G,
         \A s \in Seq(S), x \in S : s \in G => Append(s, x) \in G
  PROVE  Seq(S) \subseteq G
  <1> DEFINE N == {n \in Nat : \A s \in Seq(S) : Len(s) = n => s \in G}
  <1>1. 0 \in N
    BY EmptySeq
  <1>2. ASSUME NEW n \in Nat, n \in N PROVE n + 1 \in N
    <2> SUFFICES ASSUME NEW s \in Seq(S), Len(s) = n + 1 PROVE s \in G
      BY <1>2
    <2> DEFINE front == SubSeq(s, 1, n)
    <2>1. front \in Seq(S) /\ Len(front) = n /\ s[n + 1] \in S
      BY <1>2
    <2>2. s = Append(front, s[n + 1])
      BY <1>2, <2>1, SequenceEmptyOrAppend
    <2>3. front \in G
      BY <1>2, <2>1
    <2> QED BY <2>1, <2>2, <2>3
  <1> HIDE DEF N
  <1>3. Nat \subseteq N
    BY <1>1, <1>2, NaturalsReached
  <1> QED BY <1>3 DEF N

\* Removing the element at position i moves the later ones down by one.
LEMMA RemoveAtElements ==
  ASSUME NEW S, NEW q \in Seq(S), NEW i \in DOMAIN q
  PROVE  /\ RemoveAt(q, i) \in Seq(S)
         /\ Len(RemoveAt(q, i)) = Len(q) - 1
         /\ \A k \in 1 .. Len(q) - 1 :
              RemoveAt(q, i)[k] = IF k < i THEN q[k] ELSE q[k + 1]
  <1> DEFINE l == SubSeq(q, 1, i - 1)  r == SubSeq(q, i + 1, Len(q))  c == l \o r
  <1>0. /\ i \in 1 .. Len(q) /\ Len(q) \in Nat /\ DOMAIN q = 1 .. Len(q)
        /\ \A k \in 1 .. Len(q) : q[k] \in S
    OBVIOUS
  <1>1. /\ l \in Seq(S) /\ Len(l) = i - 1
        /\ \A k \in 1 .. i - 1 : l[k] = q[k]
    BY <1>0
  <1>2. /\ r \in Seq(S) /\ Len(r) = Len(q) - i
        /\ \A k \in 1 .. Len(q) - i : r[k] = q[k + i]
    BY <1>0
  <1>3. RemoveAt(q, i) = c
    BY DEF RemoveAt
  <1> HIDE DEF l, r
  <1>4. /\ c \in Seq(S) /\ Len(c) = Len(l) + Len(r)
        /\ \A k \in 1 .. Len(l) + Len(r) :
             c[k] = IF k <= Len(l) THEN l[k] ELSE r[k - Len(l)]
    <2>1. l \in Seq(S) /\ r \in Seq(S)
      BY <1>1, <1>2
    <2> QED BY <2>1, ConcatProperties, Zenon
  <1> HIDE DEF c
  <1>5. ASSUME NEW k \in 1 .. Len(q) - 1
        PROVE  c[k] = IF k < i THEN q[k] ELSE q[k + 1]
    <2>1. CASE k < i
      <3>1. k \in 1 .. Len(l) + Len(r) /\ k <= Len(l) /\ k \in 1 .. i - 1
        BY <1>0, <1>1, <1>2, <2>1
      <3>2. c[k] = l[k]
        BY <1>4, <3>1
      <3> QED BY <3>1, <3>2, <1>1, <2>1
    <2>2. CASE k >= i
      <3>1. c[k] = r[k - (i - 1)]
        <4>1. k \in 1 .. Len(l) + Len(r) /\ ~(k <= Len(l)) /\ Len(l) = i - 1
          BY <1>0, <1>1, <1>2, <2>2
        <4> QED BY <1>4, <4>1
      <3>2. k - (i - 1) \in 1 .. Len(q) - i
        BY <1>0, <2>2
      <3>3. r[k - (i - 1)] = q[k + 1]
        BY <1>0, <1>2, <3>2
      <3> QED BY <3>1, <3>3, <2>2, <1>0
    <2> QED BY <2>1, <2>2, <1>0
  <1>6. Len(c) = Len(q) - 1
    BY <1>0, <1>1, <1>2, <1>4
  <1> QED BY <1>3, <1>4, <1>5, <1>6
=============================================================================
