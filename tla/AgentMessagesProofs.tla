------------------------ MODULE AgentMessagesProofs ------------------------
(***************************************************************************)
(* What AgentMessages promises, for every number of messages, failing      *)
(* writes, stops, runs given up and restarts: every property of the run    *)
(* "messages".                                                             *)
(*                                                                         *)
(* First the queues: what partition, merge, redrive and the rest of a      *)
(* batch make of a queue's messages (MsgsOf), of its having none twice     *)
(* (Distinct), of its order (Ascends) and of the work it is (Work).        *)
(*                                                                         *)
(* The invariant, MessageInv, says where each message may be.  In memory   *)
(* it is once (MemoryOK), on disk once (DiskOK); a stop leaves none        *)
(* accepted (StopOK), and what it cancelled is only in a batch that        *)
(* unwinds or in a file it could not clear, and then the stop is saved     *)
(* (DeadOK); what is still to be shown is not in the transcript, unless    *)
(* the host died between its entry and its mark (ShowOK).  What a run that *)
(* the scheduler gave up still has is apart from everything else in        *)
(* memory (LateOK).                                                        *)
(*                                                                         *)
(* Every tail of a run goes on with a queue made of what was in memory     *)
(* (Keepable), so that one lemma, LoopGoesOn, carries them all; LateGoesOn *)
(* does the same for the ends of a run given up, and MemoryStays carries   *)
(* the steps that only write to disk.  The other actions have a lemma      *)
(* each.                                                                   *)
(***************************************************************************)
EXTENDS AgentMessages, SequenceLemmas, FiniteSetTheorems

-----------------------------------------------------------------------------
\* The recursive function of Those exists.
LEMMA ThoseDefined ==
  ASSUME NEW s, NEW S, Len(s) \in Nat
  PROVE  \E f : /\ f = [n \in 0 .. Len(s) |->
                          IF n = 0 THEN <<>>
                          ELSE IF s[n] \in S THEN Append(f[n - 1], s[n]) ELSE f[n - 1]]
                /\ Those(s, S) = f[Len(s)]
  <1> DEFINE B(f, n) == IF n = 0 THEN <<>>
                        ELSE IF s[n] \in S THEN Append(f[n - 1], s[n]) ELSE f[n - 1]
             G == {m \in Nat : \E h : h = [n \in 0 .. m |-> B(h, n)]}
             f == CHOOSE f : f = [n \in 0 .. Len(s) |-> B(f, n)]
  <1>1. 0 \in G
    <2> DEFINE h == [n \in 0 .. 0 |-> <<>>]
    <2>1. h = [n \in 0 .. 0 |-> B(h, n)]
      OBVIOUS
    <2> QED BY <2>1
  <1>2. ASSUME NEW m \in Nat, m \in G PROVE m + 1 \in G
    <2>1. PICK h : h = [n \in 0 .. m |-> B(h, n)]
      BY <1>2
    <2> DEFINE g == [n \in 0 .. m + 1 |-> IF n <= m THEN h[n] ELSE B(h, n)]
    <2>2. ASSUME NEW n \in 0 .. m + 1 PROVE g[n] = B(g, n)
      <3>1. CASE n = 0
        BY <2>1, <3>1
      <3>2. CASE n # 0
        <4>1. g[n - 1] = h[n - 1]
          BY <3>2
        <4>2. g[n] = B(h, n)
          <5>1. CASE n <= m
            <6>1. n \in 0 .. m
              BY <5>1
            <6> HIDE DEF B
            <6>2. h[n] = B(h, n)
              BY <2>1, <6>1
            <6> QED BY <6>2, <5>1
          <5>2. CASE n = m + 1
            BY <5>2
          <5> QED BY <5>1, <5>2
        <4> QED BY <3>2, <4>1, <4>2
      <3> QED BY <3>1, <3>2
    <2>3. g = [n \in 0 .. m + 1 |-> B(g, n)]
      BY <2>2
    <2> HIDE DEF g
    <2> QED BY <2>3
  <1> HIDE DEF G
  <1>3. Len(s) \in G
    BY <1>1, <1>2, NaturalsReached
  <1>4. \E h : h = [n \in 0 .. Len(s) |-> B(h, n)]
    BY <1>3 DEF G
  <1>5. f = [n \in 0 .. Len(s) |-> B(f, n)]
    BY <1>4
  <1>6. Those(s, S) = f[Len(s)]
    BY DEF Those
  <1> QED BY <1>5, <1>6

LEMMA ThoseOfEmpty == ASSUME NEW S PROVE Those(<<>>, S) = <<>>
  <1>1. Len(<<>>) = 0
    OBVIOUS
  <1> QED BY <1>1, ThoseDefined

\* What Those makes of one more element.
LEMMA ThoseOfAppend ==
  ASSUME NEW T, NEW s \in Seq(T), NEW x \in T, NEW S
  PROVE  Those(Append(s, x), S) = IF x \in S THEN Append(Those(s, S), x) ELSE Those(s, S)
  <1> DEFINE t == Append(s, x)
  <1>0. /\ Len(s) \in Nat /\ Len(t) = Len(s) + 1 /\ t[Len(s) + 1] = x
        /\ \A n \in 1 .. Len(s) : t[n] = s[n]
    BY AppendProperties
  <1> HIDE DEF t
  <1>1. PICK f : /\ f = [n \in 0 .. Len(s) |->
                          IF n = 0 THEN <<>>
                          ELSE IF s[n] \in S THEN Append(f[n - 1], s[n]) ELSE f[n - 1]]
                 /\ Those(s, S) = f[Len(s)]
    BY <1>0, ThoseDefined
  <1>2. Len(t) \in Nat
    BY <1>0
  <1>3. PICK g : /\ g = [n \in 0 .. Len(t) |->
                          IF n = 0 THEN <<>>
                          ELSE IF t[n] \in S THEN Append(g[n - 1], t[n]) ELSE g[n - 1]]
                 /\ Those(t, S) = g[Len(t)]
    BY <1>2, ThoseDefined
  <1> DEFINE G == {n \in Nat : n <= Len(s) => f[n] = g[n]}
  <1>4. 0 \in G
    <2>1. f[0] = <<>> /\ g[0] = <<>>
      BY <1>0, <1>1, <1>3
    <2> QED BY <2>1
  <1>5. ASSUME NEW n \in Nat, n \in G PROVE n + 1 \in G
    <2> SUFFICES ASSUME n + 1 <= Len(s) PROVE f[n + 1] = g[n + 1]
      OBVIOUS
    <2>1. n + 1 \in 0 .. Len(s) /\ n + 1 \in 0 .. Len(t) /\ n + 1 # 0 /\ (n + 1) - 1 = n
      BY <1>0
    <2>2. f[n + 1] = IF s[n + 1] \in S THEN Append(f[n], s[n + 1]) ELSE f[n]
      BY <1>1, <2>1
    <2>3. g[n + 1] = IF t[n + 1] \in S THEN Append(g[n], t[n + 1]) ELSE g[n]
      BY <1>3, <2>1
    <2>4. s[n + 1] = t[n + 1] /\ f[n] = g[n]
      BY <1>0, <1>5
    <2> QED BY <2>2, <2>3, <2>4
  <1>6. f[Len(s)] = g[Len(s)]
    <2> HIDE DEF G
    <2>1. Len(s) \in G
      BY <1>0, <1>4, <1>5, NaturalsReached
    <2> QED BY <2>1, <1>0 DEF G
  <1>7. g[Len(t)] = IF x \in S THEN Append(g[Len(s)], x) ELSE g[Len(s)]
    <2>1. Len(t) \in 0 .. Len(t) /\ Len(t) # 0 /\ Len(t) - 1 = Len(s)
      BY <1>0
    <2>2. g[Len(t)] = IF t[Len(t)] \in S THEN Append(g[Len(t) - 1], t[Len(t)])
                                        ELSE g[Len(t) - 1]
      BY <1>3, <2>1
    <2> QED BY <1>0, <2>1, <2>2
  <1> QED BY <1>1, <1>3, <1>6, <1>7 DEF t

\* h tells where the elements of t, those of s that are in S, were in s.
Picks(h, t, s, S) ==
  /\ h \in [1 .. Len(t) -> 1 .. Len(s)]
  /\ \A k \in 1 .. Len(t) : t[k] = s[h[k]] /\ t[k] \in S
  /\ \A k, l \in 1 .. Len(t) : k < l => h[k] < h[l]
  /\ \A i \in 1 .. Len(s) : s[i] \in S => \E k \in 1 .. Len(t) : h[k] = i

LEMMA ThosePick ==
  ASSUME NEW T, NEW S, NEW s \in Seq(T)
  PROVE  Those(s, S) \in Seq(T) /\ \E h : Picks(h, Those(s, S), s, S)
  <1> DEFINE G == {q \in Seq(T) : /\ Those(q, S) \in Seq(T)
                                  /\ \E h : Picks(h, Those(q, S), q, S)}
  <1>1. <<>> \in G
    <2>1. <<>> \in Seq(T) /\ Those(<<>>, S) = <<>> /\ Len(<<>>) = 0
      BY ThoseOfEmpty
    <2>2. Picks([k \in 1 .. 0 |-> 0], <<>>, <<>>, S)
      BY <2>1 DEF Picks
    <2> QED BY <2>1, <2>2
  <1>2. ASSUME NEW q \in Seq(T), NEW x \in T, q \in G PROVE Append(q, x) \in G
    <2> DEFINE t == Those(q, S)  u == Those(Append(q, x), S)  r == Append(q, x)
    <2>1. u = IF x \in S THEN Append(t, x) ELSE t
      BY ThoseOfAppend
    <2>2. t \in Seq(T) /\ \E h : Picks(h, t, q, S)
      BY <1>2
    <2>3. /\ r \in Seq(T) /\ Len(q) \in Nat /\ Len(r) = Len(q) + 1 /\ r[Len(q) + 1] = x
          /\ \A n \in 1 .. Len(q) : r[n] = q[n]
      BY AppendProperties
    <2>4. PICK h : Picks(h, t, q, S)
      BY <2>2
    <2>4a. /\ h \in [1 .. Len(t) -> 1 .. Len(q)]
           /\ \A k \in 1 .. Len(t) : t[k] = q[h[k]] /\ t[k] \in S
           /\ \A k, l \in 1 .. Len(t) : k < l => h[k] < h[l]
           /\ \A i \in 1 .. Len(q) : q[i] \in S => \E k \in 1 .. Len(t) : h[k] = i
      BY <2>4 DEF Picks
    <2> HIDE DEF t, u, r
    <2>5. CASE x \in S
      <3>1. /\ u \in Seq(T) /\ Len(t) \in Nat /\ Len(u) = Len(t) + 1 /\ u[Len(t) + 1] = x
            /\ \A k \in 1 .. Len(t) : u[k] = t[k]
        BY <2>1, <2>2, <2>5, AppendProperties
      <3> DEFINE g == [k \in 1 .. Len(u) |-> IF k <= Len(t) THEN h[k] ELSE Len(r)]
      <3>2. g \in [1 .. Len(u) -> 1 .. Len(r)]
        BY <2>3, <2>4a, <3>1
      <3>3. ASSUME NEW k \in 1 .. Len(u) PROVE u[k] = r[g[k]] /\ u[k] \in S
        <4>1. CASE k = Len(t) + 1
          BY <2>3, <2>5, <3>1, <4>1
        <4>2. CASE k # Len(t) + 1
          <5>1. k \in 1 .. Len(t) /\ g[k] = h[k]
            BY <3>1, <4>2
          <5>2. u[k] = t[k] /\ t[k] = q[h[k]] /\ t[k] \in S /\ h[k] \in 1 .. Len(q)
            BY <2>4a, <3>1, <5>1
          <5> QED BY <2>3, <5>1, <5>2
        <4> QED BY <4>1, <4>2
      <3>4. ASSUME NEW k \in 1 .. Len(u), NEW l \in 1 .. Len(u), k < l PROVE g[k] < g[l]
        <4>1. k \in 1 .. Len(t) /\ g[k] = h[k] /\ h[k] \in 1 .. Len(q)
          BY <2>4a, <3>1, <3>4
        <4>2. CASE l = Len(t) + 1
          <5>1. g[l] = Len(q) + 1
            BY <2>3, <3>1, <4>2
          <5> QED BY <2>3, <4>1, <5>1
        <4>3. CASE l # Len(t) + 1
          <5>1. l \in 1 .. Len(t) /\ g[l] = h[l]
            BY <3>1, <4>3
          <5> QED BY <2>4a, <3>4, <4>1, <5>1
        <4> QED BY <4>2, <4>3
      <3>5. ASSUME NEW i \in 1 .. Len(r), r[i] \in S
            PROVE  \E k \in 1 .. Len(u) : g[k] = i
        <4>1. CASE i = Len(r)
          BY <3>1, <4>1
        <4>2. CASE i # Len(r)
          <5>1. i \in 1 .. Len(q) /\ q[i] \in S
            BY <2>3, <3>5, <4>2
          <5>2. PICK k \in 1 .. Len(t) : h[k] = i
            BY <5>1, <2>4a
          <5>3. k \in 1 .. Len(u) /\ g[k] = i
            BY <5>2, <3>1
          <5> QED BY <5>3
        <4> QED BY <4>1, <4>2
      <3> HIDE DEF g
      <3>6. Picks(g, u, r, S)
        BY <3>2, <3>3, <3>4, <3>5 DEF Picks
      <3> QED BY <2>3, <3>1, <3>6 DEF u, r
    <2>6. CASE x \notin S
      <3>1. u = t
        BY <2>1, <2>6
      <3>2. ASSUME NEW i \in 1 .. Len(r), r[i] \in S
            PROVE  \E k \in 1 .. Len(t) : h[k] = i
        <4>1. i # Len(q) + 1
          BY <2>3, <2>6, <3>2
        <4>2. i \in 1 .. Len(q)
          BY <2>3, <4>1
        <4>3. q[i] \in S
          BY <2>3, <3>2, <4>2
        <4> QED BY <2>4a, <4>2, <4>3
      <3>3. h \in [1 .. Len(t) -> 1 .. Len(r)]
        BY <2>3, <2>4a
      <3>4. \A k \in 1 .. Len(t) : t[k] = r[h[k]] /\ t[k] \in S
        BY <2>3, <2>4a
      <3>5. Picks(h, t, r, S)
        BY <2>4a, <3>2, <3>3, <3>4 DEF Picks
      <3> QED BY <2>2, <2>3, <3>1, <3>5 DEF u, r
    <2> QED BY <2>5, <2>6
  <1> HIDE DEF G
  <1>3. s \in G
    BY <1>1, <1>2, SequencesReached
  <1> QED BY <1>3 DEF G
\* Those of a concatenation.
LEMMA ThoseOfConcat ==
  ASSUME NEW T, NEW a \in Seq(T), NEW b \in Seq(T), NEW S
  PROVE  Those(a \o b, S) = Those(a, S) \o Those(b, S)
  <1> DEFINE G == {q \in Seq(T) : Those(a \o q, S) = Those(a, S) \o Those(q, S)}
  <1>0. \A q \in Seq(T) : Those(q, S) \in Seq(T)
    BY ThosePick
  <1>1. <<>> \in G
    <2>1. Those(<<>>, S) = <<>> /\ a \o <<>> = a /\ Those(a, S) \o <<>> = Those(a, S)
      BY <1>0, ThoseOfEmpty, ConcatEmptySeq
    <2>2. <<>> \in Seq(T)
      OBVIOUS
    <2> QED BY <2>1, <2>2
  <1>2. ASSUME NEW q \in Seq(T), NEW x \in T, q \in G PROVE Append(q, x) \in G
    <2>1. a \o Append(q, x) = Append(a \o q, x) /\ a \o q \in Seq(T) /\ Append(q, x) \in Seq(T)
      OBVIOUS
    <2>2. Those(Append(a \o q, x), S) = IF x \in S THEN Append(Those(a \o q, S), x)
                                                   ELSE Those(a \o q, S)
      BY <2>1, ThoseOfAppend
    <2>3. Those(Append(q, x), S) = IF x \in S THEN Append(Those(q, S), x) ELSE Those(q, S)
      BY ThoseOfAppend
    <2>4. Those(a \o q, S) = Those(a, S) \o Those(q, S)
      BY <1>2
    <2> DEFINE ta == Those(a, S)  tq == Those(q, S)
    <2>5. ta \in Seq(T) /\ tq \in Seq(T)
      BY <1>0
    <2> HIDE DEF ta, tq
    <2>6. ta \o Append(tq, x) = Append(ta \o tq, x)
      BY <2>5
    <2> QED BY <2>1, <2>2, <2>3, <2>4, <2>6 DEF ta, tq
  <1> HIDE DEF G
  <1>3. b \in G
    BY <1>1, <1>2, SequencesReached
  <1> QED BY <1>3 DEF G

\* A split into those in P and the others keeps the number of those in R.
LEMMA SplitCounts ==
  ASSUME NEW T, NEW s \in Seq(T), NEW P, NEW R
  PROVE  Len(Those(Those(s, P), R)) + Len(Those(Those(s, T \ P), R)) = Len(Those(s, R))
  <1> DEFINE N(q) == Len(Those(q, R))
             G == {q \in Seq(T) : N(Those(q, P)) + N(Those(q, T \ P)) = N(q)}
  <1>0. \A q \in Seq(T) : /\ Those(q, R) \in Seq(T) /\ Those(q, P) \in Seq(T)
                          /\ Those(q, T \ P) \in Seq(T) /\ N(q) \in Nat
    <2>1. ASSUME NEW q \in Seq(T) PROVE Those(q, R) \in Seq(T)
      BY ThosePick
    <2> QED BY <2>1, ThosePick, LenProperties
  <1>1. <<>> \in G
    <2>1. <<>> \in Seq(T) /\ Len(<<>>) = 0
      OBVIOUS
    <2> QED BY <2>1, ThoseOfEmpty
  <1>2. ASSUME NEW q \in Seq(T), NEW x \in T, q \in G PROVE Append(q, x) \in G
    <2> DEFINE w == IF x \in R THEN 1 ELSE 0
    <2>1. ASSUME NEW u \in Seq(T) PROVE N(Append(u, x)) = N(u) + w
      <3>1. Those(Append(u, x), R) = IF x \in R THEN Append(Those(u, R), x) ELSE Those(u, R)
        BY ThoseOfAppend
      <3>2. Those(u, R) \in Seq(T)
        BY <1>0
      <3> QED BY <3>1, <3>2, AppendProperties, <1>0
    <2>2. /\ Those(Append(q, x), P) = IF x \in P THEN Append(Those(q, P), x) ELSE Those(q, P)
          /\ Those(Append(q, x), T \ P) = IF x \in P THEN Those(q, T \ P)
                                          ELSE Append(Those(q, T \ P), x)
      BY ThoseOfAppend
    <2>3. N(Those(q, P)) + N(Those(q, T \ P)) = N(q)
      BY <1>2
    <2>4. /\ Those(q, P) \in Seq(T) /\ Those(q, T \ P) \in Seq(T)
          /\ N(Those(q, P)) \in Nat /\ N(Those(q, T \ P)) \in Nat /\ w \in Nat
      BY <1>0
    <2>5. Append(q, x) \in Seq(T)
      OBVIOUS
    <2> HIDE DEF N, w
    <2>6. N(Those(Append(q, x), P)) + N(Those(Append(q, x), T \ P)) = N(q) + w
      <3>1. CASE x \in P
        <4>1. N(Append(Those(q, P), x)) = N(Those(q, P)) + w
          BY <2>1, <2>4
        <4> QED BY <2>2, <2>3, <2>4, <3>1, <4>1
      <3>2. CASE x \notin P
        <4>1. N(Append(Those(q, T \ P), x)) = N(Those(q, T \ P)) + w
          BY <2>1, <2>4
        <4>2. /\ Those(Append(q, x), P) = Those(q, P)
              /\ Those(Append(q, x), T \ P) = Append(Those(q, T \ P), x)
          BY <2>2, <3>2
        <4>3. N(Those(Append(q, x), T \ P)) = N(Those(q, T \ P)) + w
          BY <4>1, <4>2
        <4>4. N(Those(Append(q, x), P)) = N(Those(q, P))
          BY <4>2
        <4> QED BY <2>3, <2>4, <4>3, <4>4
      <3> QED BY <3>1, <3>2
    <2> QED BY <2>1, <2>5, <2>6
  <1> HIDE DEF G
  <1>3. s \in G
    BY <1>1, <1>2, SequencesReached
  <1> QED BY <1>3 DEF G
-----------------------------------------------------------------------------
\* What the proofs say of a queue of items: the messages of its ordinary items and of
\* those that were not displayed, that no message is in it twice, and that ordinary
\* messages are in the order they were sent.
OrdinaryMsgs(s) == {s[i].msg : i \in {j \in DOMAIN s : ~s[j].priority}}
UnshownMsgs(s) == {s[i].msg : i \in {j \in DOMAIN s : ~s[j].displayed}}
Distinct(s) == \A i, j \in DOMAIN s : s[i].msg = s[j].msg => i = j
Ascends(s, E) ==
  \A i, j \in DOMAIN s :
    i < j /\ ~s[i].priority /\ ~s[j].priority =>
      s[i].msg < s[j].msg \/ s[j].msg \in E

LEMMA QueueMsgs == \A s \in Seq(Items) : MsgsOf(s) \subseteq Messages
  <1> SUFFICES ASSUME NEW s \in Seq(Items), NEW i \in DOMAIN s PROVE s[i].msg \in Messages
    BY DEF MsgsOf
  <1>1. s[i] \in Items
    OBVIOUS
  <1> QED BY <1>1 DEF Items

\* A concatenation.
LEMMA ConcatQueue ==
  ASSUME NEW a \in Seq(Items), NEW b \in Seq(Items)
  PROVE  /\ a \o b \in Seq(Items) /\ Len(a \o b) = Len(a) + Len(b)
         /\ MsgsOf(a \o b) = MsgsOf(a) \cup MsgsOf(b)
         /\ OrdinaryMsgs(a \o b) = OrdinaryMsgs(a) \cup OrdinaryMsgs(b)
         /\ UnshownMsgs(a \o b) = UnshownMsgs(a) \cup UnshownMsgs(b)
         /\ Work(a \o b) = Work(a) + Work(b)
  <1> DEFINE c == a \o b
  <1>1. /\ c \in Seq(Items) /\ Len(c) = Len(a) + Len(b) /\ Len(a) \in Nat /\ Len(b) \in Nat
        /\ \A i \in 1 .. Len(a) : c[i] = a[i]
        /\ \A i \in 1 .. Len(b) : c[Len(a) + i] = b[i]
        /\ DOMAIN c = 1 .. Len(c) /\ DOMAIN a = 1 .. Len(a) /\ DOMAIN b = 1 .. Len(b)
    OBVIOUS
  <1>2. Work(c) = Work(a) + Work(b)
    <2>1. Those(c, Redriven) = Those(a, Redriven) \o Those(b, Redriven)
      BY ThoseOfConcat
    <2>2. Those(a, Redriven) \in Seq(Items) /\ Those(b, Redriven) \in Seq(Items)
      BY ThosePick
    <2>3. Len(Those(c, Redriven)) = Len(Those(a, Redriven)) + Len(Those(b, Redriven))
      BY <2>1, <2>2
    <2>4. Len(Those(a, Redriven)) \in Nat /\ Len(Those(b, Redriven)) \in Nat
      BY <2>2
    <2> QED BY <1>1, <2>3, <2>4 DEF Work
  <1> HIDE DEF c
  <1>3. ASSUME NEW i \in DOMAIN c
        PROVE  \/ i \in DOMAIN a /\ c[i] = a[i]
               \/ i - Len(a) \in DOMAIN b /\ c[i] = b[i - Len(a)]
    <2>1. CASE i <= Len(a)
      BY <1>1, <2>1
    <2>2. CASE i > Len(a)
      <3>1. i - Len(a) \in 1 .. Len(b) /\ Len(a) + (i - Len(a)) = i
        BY <1>1, <2>2
      <3> QED BY <1>1, <3>1
    <2> QED BY <1>1, <2>1, <2>2
  <1>4. \A i \in DOMAIN a : i \in DOMAIN c /\ c[i] = a[i]
    BY <1>1
  <1>5. \A i \in DOMAIN b : Len(a) + i \in DOMAIN c /\ c[Len(a) + i] = b[i]
    BY <1>1
  <1>6. MsgsOf(c) = MsgsOf(a) \cup MsgsOf(b)
    BY <1>3, <1>4, <1>5 DEF MsgsOf
  <1>7. OrdinaryMsgs(c) = OrdinaryMsgs(a) \cup OrdinaryMsgs(b)
    BY <1>3, <1>4, <1>5 DEF OrdinaryMsgs
  <1>8. UnshownMsgs(c) = UnshownMsgs(a) \cup UnshownMsgs(b)
    BY <1>3, <1>4, <1>5 DEF UnshownMsgs
  <1> QED BY <1>1, <1>2, <1>6, <1>7, <1>8 DEF c

LEMMA ConcatDistinct ==
  ASSUME NEW a \in Seq(Items), NEW b \in Seq(Items)
  PROVE  Distinct(a \o b) <=> Distinct(a) /\ Distinct(b) /\ MsgsOf(a) \cap MsgsOf(b) = {}
  <1> DEFINE c == a \o b
  <1>1. /\ Len(c) = Len(a) + Len(b) /\ Len(a) \in Nat /\ Len(b) \in Nat
        /\ \A i \in 1 .. Len(a) : c[i] = a[i]
        /\ \A i \in 1 .. Len(b) : c[Len(a) + i] = b[i]
        /\ \A i \in 1 .. Len(c) : i > Len(a) => i - Len(a) \in 1 .. Len(b) /\ c[i] = b[i - Len(a)]
        /\ DOMAIN c = 1 .. Len(c) /\ DOMAIN a = 1 .. Len(a) /\ DOMAIN b = 1 .. Len(b)
    OBVIOUS
  <1> HIDE DEF c
  <1>2. ASSUME Distinct(c) PROVE Distinct(a) /\ Distinct(b) /\ MsgsOf(a) \cap MsgsOf(b) = {}
    <2>1. Distinct(a)
      BY <1>1, <1>2 DEF Distinct
    <2>2. Distinct(b)
      <3> SUFFICES ASSUME NEW i \in DOMAIN b, NEW j \in DOMAIN b, b[i].msg = b[j].msg
                   PROVE  i = j
        BY DEF Distinct
      <3>1. Len(a) + i \in DOMAIN c /\ Len(a) + j \in DOMAIN c
        BY <1>1
      <3>2. c[Len(a) + i] = b[i] /\ c[Len(a) + j] = b[j]
        BY <1>1
      <3>3. Len(a) + i = Len(a) + j
        BY <1>2, <3>1, <3>2 DEF Distinct
      <3> QED BY <3>3, <1>1
    <2>3. ASSUME NEW i \in DOMAIN a, NEW j \in DOMAIN b, a[i].msg = b[j].msg PROVE FALSE
      <3>1. i \in DOMAIN c /\ Len(a) + j \in DOMAIN c /\ i # Len(a) + j
        BY <1>1
      <3>2. c[i] = a[i] /\ c[Len(a) + j] = b[j]
        BY <1>1
      <3> QED BY <1>2, <2>3, <3>1, <3>2 DEF Distinct
    <2> QED BY <2>1, <2>2, <2>3 DEF MsgsOf
  <1>3. ASSUME Distinct(a), Distinct(b), MsgsOf(a) \cap MsgsOf(b) = {},
               NEW i \in DOMAIN c, NEW j \in DOMAIN c, c[i].msg = c[j].msg
        PROVE  i = j
    <2>1. CASE i <= Len(a) /\ j <= Len(a)
      BY <1>1, <1>3, <2>1 DEF Distinct
    <2>2. CASE i > Len(a) /\ j > Len(a)
      <3>1. /\ i - Len(a) \in DOMAIN b /\ j - Len(a) \in DOMAIN b
            /\ c[i] = b[i - Len(a)] /\ c[j] = b[j - Len(a)]
        BY <1>1, <2>2
      <3>2. i - Len(a) = j - Len(a)
        BY <1>3, <3>1 DEF Distinct
      <3> QED BY <1>1, <3>2
    <2>3. CASE i <= Len(a) /\ j > Len(a)
      <3>1. i \in DOMAIN a /\ j - Len(a) \in DOMAIN b /\ c[i] = a[i] /\ c[j] = b[j - Len(a)]
        BY <1>1, <2>3
      <3>2. c[i].msg \in MsgsOf(a) /\ c[j].msg \in MsgsOf(b)
        BY <3>1 DEF MsgsOf
      <3> QED BY <1>3, <3>2
    <2>4. CASE i > Len(a) /\ j <= Len(a)
      <3>1. j \in DOMAIN a /\ i - Len(a) \in DOMAIN b /\ c[j] = a[j] /\ c[i] = b[i - Len(a)]
        BY <1>1, <2>4
      <3>2. c[j].msg \in MsgsOf(a) /\ c[i].msg \in MsgsOf(b)
        BY <3>1 DEF MsgsOf
      <3> QED BY <1>3, <3>2
    <2> QED BY <1>1, <2>1, <2>2, <2>3, <2>4
  <1>4. ASSUME Distinct(a), Distinct(b), MsgsOf(a) \cap MsgsOf(b) = {} PROVE Distinct(c)
    BY <1>3, <1>4 DEF Distinct
  <1> QED BY <1>2, <1>4 DEF c

LEMMA ConcatAscends ==
  ASSUME NEW a \in Seq(Items), NEW b \in Seq(Items), NEW E
  PROVE  Ascends(a \o b, E) <=> /\ Ascends(a, E) /\ Ascends(b, E)
                            /\ \A x \in OrdinaryMsgs(a), y \in OrdinaryMsgs(b) : x < y \/ y \in E
  <1> DEFINE c == a \o b
  <1>1. /\ Len(c) = Len(a) + Len(b) /\ Len(a) \in Nat /\ Len(b) \in Nat
        /\ \A i \in 1 .. Len(a) : c[i] = a[i]
        /\ \A i \in 1 .. Len(b) : c[Len(a) + i] = b[i]
        /\ \A i \in 1 .. Len(c) : i > Len(a) => i - Len(a) \in 1 .. Len(b) /\ c[i] = b[i - Len(a)]
        /\ DOMAIN c = 1 .. Len(c) /\ DOMAIN a = 1 .. Len(a) /\ DOMAIN b = 1 .. Len(b)
    OBVIOUS
  <1> HIDE DEF c
  <1>2. ASSUME Ascends(c, E)
        PROVE  /\ Ascends(a, E) /\ Ascends(b, E)
               /\ \A x \in OrdinaryMsgs(a), y \in OrdinaryMsgs(b) : x < y \/ y \in E
    <2>1. Ascends(a, E)
      BY <1>1, <1>2 DEF Ascends
    <2>2. Ascends(b, E)
      <3> SUFFICES ASSUME NEW i \in DOMAIN b, NEW j \in DOMAIN b, i < j,
                          ~b[i].priority, ~b[j].priority
                   PROVE  b[i].msg < b[j].msg \/ b[j].msg \in E
        BY DEF Ascends
      <3>1. Len(a) + i \in DOMAIN c /\ Len(a) + j \in DOMAIN c /\ Len(a) + i < Len(a) + j
        BY <1>1
      <3>2. c[Len(a) + i] = b[i] /\ c[Len(a) + j] = b[j]
        BY <1>1
      <3> QED BY <1>2, <3>1, <3>2 DEF Ascends
    <2>3. ASSUME NEW i \in DOMAIN a, NEW j \in DOMAIN b, ~a[i].priority, ~b[j].priority
          PROVE  a[i].msg < b[j].msg \/ b[j].msg \in E
      <3>1. i \in DOMAIN c /\ Len(a) + j \in DOMAIN c /\ i < Len(a) + j
        BY <1>1
      <3>2. c[i] = a[i] /\ c[Len(a) + j] = b[j]
        BY <1>1
      <3> QED BY <1>2, <2>3, <3>1, <3>2 DEF Ascends
    <2> QED BY <2>1, <2>2, <2>3 DEF OrdinaryMsgs
  <1>3. ASSUME Ascends(a, E), Ascends(b, E),
               \A x \in OrdinaryMsgs(a), y \in OrdinaryMsgs(b) : x < y \/ y \in E,
               NEW i \in DOMAIN c, NEW j \in DOMAIN c, i < j, ~c[i].priority, ~c[j].priority
        PROVE  c[i].msg < c[j].msg \/ c[j].msg \in E
    <2>1. CASE j <= Len(a)
      BY <1>1, <1>3, <2>1 DEF Ascends
    <2>2. CASE i > Len(a)
      <3>1. /\ i - Len(a) \in DOMAIN b /\ j - Len(a) \in DOMAIN b /\ i - Len(a) < j - Len(a)
            /\ c[i] = b[i - Len(a)] /\ c[j] = b[j - Len(a)]
        BY <1>1, <1>3, <2>2
      <3> QED BY <1>3, <3>1 DEF Ascends
    <2>3. CASE i <= Len(a) /\ j > Len(a)
      <3>1. i \in DOMAIN a /\ j - Len(a) \in DOMAIN b /\ c[i] = a[i] /\ c[j] = b[j - Len(a)]
        BY <1>1, <2>3
      <3>2. c[i].msg \in OrdinaryMsgs(a) /\ c[j].msg \in OrdinaryMsgs(b)
        BY <1>3, <3>1 DEF OrdinaryMsgs
      <3> QED BY <1>3, <3>2
    <2> QED BY <1>1, <2>1, <2>2, <2>3
  <1>4. ASSUME Ascends(a, E), Ascends(b, E),
               \A x \in OrdinaryMsgs(a), y \in OrdinaryMsgs(b) : x < y \/ y \in E
        PROVE  Ascends(c, E)
    BY <1>3, <1>4 DEF Ascends
  <1> QED BY <1>2, <1>4 DEF c
\* A selection, and its split from what is left.
LEMMA ThoseQueue ==
  ASSUME NEW s \in Seq(Items), NEW S, NEW E
  PROVE  /\ Those(s, S) \in Seq(Items)
         /\ \A i \in DOMAIN Those(s, S) : Those(s, S)[i] \in S
         /\ MsgsOf(Those(s, S)) \subseteq MsgsOf(s)
         /\ OrdinaryMsgs(Those(s, S)) \subseteq OrdinaryMsgs(s)
         /\ Distinct(s) => Distinct(Those(s, S))
         /\ Ascends(s, E) => Ascends(Those(s, S), E)
  <1> DEFINE t == Those(s, S)
  <1>1. t \in Seq(Items) /\ \E h : Picks(h, t, s, S)
    BY ThosePick
  <1>2. PICK h : Picks(h, t, s, S)
    BY <1>1
  <1> HIDE DEF t
  <1>3. /\ DOMAIN t = 1 .. Len(t) /\ DOMAIN s = 1 .. Len(s) /\ Len(t) \in Nat /\ Len(s) \in Nat
    BY <1>1
  <1>4. \A i \in DOMAIN t : h[i] \in DOMAIN s /\ t[i] = s[h[i]] /\ t[i] \in S
    BY <1>2, <1>3 DEF Picks
  <1>5. \A i, j \in DOMAIN t : i < j => h[i] < h[j]
    BY <1>2, <1>3 DEF Picks
  <1>6. MsgsOf(t) \subseteq MsgsOf(s)
    BY <1>4 DEF MsgsOf
  <1>7. OrdinaryMsgs(t) \subseteq OrdinaryMsgs(s)
    BY <1>4 DEF OrdinaryMsgs
  <1>8. ASSUME Distinct(s) PROVE Distinct(t)
    <2> SUFFICES ASSUME NEW i \in DOMAIN t, NEW j \in DOMAIN t, t[i].msg = t[j].msg, i # j
                 PROVE  FALSE
      BY DEF Distinct
    <2>1. h[i] = h[j]
      BY <1>4, <1>8 DEF Distinct
    <2>2. h[i] < h[j] \/ h[j] < h[i]
      <3>1. i < j \/ j < i
        BY <1>3
      <3> QED BY <3>1, <1>5
    <2>3. h[i] \in Nat /\ h[j] \in Nat
      BY <1>3, <1>4
    <2> QED BY <2>1, <2>2, <2>3
  <1>9. ASSUME Ascends(s, E) PROVE Ascends(t, E)
    <2> SUFFICES ASSUME NEW i \in DOMAIN t, NEW j \in DOMAIN t, i < j,
                        ~t[i].priority, ~t[j].priority
                 PROVE  t[i].msg < t[j].msg \/ t[j].msg \in E
      BY DEF Ascends
    <2>1. h[i] < h[j] /\ t[i] = s[h[i]] /\ t[j] = s[h[j]] /\ h[i] \in DOMAIN s /\ h[j] \in DOMAIN s
      BY <1>4, <1>5
    <2> QED BY <1>9, <2>1 DEF Ascends
  <1> QED BY <1>1, <1>4, <1>6, <1>7, <1>8, <1>9 DEF t

LEMMA SplitQueue ==
  ASSUME NEW s \in Seq(Items), NEW S
  PROVE  /\ MsgsOf(Those(s, S)) \cup MsgsOf(Those(s, Items \ S)) = MsgsOf(s)
         /\ UnshownMsgs(Those(s, S)) \cup UnshownMsgs(Those(s, Items \ S)) = UnshownMsgs(s)
         /\ Distinct(s) => MsgsOf(Those(s, S)) \cap MsgsOf(Those(s, Items \ S)) = {}
         /\ Len(Those(s, S)) + Len(Those(s, Items \ S)) = Len(s)
         /\ Work(Those(s, S)) + Work(Those(s, Items \ S)) = Work(s)
  <1> DEFINE t == Those(s, S)  u == Those(s, Items \ S)
  <1>1. t \in Seq(Items) /\ (\E h : Picks(h, t, s, S)) /\ u \in Seq(Items)
    BY ThosePick
  <1>2. \E g : Picks(g, u, s, Items \ S)
    BY ThosePick
  <1>3. PICK h : Picks(h, t, s, S)
    BY <1>1
  <1>4. PICK g : Picks(g, u, s, Items \ S)
    BY <1>2
  <1>5. Len(t) + Len(u) = Len(s)
    <2> DEFINE A(q) == Those(q, Items)
    <2>1. ASSUME NEW q \in Seq(Items) PROVE Len(A(q)) = Len(q)
      <3> DEFINE G == {r \in Seq(Items) : A(r) = r}
      <3>1. <<>> \in G
        BY ThoseOfEmpty
      <3>2. ASSUME NEW r \in Seq(Items), NEW x \in Items, r \in G PROVE Append(r, x) \in G
        BY <3>2, ThoseOfAppend
      <3> HIDE DEF G
      <3>3. q \in G
        BY <3>1, <3>2, SequencesReached
      <3> QED BY <3>3 DEF G
    <2>2. Len(A(t)) + Len(A(u)) = Len(A(s))
      BY SplitCounts
    <2> HIDE DEF A, t, u
    <2> QED BY <1>1, <2>1, <2>2
  <1>6. Work(t) + Work(u) = Work(s)
    <2>1. Len(Those(t, Redriven)) + Len(Those(u, Redriven)) = Len(Those(s, Redriven))
      BY SplitCounts
    <2>2. ASSUME NEW q \in Seq(Items) PROVE Len(Those(q, Redriven)) \in Nat /\ Len(q) \in Nat
      <3>1. Those(q, Redriven) \in Seq(Items)
        BY ThosePick
      <3> QED BY <3>1
    <2> HIDE DEF t, u
    <2>3. /\ Len(Those(t, Redriven)) \in Nat /\ Len(Those(u, Redriven)) \in Nat
          /\ Len(Those(s, Redriven)) \in Nat /\ Len(t) \in Nat /\ Len(u) \in Nat /\ Len(s) \in Nat
      BY <1>1, <2>2
    <2> QED BY <1>5, <2>1, <2>3 DEF Work
  <1> HIDE DEF t, u
  <1>7. /\ DOMAIN t = 1 .. Len(t) /\ DOMAIN s = 1 .. Len(s) /\ DOMAIN u = 1 .. Len(u)
        /\ \A i \in DOMAIN s : s[i] \in Items
    BY <1>1
  <1>8. /\ \A i \in DOMAIN t : h[i] \in DOMAIN s /\ t[i] = s[h[i]] /\ t[i] \in S
        /\ \A i \in DOMAIN s : s[i] \in S => \E k \in DOMAIN t : h[k] = i
    BY <1>3, <1>7 DEF Picks
  <1>9. /\ \A i \in DOMAIN u : g[i] \in DOMAIN s /\ u[i] = s[g[i]] /\ u[i] \in Items \ S
        /\ \A i \in DOMAIN s : s[i] \in Items \ S => \E k \in DOMAIN u : g[k] = i
    BY <1>4, <1>7 DEF Picks
  <1>10. \A i \in DOMAIN s : (\E k \in DOMAIN t : t[k] = s[i]) \/ \E k \in DOMAIN u : u[k] = s[i]
    <2> SUFFICES ASSUME NEW i \in DOMAIN s
                 PROVE (\E k \in DOMAIN t : t[k] = s[i]) \/ \E k \in DOMAIN u : u[k] = s[i]
      OBVIOUS
    <2>1. CASE s[i] \in S
      BY <1>8, <2>1
    <2>2. CASE s[i] \notin S
      BY <1>7, <1>9, <2>2
    <2> QED BY <2>1, <2>2
  <1>11. /\ \A k \in DOMAIN t : \E i \in DOMAIN s : t[k] = s[i]
         /\ \A k \in DOMAIN u : \E i \in DOMAIN s : u[k] = s[i]
    BY <1>8, <1>9
  <1>12. MsgsOf(t) \cup MsgsOf(u) = MsgsOf(s)
    BY <1>10, <1>11 DEF MsgsOf
  <1>13. UnshownMsgs(t) \cup UnshownMsgs(u) = UnshownMsgs(s)
    BY <1>10, <1>11 DEF UnshownMsgs
  <1>14. ASSUME Distinct(s) PROVE MsgsOf(t) \cap MsgsOf(u) = {}
    <2> SUFFICES ASSUME NEW i \in DOMAIN t, NEW j \in DOMAIN u, t[i].msg = u[j].msg PROVE FALSE
      BY DEF MsgsOf
    <2>1. h[i] = g[j]
      BY <1>8, <1>9, <1>14 DEF Distinct
    <2> QED BY <1>8, <1>9, <2>1
  <1> QED BY <1>5, <1>6, <1>12, <1>13, <1>14 DEF t, u
\* The measure of a queue.
LEMMA WorkBounds ==
  ASSUME NEW s \in Seq(Items)
  PROVE  /\ Work(s) \in Nat /\ Work(s) >= Len(s)
         /\ Work(s) = Len(s) + Len(Those(s, Items \ Redriven))
  <1>1. Those(s, Redriven) \in Seq(Items) /\ Those(s, Items \ Redriven) \in Seq(Items)
    BY ThosePick
  <1>2. Len(Those(s, Redriven)) + Len(Those(s, Items \ Redriven)) = Len(s)
    BY SplitQueue
  <1>3. /\ Len(Those(s, Redriven)) \in Nat /\ Len(Those(s, Items \ Redriven)) \in Nat
        /\ Len(s) \in Nat
    BY <1>1
  <1> QED BY <1>2, <1>3 DEF Work

LEMMA WorkType == \A s \in Seq(Items) : Work(s) \in Nat /\ Len(s) \in Nat
  <1> SUFFICES ASSUME NEW s \in Seq(Items) PROVE Work(s) \in Nat /\ Len(s) \in Nat
    OBVIOUS
  <1>1. Work(s) \in Nat
    BY WorkBounds
  <1> QED BY <1>1

LEMMA ShownItem ==
  ASSUME NEW x \in Items
  PROVE  /\ Shown(x) \in Items /\ Shown(x).msg = x.msg /\ Shown(x).priority = x.priority
         /\ Shown(x).displayed /\ Shown(x).redriven = x.redriven
  BY DEF Shown, Items

LEMMA ShownQueue ==
  ASSUME NEW s \in Seq(Items), NEW E
  PROVE  /\ AllShown(s) \in Seq(Items) /\ Len(AllShown(s)) = Len(s)
         /\ MsgsOf(AllShown(s)) = MsgsOf(s)
         /\ OrdinaryMsgs(AllShown(s)) = OrdinaryMsgs(s)
         /\ UnshownMsgs(AllShown(s)) = {}
         /\ Distinct(s) => Distinct(AllShown(s))
         /\ Ascends(s, E) => Ascends(AllShown(s), E)
         /\ Work(AllShown(s)) = Work(s)
  <1> DEFINE t == AllShown(s)
  <1>1. DOMAIN t = DOMAIN s /\ \A i \in DOMAIN s : t[i] = Shown(s[i]) /\ s[i] \in Items
    BY DEF AllShown
  <1>2. t \in Seq(Items) /\ Len(t) = Len(s)
    <2>1. t = [i \in 1 .. Len(s) |-> Shown(s[i])] /\ Len(s) \in Nat
      BY DEF AllShown
    <2>2. \A i \in 1 .. Len(s) : Shown(s[i]) \in Items
      BY ShownItem
    <2> QED BY <2>1, <2>2
  <1>3. \A i \in DOMAIN s : /\ t[i].msg = s[i].msg /\ t[i].priority = s[i].priority
                           /\ t[i].displayed
    BY <1>1, ShownItem
  <1>4. Work(t) = Work(s)
    <2> DEFINE N(q) == Len(Those(q, Redriven))
               G == {q \in Seq(Items) : AllShown(q) \in Seq(Items) /\ N(AllShown(q)) = N(q)}
    <2>1. <<>> \in G
      <3>1. AllShown(<<>>) = <<>> /\ <<>> \in Seq(Items)
        BY DEF AllShown
      <3> QED BY <3>1
    <2>2. ASSUME NEW q \in Seq(Items), NEW x \in Items, q \in G PROVE Append(q, x) \in G
      <3> DEFINE a == AllShown(q)
      <3>1. a \in Seq(Items) /\ N(a) = N(q) /\ Shown(x) \in Items
        BY <2>2, ShownItem
      <3>2. AllShown(Append(q, x)) = Append(a, Shown(x))
        <4> DEFINE l == AllShown(Append(q, x))  r == Append(a, Shown(x))
        <4>1. /\ l = [i \in 1 .. Len(q) + 1 |-> Shown(Append(q, x)[i])]
              /\ a = [i \in 1 .. Len(q) |-> Shown(q[i])] /\ Len(q) \in Nat
          BY DEF AllShown
        <4>2. Len(a) = Len(q)
          BY <4>1, <3>1
        <4>3. r = [i \in 1 .. Len(q) + 1 |-> IF i <= Len(q) THEN a[i] ELSE Shown(x)]
          BY <4>1, <4>2, <3>1
        <4>4. ASSUME NEW i \in 1 .. Len(q) + 1 PROVE l[i] = r[i]
          <5>1. CASE i <= Len(q)
            <6>1. Append(q, x)[i] = q[i]
              BY <5>1
            <6>2. l[i] = Shown(q[i])
              BY <4>1, <6>1
            <6> HIDE DEF l, r, a
            <6> QED BY <4>1, <4>3, <5>1, <6>2
          <5>2. CASE i = Len(q) + 1
            <6>1. Append(q, x)[i] = x
              BY <5>2
            <6>2. l[i] = Shown(x)
              BY <4>1, <6>1
            <6> HIDE DEF l, r, a
            <6> QED BY <4>1, <4>3, <5>2, <6>2
          <5> QED BY <4>1, <5>1, <5>2
        <4> HIDE DEF l, r, a
        <4> QED BY <4>1, <4>3, <4>4 DEF l, r
      <3>3. Shown(x) \in Redriven <=> x \in Redriven
        BY ShownItem, <3>1 DEF Redriven
      <3> HIDE DEF a
      <3>4. /\ Those(Append(a, Shown(x)), Redriven) =
                 IF Shown(x) \in Redriven THEN Append(Those(a, Redriven), Shown(x))
                 ELSE Those(a, Redriven)
            /\ Those(Append(q, x), Redriven) =
                 IF x \in Redriven THEN Append(Those(q, Redriven), x) ELSE Those(q, Redriven)
        BY <3>1, ThoseOfAppend
      <3>5. Those(a, Redriven) \in Seq(Items) /\ Those(q, Redriven) \in Seq(Items)
        BY <3>1, ThosePick
      <3>6. N(Append(a, Shown(x))) = N(Append(q, x))
        BY <3>1, <3>3, <3>4, <3>5
      <3>7. Append(q, x) \in Seq(Items) /\ AllShown(Append(q, x)) \in Seq(Items)
        BY <3>1, <3>2
      <3> QED BY <3>2, <3>6, <3>7
    <2> HIDE DEF G
    <2>3. s \in G
      BY <2>1, <2>2, SequencesReached
    <2>4. N(t) = N(s)
      BY <2>3 DEF G
    <2> QED BY <1>2, <2>4 DEF Work
  <1> HIDE DEF t
  <1>5. MsgsOf(t) = MsgsOf(s)
    BY <1>1, <1>3 DEF MsgsOf
  <1>6. OrdinaryMsgs(t) = OrdinaryMsgs(s)
    BY <1>1, <1>3 DEF OrdinaryMsgs
  <1>7. UnshownMsgs(t) = {}
    BY <1>1, <1>3 DEF UnshownMsgs
  <1>8. Distinct(s) => Distinct(t)
    BY <1>1, <1>3 DEF Distinct
  <1>9. Ascends(s, E) => Ascends(t, E)
    BY <1>1, <1>3 DEF Ascends
  <1> QED BY <1>2, <1>4, <1>5, <1>6, <1>7, <1>8, <1>9 DEF t
LEMMA RedrivenItem ==
  ASSUME NEW x \in Items
  PROVE  LET y == [x EXCEPT !.redriven = TRUE]
         IN  /\ y \in Items /\ y.msg = x.msg /\ y.priority = x.priority
             /\ y.displayed = x.displayed /\ y.redriven
  BY DEF Items

\* The redrive of a batch: what was redriven before is left, the rest counts for less.
LEMMA RedriveQueue ==
  ASSUME NEW s \in Seq(Items), NEW E
  PROVE  /\ Redrivable(s) \in Seq(Items) /\ Len(Redrivable(s)) <= Len(s)
         /\ MsgsOf(Redrivable(s)) \subseteq MsgsOf(s)
         /\ Len(Redrivable(s)) = Len(s) => MsgsOf(Redrivable(s)) = MsgsOf(s)
         /\ OrdinaryMsgs(Redrivable(s)) \subseteq OrdinaryMsgs(s)
         /\ UnshownMsgs(Redrivable(s)) = {}
         /\ Distinct(s) => Distinct(Redrivable(s))
         /\ Ascends(s, E) => Ascends(Redrivable(s), E)
         /\ Work(Redrivable(s)) + Len(s) = Work(s)
  <1> DEFINE p == Those(s, Items \ Redriven)  q == AllShown(p)  r == Redrivable(s)
  <1>1. /\ p \in Seq(Items) /\ MsgsOf(p) \subseteq MsgsOf(s)
        /\ OrdinaryMsgs(p) \subseteq OrdinaryMsgs(s)
        /\ Distinct(s) => Distinct(p)
        /\ Ascends(s, E) => Ascends(p, E)
    BY ThoseQueue
  <1>2. /\ MsgsOf(Those(s, Redriven)) \cup MsgsOf(p) = MsgsOf(s)
        /\ Len(Those(s, Redriven)) + Len(p) = Len(s)
        /\ Those(s, Redriven) \in Seq(Items)
    BY SplitQueue, ThosePick
  <1> HIDE DEF p
  <1>3. /\ q \in Seq(Items) /\ Len(q) = Len(p)
        /\ MsgsOf(q) = MsgsOf(p) /\ OrdinaryMsgs(q) = OrdinaryMsgs(p)
        /\ UnshownMsgs(q) = {}
        /\ Distinct(p) => Distinct(q)
        /\ Ascends(p, E) => Ascends(q, E)
    BY <1>1, ShownQueue
  <1>4. r = [i \in DOMAIN q |-> [q[i] EXCEPT !.redriven = TRUE]]
    BY DEF Redrivable, p
  <1> HIDE DEF q, r
  <1>5. /\ DOMAIN r = DOMAIN q /\ DOMAIN q = 1 .. Len(q) /\ Len(q) \in Nat
        /\ \A i \in DOMAIN q : q[i] \in Items /\ r[i] = [q[i] EXCEPT !.redriven = TRUE]
    <2>1. DOMAIN q = 1 .. Len(q) /\ Len(q) \in Nat /\ \A i \in DOMAIN q : q[i] \in Items
      BY <1>3
    <2> QED BY <1>4, <2>1, Zenon
  <1>6. \A i \in DOMAIN q : /\ r[i] \in Items /\ r[i].msg = q[i].msg
                           /\ r[i].priority = q[i].priority
                           /\ r[i].displayed = q[i].displayed /\ r[i].redriven
    BY <1>5, RedrivenItem
  <1>7. r \in Seq(Items) /\ Len(r) = Len(q)
    <2>1. r = [i \in 1 .. Len(q) |-> r[i]]
      BY <1>4, <1>5, Zenon
    <2> QED BY <2>1, <1>5, <1>6
  <1>8. MsgsOf(r) = MsgsOf(q) /\ OrdinaryMsgs(r) = OrdinaryMsgs(q)
        /\ UnshownMsgs(r) = UnshownMsgs(q)
    BY <1>5, <1>6 DEF MsgsOf, OrdinaryMsgs, UnshownMsgs
  <1>9. /\ Distinct(q) => Distinct(r)
        /\ Ascends(q, E) => Ascends(r, E)
    BY <1>5, <1>6 DEF Distinct, Ascends
  <1>10. Work(r) = Len(r)
    <2> DEFINE o == Those(r, Items \ Redriven)
    <2>1. o \in Seq(Items) /\ (\E h : Picks(h, o, r, Items \ Redriven))
      BY <1>7, ThosePick
    <2>2. PICK h : Picks(h, o, r, Items \ Redriven)
      BY <2>1
    <2> HIDE DEF o
    <2>3. \A i \in 1 .. Len(r) : r[i] \in Redriven
      BY <1>5, <1>6, <1>7 DEF Redriven
    <2>4. ASSUME Len(o) # 0 PROVE FALSE
      <3>1. 1 \in 1 .. Len(o)
        BY <2>1, <2>4
      <3>2. h[1] \in 1 .. Len(r) /\ o[1] = r[h[1]] /\ o[1] \in Items \ Redriven
        BY <2>2, <3>1 DEF Picks
      <3> QED BY <2>3, <3>2
    <2>5. Work(r) = Len(r) + Len(o)
      BY <1>7, WorkBounds, Zenon DEF o
    <2>6. Len(r) \in Nat
      BY <1>7
    <2> QED BY <2>4, <2>5, <2>6
  <1>11. Work(s) = Len(s) + Len(p)
    BY WorkBounds DEF p
  <1>12. Len(s) \in Nat /\ Len(p) \in Nat /\ Len(Those(s, Redriven)) \in Nat
    BY <1>1, <1>2
  <1>13. ASSUME Len(r) = Len(s) PROVE MsgsOf(r) = MsgsOf(s)
    <2> DEFINE o == Those(s, Redriven)
    <2>1. o \in Seq(Items) /\ Len(o) + Len(p) = Len(s) /\ MsgsOf(o) \cup MsgsOf(p) = MsgsOf(s)
      BY <1>2
    <2> HIDE DEF o
    <2>2. Len(o) = 0 /\ DOMAIN o = 1 .. Len(o)
      BY <2>1, <1>3, <1>7, <1>12, <1>13
    <2>3. MsgsOf(o) = {}
      BY <2>2 DEF MsgsOf
    <2> QED BY <1>3, <1>8, <2>1, <2>3
  <1>14. Len(r) <= Len(s) /\ Work(r) + Len(s) = Work(s)
    BY <1>2, <1>3, <1>7, <1>10, <1>11, <1>12
  <1>15. /\ MsgsOf(r) \subseteq MsgsOf(s) /\ OrdinaryMsgs(r) \subseteq OrdinaryMsgs(s)
         /\ UnshownMsgs(r) = {}
         /\ Distinct(s) => Distinct(r)
         /\ Ascends(s, E) => Ascends(r, E)
    BY <1>1, <1>3, <1>8, <1>9
  <1> QED BY <1>7, <1>13, <1>14, <1>15 DEF r

LEMMA NoItems ==
  /\ <<>> \in Seq(Items) /\ Len(<<>>) = 0 /\ MsgsOf(<<>>) = {} /\ OrdinaryMsgs(<<>>) = {}
  /\ UnshownMsgs(<<>>) = {} /\ Distinct(<<>>) /\ (\A E : Ascends(<<>>, E)) /\ Work(<<>>) = 0
  <1>1. Those(<<>>, Redriven) = <<>>
    BY ThoseOfEmpty
  <1> QED BY <1>1 DEF MsgsOf, OrdinaryMsgs, UnshownMsgs, Distinct, Ascends, Work

LEMMA OneItem ==
  ASSUME NEW x \in Items, NEW E
  PROVE  /\ <<x>> \in Seq(Items) /\ Len(<<x>>) = 1 /\ MsgsOf(<<x>>) = {x.msg}
         /\ OrdinaryMsgs(<<x>>) = (IF x.priority THEN {} ELSE {x.msg})
         /\ UnshownMsgs(<<x>>) = (IF x.displayed THEN {} ELSE {x.msg})
         /\ Distinct(<<x>>) /\ Ascends(<<x>>, E)
  BY DEF MsgsOf, OrdinaryMsgs, UnshownMsgs, Distinct, Ascends

\* The items that are ordinary, and those that are not.
LEMMA OrdinaryParts ==
  ASSUME NEW s \in Seq(Items), NEW E
  PROVE  /\ PriorityOf(s) \in Seq(Items) /\ OrdinaryOf(s) \in Seq(Items)
         /\ OrdinaryMsgs(PriorityOf(s)) = {} /\ OrdinaryMsgs(OrdinaryOf(s)) \subseteq OrdinaryMsgs(s)
         /\ Ascends(PriorityOf(s), E)
  <1> DEFINE t == PriorityOf(s)
  <1>1. t \in Seq(Items) /\ \A i \in DOMAIN t : t[i] \in Priority
    BY ThoseQueue DEF PriorityOf
  <1> HIDE DEF t
  <1>2. \A i \in DOMAIN t : t[i].priority
    BY <1>1 DEF Priority
  <1>3. OrdinaryMsgs(t) = {} /\ Ascends(t, E)
    BY <1>2 DEF OrdinaryMsgs, Ascends
  <1>4. /\ OrdinaryOf(s) \in Seq(Items)
        /\ OrdinaryMsgs(OrdinaryOf(s)) \subseteq OrdinaryMsgs(s)
    BY ThoseQueue DEF OrdinaryOf
  <1> QED BY <1>1, <1>3, <1>4 DEF t
\* prioritizeAgentInbound keeps what is in the queue, and the order of what is ordinary.
LEMMA PrioritizedQueue ==
  ASSUME NEW s \in Seq(Items), NEW E
  PROVE  /\ Prioritized(s) \in Seq(Items) /\ Len(Prioritized(s)) = Len(s)
         /\ MsgsOf(Prioritized(s)) = MsgsOf(s)
         /\ OrdinaryMsgs(Prioritized(s)) \subseteq OrdinaryMsgs(s)
         /\ UnshownMsgs(Prioritized(s)) = UnshownMsgs(s)
         /\ Distinct(s) => Distinct(Prioritized(s))
         /\ Ascends(s, E) => Ascends(Prioritized(s), E)
         /\ Work(Prioritized(s)) = Work(s)
  <1> DEFINE p == PriorityOf(s)  o == OrdinaryOf(s)
  <1>1. /\ p \in Seq(Items) /\ o \in Seq(Items) /\ OrdinaryMsgs(p) = {} /\ Ascends(p, E)
        /\ OrdinaryMsgs(o) \subseteq OrdinaryMsgs(s)
    BY OrdinaryParts
  <1>2. /\ MsgsOf(p) \cup MsgsOf(o) = MsgsOf(s)
        /\ UnshownMsgs(p) \cup UnshownMsgs(o) = UnshownMsgs(s)
        /\ Distinct(s) => MsgsOf(p) \cap MsgsOf(o) = {}
        /\ Len(p) + Len(o) = Len(s)
        /\ Work(p) + Work(o) = Work(s)
    BY SplitQueue DEF PriorityOf, OrdinaryOf
  <1>3. Distinct(s) => Distinct(p) /\ Distinct(o)
    BY ThoseQueue DEF PriorityOf, OrdinaryOf
  <1>4. Ascends(s, E) => Ascends(o, E)
    BY ThoseQueue DEF OrdinaryOf
  <1>5. Prioritized(s) = p \o o
    BY DEF Prioritized
  <1> HIDE DEF p, o
  <1>6. /\ p \o o \in Seq(Items) /\ Len(p \o o) = Len(p) + Len(o)
        /\ MsgsOf(p \o o) = MsgsOf(p) \cup MsgsOf(o)
        /\ OrdinaryMsgs(p \o o) = OrdinaryMsgs(p) \cup OrdinaryMsgs(o)
        /\ UnshownMsgs(p \o o) = UnshownMsgs(p) \cup UnshownMsgs(o)
        /\ Work(p \o o) = Work(p) + Work(o)
    BY <1>1, ConcatQueue
  <1>7. Distinct(s) => Distinct(p \o o)
    BY <1>1, <1>2, <1>3, ConcatDistinct
  <1>8. Ascends(s, E) => Ascends(p \o o, E)
    BY <1>1, <1>4, ConcatAscends
  <1>9. /\ Len(p \o o) = Len(s) /\ Work(p \o o) = Work(s)
        /\ MsgsOf(p \o o) = MsgsOf(s) /\ UnshownMsgs(p \o o) = UnshownMsgs(s)
        /\ OrdinaryMsgs(p \o o) \subseteq OrdinaryMsgs(s)
    BY <1>1, <1>2, <1>6
  <1> QED BY <1>5, <1>6, <1>7, <1>8, <1>9

\* mergeAgentInboundQueue: what is deferred was before what is queued.
LEMMA MergedQueue ==
  ASSUME NEW q \in Seq(Items), NEW d \in Seq(Items), NEW E
  PROVE  /\ Merged(q, d) \in Seq(Items) /\ Len(Merged(q, d)) = Len(d) + Len(q)
         /\ MsgsOf(Merged(q, d)) = MsgsOf(d) \cup MsgsOf(q)
         /\ OrdinaryMsgs(Merged(q, d)) \subseteq OrdinaryMsgs(d) \cup OrdinaryMsgs(q)
         /\ UnshownMsgs(Merged(q, d)) = UnshownMsgs(d) \cup UnshownMsgs(q)
         /\ Distinct(d \o q) => Distinct(Merged(q, d))
         /\ Ascends(d \o q, E) => Ascends(Merged(q, d), E)
         /\ Work(Merged(q, d)) = Work(d) + Work(q)
  <1> DEFINE pq == PriorityOf(q)  pd == PriorityOf(d)  oq == OrdinaryOf(q)  od == OrdinaryOf(d)
             a == pq \o pd  b == a \o od  c == b \o oq
  <1>1. /\ pq \in Seq(Items) /\ oq \in Seq(Items) /\ OrdinaryMsgs(pq) = {} /\ Ascends(pq, E)
        /\ OrdinaryMsgs(oq) \subseteq OrdinaryMsgs(q)
        /\ pd \in Seq(Items) /\ od \in Seq(Items) /\ OrdinaryMsgs(pd) = {} /\ Ascends(pd, E)
        /\ OrdinaryMsgs(od) \subseteq OrdinaryMsgs(d)
    BY OrdinaryParts
  <1>2. /\ MsgsOf(pq) \cup MsgsOf(oq) = MsgsOf(q)
        /\ UnshownMsgs(pq) \cup UnshownMsgs(oq) = UnshownMsgs(q)
        /\ Distinct(q) => MsgsOf(pq) \cap MsgsOf(oq) = {}
        /\ Len(pq) + Len(oq) = Len(q)
        /\ Work(pq) + Work(oq) = Work(q)
    BY SplitQueue DEF PriorityOf, OrdinaryOf
  <1>3. /\ MsgsOf(pd) \cup MsgsOf(od) = MsgsOf(d)
        /\ UnshownMsgs(pd) \cup UnshownMsgs(od) = UnshownMsgs(d)
        /\ Distinct(d) => MsgsOf(pd) \cap MsgsOf(od) = {}
        /\ Len(pd) + Len(od) = Len(d)
        /\ Work(pd) + Work(od) = Work(d)
    BY SplitQueue DEF PriorityOf, OrdinaryOf
  <1>4. /\ Distinct(q) => Distinct(pq) /\ Distinct(oq)
        /\ Distinct(d) => Distinct(pd) /\ Distinct(od)
    BY ThoseQueue DEF PriorityOf, OrdinaryOf
  <1>5. (Ascends(q, E) => Ascends(oq, E)) /\ (Ascends(d, E) => Ascends(od, E))
    BY ThoseQueue DEF OrdinaryOf
  <1>6. Merged(q, d) = c
    BY DEF Merged
  <1> HIDE DEF pq, pd, oq, od
  <1>7. /\ a \in Seq(Items) /\ Len(a) = Len(pq) + Len(pd)
        /\ MsgsOf(a) = MsgsOf(pq) \cup MsgsOf(pd)
        /\ OrdinaryMsgs(a) = OrdinaryMsgs(pq) \cup OrdinaryMsgs(pd)
        /\ UnshownMsgs(a) = UnshownMsgs(pq) \cup UnshownMsgs(pd)
        /\ Work(a) = Work(pq) + Work(pd)
        /\ Distinct(a) <=> Distinct(pq) /\ Distinct(pd) /\ MsgsOf(pq) \cap MsgsOf(pd) = {}
        /\ Ascends(a, E)
    BY <1>1, ConcatQueue, ConcatDistinct, ConcatAscends
  <1> HIDE DEF a
  <1>8. /\ b \in Seq(Items) /\ Len(b) = Len(a) + Len(od)
        /\ MsgsOf(b) = MsgsOf(a) \cup MsgsOf(od)
        /\ OrdinaryMsgs(b) = OrdinaryMsgs(a) \cup OrdinaryMsgs(od)
        /\ UnshownMsgs(b) = UnshownMsgs(a) \cup UnshownMsgs(od)
        /\ Work(b) = Work(a) + Work(od)
        /\ Distinct(b) <=> Distinct(a) /\ Distinct(od) /\ MsgsOf(a) \cap MsgsOf(od) = {}
        /\ Ascends(od, E) => Ascends(b, E)
    BY <1>1, <1>7, ConcatQueue, ConcatDistinct, ConcatAscends
  <1> HIDE DEF b
  <1>9. /\ c \in Seq(Items) /\ Len(c) = Len(b) + Len(oq)
        /\ MsgsOf(c) = MsgsOf(b) \cup MsgsOf(oq)
        /\ OrdinaryMsgs(c) = OrdinaryMsgs(b) \cup OrdinaryMsgs(oq)
        /\ UnshownMsgs(c) = UnshownMsgs(b) \cup UnshownMsgs(oq)
        /\ Work(c) = Work(b) + Work(oq)
        /\ Distinct(c) <=> Distinct(b) /\ Distinct(oq) /\ MsgsOf(b) \cap MsgsOf(oq) = {}
    BY <1>1, <1>8, ConcatQueue, ConcatDistinct
  <1>9a. Ascends(c, E) <=> /\ Ascends(b, E) /\ Ascends(oq, E)
                           /\ \A x \in OrdinaryMsgs(b), y \in OrdinaryMsgs(oq) :
                                x < y \/ y \in E
    BY <1>1, <1>8, ConcatAscends
  <1> HIDE DEF c
  <1>10. ASSUME Distinct(d \o q) PROVE Distinct(c)
    <2>1. Distinct(d) /\ Distinct(q) /\ MsgsOf(d) \cap MsgsOf(q) = {}
      BY <1>10, ConcatDistinct
    <2> QED BY <2>1, <1>2, <1>3, <1>4, <1>7, <1>8, <1>9
  <1>11. ASSUME Ascends(d \o q, E) PROVE Ascends(c, E)
    <2>1. /\ Ascends(d, E) /\ Ascends(q, E)
          /\ \A x \in OrdinaryMsgs(d), y \in OrdinaryMsgs(q) : x < y \/ y \in E
      BY <1>11, ConcatAscends
    <2>2. OrdinaryMsgs(b) \subseteq OrdinaryMsgs(d) /\ OrdinaryMsgs(oq) \subseteq OrdinaryMsgs(q)
      BY <1>1, <1>7, <1>8
    <2> QED BY <2>1, <2>2, <1>5, <1>8, <1>9a
  <1>12. /\ Work(pq) \in Nat /\ Work(oq) \in Nat /\ Work(pd) \in Nat /\ Work(od) \in Nat
         /\ Len(pq) \in Nat /\ Len(oq) \in Nat /\ Len(pd) \in Nat /\ Len(od) \in Nat
    BY <1>1, WorkType
  <1>13. Len(c) = Len(d) + Len(q) /\ Work(c) = Work(d) + Work(q)
    <2>1. /\ Len(c) = ((Len(pq) + Len(pd)) + Len(od)) + Len(oq)
          /\ Work(c) = ((Work(pq) + Work(pd)) + Work(od)) + Work(oq)
      BY <1>7, <1>8, <1>9, Zenon
    <2>2. /\ Len(d) = Len(pd) + Len(od) /\ Len(q) = Len(pq) + Len(oq)
          /\ Work(d) = Work(pd) + Work(od) /\ Work(q) = Work(pq) + Work(oq)
      BY <1>2, <1>3, Zenon
    <2> QED BY <2>1, <2>2, <1>12
  <1>14. /\ MsgsOf(c) = MsgsOf(d) \cup MsgsOf(q)
         /\ OrdinaryMsgs(c) \subseteq OrdinaryMsgs(d) \cup OrdinaryMsgs(q)
         /\ UnshownMsgs(c) = UnshownMsgs(d) \cup UnshownMsgs(q)
    BY <1>1, <1>2, <1>3, <1>7, <1>8, <1>9
  <1> QED BY <1>6, <1>9, <1>10, <1>11, <1>13, <1>14

LEMMA QueueNotEmpty == ASSUME NEW s \in Seq(Items), s # <<>> PROVE MsgsOf(s) # {}
  <1>1. 1 \in DOMAIN s
    OBVIOUS
  <1>2. s[1].msg \in MsgsOf(s)
    BY <1>1 DEF MsgsOf
  <1> QED BY <1>2

\* What a run puts back is merged with what is queued; it may be nothing.
LEMMA PutBackQueue ==
  ASSUME pending \in Seq(Items), NEW d \in Seq(Items), NEW E
  PROVE  LET g == PutBack(d)
         IN  /\ g \in Seq(Items) /\ MsgsOf(g) = MsgsOf(d) \cup MsgsOf(pending)
             /\ OrdinaryMsgs(g) \subseteq OrdinaryMsgs(d) \cup OrdinaryMsgs(pending)
             /\ UnshownMsgs(g) = UnshownMsgs(d) \cup UnshownMsgs(pending)
             /\ Distinct(d \o pending) => Distinct(g)
             /\ Ascends(d \o pending, E) => Ascends(g, E)
             /\ Work(g) = Work(d) + Work(pending)
  <1>1. CASE d # <<>>
    BY <1>1, MergedQueue DEF PutBack
  <1>2. CASE d = <<>>
    <2>1. PutBack(d) = pending /\ d \o pending = pending
      BY <1>2 DEF PutBack
    <2>2. Work(pending) \in Nat
      BY WorkType
    <2> QED BY <1>2, <2>1, <2>2, NoItems
  <1> QED BY <1>1, <1>2
-----------------------------------------------------------------------------
\* The loop's own state: its types, and where it is in its batch.
LoopOK ==
  /\ pending \in Seq(Items) /\ batch \in Seq(Items)
  /\ stale \in BOOLEAN /\ superseded \in BOOLEAN
  /\ phase \in {"idle", "resolving", "appending", "marking", "queued", "running"}
  /\ phase = "idle" => batch = <<>>
  /\ phase # "idle" => at \in DOMAIN batch
  /\ phase \in {"resolving", "queued"} => at = 1

\* No message is twice in memory, and none is there that was not sent; without
\* restarts the ordinary ones are in order, but for what was given back.
MemoryOK ==
  /\ Distinct(Backlog)
  /\ \A x \in rearming : x.msg \notin MsgsOf(Backlog)
  /\ \A x, y \in rearming : x.msg = y.msg => x = y
  /\ \A m \in InMemory \cup MsgsOf(batch) : m <= sends
  /\ restarts = 0 => rearming = {} /\ Ascends(Backlog, givenBack)

\* A run given up is at messages that nothing else in memory has; without restarts
\* these are older than what is still to be gone through.
Older(s, queue) ==
  \A x \in OrdinaryMsgs(s), y \in OrdinaryMsgs(queue) : x < y \/ y \in givenBack
LateOK ==
  /\ \A z \in zombies :
       /\ z.rest # <<>> /\ Distinct(z.rest)
       /\ MsgsOf(z.rest) \cap MsgsOf(Backlog) = {}
       /\ \A x \in rearming : x.msg \notin MsgsOf(z.rest)
       /\ restarts = 0 => Older(z.rest, Backlog)
  /\ \A y, z \in zombies : MsgsOf(y.rest) \cap MsgsOf(z.rest) # {} => y = z

\* Nor is one twice on disk.
DiskOK ==
  /\ IsFiniteSet(inbox) /\ sends <= MaxSends
  /\ \A x, y \in inbox : x.msg = y.msg => x = y
  /\ \A m \in Saved \cup ToSet(transcript) : m <= sends

\* A stop leaves no message accepted, in memory or on disk, and does not come while
\* entries are written.
StopOK ==
  /\ stopFile => stopped
  /\ ~Quiet => ~stale /\ ~stopped
  /\ \A m \in Messages : fate[m] = "accepted" =>
       ~stopped /\ (stale => m \notin MsgsOf(batch))

\* What is cancelled is left nowhere but in the batch of a stale loop, in a stale run
\* given up and in a file that could not be cleared: then the stop is saved.
DeadOK ==
  \A m \in Messages : fate[m] = "cancelled" =>
    /\ m \notin MsgsOf(pending) /\ ~Rearming(m)
    /\ m \in MsgsOf(batch) => stale
    /\ \A z \in zombies : m \in MsgsOf(z.rest) => z.stale
    /\ m \in Saved => stopFile

\* The messages that are still to be shown as this process knows; of these only the torn
\* are in the transcript.
ToShow ==
  UnshownMsgs(pending) \cup {x.msg : x \in {y \in rearming : ~y.displayed}}
    \cup (IF phase = "resolving" THEN UnshownMsgs(batch)
          ELSE IF phase = "appending" THEN UnshownMsgs(Rest(at)) ELSE {})
ShowOK == ShownOnce /\ ToShow \cap ToSet(transcript) \subseteq torn

MessageInv ==
  /\ TypeOK /\ LoopOK /\ MemoryOK /\ LateOK /\ DiskOK /\ StopOK /\ DeadOK
  /\ AcceptedIsKept /\ HandledOnce /\ ShowOK /\ AcceptedIsHeld

\* The batch from the item on at which the loop is.
Left == IF phase = "running" THEN Rest(at) ELSE batch

LEMMA RestOfBatch ==
  ASSUME LoopOK, phase # "idle"
  PROVE  /\ Rest(at) \in Seq(Items) /\ Rest(at + 1) \in Seq(Items) /\ batch[at] \in Items
         /\ Rest(at) = <<batch[at]>> \o Rest(at + 1)
         /\ Len(Rest(at)) = Len(Rest(at + 1)) + 1
         /\ MsgsOf(Rest(at)) \subseteq MsgsOf(batch) /\ batch[at].msg \in MsgsOf(batch)
         /\ at = 1 => Rest(at) = batch
         /\ at = Len(batch) => Rest(at + 1) = <<>>
         /\ at \in 1 .. Len(batch) /\ Len(batch) \in Nat
  <1>1. /\ batch \in Seq(Items) /\ at \in 1 .. Len(batch) /\ Len(batch) \in Nat
        /\ DOMAIN batch = 1 .. Len(batch) /\ \A i \in 1 .. Len(batch) : batch[i] \in Items
    BY DEF LoopOK
  <1> DEFINE r == Rest(at)  q == Rest(at + 1)
  <1>2. /\ r \in Seq(Items) /\ Len(r) = Len(batch) - at + 1
        /\ \A i \in 1 .. Len(batch) - at + 1 : r[i] = batch[at + i - 1]
    BY <1>1 DEF Rest
  <1>3. /\ q \in Seq(Items) /\ Len(q) = Len(batch) - at
        /\ \A i \in 1 .. Len(batch) - at : q[i] = batch[at + i]
    <2> DEFINE k == at + 1  n == Len(batch)
    <2>1. k \in 1 .. n + 1 /\ n \in Nat /\ k - 1 = at
      BY <1>1
    <2>2. q = SubSeq(batch, k, n)
      BY DEF Rest
    <2>3. ASSUME NEW i \in 1 .. n - at PROVE k + i - 1 = at + i
      BY <1>1
    <2> HIDE DEF k, n, q
    <2>4. \A i \in k .. n : batch[i] \in Items
      BY <1>1, <2>1 DEF n
    <2>5. q \in Seq(Items)
      BY <1>1, <2>1, <2>2, <2>4, SubSeqProperties
    <2>6. Len(q) = IF k <= n THEN n - k + 1 ELSE 0
      BY <1>1, <2>1, <2>2
    <2>7. \A i \in 1 .. n - k + 1 : q[i] = batch[k + i - 1]
      BY <1>1, <2>1, <2>2
    <2>8. n - k + 1 = n - at
      BY <1>1, <2>1
    <2>9. Len(q) = n - at
      BY <1>1, <2>1, <2>6, <2>8
    <2> QED BY <2>3, <2>5, <2>7, <2>8, <2>9 DEF n
  <1> HIDE DEF r, q
  <1>4. r = <<batch[at]>> \o q
    <2> DEFINE s == <<batch[at]>> \o q
    <2>1. /\ s \in Seq(Items) /\ Len(s) = Len(r) /\ s[1] = batch[at]
          /\ \A i \in 1 .. Len(q) : s[i + 1] = q[i]
      <3> DEFINE b == batch[at]
      <3>1. b \in Items /\ <<b>> \in Seq(Items) /\ Len(<<b>>) = 1 /\ <<b>>[1] = b
        BY <1>1
      <3>2. q \in Seq(Items) /\ Len(q) \in Nat /\ 1 + Len(q) = Len(r)
        BY <1>1, <1>2, <1>3
      <3>3. \A i \in 1 .. Len(q) : 1 + i = i + 1 /\ ~(i + 1 <= 1) /\ (i + 1) - 1 = i
                                 /\ i + 1 \in 1 .. 1 + Len(q)
        BY <3>2
      <3> HIDE DEF b
      <3> DEFINE t == <<b>> \o q
      <3>4. t \in Seq(Items) /\ Len(t) = 1 + Len(q)
        BY <3>1, <3>2
      <3>5. t[1] = b /\ \A i \in 1 .. Len(q) : t[i + 1] = q[i]
        BY <3>1, <3>2, <3>3
      <3> QED BY <3>2, <3>4, <3>5 DEF b
    <2> HIDE DEF s
    <2>2. ASSUME NEW i \in 1 .. Len(r) PROVE r[i] = s[i]
      <3>1. CASE i = 1
        BY <1>1, <1>2, <2>1, <3>1
      <3>2. CASE i # 1
        <4>1. i - 1 \in 1 .. Len(batch) - at /\ (i - 1) + 1 = i
          BY <1>1, <1>2, <3>2
        <4>2. s[i] = q[i - 1]
          BY <4>1, <1>3, <2>1
        <4>3. q[i - 1] = batch[at + (i - 1)]
          BY <4>1, <1>3
        <4>4. r[i] = batch[at + i - 1] /\ at + i - 1 = at + (i - 1)
          BY <1>1, <1>2
        <4> QED BY <4>2, <4>3, <4>4
      <3> QED BY <3>1, <3>2
    <2> QED BY <1>2, <2>1, <2>2, SeqEqual DEF s
  <1>5. MsgsOf(r) \subseteq MsgsOf(batch)
    <2>1. DOMAIN r = 1 .. Len(r) /\ DOMAIN batch = 1 .. Len(batch)
      BY <1>1, <1>2
    <2>2. \A i \in 1 .. Len(r) : at + i - 1 \in 1 .. Len(batch)
      BY <1>1, <1>2
    <2>3. \A i \in DOMAIN r : at + i - 1 \in DOMAIN batch /\ r[i] = batch[at + i - 1]
      <3> HIDE DEF r
      <3> QED BY <1>2, <2>1, <2>2
    <2> QED BY <2>3 DEF MsgsOf
  <1>6. ASSUME at = 1 PROVE r = batch
    <2>1. Len(r) = Len(batch) /\ \A i \in 1 .. Len(batch) : r[i] = batch[i]
      BY <1>1, <1>2, <1>6
    <2> QED BY <1>1, <1>2, <2>1, SeqEqual
  <1>7. at = Len(batch) => q = <<>>
    BY <1>1, <1>3
  <1>8. batch[at].msg \in MsgsOf(batch)
    BY <1>1 DEF MsgsOf
  <1>9. Len(r) = Len(q) + 1
    BY <1>1, <1>2, <1>3
  <1> QED BY <1>1, <1>2, <1>3, <1>4, <1>5, <1>6, <1>7, <1>8, <1>9 DEF r, q

LEMMA BacklogParts ==
  ASSUME LoopOK, NEW E
  PROVE  /\ Left \in Seq(Items) /\ pending \in Seq(Items) /\ Backlog = Left \o pending
         /\ Backlog \in Seq(Items)
         /\ MsgsOf(Left) \subseteq MsgsOf(batch)
         /\ MsgsOf(Backlog) = MsgsOf(Left) \cup MsgsOf(pending)
         /\ OrdinaryMsgs(Backlog) = OrdinaryMsgs(Left) \cup OrdinaryMsgs(pending)
         /\ Work(Backlog) = Work(Left) + Work(pending)
         /\ Distinct(Backlog) <=>
              Distinct(Left) /\ Distinct(pending) /\ MsgsOf(Left) \cap MsgsOf(pending) = {}
         /\ Ascends(Backlog, E) <=>
              /\ Ascends(Left, E) /\ Ascends(pending, E)
              /\ \A x \in OrdinaryMsgs(Left), y \in OrdinaryMsgs(pending) : x < y \/ y \in E
  <1>1. pending \in Seq(Items) /\ batch \in Seq(Items)
    BY DEF LoopOK
  <1>2. Left \in Seq(Items) /\ MsgsOf(Left) \subseteq MsgsOf(batch)
    BY <1>1, RestOfBatch DEF Left
  <1>3. Backlog = Left \o pending
    BY DEF Backlog, Left
  <1> QED BY <1>1, <1>2, <1>3, ConcatQueue, ConcatDistinct, ConcatAscends
-----------------------------------------------------------------------------
\* The loop goes on with a queue, or ends: what is left in memory is in the queue.
LEMMA ContinueEffect ==
  ASSUME NEW q \in Seq(Items), Continue(q), NEW E
  PROVE  /\ LoopOK' /\ pending' = <<>> /\ stale' = FALSE /\ Quiet'
         /\ Backlog' = batch' /\ Len(Backlog') <= Len(q)
         /\ MsgsOf(Backlog') \subseteq MsgsOf(q) /\ (~stopped => MsgsOf(Backlog') = MsgsOf(q))
         /\ OrdinaryMsgs(Backlog') \subseteq OrdinaryMsgs(q)
         /\ Distinct(q) => Distinct(Backlog')
         /\ Ascends(q, E) => Ascends(Backlog', E)
         /\ Work(Backlog') <= Work(q)
         /\ ToShow' \subseteq UnshownMsgs(q) \cup {x.msg : x \in {y \in rearming' : ~y.displayed}}
  <1> DEFINE p == Prioritized(q)
  <1>1. /\ p \in Seq(Items) /\ Len(p) = Len(q) /\ MsgsOf(p) = MsgsOf(q)
        /\ UnshownMsgs(p) = UnshownMsgs(q) /\ OrdinaryMsgs(p) \subseteq OrdinaryMsgs(q)
        /\ Distinct(q) => Distinct(p)
        /\ Ascends(q, E) => Ascends(p, E)
        /\ Work(p) = Work(q)
    BY PrioritizedQueue
  <1> HIDE DEF p
  <1>2. /\ pending' = <<>> /\ at' = 1 /\ stale' = FALSE /\ superseded' = FALSE
        /\ \/ phase' = "idle" /\ batch' = <<>> /\ (q = <<>> \/ stopped)
           \/ phase' = "resolving" /\ batch' = p /\ q # <<>> /\ ~stopped
    BY DEF Continue, FromTheFirst, p
  <1>3. Work(q) \in Nat /\ Len(q) \in Nat /\ Work(q) >= 0
    BY WorkBounds
  <1>4. ASSUME NEW b \in Seq(Items) PROVE b \o <<>> = b
    OBVIOUS
  <1>5. CASE phase' = "idle" /\ batch' = <<>> /\ (q = <<>> \/ stopped)
    <2>1. LoopOK' /\ Quiet'
      BY <1>2, <1>5, NoItems DEF LoopOK, Quiet
    <2>2. Backlog' = <<>>
      BY <1>2, <1>4, <1>5, NoItems DEF Backlog
    <2>3. ToShow' \subseteq {x.msg : x \in {y \in rearming' : ~y.displayed}}
      BY <1>2, <1>5, NoItems DEF ToShow
    <2>4. ~stopped => MsgsOf(q) = {}
      BY <1>5, NoItems
    <2>5. Len(<<>>) <= Len(q) /\ Work(<<>>) <= Work(q)
      BY <1>3, NoItems
    <2> QED BY <1>2, <1>5, <2>1, <2>2, <2>3, <2>4, <2>5, NoItems
  <1>6. CASE phase' = "resolving" /\ batch' = p /\ q # <<>> /\ ~stopped
    <2>1. 1 \in DOMAIN p
      BY <1>1, <1>3, <1>6
    <2>2. LoopOK' /\ Quiet'
      BY <1>1, <1>2, <1>6, <2>1, NoItems DEF LoopOK, Quiet
    <2>3. Backlog' = p
      BY <1>1, <1>2, <1>4, <1>6 DEF Backlog
    <2>4. ToShow' \subseteq UnshownMsgs(q) \cup {x.msg : x \in {y \in rearming' : ~y.displayed}}
      BY <1>1, <1>2, <1>6, NoItems DEF ToShow
    <2>5. Len(p) <= Len(q) /\ Work(p) <= Work(q)
      BY <1>1, <1>3
    <2> QED BY <1>1, <1>2, <1>6, <2>2, <2>3, <2>4, <2>5
  <1> QED BY <1>2, <1>5, <1>6

\* Something was queued: an idle loop takes the queue, another one goes on.
LEMMA ReviveEffect ==
  ASSUME LoopOK, NEW q \in Seq(Items), Revive(q), q # <<>>, NEW E
  PROVE  /\ LoopOK' /\ Quiet' = Quiet
         /\ MsgsOf(Backlog') \subseteq MsgsOf(Left) \cup MsgsOf(q)
         /\ OrdinaryMsgs(Backlog') \subseteq OrdinaryMsgs(Left) \cup OrdinaryMsgs(q)
         /\ ~stopped \/ phase # "idle" => MsgsOf(Backlog') = MsgsOf(Left) \cup MsgsOf(q)
         /\ MsgsOf(pending') \subseteq MsgsOf(q)
         /\ MsgsOf(batch') \subseteq MsgsOf(batch) \cup MsgsOf(q)
         /\ stale' => stale
         /\ stale /\ phase # "idle" => stale' /\ batch' = batch
         /\ ~stale /\ phase # "idle" => ~stale' /\ batch' = batch
         /\ phase = "idle" => ~stale'
         /\ Distinct(Left \o q) => Distinct(Backlog')
         /\ Ascends(Left \o q, E) => Ascends(Backlog', E)
         /\ ToShow' \subseteq ToShow \cup UnshownMsgs(q)
                               \cup {x.msg : x \in {y \in rearming' : ~y.displayed}}
  <1>1. pending \in Seq(Items) /\ batch \in Seq(Items) /\ stale \in BOOLEAN
    BY DEF LoopOK
  <1>2. CASE phase = "idle"
    <2>1. Continue(q)
      BY <1>2 DEF Revive
    <2>2. batch = <<>> /\ Left = <<>>
      BY <1>2 DEF LoopOK, Left
    <2>3. Left \o q = q
      BY <2>2
    <2>4. /\ LoopOK' /\ pending' = <<>> /\ stale' = FALSE /\ Quiet'
          /\ Backlog' = batch'
          /\ MsgsOf(Backlog') \subseteq MsgsOf(q) /\ (~stopped => MsgsOf(Backlog') = MsgsOf(q))
          /\ OrdinaryMsgs(Backlog') \subseteq OrdinaryMsgs(q)
          /\ Distinct(q) => Distinct(Backlog')
          /\ Ascends(q, E) => Ascends(Backlog', E)
          /\ ToShow' \subseteq UnshownMsgs(q)
                               \cup {x.msg : x \in {y \in rearming' : ~y.displayed}}
      BY <2>1, ContinueEffect
    <2>5. Quiet
      BY <1>2 DEF Quiet
    <2>6. MsgsOf(Left) = {} /\ MsgsOf(pending') = {}
      BY <2>2, <2>4, NoItems
    <2>7. ~stopped \/ phase # "idle" => MsgsOf(Backlog') = MsgsOf(Left) \cup MsgsOf(q)
      BY <1>2, <2>4, <2>6
    <2> QED BY <1>2, <2>3, <2>4, <2>5, <2>6, <2>7
  <1>3. CASE phase # "idle"
    <2>1. pending' = q /\ phase' = phase /\ batch' = batch /\ at' = at /\ stale' = stale
          /\ superseded' = superseded
      BY <1>3 DEF Revive, loop
    <2>2. LoopOK' /\ (Quiet' <=> Quiet)
      BY <1>3, <2>1 DEF LoopOK, Quiet
    <2>3. Left \in Seq(Items)
      BY BacklogParts
    <2>4. Backlog' = Left \o q
      BY <2>1 DEF Backlog, Left, Rest
    <2>5. /\ MsgsOf(Left \o q) = MsgsOf(Left) \cup MsgsOf(q)
          /\ OrdinaryMsgs(Left \o q) = OrdinaryMsgs(Left) \cup OrdinaryMsgs(q)
      BY <2>3, ConcatQueue
    <2>6. ToShow' \subseteq ToShow \cup UnshownMsgs(q)
                               \cup {x.msg : x \in {y \in rearming' : ~y.displayed}}
      BY <2>1 DEF ToShow, Rest
    <2> QED BY <1>1, <1>3, <2>1, <2>2, <2>4, <2>5, <2>6 DEF Quiet
  <1> QED BY <1>2, <1>3
-----------------------------------------------------------------------------
\* A queue the loop may go on with.
Keepable(q) ==
  /\ q \in Seq(Items) /\ Distinct(q) /\ MsgsOf(q) \subseteq MsgsOf(Backlog)
  /\ OrdinaryMsgs(q) \subseteq OrdinaryMsgs(Backlog)
  /\ restarts = 0 => Ascends(q, givenBack)
  /\ UnshownMsgs(q) \subseteq UnshownMsgs(pending)
  /\ ~stale \/ MsgsOf(q) \subseteq MsgsOf(pending)

LEMMA KeepPending == MessageInv => Keepable(pending)
  <1> SUFFICES ASSUME MessageInv PROVE Keepable(pending)
    OBVIOUS
  <1>1. /\ pending \in Seq(Items)
        /\ MsgsOf(Backlog) = MsgsOf(Left) \cup MsgsOf(pending)
        /\ OrdinaryMsgs(Backlog) = OrdinaryMsgs(Left) \cup OrdinaryMsgs(pending)
        /\ Distinct(Backlog) <=>
              Distinct(Left) /\ Distinct(pending) /\ MsgsOf(Left) \cap MsgsOf(pending) = {}
        /\ Ascends(Backlog, givenBack) <=>
             /\ Ascends(Left, givenBack) /\ Ascends(pending, givenBack)
             /\ \A x \in OrdinaryMsgs(Left), y \in OrdinaryMsgs(pending) :
                  x < y \/ y \in givenBack
    BY BacklogParts DEF MessageInv
  <1>2. Distinct(Backlog) /\ (restarts = 0 => Ascends(Backlog, givenBack))
    BY DEF MessageInv, MemoryOK
  <1> QED BY <1>1, <1>2 DEF Keepable

\* What is deferred of a batch goes back before what was queued since.
LEMMA KeepMerged ==
  ASSUME MessageInv, ~stale, NEW d \in Seq(Items), MsgsOf(d) \subseteq MsgsOf(Left),
         OrdinaryMsgs(d) \subseteq OrdinaryMsgs(Left), UnshownMsgs(d) = {},
         Distinct(Left) => Distinct(d), Ascends(Left, givenBack) => Ascends(d, givenBack)
  PROVE  /\ Keepable(PutBack(d))
         /\ MsgsOf(PutBack(d)) = MsgsOf(d) \cup MsgsOf(pending)
         /\ Work(PutBack(d)) = Work(d) + Work(pending)
  <1> DEFINE g == PutBack(d)
  <1>1. /\ pending \in Seq(Items) /\ MsgsOf(Backlog) = MsgsOf(Left) \cup MsgsOf(pending)
        /\ OrdinaryMsgs(Backlog) = OrdinaryMsgs(Left) \cup OrdinaryMsgs(pending)
        /\ Distinct(Backlog) <=>
              Distinct(Left) /\ Distinct(pending) /\ MsgsOf(Left) \cap MsgsOf(pending) = {}
        /\ Ascends(Backlog, givenBack) <=>
             /\ Ascends(Left, givenBack) /\ Ascends(pending, givenBack)
             /\ \A x \in OrdinaryMsgs(Left), y \in OrdinaryMsgs(pending) :
                  x < y \/ y \in givenBack
    BY BacklogParts DEF MessageInv
  <1>2. Distinct(Backlog) /\ (restarts = 0 => Ascends(Backlog, givenBack))
    BY DEF MessageInv, MemoryOK
  <1>3. /\ g \in Seq(Items) /\ MsgsOf(g) = MsgsOf(d) \cup MsgsOf(pending)
        /\ OrdinaryMsgs(g) \subseteq OrdinaryMsgs(d) \cup OrdinaryMsgs(pending)
        /\ UnshownMsgs(g) = UnshownMsgs(d) \cup UnshownMsgs(pending)
        /\ Distinct(d \o pending) => Distinct(g)
        /\ Ascends(d \o pending, givenBack) => Ascends(g, givenBack)
        /\ Work(g) = Work(d) + Work(pending)
    BY <1>1, PutBackQueue
  <1> HIDE DEF g
  <1>4. Distinct(d \o pending)
    BY <1>1, <1>2, ConcatDistinct
  <1>5. restarts = 0 => Ascends(d \o pending, givenBack)
    BY <1>1, <1>2, ConcatAscends
  <1>6. Keepable(g)
    BY <1>1, <1>3, <1>4, <1>5 DEF Keepable
  <1> QED BY <1>3, <1>6 DEF g

\* What was given up stays apart from what the loop goes through.
LEMMA RestsDiffer ==
  ASSUME LateOK, zombies \subseteq Zombies
  PROVE  \A y, z \in zombies : y.rest = z.rest => y = z
  <1> SUFFICES ASSUME NEW y \in zombies, NEW z \in zombies, y.rest = z.rest PROVE y = z
    OBVIOUS
  <1>1. y.rest \in Seq(Items) /\ y.rest # <<>>
    BY DEF LateOK, Zombies
  <1>2. MsgsOf(y.rest) # {}
    BY <1>1, QueueNotEmpty
  <1> QED BY <1>2 DEF LateOK

LEMMA LateStays ==
  ASSUME LateOK, \A z \in zombies' : \E y \in zombies : y.rest = z.rest,
         \A y, z \in zombies' : y.rest = z.rest => y = z,
         givenBack' = givenBack, restarts' = 0 => restarts = 0,
         \A m : Rearming(m)' => Rearming(m),
         \A m \in MsgsOf(Backlog') :
           m \in MsgsOf(Backlog) \/ Rearming(m) \/ m \notin InMemory,
         restarts = 0 => \A m \in OrdinaryMsgs(Backlog') :
           m \in OrdinaryMsgs(Backlog) \/ \A x \in InZombies : x < m
  PROVE  LateOK'
  <1>1. ASSUME NEW z \in zombies'
        PROVE  /\ z.rest # <<>> /\ Distinct(z.rest)
               /\ MsgsOf(z.rest) \cap MsgsOf(Backlog') = {}
               /\ \A x \in rearming' : x.msg \notin MsgsOf(z.rest)
               /\ restarts' = 0 =>
                    \A x \in OrdinaryMsgs(z.rest), y \in OrdinaryMsgs(Backlog') :
                      x < y \/ y \in givenBack'
    <2>1. PICK y \in zombies : y.rest = z.rest
      OBVIOUS
    <2>2. /\ z.rest # <<>> /\ Distinct(z.rest)
          /\ MsgsOf(z.rest) \cap MsgsOf(Backlog) = {}
          /\ \A x \in rearming : x.msg \notin MsgsOf(z.rest)
          /\ restarts = 0 => Older(z.rest, Backlog)
      BY <2>1 DEF LateOK
    <2>3. MsgsOf(z.rest) \subseteq InZombies /\ InZombies \subseteq InMemory
      BY <2>1 DEF InZombies, InMemory
    <2>4. OrdinaryMsgs(z.rest) \subseteq MsgsOf(z.rest)
      BY DEF OrdinaryMsgs, MsgsOf
    <2>5. \A x \in rearming' : x.msg \notin MsgsOf(z.rest)
      BY <2>2 DEF Rearming
    <2>6. MsgsOf(z.rest) \cap MsgsOf(Backlog') = {}
      BY <2>2, <2>3 DEF Rearming
    <2> QED BY <2>2, <2>3, <2>4, <2>5, <2>6 DEF Older
  <1>2. ASSUME NEW y \in zombies', NEW z \in zombies', MsgsOf(y.rest) \cap MsgsOf(z.rest) # {}
        PROVE  y = z
    <2>1. PICK v \in zombies : v.rest = y.rest
      OBVIOUS
    <2>2. PICK w \in zombies : w.rest = z.rest
      OBVIOUS
    <2>3. v = w
      BY <1>2, <2>1, <2>2 DEF LateOK
    <2> QED BY <2>1, <2>2, <2>3
  <1> QED BY <1>1, <1>2 DEF LateOK, Older

\* A run that is given up as the loop goes on with a queue.
Joins(z, q) ==
  /\ z.rest # <<>> /\ Distinct(z.rest) /\ z.stale = stale
  /\ MsgsOf(z.rest) \subseteq MsgsOf(Left) /\ MsgsOf(z.rest) \cap MsgsOf(q) = {}
  /\ restarts = 0 => Older(z.rest, q)

\* Every end of a batch, and what it owes to the messages it leaves behind.
LEMMA LoopGoesOn ==
  ASSUME MessageInv, NEW q, Keepable(q), Continue(q),
         UNCHANGED <<stopFile, stopped, rearming, sends, stops, restarts, transcript, torn,
                     givenBack>>,
         zombies' \subseteq Zombies, zombies \subseteq zombies', escapes' \in Nat,
         \A z \in zombies' \ zombies : Joins(z, q),
         \A y, z \in zombies' \ zombies : y = z,
         inbox' \subseteq inbox, failures' \in Nat, failures' = 0 => failures = 0,
         preempted' \in BOOLEAN, waited' \subseteq Messages,
         waited \subseteq waited', disturbed' \in BOOLEAN, ~disturbed' => ~disturbed,
         fate' \in [Messages -> Fates],
         \A m \in Messages : fate'[m] # fate[m] =>
            /\ fate'[m] = "handled" /\ m \notin MsgsOf(q) /\ ~Rearming(m)
            /\ m \notin InZombies'
            /\ failures' = 0 => m \notin Saved',
         \A m \in Messages : fate'[m] = "accepted" =>
            /\ m \in Saved => m \in Saved'
            /\ ~disturbed' /\ m \in MsgsOf(Backlog) =>
                 m \in MsgsOf(q) \cup waited' \cup InZombies'
  PROVE  MessageInv'
  <1>0. /\ TypeOK /\ LoopOK /\ MemoryOK /\ LateOK /\ DiskOK /\ StopOK /\ DeadOK
        /\ AcceptedIsKept /\ HandledOnce /\ ShowOK /\ AcceptedIsHeld
    BY DEF MessageInv
  <1>1. /\ q \in Seq(Items) /\ Distinct(q) /\ MsgsOf(q) \subseteq MsgsOf(Backlog)
        /\ OrdinaryMsgs(q) \subseteq OrdinaryMsgs(Backlog)
        /\ restarts = 0 => Ascends(q, givenBack)
        /\ UnshownMsgs(q) \subseteq UnshownMsgs(pending)
        /\ ~stale \/ MsgsOf(q) \subseteq MsgsOf(pending)
    BY DEF Keepable
  <1>2. /\ LoopOK' /\ pending' = <<>> /\ stale' = FALSE /\ Quiet'
        /\ Backlog' = batch'
        /\ MsgsOf(Backlog') \subseteq MsgsOf(q) /\ (~stopped => MsgsOf(Backlog') = MsgsOf(q))
        /\ OrdinaryMsgs(Backlog') \subseteq OrdinaryMsgs(q)
        /\ Distinct(q) => Distinct(Backlog')
        /\ Ascends(q, givenBack) => Ascends(Backlog', givenBack)
        /\ ToShow' \subseteq UnshownMsgs(q) \cup {x.msg : x \in {y \in rearming' : ~y.displayed}}
    BY <1>1, ContinueEffect
  <1>3. /\ stopFile' = stopFile /\ stopped' = stopped /\ rearming' = rearming /\ sends' = sends
        /\ stops' = stops /\ restarts' = restarts /\ transcript' = transcript /\ torn' = torn
        /\ givenBack' = givenBack
    OBVIOUS
  <1>4. Saved' \subseteq Saved /\ \A m : Rearming(m)' <=> Rearming(m)
    BY <1>3 DEF Saved, Rearming
  <1>7. MsgsOf(Backlog) = MsgsOf(Left) \cup MsgsOf(pending) /\ MsgsOf(Left) \subseteq MsgsOf(batch)
    BY <1>0, BacklogParts
  <1>7a. /\ InZombies \subseteq InZombies'
         /\ \A m \in InZombies' : m \in InZombies \/ m \in MsgsOf(Left)
    BY DEF InZombies, Joins
  <1>5. /\ InMemory' \subseteq InMemory
        /\ ~stopped => InMemory' = MsgsOf(q) \cup InZombies' \cup {x.msg : x \in rearming}
    BY <1>1, <1>2, <1>3, <1>7, <1>7a DEF InMemory
  <1>6. \A m : m \in InMemory => m \in MsgsOf(Backlog) \/ m \in InZombies \/ Rearming(m)
    BY DEF InMemory, Rearming
  <1>8. MsgsOf(pending') = {}
    BY <1>2, NoItems
  <1>9. TypeOK'
    <2>1. inbox' \subseteq Markers /\ {sends', failures', stops', escapes', restarts'} \subseteq Nat
      BY <1>0, <1>3 DEF TypeOK
    <2> QED BY <1>0, <1>2, <1>3, <2>1 DEF TypeOK, LoopOK
  <1>10. MemoryOK'
    <2>1. MsgsOf(batch') \subseteq InMemory
      BY <1>1, <1>2 DEF InMemory
    <2> QED BY <1>0, <1>1, <1>2, <1>3, <1>5, <2>1 DEF MemoryOK
  <1>10a. LateOK'
    <2>1. ASSUME NEW z \in zombies'
          PROVE  /\ z.rest # <<>> /\ Distinct(z.rest)
                 /\ MsgsOf(z.rest) \cap MsgsOf(Backlog') = {}
                 /\ \A x \in rearming' : x.msg \notin MsgsOf(z.rest)
                 /\ restarts' = 0 =>
                      \A x \in OrdinaryMsgs(z.rest), y \in OrdinaryMsgs(Backlog') :
                        x < y \/ y \in givenBack'
      <3>1. CASE z \in zombies
        BY <1>0, <1>1, <1>2, <1>3, <3>1 DEF LateOK, Older
      <3>2. CASE z \notin zombies
        <4>1. Joins(z, q)
          BY <3>2
        <4>2. \A x \in rearming : x.msg \notin MsgsOf(Backlog)
          BY <1>0 DEF MemoryOK
        <4> QED BY <1>2, <1>3, <1>7, <4>1, <4>2 DEF Joins, Older
      <3> QED BY <3>1, <3>2
    <2>2. ASSUME NEW y \in zombies', NEW z \in zombies',
                 MsgsOf(y.rest) \cap MsgsOf(z.rest) # {}
          PROVE  y = z
      <3>1. CASE y \in zombies /\ z \in zombies
        BY <1>0, <2>2, <3>1 DEF LateOK
      <3>2. CASE y \notin zombies /\ z \notin zombies
        BY <3>2
      <3>3. CASE y \in zombies /\ z \notin zombies
        BY <1>0, <1>7, <2>2, <3>3 DEF LateOK, Joins
      <3>4. CASE y \notin zombies /\ z \in zombies
        BY <1>0, <1>7, <2>2, <3>4 DEF LateOK, Joins
      <3> QED BY <3>1, <3>2, <3>3, <3>4
    <2> QED BY <2>1, <2>2 DEF LateOK, Older
  <1>11. DiskOK'
    BY <1>0, <1>3, <1>4, FS_Subset DEF DiskOK
  <1>12. StopOK'
    <2>1. \A m \in Messages : fate'[m] = "accepted" => fate[m] = "accepted"
      OBVIOUS
    <2> QED BY <1>0, <1>2, <1>3, <2>1 DEF StopOK
  <1>13. DeadOK'
    <2> SUFFICES ASSUME NEW m \in Messages, fate'[m] = "cancelled"
                 PROVE  /\ m \notin MsgsOf(pending') /\ ~Rearming(m)'
                        /\ (m \in MsgsOf(batch') => stale')
                        /\ (\A z \in zombies' : m \in MsgsOf(z.rest) => z.stale)
                        /\ (m \in Saved' => stopFile')
      BY DEF DeadOK
    <2>1. fate[m] = "cancelled"
      OBVIOUS
    <2>2. /\ m \notin MsgsOf(pending) /\ ~Rearming(m)
          /\ m \in MsgsOf(batch) => stale
          /\ \A z \in zombies : m \in MsgsOf(z.rest) => z.stale
          /\ m \in Saved => stopFile
      BY <1>0, <2>1 DEF DeadOK
    <2>3. m \notin MsgsOf(batch')
      BY <1>1, <1>2, <1>7, <2>2
    <2>4. ASSUME NEW z \in zombies', m \in MsgsOf(z.rest) PROVE z.stale
      BY <1>7, <2>2, <2>4 DEF Joins
    <2> QED BY <1>3, <1>4, <1>8, <2>2, <2>3, <2>4
  <1>14. AcceptedIsKept'
    BY <1>0 DEF AcceptedIsKept
  <1>15. HandledOnce'
    <2> SUFFICES ASSUME failures' = 0, NEW m \in Messages, fate'[m] = "handled"
                 PROVE  m \notin InMemory' /\ m \notin Saved'
      BY DEF HandledOnce
    <2>1. CASE fate'[m] = fate[m]
      <3>1. m \notin InMemory /\ m \notin Saved
        BY <1>0, <2>1 DEF HandledOnce
      <3> QED BY <3>1, <1>4, <1>5
    <2>2. CASE fate'[m] # fate[m]
      <3>1. m \notin MsgsOf(q) /\ ~Rearming(m) /\ m \notin Saved' /\ m \notin InZombies'
        BY <2>2
      <3>2. m \notin InMemory'
        BY <1>2, <1>3, <3>1 DEF InMemory, Rearming
      <3> QED BY <3>1, <3>2
    <2> QED BY <2>1, <2>2
  <1>16. ShowOK'
    <2>1. ShownOnce'
      BY <1>0, <1>3 DEF ShowOK, ShownOnce
    <2>2. ToShow' \subseteq ToShow
      BY <1>1, <1>2, <1>3 DEF ToShow
    <2> QED BY <1>0, <1>3, <2>1, <2>2 DEF ShowOK
  <1>17. AcceptedIsHeld'
    <2> SUFFICES ASSUME ~disturbed', NEW m \in Messages, fate'[m] = "accepted"
                 PROVE  m \in InMemory' \/ m \in waited'
      BY DEF AcceptedIsHeld
    <2>1. fate[m] = "accepted"
      OBVIOUS
    <2>2. m \in InMemory \/ m \in waited
      BY <1>0, <2>1 DEF AcceptedIsHeld
    <2>3. ~stopped
      BY <1>0, <2>1 DEF StopOK
    <2>4. CASE m \in MsgsOf(Backlog)
      BY <2>3, <2>4, <1>5
    <2>5. CASE Rearming(m)
      BY <2>3, <2>5, <1>5 DEF Rearming
    <2>6. CASE m \in InZombies
      BY <2>3, <2>6, <1>5, <1>7a
    <2> QED BY <1>6, <2>2, <2>4, <2>5, <2>6
  <1> QED BY <1>2, <1>9, <1>10, <1>10a, <1>11, <1>12, <1>13, <1>14, <1>15, <1>16, <1>17
          DEF MessageInv
-----------------------------------------------------------------------------
\* Runs given up that were only marked have the rests that they had.
LEMMA RestsMarked ==
  ASSUME LateOK, zombies \subseteq Zombies,
         \/ zombies' = zombies
         \/ zombies' = {Superseded(z) : z \in zombies}
         \/ zombies' = {Outlived(z) : z \in zombies}
  PROVE  /\ zombies' \subseteq Zombies /\ InZombies' = InZombies
         /\ \A z \in zombies' : \E y \in zombies : y.rest = z.rest /\ (y.stale => z.stale)
         /\ \A y \in zombies : \E z \in zombies' : y.rest = z.rest
         /\ \A y, z \in zombies' : y.rest = z.rest => y = z
  <1>1. \A z \in zombies : /\ Superseded(z) \in Zombies /\ Outlived(z) \in Zombies
                           /\ Superseded(z).rest = z.rest /\ Outlived(z).rest = z.rest
                           /\ Superseded(z).stale = z.stale /\ Outlived(z).stale
    BY DEF Superseded, Outlived, Zombies
  <1>2. \A y, z \in zombies : y.rest = z.rest => y = z
    BY RestsDiffer
  <1>3. /\ zombies' \subseteq Zombies
        /\ \A z \in zombies' : \E y \in zombies : y.rest = z.rest /\ (y.stale => z.stale)
        /\ \A y \in zombies : \E z \in zombies' : y.rest = z.rest
    BY <1>1
  <1>4. \A y, z \in zombies' : y.rest = z.rest => y = z
    BY <1>1, <1>2
  <1>5. InZombies' = InZombies
    <2>1. \A m \in InZombies' : m \in InZombies
      BY <1>3 DEF InZombies
    <2>2. \A m \in InZombies : m \in InZombies'
      BY <1>3 DEF InZombies
    <2> QED BY <2>1, <2>2
  <1> QED BY <1>3, <1>4, <1>5

\* A step that leaves in memory what was there.
LEMMA MemoryStays ==
  ASSUME MessageInv,
         UNCHANGED <<stopFile, stopped, pending, batch, stale, rearming, sends, stops, escapes,
                     restarts, fate, waited, torn, disturbed, givenBack>>,
         zombies' = zombies \/ zombies' = {Superseded(z) : z \in zombies},
         LoopOK', Backlog' = Backlog, Quiet' \/ (~stale /\ ~stopped),
         inbox' \subseteq Markers, transcript' \in Seq(Messages), failures' \in Nat,
         failures' = 0 => failures = 0, preempted' \in BOOLEAN,
         DiskOK', ShowOK', Saved \subseteq Saved',
         \A m \in Messages : m \in Saved' \ Saved =>
            fate[m] # "cancelled" /\ (failures' = 0 => fate[m] # "handled")
  PROVE  MessageInv'
  <1>0. /\ TypeOK /\ LoopOK /\ MemoryOK /\ LateOK /\ DiskOK /\ StopOK /\ DeadOK
        /\ AcceptedIsKept /\ HandledOnce /\ ShowOK /\ AcceptedIsHeld
    BY DEF MessageInv
  <1>1. /\ stopFile' = stopFile /\ stopped' = stopped /\ rearming' = rearming /\ sends' = sends
        /\ stops' = stops /\ restarts' = restarts /\ pending' = pending /\ batch' = batch
        /\ stale' = stale /\ fate' = fate /\ waited' = waited /\ torn' = torn
        /\ disturbed' = disturbed /\ escapes' = escapes /\ givenBack' = givenBack
    OBVIOUS
  <1>1a. /\ zombies' \subseteq Zombies /\ InZombies' = InZombies
         /\ \A z \in zombies' : \E y \in zombies : y.rest = z.rest /\ (y.stale => z.stale)
         /\ \A y, z \in zombies' : y.rest = z.rest => y = z
    <2>1. zombies \subseteq Zombies
      BY <1>0 DEF TypeOK
    <2> QED BY <1>0, <2>1, RestsMarked
  <1>2. InMemory' = InMemory /\ \A m : Rearming(m)' <=> Rearming(m)
    BY <1>1, <1>1a DEF InMemory, Rearming
  <1>3. TypeOK'
    <2>1. {sends', failures', stops', escapes', restarts'} \subseteq Nat
      BY <1>0, <1>1 DEF TypeOK
    <2> QED BY <1>0, <1>1, <1>1a, <2>1 DEF TypeOK, LoopOK
  <1>4. MemoryOK'
    BY <1>0, <1>1, <1>2 DEF MemoryOK
  <1>4a. LateOK'
    BY <1>0, <1>1, <1>1a, <1>2, LateStays
  <1>5. StopOK'
    BY <1>0, <1>1 DEF StopOK
  <1>6. DeadOK'
    <2> SUFFICES ASSUME NEW m \in Messages, fate[m] = "cancelled"
                 PROVE  /\ m \notin MsgsOf(pending') /\ ~Rearming(m)'
                        /\ (m \in MsgsOf(batch') => stale')
                        /\ (\A z \in zombies' : m \in MsgsOf(z.rest) => z.stale)
                        /\ (m \in Saved' => stopFile')
      BY <1>1 DEF DeadOK
    <2>1. /\ m \notin MsgsOf(pending) /\ ~Rearming(m)
          /\ m \in MsgsOf(batch) => stale
          /\ \A z \in zombies : m \in MsgsOf(z.rest) => z.stale
          /\ m \in Saved => stopFile
      BY <1>0 DEF DeadOK
    <2>2. \A z \in zombies' : m \in MsgsOf(z.rest) => z.stale
      BY <1>1a, <2>1
    <2> QED BY <1>1, <1>2, <2>1, <2>2
  <1>7. AcceptedIsKept' /\ HandledOnce'
    BY <1>0, <1>1, <1>2 DEF AcceptedIsKept, HandledOnce
  <1>8. AcceptedIsHeld'
    BY <1>0, <1>1, <1>2 DEF AcceptedIsHeld
  <1> QED BY <1>3, <1>4, <1>4a, <1>5, <1>6, <1>7, <1>8 DEF MessageInv

\* A marker is written, or its write fails.
LEMMA MarkerWritten ==
  ASSUME inbox \subseteq Markers, DiskOK, failures \in Nat,
         NEW x, x.msg \in Messages, x.priority \in BOOLEAN, x.displayed \in BOOLEAN,
         WritesInbox(Upsert(inbox, x))
  PROVE  /\ inbox' \subseteq Markers /\ IsFiniteSet(inbox')
         /\ \A y, z \in inbox' : y.msg = z.msg => y = z
         /\ failures' \in Nat /\ (failures' = 0 => failures = 0)
         /\ Saved \subseteq Saved' /\ Saved' \subseteq Saved \cup {x.msg}
         /\ inbox' = inbox \/ x.msg \in Saved'
  <1>1. /\ Marker(x) \in Markers /\ Marker(x).msg = x.msg
    BY DEF Marker, Markers
  <1>2. CASE inbox' = inbox
    BY <1>2 DEF DiskOK, Saved, WritesInbox
  <1>3. CASE inbox' = Upsert(inbox, x)
    <2> DEFINE w == Without(inbox, x.msg)
    <2>1. w \subseteq inbox /\ (\A y \in w : y.msg # x.msg) /\ inbox' = w \cup {Marker(x)}
      BY <1>3 DEF Upsert, Without
    <2>2. \A y \in inbox : y.msg # x.msg => y \in w
      BY DEF Without
    <2> HIDE DEF w
    <2>3. IsFiniteSet(w)
      BY <2>1, FS_Subset DEF DiskOK
    <2>4. IsFiniteSet(inbox')
      BY <2>1, <2>3, FS_AddElement
    <2>5. \A y, z \in inbox' : y.msg = z.msg => y = z
      BY <1>1, <2>1 DEF DiskOK
    <2>6. Saved \subseteq Saved' /\ Saved' \subseteq Saved \cup {x.msg} /\ x.msg \in Saved'
      BY <1>1, <2>1, <2>2 DEF Saved
    <2> QED BY <1>1, <2>1, <2>4, <2>5, <2>6 DEF WritesInbox
  <1> QED BY <1>2, <1>3 DEF WritesInbox

LEMMA ResolveStep == MessageInv /\ Resolve => MessageInv'
  <1> SUFFICES ASSUME MessageInv, Resolve PROVE MessageInv'
    OBVIOUS
  <1>0. TypeOK /\ LoopOK /\ StopOK /\ DiskOK /\ ShowOK
    BY DEF MessageInv
  <1>1. /\ phase = "resolving" /\ at = 1
        /\ UNCHANGED <<inbox, transcript, stopFile, stopped, preempted, rearming, sends,
                       failures, stops,
                       escapes, restarts, zombies, fate, waited, torn, disturbed, givenBack>>
    BY <1>0 DEF Resolve, LoopOK, durable, bounds, history
  <1>2. CASE Outdated
    <2>1. Continue(pending) /\ Keepable(pending)
      BY <1>2, KeepPending DEF Resolve
    <2>2. MsgsOf(Backlog) = MsgsOf(Left) \cup MsgsOf(pending) /\ MsgsOf(Left) \subseteq MsgsOf(batch)
      BY <1>0, BacklogParts
    <2>3. \A m \in Messages : fate[m] = "accepted" /\ m \in MsgsOf(Backlog) => m \in MsgsOf(pending)
      BY <1>0, <1>2, <2>2 DEF StopOK, Outdated
    <2>4. \A m : m \in Saved => m \in Saved'
      BY <1>1 DEF Saved
    <2> QED BY <1>0, <1>1, <2>1, <2>3, <2>4, LoopGoesOn DEF TypeOK
  <1>3. CASE ~Outdated
    <2>1. /\ phase' = "appending" /\ pending' = pending /\ batch' = batch /\ at' = at
          /\ stale' = stale /\ superseded' = superseded /\ ~stale /\ ~stopped
      BY <1>3 DEF Resolve, Outdated
    <2>2. LoopOK'
      BY <1>0, <1>1, <2>1 DEF LoopOK
    <2>3. Backlog' = Backlog
      BY <1>1, <2>1 DEF Backlog
    <2>4. Rest(at) = batch
      BY <1>0, <1>1, RestOfBatch
    <2>5. ToShow' = ToShow
      BY <1>1, <2>1, <2>4 DEF ToShow, Rest
    <2>6. DiskOK' /\ ShowOK' /\ Saved' = Saved
      BY <1>0, <1>1, <2>5 DEF DiskOK, ShowOK, ShownOnce, Saved
    <2> QED BY <1>0, <1>1, <2>1, <2>2, <2>3, <2>6, MemoryStays DEF TypeOK
  <1> QED BY <1>2, <1>3

LEMMA StartRunStep == MessageInv /\ StartRun => MessageInv'
  <1> SUFFICES ASSUME MessageInv, StartRun PROVE MessageInv'
    OBVIOUS
  <1>0. TypeOK /\ LoopOK /\ StopOK /\ DiskOK /\ ShowOK
    BY DEF MessageInv
  <1>1. /\ phase = "queued" /\ at = 1
        /\ UNCHANGED <<inbox, transcript, stopFile, stopped, rearming, sends,
                       failures, stops,
                       escapes, restarts, zombies, fate, waited, torn, disturbed, givenBack>>
    BY <1>0 DEF StartRun, LoopOK, durable, bounds, history
  <1>2. CASE Outdated
    <2>1. Continue(pending) /\ Keepable(pending) /\ preempted' = preempted
      BY <1>2, KeepPending DEF StartRun
    <2>2. MsgsOf(Backlog) = MsgsOf(Left) \cup MsgsOf(pending) /\ MsgsOf(Left) \subseteq MsgsOf(batch)
      BY <1>0, BacklogParts
    <2>3. \A m \in Messages : fate[m] = "accepted" /\ m \in MsgsOf(Backlog) => m \in MsgsOf(pending)
      BY <1>0, <1>2, <2>2 DEF StopOK, Outdated
    <2>4. \A m : m \in Saved => m \in Saved'
      BY <1>1 DEF Saved
    <2> QED BY <1>0, <1>1, <2>1, <2>3, <2>4, LoopGoesOn DEF TypeOK
  <1>3. CASE ~Outdated
    <2>1. /\ phase' = "running" /\ pending' = pending /\ batch' = batch /\ at' = at
          /\ stale' = stale /\ superseded' = superseded /\ preempted' = FALSE
          /\ ~stale /\ ~stopped
      BY <1>3 DEF StartRun, Outdated
    <2>2. LoopOK'
      BY <1>0, <1>1, <2>1 DEF LoopOK
    <2>3. Rest(at) = batch
      BY <1>0, <1>1, RestOfBatch
    <2>4. Backlog' = Backlog
      BY <1>1, <2>1, <2>3 DEF Backlog, Rest
    <2>5. ToShow' = ToShow
      BY <1>1, <2>1 DEF ToShow
    <2>6. DiskOK' /\ ShowOK' /\ Saved' = Saved
      BY <1>0, <1>1, <2>5 DEF DiskOK, ShowOK, ShownOnce, Saved
    <2>7. Quiet'
      BY <2>1 DEF Quiet
    <2> QED BY <1>0, <1>1, <2>1, <2>2, <2>4, <2>6, <2>7, MemoryStays DEF TypeOK
  <1> QED BY <1>2, <1>3

LEMMA ResolveFailsStep == MessageInv /\ ResolveFails => MessageInv'
  <1> SUFFICES ASSUME MessageInv, ResolveFails PROVE MessageInv'
    OBVIOUS
  <1>1. /\ Continue(pending) /\ disturbed' = TRUE
        /\ UNCHANGED <<inbox, transcript, stopFile, stopped, preempted, rearming, sends,
                       failures, stops,
                       escapes, restarts, zombies, fate, waited, torn, givenBack>>
    BY DEF ResolveFails, durable, bounds
  <1>2. TypeOK /\ Keepable(pending)
    BY KeepPending DEF MessageInv
  <1>3. \A m : m \in Saved => m \in Saved'
    BY <1>1 DEF Saved
  <1> QED BY <1>1, <1>2, <1>3, LoopGoesOn DEF TypeOK

LEMMA RunFailsStep == MessageInv /\ RunFails => MessageInv'
  <1> SUFFICES ASSUME MessageInv, RunFails PROVE MessageInv'
    OBVIOUS
  <1>1. /\ Continue(pending) /\ disturbed' = TRUE
        /\ UNCHANGED <<inbox, transcript, stopFile, stopped, preempted, rearming, sends,
                       failures, stops,
                       escapes, restarts, zombies, fate, waited, torn, givenBack>>
    BY DEF RunFails, durable, bounds
  <1>2. TypeOK /\ Keepable(pending)
    BY KeepPending DEF MessageInv
  <1>3. \A m : m \in Saved => m \in Saved'
    BY <1>1 DEF Saved
  <1> QED BY <1>1, <1>2, <1>3, LoopGoesOn DEF TypeOK

LEMMA UserTurnStep == ASSUME MessageInv, NEW hits \in BOOLEAN, UserTurn(hits) PROVE MessageInv'
  <1>0. TypeOK /\ LoopOK /\ DiskOK /\ ShowOK
    BY DEF MessageInv
  <1>1. /\ preempted' = (hits \/ preempted) /\ Quiet /\ superseded' = (phase = "running")
        /\ zombies' = {Superseded(z) : z \in zombies}
        /\ UNCHANGED <<inbox, transcript, stopFile, stopped, pending, phase, batch, at, stale,
                       rearming, sends, failures, stops, escapes, restarts, fate, waited, torn,
                       disturbed, givenBack>>
    BY DEF UserTurn, durable, bounds, history
  <1>2. LoopOK' /\ Backlog' = Backlog /\ ToShow' = ToShow /\ Quiet' /\ Saved' = Saved
    BY <1>0, <1>1 DEF LoopOK, Backlog, Rest, ToShow, Quiet, Saved
  <1>3. DiskOK' /\ ShowOK'
    BY <1>0, <1>1, <1>2 DEF DiskOK, ShowOK, ShownOnce
  <1>4. inbox' \subseteq Markers /\ transcript' \in Seq(Messages) /\ preempted' \in BOOLEAN
    BY <1>0, <1>1 DEF TypeOK
  <1>5. failures' \in Nat /\ failures' = failures
    BY <1>0, <1>1 DEF TypeOK
  <1> QED BY <1>1, <1>2, <1>3, <1>4, <1>5, MemoryStays

LEMMA OtherWakeStep == MessageInv /\ OtherWake => MessageInv'
  <1> SUFFICES ASSUME MessageInv, OtherWake PROVE MessageInv'
    OBVIOUS
  <1>0. TypeOK /\ LoopOK /\ DiskOK /\ ShowOK
    BY DEF MessageInv
  <1>1. /\ preempted' = FALSE /\ Quiet
        /\ UNCHANGED <<inbox, transcript, stopFile, stopped, pending, phase, batch, at, stale,
                       superseded, rearming, sends, failures, stops, escapes, restarts, zombies,
                       fate, waited, torn, disturbed, givenBack>>
    BY DEF OtherWake, durable, loop, bounds, history
  <1>2. LoopOK' /\ Backlog' = Backlog /\ ToShow' = ToShow /\ Quiet' /\ Saved' = Saved
    BY <1>0, <1>1 DEF LoopOK, Backlog, Rest, ToShow, Quiet, Saved
  <1>3. DiskOK' /\ ShowOK'
    BY <1>0, <1>1, <1>2 DEF DiskOK, ShowOK, ShownOnce
  <1>4. inbox' \subseteq Markers /\ transcript' \in Seq(Messages) /\ preempted' \in BOOLEAN
    BY <1>0, <1>1 DEF TypeOK
  <1>5. failures' \in Nat /\ failures' = failures
    BY <1>0, <1>1 DEF TypeOK
  <1> QED BY <1>1, <1>2, <1>3, <1>4, <1>5, MemoryStays

\* The loop throws: its batch is left to the next process, what is queued stays.
LEMMA LoopThrowsStep == MessageInv /\ LoopThrows => MessageInv'
  <1> SUFFICES ASSUME MessageInv, LoopThrows PROVE MessageInv'
    OBVIOUS
  <1>0. /\ TypeOK /\ LoopOK /\ MemoryOK /\ LateOK /\ DiskOK /\ StopOK /\ DeadOK
        /\ AcceptedIsKept /\ HandledOnce /\ ShowOK /\ AcceptedIsHeld
    BY DEF MessageInv
  <1>1. /\ failures' = failures + 1 /\ phase' = "idle" /\ batch' = <<>> /\ at' = 1
        /\ stale' = FALSE /\ superseded' = FALSE /\ disturbed' = TRUE
        /\ UNCHANGED <<inbox, transcript, stopFile, stopped, pending, preempted, rearming, sends,
                       stops, escapes, restarts, zombies, fate, waited, torn, givenBack>>
    BY DEF LoopThrows, durable
  <1>2. LoopOK' /\ Quiet'
    BY <1>0, <1>1, NoItems DEF LoopOK, Quiet
  <1>3. Backlog' = pending
    <2>1. pending \in Seq(Items) /\ <<>> \o pending = pending
      BY <1>0 DEF LoopOK
    <2> QED BY <1>1, <2>1 DEF Backlog
  <1>4. /\ MsgsOf(Backlog) = MsgsOf(Left) \cup MsgsOf(pending)
        /\ OrdinaryMsgs(Backlog) = OrdinaryMsgs(Left) \cup OrdinaryMsgs(pending)
        /\ Distinct(Backlog) => Distinct(pending)
        /\ Ascends(Backlog, givenBack) => Ascends(pending, givenBack)
    BY <1>0, BacklogParts
  <1>5. InMemory' \subseteq InMemory /\ Saved' = Saved /\ \A m : Rearming(m)' <=> Rearming(m)
    BY <1>1, <1>3, <1>4 DEF InMemory, InZombies, Saved, Rearming
  <1>6. failures \in Nat /\ failures' \in Nat /\ failures' # 0
    BY <1>0, <1>1 DEF TypeOK
  <1>7. TypeOK'
    <2>1. {sends', failures', stops', escapes', restarts'} \subseteq Nat
      BY <1>0, <1>1, <1>6 DEF TypeOK
    <2> QED BY <1>0, <1>1, <1>2, <2>1 DEF TypeOK, LoopOK
  <1>8. MemoryOK'
    BY <1>0, <1>1, <1>3, <1>4, <1>5, NoItems DEF MemoryOK
  <1>9. LateOK'
    <2>1. zombies \subseteq Zombies
      BY <1>0 DEF TypeOK
    <2> QED BY <1>0, <1>1, <1>3, <1>4, <1>5, <2>1, RestsDiffer, LateStays
  <1>10. DiskOK' /\ StopOK' /\ DeadOK'
    BY <1>0, <1>1, <1>2, <1>5, NoItems DEF DiskOK, StopOK, DeadOK
  <1>11. AcceptedIsKept' /\ HandledOnce' /\ AcceptedIsHeld'
    BY <1>0, <1>1, <1>5, <1>6 DEF AcceptedIsKept, HandledOnce, AcceptedIsHeld
  <1>12. ShowOK'
    <2>1. ToShow' \subseteq ToShow
      BY <1>1 DEF ToShow
    <2> QED BY <1>0, <1>1, <2>1 DEF ShowOK, ShownOnce
  <1> QED BY <1>2, <1>7, <1>8, <1>9, <1>10, <1>11, <1>12 DEF MessageInv
-----------------------------------------------------------------------------
LEMMA RestDistinct ==
  ASSUME LoopOK, phase # "idle", Distinct(batch)
  PROVE  Distinct(Rest(at)) /\ batch[at].msg \notin MsgsOf(Rest(at + 1))
  <1> DEFINE r == Rest(at)  b == batch[at]
  <1>1. /\ batch \in Seq(Items) /\ at \in 1 .. Len(batch) /\ Len(batch) \in Nat
        /\ DOMAIN batch = 1 .. Len(batch)
    BY DEF LoopOK
  <1>2. /\ r \in Seq(Items) /\ Len(r) = Len(batch) - at + 1
        /\ \A i \in 1 .. Len(batch) - at + 1 : r[i] = batch[at + i - 1]
    BY <1>1 DEF Rest
  <1>3. r = <<b>> \o Rest(at + 1) /\ b \in Items /\ Rest(at + 1) \in Seq(Items)
    BY RestOfBatch
  <1> HIDE DEF r, b
  <1>4. Distinct(r)
    <2> SUFFICES ASSUME NEW i \in DOMAIN r, NEW j \in DOMAIN r, r[i].msg = r[j].msg
                 PROVE  i = j
      BY DEF Distinct
    <2>1. /\ i \in Int /\ j \in Int /\ at + i - 1 \in DOMAIN batch /\ at + j - 1 \in DOMAIN batch
          /\ r[i] = batch[at + i - 1] /\ r[j] = batch[at + j - 1]
      BY <1>1, <1>2
    <2>2. at + i - 1 = at + j - 1
      BY <2>1 DEF Distinct
    <2> QED BY <1>1, <2>1, <2>2
  <1>5. <<b>> \in Seq(Items) /\ MsgsOf(<<b>>) = {b.msg}
    BY <1>3, OneItem
  <1>6. MsgsOf(<<b>>) \cap MsgsOf(Rest(at + 1)) = {}
    BY <1>3, <1>4, <1>5, ConcatDistinct
  <1> QED BY <1>4, <1>5, <1>6 DEF r, b

\* The item the loop is at, and those after it.
LEMMA AtParts ==
  ASSUME MessageInv, phase # "idle"
  PROVE  /\ batch[at] \in Items /\ Rest(at + 1) \in Seq(Items)
         /\ MsgsOf(Rest(at)) = {batch[at].msg} \cup MsgsOf(Rest(at + 1))
         /\ UnshownMsgs(Rest(at)) = UnshownMsgs(<<batch[at]>>) \cup UnshownMsgs(Rest(at + 1))
         /\ OrdinaryMsgs(Rest(at + 1)) \subseteq OrdinaryMsgs(Rest(at))
         /\ Distinct(Rest(at)) => Distinct(Rest(at + 1))
         /\ Ascends(Rest(at), givenBack) => Ascends(Rest(at + 1), givenBack)
         /\ Work(Rest(at + 1)) < Work(Rest(at)) /\ Len(Rest(at)) > 0
         /\ batch[at].msg \notin MsgsOf(Rest(at + 1)) \cup MsgsOf(pending)
         /\ ~Rearming(batch[at].msg) /\ batch[at].msg \in InMemory
         /\ batch[at].msg \notin InZombies
  <1> DEFINE b == batch[at]  q == Rest(at + 1)  r == Rest(at)
  <1>0. LoopOK /\ MemoryOK /\ LateOK
    BY DEF MessageInv
  <1>1. b \in Items /\ q \in Seq(Items) /\ r = <<b>> \o q /\ Len(r) = Len(q) + 1 /\ r \in Seq(Items)
    BY <1>0, RestOfBatch
  <1>2. /\ pending \in Seq(Items) /\ MsgsOf(Backlog) = MsgsOf(Left) \cup MsgsOf(pending)
        /\ Distinct(Left) /\ MsgsOf(Left) \cap MsgsOf(pending) = {}
    BY <1>0, BacklogParts DEF MemoryOK
  <1>3. Distinct(r) /\ b.msg \in MsgsOf(Left)
    <2>1. CASE phase = "running"
      <3>1. Left = r
        BY <2>1 DEF Left
      <3>2. b.msg \in MsgsOf(r)
        <4> HIDE DEF b, q, r
        <4>1. <<b>> \in Seq(Items) /\ MsgsOf(<<b>>) = {b.msg}
          BY <1>1, OneItem
        <4> QED BY <1>1, <4>1, ConcatQueue
      <3> QED BY <1>2, <3>1, <3>2
    <2>2. CASE phase # "running"
      <3>1. Left = batch
        BY <2>2 DEF Left
      <3> QED BY <1>0, <1>2, <3>1, RestDistinct, RestOfBatch
    <2> QED BY <2>1, <2>2
  <1>4. b.msg \notin MsgsOf(pending) /\ ~Rearming(b.msg) /\ b.msg \in InMemory
    BY <1>0, <1>2, <1>3 DEF MemoryOK, Rearming, InMemory
  <1>4a. b.msg \notin InZombies
    BY <1>0, <1>2, <1>3 DEF LateOK, InZombies
  <1> HIDE DEF b, q, r
  <1>5. <<b>> \in Seq(Items) /\ MsgsOf(<<b>>) = {b.msg} /\ Len(<<b>>) = 1
    BY <1>1, OneItem
  <1>6. /\ MsgsOf(r) = {b.msg} \cup MsgsOf(q)
        /\ UnshownMsgs(r) = UnshownMsgs(<<b>>) \cup UnshownMsgs(q)
        /\ OrdinaryMsgs(q) \subseteq OrdinaryMsgs(r)
        /\ Work(r) = Work(<<b>>) + Work(q)
    BY <1>1, <1>5, ConcatQueue
  <1>7. Distinct(r) => Distinct(q) /\ b.msg \notin MsgsOf(q)
    BY <1>1, <1>5, ConcatDistinct
  <1>8. Ascends(r, givenBack) => Ascends(q, givenBack)
    BY <1>1, <1>5, ConcatAscends
  <1>9. Work(q) < Work(r) /\ Len(r) > 0
    <2>1. /\ Work(<<b>>) \in Nat /\ Work(<<b>>) >= 1 /\ Work(q) \in Nat /\ Len(q) \in Nat
      BY <1>1, <1>5, WorkBounds, WorkType
    <2> QED BY <1>1, <1>6, <2>1
  <1> QED BY <1>1, <1>3, <1>4, <1>4a, <1>6, <1>7, <1>8, <1>9 DEF b, q, r

LEMMA AppendEntryStep == MessageInv /\ AppendEntry => MessageInv'
  <1> SUFFICES ASSUME MessageInv, AppendEntry PROVE MessageInv'
    OBVIOUS
  <1> DEFINE b == batch[at]
  <1>0. TypeOK /\ LoopOK /\ StopOK /\ DiskOK /\ ShowOK /\ MemoryOK
    BY DEF MessageInv
  <1>1. /\ phase = "appending"
        /\ UNCHANGED <<inbox, stopFile, stopped, pending, batch, stale, preempted, rearming,
                       superseded, sends, failures, stops, escapes, restarts, zombies, fate,
                       waited, torn, disturbed, givenBack>>
        /\ transcript' = IF Appends(b) THEN Append(transcript, b.msg) ELSE transcript
        /\ \/ at < Len(batch) /\ at' = at + 1 /\ phase' = phase
           \/ at' = 1 /\ phase' = "marking"
    BY DEF AppendEntry, bounds, history
  <1>2. ~stale /\ ~stopped
    BY <1>0, <1>1 DEF StopOK, Quiet
  <1>3. /\ b \in Items /\ UnshownMsgs(Rest(at)) = UnshownMsgs(<<b>>) \cup UnshownMsgs(Rest(at + 1))
        /\ b.msg \notin MsgsOf(Rest(at + 1)) \cup MsgsOf(pending)
        /\ ~Rearming(b.msg) /\ b.msg \in InMemory
    BY <1>1, AtParts
  <1>4. batch \in Seq(Items) /\ Len(batch) \in Nat /\ at \in 1 .. Len(batch)
    BY <1>0, <1>1, RestOfBatch DEF LoopOK
  <1> HIDE DEF b
  <1>5. LoopOK'
    BY <1>0, <1>1, <1>4 DEF LoopOK
  <1>6. Backlog' = Backlog
    BY <1>1 DEF Backlog
  <1>7. b.msg \in Messages /\ transcript \in Seq(Messages) /\ Len(transcript) \in Nat
    BY <1>0, <1>3 DEF Items, TypeOK
  <1>8. transcript' \in Seq(Messages) /\ ToSet(transcript') \subseteq ToSet(transcript) \cup {b.msg}
    <2>1. CASE transcript' = transcript
      BY <1>7, <2>1
    <2>2. CASE transcript' = Append(transcript, b.msg)
      BY <1>7, <2>2 DEF ToSet
    <2> QED BY <1>1, <2>1, <2>2
  <1>9. DiskOK' /\ Saved' = Saved
    BY <1>0, <1>1, <1>3, <1>8 DEF DiskOK, MemoryOK, Saved
  <1>10. ToShow' \subseteq ToShow /\ b.msg \notin ToShow'
    <2>1. UnshownMsgs(pending) \subseteq MsgsOf(pending)
      BY DEF UnshownMsgs, MsgsOf
    <2>2. UnshownMsgs(Rest(at + 1)) \subseteq MsgsOf(Rest(at + 1))
      BY DEF UnshownMsgs, MsgsOf
    <2>3. b.msg \notin {x.msg : x \in {y \in rearming : ~y.displayed}}
      BY <1>3 DEF Rearming
    <2>4. \/ phase' = "appending" /\ Rest(at)' = Rest(at + 1)
          \/ phase' = "marking"
      BY <1>1 DEF Rest
    <2> QED BY <1>1, <1>3, <2>1, <2>2, <2>3, <2>4 DEF ToShow
  <1>11. ShowOK'
    <2>1. ShownOnce /\ ToShow \cap ToSet(transcript) \subseteq torn
      BY <1>0 DEF ShowOK
    <2>2. ToShow' \cap ToSet(transcript') \subseteq torn'
      BY <1>1, <1>8, <1>10, <2>1
    <2>3. ShownOnce'
      <3>1. CASE transcript' = transcript
        BY <1>1, <2>1, <3>1 DEF ShownOnce
      <3>2. CASE Appends(b) /\ transcript' = Append(transcript, b.msg)
        <4> DEFINE t == Append(transcript, b.msg)
        <4>1. /\ DOMAIN t = 1 .. Len(transcript) + 1 /\ DOMAIN transcript = 1 .. Len(transcript)
              /\ t[Len(transcript) + 1] = b.msg
              /\ \A i \in 1 .. Len(transcript) : t[i] = transcript[i]
          BY <1>7
        <4> HIDE DEF t
        <4>2. b.msg \in ToShow
          <5>1. b.msg \in UnshownMsgs(<<b>>)
            BY <1>3, <3>2, OneItem DEF Appends
          <5> QED BY <1>1, <1>3, <5>1 DEF ToShow, b
        <4>3. ASSUME NEW i \in 1 .. Len(transcript), transcript[i] = b.msg
              PROVE  b.msg \in torn /\ (Len(transcript) + 1) - i > Window
          <5>1. b.msg \in torn
            BY <2>1, <4>1, <4>2, <4>3 DEF ToSet
          <5>2. ~(i > Len(transcript) - Window)
            BY <3>2, <4>1, <4>3 DEF Appends, Recent
          <5>3. Window \in Nat
            BY BoundsAssumption
          <5> QED BY <1>7, <5>1, <5>2, <5>3
        <4>4. ASSUME NEW i \in DOMAIN t, NEW j \in DOMAIN t, i < j, t[i] = t[j]
              PROVE  t[i] \in torn /\ j - i > Window
          <5>1. CASE j = Len(transcript) + 1
            <6>1. i \in 1 .. Len(transcript)
              BY <1>7, <4>1, <4>4, <5>1
            <6> QED BY <4>1, <4>3, <4>4, <5>1, <6>1
          <5>2. CASE j # Len(transcript) + 1
            <6>1. i \in DOMAIN transcript /\ j \in DOMAIN transcript
              BY <1>7, <4>1, <4>4, <5>2
            <6>2. t[i] = transcript[i] /\ t[j] = transcript[j]
              BY <4>1, <6>1
            <6> QED BY <2>1, <4>4, <6>1, <6>2 DEF ShownOnce
          <5> QED BY <5>1, <5>2
        <4>5. transcript' = t /\ torn' = torn
          BY <1>1, <3>2 DEF t
        <4> QED BY <4>4, <4>5 DEF ShownOnce
      <3> QED BY <1>1, <3>1, <3>2
    <2> QED BY <2>2, <2>3 DEF ShowOK
  <1>12. inbox' \subseteq Markers /\ failures' \in Nat /\ preempted' \in BOOLEAN
    BY <1>0, <1>1 DEF TypeOK
  <1> QED BY <1>1, <1>2, <1>5, <1>6, <1>8, <1>9, <1>11, <1>12, MemoryStays

LEMMA MarkDisplayedStep == MessageInv /\ MarkDisplayed => MessageInv'
  <1> SUFFICES ASSUME MessageInv, MarkDisplayed PROVE MessageInv'
    OBVIOUS
  <1> DEFINE b == batch[at]
  <1>0. /\ TypeOK /\ LoopOK /\ StopOK /\ DeadOK /\ DiskOK /\ ShowOK /\ MemoryOK /\ HandledOnce
    BY DEF MessageInv
  <1>1. /\ phase = "marking"
        /\ UNCHANGED <<transcript, stopFile, stopped, pending, batch, stale, preempted, rearming,
                       superseded, sends, stops, escapes, restarts, zombies, fate, waited,
                       torn, disturbed, givenBack>>
        /\ (inbox' = inbox /\ failures' = failures) \/ WritesInbox(Upsert(inbox, Shown(b)))
        /\ \/ at < Len(batch) /\ at' = at + 1 /\ phase' = phase
           \/ at' = 1 /\ phase' = "queued"
    BY DEF MarkDisplayed, history
  <1>2. ~stale /\ ~stopped
    BY <1>0, <1>1 DEF StopOK, Quiet
  <1>3. b \in Items /\ b.msg \in InMemory /\ b.msg \in MsgsOf(batch)
    BY <1>0, <1>1, AtParts, RestOfBatch
  <1>4. batch \in Seq(Items) /\ Len(batch) \in Nat /\ at \in 1 .. Len(batch)
    BY <1>0, <1>1, RestOfBatch DEF LoopOK
  <1> HIDE DEF b
  <1>5. LoopOK'
    BY <1>0, <1>1, <1>4 DEF LoopOK
  <1>6. Backlog' = Backlog
    BY <1>1 DEF Backlog
  <1>7. ToShow' = ToShow
    BY <1>1 DEF ToShow
  <1>8. ShowOK'
    BY <1>0, <1>1, <1>7 DEF ShowOK, ShownOnce
  <1>9. /\ inbox' \subseteq Markers /\ IsFiniteSet(inbox')
        /\ \A y, z \in inbox' : y.msg = z.msg => y = z
        /\ failures' \in Nat /\ (failures' = 0 => failures = 0)
        /\ Saved \subseteq Saved' /\ Saved' \subseteq Saved \cup {b.msg}
    <2>1. CASE inbox' = inbox /\ failures' = failures
      BY <1>0, <2>1 DEF TypeOK, DiskOK, Saved
    <2>2. CASE WritesInbox(Upsert(inbox, Shown(b)))
      <3> DEFINE y == Shown(b)
      <3>1. y.msg = b.msg /\ y.msg \in Messages /\ y.priority \in BOOLEAN /\ y.displayed \in BOOLEAN
        BY <1>3, ShownItem DEF Items
      <3>2. inbox \subseteq Markers /\ failures \in Nat
        BY <1>0 DEF TypeOK
      <3>3. WritesInbox(Upsert(inbox, y))
        BY <2>2
      <3> HIDE DEF y
      <3> QED BY <1>0, <3>1, <3>2, <3>3, MarkerWritten
    <2> QED BY <1>1, <2>1, <2>2
  <1>10. DiskOK'
    BY <1>0, <1>1, <1>3, <1>9 DEF DiskOK, MemoryOK
  <1>11. \A m \in Messages : m \in Saved' \ Saved =>
            fate[m] # "cancelled" /\ (failures' = 0 => fate[m] # "handled")
    BY <1>0, <1>2, <1>3, <1>9 DEF DeadOK, HandledOnce
  <1>12. transcript' \in Seq(Messages) /\ preempted' \in BOOLEAN
    BY <1>0, <1>1 DEF TypeOK
  <1> QED BY <1>1, <1>2, <1>5, <1>6, <1>8, <1>9, <1>10, <1>11, <1>12, MemoryStays

\* What a run did not reach, shown, behind what was queued since.
LEMMA KeepUnreached ==
  ASSUME MessageInv, phase = "running", ~stale
  PROVE  /\ Keepable(PutBack(Unreached))
         /\ MsgsOf(PutBack(Unreached)) = MsgsOf(Rest(at + 1)) \cup MsgsOf(pending)
         /\ Work(PutBack(Unreached)) < Work(Backlog)
  <1> DEFINE r == Rest(at)  q == Rest(at + 1)  d == AllShown(q)
  <1>1. Left = r /\ Unreached = d
    BY DEF Left, Unreached
  <1>2. /\ q \in Seq(Items) /\ MsgsOf(r) = {batch[at].msg} \cup MsgsOf(q)
        /\ OrdinaryMsgs(q) \subseteq OrdinaryMsgs(r)
        /\ Distinct(r) => Distinct(q)
        /\ Ascends(r, givenBack) => Ascends(q, givenBack)
        /\ Work(q) < Work(r)
    BY AtParts
  <1> HIDE DEF q, r
  <1>3. /\ d \in Seq(Items) /\ MsgsOf(d) = MsgsOf(q) /\ OrdinaryMsgs(d) = OrdinaryMsgs(q)
        /\ UnshownMsgs(d) = {} /\ Work(d) = Work(q)
        /\ Distinct(q) => Distinct(d)
        /\ Ascends(q, givenBack) => Ascends(d, givenBack)
    BY <1>2, ShownQueue
  <1> HIDE DEF d
  <1>4. /\ Keepable(PutBack(d))
        /\ MsgsOf(PutBack(d)) = MsgsOf(d) \cup MsgsOf(pending)
        /\ Work(PutBack(d)) = Work(d) + Work(pending)
    BY <1>1, <1>2, <1>3, KeepMerged
  <1>5. Work(PutBack(d)) < Work(Backlog)
    <2>1. /\ Work(Backlog) = Work(r) + Work(pending) /\ pending \in Seq(Items) /\ r \in Seq(Items)
      BY <1>1, BacklogParts DEF MessageInv
    <2>2. Work(r) \in Nat /\ Work(q) \in Nat /\ Work(pending) \in Nat
      BY <1>2, <2>1, WorkType
    <2> QED BY <1>2, <1>3, <1>4, <2>1, <2>2
  <1> QED BY <1>1, <1>3, <1>4, <1>5 DEF q

LEMMA WaitsStep == MessageInv /\ Waits => MessageInv'
  <1> SUFFICES ASSUME MessageInv, Waits PROVE MessageInv'
    OBVIOUS
  <1> DEFINE q == PutBack(Unreached)  b == batch[at]
  <1>0. TypeOK /\ LoopOK
    BY DEF MessageInv
  <1>1. /\ phase = "running" /\ ~stale /\ Continue(q) /\ preempted' = FALSE
        /\ waited' = waited \cup {b.msg}
        /\ UNCHANGED <<inbox, transcript, stopFile, stopped, rearming, sends, failures, stops,
                       escapes, restarts, zombies, fate, torn, disturbed, givenBack>>
    BY DEF Waits, IsCurrent, KeptInMemory, durable, bounds
  <1>2. Keepable(q) /\ MsgsOf(q) = MsgsOf(Rest(at + 1)) \cup MsgsOf(pending)
    BY <1>1, KeepUnreached
  <1>3. b \in Items /\ MsgsOf(Rest(at)) = {b.msg} \cup MsgsOf(Rest(at + 1))
    BY <1>1, AtParts
  <1>4. MsgsOf(Backlog) = MsgsOf(Rest(at)) \cup MsgsOf(pending)
    BY <1>0, <1>1, BacklogParts DEF Left
  <1> HIDE DEF q, b
  <1>5. /\ inbox' \subseteq inbox /\ failures' \in Nat /\ waited' \subseteq Messages
        /\ escapes' \in Nat /\ zombies' \subseteq Zombies
        /\ disturbed' \in BOOLEAN /\ fate' \in [Messages -> Fates] /\ fate' = fate
    BY <1>0, <1>1, <1>3 DEF TypeOK, Items
  <1>6. \A m : /\ m \in Saved => m \in Saved'
               /\ m \in MsgsOf(Backlog) => m \in MsgsOf(q) \cup waited'
    BY <1>1, <1>2, <1>3, <1>4 DEF Saved
  <1> QED BY <1>1, <1>2, <1>5, <1>6, LoopGoesOn

\* What an interrupted run redrives.
LEMMA KeepRedriven ==
  ASSUME MessageInv, phase = "running", ~stale
  PROVE  LET d == Redrivable(Rest(at))  g == PutBack(d)
         IN  /\ Keepable(g) /\ MsgsOf(g) = MsgsOf(d) \cup MsgsOf(pending)
             /\ Len(d) \in Nat /\ Len(d) <= Len(Rest(at))
             /\ Len(d) = Len(Rest(at)) => MsgsOf(d) = MsgsOf(Rest(at))
             /\ Work(g) < Work(Backlog)
  <1> DEFINE r == Rest(at)  d == Redrivable(r)
  <1>1. Left = r /\ r \in Seq(Items) /\ Len(r) > 0
    BY AtParts, RestOfBatch DEF Left, MessageInv
  <1> HIDE DEF r
  <1>2. /\ d \in Seq(Items) /\ Len(d) <= Len(r) /\ MsgsOf(d) \subseteq MsgsOf(r)
        /\ Len(d) = Len(r) => MsgsOf(d) = MsgsOf(r)
        /\ OrdinaryMsgs(d) \subseteq OrdinaryMsgs(r) /\ UnshownMsgs(d) = {}
        /\ Distinct(r) => Distinct(d)
        /\ Ascends(r, givenBack) => Ascends(d, givenBack)
        /\ Work(d) + Len(r) = Work(r)
    BY <1>1, RedriveQueue
  <1> HIDE DEF d
  <1>3. /\ Keepable(PutBack(d))
        /\ MsgsOf(PutBack(d)) = MsgsOf(d) \cup MsgsOf(pending)
        /\ Work(PutBack(d)) = Work(d) + Work(pending)
    BY <1>1, <1>2, KeepMerged
  <1>4. Work(PutBack(d)) < Work(Backlog)
    <2>1. Work(Backlog) = Work(r) + Work(pending) /\ pending \in Seq(Items)
      BY <1>1, BacklogParts DEF MessageInv
    <2>2. Work(r) \in Nat /\ Work(d) \in Nat /\ Work(pending) \in Nat /\ Len(r) \in Nat
      BY <1>1, <1>2, <2>1, WorkType
    <2> QED BY <1>1, <1>2, <1>3, <2>1, <2>2
  <1>5. Len(d) \in Nat
    BY <1>2
  <1> QED BY <1>2, <1>3, <1>4, <1>5 DEF d, r

LEMMA AbortsStep == MessageInv /\ Aborts => MessageInv'
  <1> SUFFICES ASSUME MessageInv, Aborts PROVE MessageInv'
    OBVIOUS
  <1> DEFINE r == Rest(at)  d == Redrivable(r)  g == PutBack(d)
  <1>0. TypeOK /\ LoopOK
    BY DEF MessageInv
  <1>1. /\ phase = "running" /\ preempted' = FALSE
        /\ UNCHANGED <<inbox, transcript, stopFile, stopped, rearming, sends, failures, stops,
                       escapes, restarts, zombies, fate, waited, torn, givenBack>>
        /\ \/ Continue(pending) /\ disturbed' = (disturbed \/ Len(<<>>) < Len(r))
           \/ ~stale /\ Continue(g) /\ disturbed' = (disturbed \/ Len(d) < Len(r))
    <2> DEFINE e == IF ~preempted \/ stale \/ stopped THEN <<>> ELSE d
    <2>1. /\ Continue(PutBack(e))
          /\ disturbed' = (disturbed \/ Len(e) < Len(r))
      BY DEF Aborts
    <2>2. e = <<>> \/ (e = d /\ ~stale)
      OBVIOUS
    <2>3. /\ phase = "running" /\ preempted' = FALSE
          /\ UNCHANGED <<inbox, transcript, stopFile, stopped, rearming, sends, failures, stops,
                         escapes, restarts, zombies, fate, waited, torn, givenBack>>
      BY DEF Aborts, durable, bounds
    <2> HIDE DEF e, d
    <2>4. CASE e = <<>>
      <3>1. Continue(pending) /\ disturbed' = (disturbed \/ Len(<<>>) < Len(r))
        BY <2>1, <2>4 DEF PutBack
      <3> QED BY <2>3, <3>1
    <2>5. CASE e # <<>>
      <3>1. e = d /\ ~stale
        BY <2>2, <2>5
      <3>2. Continue(g) /\ disturbed' = (disturbed \/ Len(d) < Len(r))
        BY <2>1, <2>5, <3>1
      <3> QED BY <2>3, <3>1, <3>2
    <2> QED BY <2>4, <2>5
  <1>2. /\ inbox' \subseteq inbox /\ failures' \in Nat /\ waited' \subseteq Messages
        /\ escapes' \in Nat /\ zombies' \subseteq Zombies
        /\ fate' \in [Messages -> Fates] /\ fate' = fate
        /\ \A m : m \in Saved => m \in Saved'
    BY <1>0, <1>1 DEF TypeOK, Saved
  <1>3. MsgsOf(Backlog) = MsgsOf(r) \cup MsgsOf(pending) /\ Len(r) > 0 /\ Len(r) \in Nat
    <2>1. MsgsOf(Backlog) = MsgsOf(r) \cup MsgsOf(pending)
      BY <1>0, <1>1, BacklogParts DEF Left
    <2>2. Len(r) > 0 /\ r \in Seq(Items)
      BY <1>0, <1>1, AtParts, RestOfBatch
    <2> QED BY <2>1, <2>2
  <1>4. disturbed \in BOOLEAN /\ Keepable(pending)
    BY <1>0, KeepPending DEF TypeOK
  <1>5. ~stale => /\ Keepable(g) /\ MsgsOf(g) = MsgsOf(d) \cup MsgsOf(pending)
                  /\ Len(d) \in Nat /\ Len(d) <= Len(r)
                  /\ Len(d) = Len(r) => MsgsOf(d) = MsgsOf(r)
    BY <1>1, KeepRedriven
  <1> HIDE DEF r, d, g
  <1>6. CASE Continue(pending) /\ disturbed' = (disturbed \/ Len(<<>>) < Len(r))
    <2>1. disturbed' = TRUE
      BY <1>3, <1>4, <1>6
    <2> QED BY <1>1, <1>2, <1>4, <1>6, <2>1, LoopGoesOn
  <1>7. CASE ~stale /\ Continue(g) /\ disturbed' = (disturbed \/ Len(d) < Len(r))
    <2>1. disturbed' \in BOOLEAN /\ (~disturbed' => ~disturbed)
      BY <1>4, <1>7
    <2>2. ASSUME ~disturbed' PROVE MsgsOf(g) = MsgsOf(Backlog)
      <3>1. ~(Len(d) < Len(r))
        BY <1>7, <2>2, Zenon
      <3>2. Len(d) = Len(r)
        BY <1>3, <1>5, <1>7, <3>1
      <3> QED BY <1>3, <1>5, <1>7, <3>2
    <2> QED BY <1>1, <1>2, <1>5, <1>7, <2>1, <2>2, LoopGoesOn
  <1> QED BY <1>1, <1>6, <1>7

LEMMA CompletesStep == MessageInv /\ Completes => MessageInv'
  <1> SUFFICES ASSUME MessageInv, Completes PROVE MessageInv'
    OBVIOUS
  <1> DEFINE b == batch[at]  q == PutBack(Unreached)
             next == phase' = phase /\ batch' = batch /\ at' = at + 1
                       /\ pending' = pending /\ stale' = stale /\ superseded' = superseded
                       /\ at < Len(batch)
  <1>0. /\ TypeOK /\ LoopOK /\ MemoryOK /\ LateOK /\ DiskOK /\ StopOK /\ DeadOK
        /\ AcceptedIsKept /\ HandledOnce /\ ShowOK /\ AcceptedIsHeld
    BY DEF MessageInv
  <1>1. /\ phase = "running" /\ ~stale /\ ~stopped /\ preempted' = FALSE
        /\ WritesInbox(Without(inbox, b.msg))
        /\ fate' = [fate EXCEPT ![b.msg] = "handled"]
        /\ UNCHANGED <<transcript, stopFile, stopped, rearming, sends, stops, escapes, restarts,
                       zombies, waited, torn, disturbed, givenBack>>
        /\ next \/ Continue(q)
    BY DEF Completes, Settles, IsCurrent
  <1>2. /\ b \in Items /\ Rest(at + 1) \in Seq(Items)
        /\ MsgsOf(Rest(at)) = {b.msg} \cup MsgsOf(Rest(at + 1))
        /\ OrdinaryMsgs(Rest(at + 1)) \subseteq OrdinaryMsgs(Rest(at))
        /\ Distinct(Rest(at)) => Distinct(Rest(at + 1))
        /\ Ascends(Rest(at), givenBack) => Ascends(Rest(at + 1), givenBack)
        /\ b.msg \notin MsgsOf(Rest(at + 1)) \cup MsgsOf(pending)
        /\ ~Rearming(b.msg) /\ b.msg \notin InZombies
    BY <1>1, AtParts
  <1>3. Keepable(q) /\ MsgsOf(q) = MsgsOf(Rest(at + 1)) \cup MsgsOf(pending)
    BY <1>1, KeepUnreached
  <1>4. /\ pending \in Seq(Items) /\ MsgsOf(Backlog) = MsgsOf(Rest(at)) \cup MsgsOf(pending)
        /\ OrdinaryMsgs(Backlog) = OrdinaryMsgs(Rest(at)) \cup OrdinaryMsgs(pending)
        /\ Distinct(Backlog) <=> /\ Distinct(Rest(at)) /\ Distinct(pending)
                                 /\ MsgsOf(Rest(at)) \cap MsgsOf(pending) = {}
        /\ Ascends(Backlog, givenBack) <=>
             /\ Ascends(Rest(at), givenBack) /\ Ascends(pending, givenBack)
             /\ \A x \in OrdinaryMsgs(Rest(at)), y \in OrdinaryMsgs(pending) : x < y \/ y \in givenBack
    BY <1>0, <1>1, BacklogParts DEF Left
  <1>5. batch \in Seq(Items) /\ Len(batch) \in Nat /\ at \in 1 .. Len(batch)
    BY <1>0, <1>1, RestOfBatch DEF LoopOK
  <1> HIDE DEF b, q
  <1>6. /\ inbox' \subseteq inbox /\ failures' \in Nat /\ (failures' = 0 => failures = 0)
        /\ failures' = 0 => b.msg \notin Saved'
        /\ \A m : m # b.msg /\ m \in Saved => m \in Saved'
    <2>1. CASE inbox' = inbox /\ failures' = failures + 1
      BY <1>0, <2>1 DEF TypeOK, Saved
    <2>2. CASE inbox' = Without(inbox, b.msg) /\ failures' = failures
      BY <1>0, <2>2 DEF TypeOK, Saved, Without
    <2> QED BY <1>1, <2>1, <2>2 DEF WritesInbox
  <1>7. /\ fate' \in [Messages -> Fates] /\ b.msg \in Messages /\ fate'[b.msg] = "handled"
        /\ \A m \in Messages : m # b.msg => fate'[m] = fate[m]
    BY <1>0, <1>1, <1>2 DEF TypeOK, Items, Fates
  <1>8. /\ waited' \subseteq Messages /\ disturbed' \in BOOLEAN /\ Saved' \subseteq Saved
        /\ escapes' \in Nat /\ zombies' \subseteq Zombies
        /\ InZombies' = InZombies /\ \A m : Rearming(m)' <=> Rearming(m)
    BY <1>0, <1>1, <1>6 DEF TypeOK, Saved, Rearming, InZombies
  <1>9. CASE Continue(q)
    <2>1. \A m \in Messages : fate'[m] = "accepted" =>
            /\ m \in Saved => m \in Saved'
            /\ m \in MsgsOf(Backlog) => m \in MsgsOf(q)
      BY <1>2, <1>3, <1>4, <1>6, <1>7
    <2>2. \A m \in Messages : fate'[m] # fate[m] =>
            /\ fate'[m] = "handled" /\ m \notin MsgsOf(q) /\ ~Rearming(m)
            /\ m \notin InZombies'
            /\ failures' = 0 => m \notin Saved'
      BY <1>2, <1>3, <1>6, <1>7, <1>8
    <2> QED BY <1>1, <1>3, <1>6, <1>7, <1>8, <1>9, <2>1, <2>2, LoopGoesOn
  <1>10. CASE next
    <2>1. LoopOK'
      BY <1>0, <1>1, <1>5, <1>10 DEF LoopOK
    <2>2. Backlog' = Rest(at + 1) \o pending
      BY <1>1, <1>10 DEF Backlog, Rest
    <2>3. /\ MsgsOf(Backlog') = MsgsOf(Rest(at + 1)) \cup MsgsOf(pending)
          /\ OrdinaryMsgs(Backlog') = OrdinaryMsgs(Rest(at + 1)) \cup OrdinaryMsgs(pending)
          /\ Distinct(Backlog) => Distinct(Backlog')
          /\ Ascends(Backlog, givenBack) => Ascends(Backlog', givenBack)
      BY <1>2, <1>4, <2>2, ConcatQueue, ConcatDistinct, ConcatAscends
    <2>3a. /\ MsgsOf(Backlog') \subseteq MsgsOf(Backlog)
           /\ OrdinaryMsgs(Backlog') \subseteq OrdinaryMsgs(Backlog)
      BY <1>2, <1>4, <2>3
    <2>4. InMemory' = InMemory \ {b.msg}
      BY <1>1, <1>2, <1>4, <1>8, <2>3 DEF InMemory, Rearming
    <2>5. TypeOK'
      <3>1. {sends', failures', stops', escapes', restarts'} \subseteq Nat /\ inbox' \subseteq Markers
        BY <1>0, <1>1, <1>6 DEF TypeOK
      <3> QED BY <1>0, <1>1, <1>7, <1>8, <2>1, <3>1 DEF TypeOK, LoopOK
    <2>6. MemoryOK'
      <3>1. /\ Distinct(Backlog)
            /\ restarts = 0 => rearming = {} /\ Ascends(Backlog, givenBack)
            /\ \A x \in rearming : x.msg \notin MsgsOf(Backlog)
            /\ \A x, y \in rearming : x.msg = y.msg => x = y
            /\ \A m \in InMemory \cup MsgsOf(batch) : m <= sends
        BY <1>0 DEF MemoryOK
      <3>2. rearming' = rearming /\ sends' = sends /\ restarts' = restarts /\ batch' = batch
            /\ givenBack' = givenBack
        BY <1>1, <1>10
      <3> HIDE DEF next
      <3> QED BY <2>3, <2>3a, <2>4, <3>1, <3>2 DEF MemoryOK
    <2>6a. LateOK'
      <3>1. zombies' = zombies /\ zombies \subseteq Zombies
        BY <1>0, <1>1 DEF TypeOK
      <3>2. restarts' = restarts /\ givenBack' = givenBack
        BY <1>1
      <3> HIDE DEF next
      <3> QED BY <1>0, <1>8, <2>3a, <3>1, <3>2, RestsDiffer, LateStays
    <2>7. DiskOK'
      BY <1>0, <1>1, <1>6, <1>8, FS_Subset DEF DiskOK
    <2>8. StopOK'
      BY <1>0, <1>1, <1>7, <1>10 DEF StopOK, Quiet
    <2>9. DeadOK'
      BY <1>0, <1>1, <1>7, <1>8, <1>10 DEF DeadOK
    <2>10. AcceptedIsKept'
      BY <1>0, <1>6, <1>7 DEF AcceptedIsKept
    <2>11. HandledOnce'
      BY <1>0, <1>6, <1>7, <1>8, <2>4 DEF HandledOnce
    <2>12. ShowOK'
      <3>1. ToShow' = ToShow
        BY <1>1, <1>10 DEF ToShow
      <3> QED BY <1>0, <1>1, <3>1 DEF ShowOK, ShownOnce
    <2>13. AcceptedIsHeld'
      BY <1>0, <1>1, <1>7, <2>4 DEF AcceptedIsHeld
    <2> QED BY <2>1, <2>5, <2>6, <2>6a, <2>7, <2>8, <2>9, <2>10, <2>11, <2>12, <2>13 DEF MessageInv
  <1> QED BY <1>1, <1>9, <1>10
-----------------------------------------------------------------------------
LEMMA StopStep == ASSUME MessageInv, NEW saved \in BOOLEAN, Stop(saved) PROVE MessageInv'
  <1>0. /\ TypeOK /\ LoopOK /\ MemoryOK /\ LateOK /\ DiskOK /\ StopOK /\ DeadOK
        /\ AcceptedIsKept /\ HandledOnce /\ ShowOK /\ AcceptedIsHeld
    BY DEF MessageInv
  <1>1. /\ Quiet /\ stops' = stops + 1 /\ stopped' = TRUE /\ stopFile' = (saved \/ stopFile)
        /\ stale' = (phase # "idle") /\ WritesInbox({})
        /\ pending' = <<>> /\ preempted' = FALSE /\ rearming' = {}
        /\ zombies' = {Outlived(z) : z \in zombies}
        /\ UNCHANGED <<transcript, phase, batch, at, superseded, sends, escapes, restarts, waited,
                       torn, disturbed, givenBack>>
    BY DEF Stop
  <1>2. /\ inbox' \subseteq inbox /\ failures' \in Nat /\ (failures' = 0 => failures = 0)
        /\ Saved' \subseteq Saved
    BY <1>0, <1>1 DEF WritesInbox, TypeOK, Saved
  <1>3. /\ fate' \in [Messages -> Fates]
        /\ \A m \in Messages : /\ fate'[m] # "accepted"
                               /\ fate'[m] = "handled" => fate[m] = "handled"
                               /\ fate'[m] = "cancelled" => saved
    <2>1. fate' = [m \in Messages |-> IF fate[m] \in {"unsent", "handled"} THEN fate[m]
                                      ELSE IF saved THEN "cancelled" ELSE "unsure"]
      BY DEF Stop, Becomes
    <2>2. \A m \in Messages : fate[m] \in Fates
      BY <1>0 DEF TypeOK
    <2> QED BY <2>1, <2>2 DEF Fates
  <1>4. LoopOK'
    BY <1>0, <1>1, NoItems DEF LoopOK
  <1>5. Left' = Left /\ Left \in Seq(Items)
    BY <1>0, <1>1, BacklogParts DEF Left, Rest
  <1>6. Backlog' = Left
    BY <1>1, <1>5 DEF Backlog, Left, Rest
  <1>7. /\ MsgsOf(Backlog) = MsgsOf(Left) \cup MsgsOf(pending)
        /\ Distinct(Backlog) => Distinct(Left)
        /\ Ascends(Backlog, givenBack) => Ascends(Left, givenBack)
        /\ MsgsOf(Left) \subseteq MsgsOf(batch)
        /\ OrdinaryMsgs(Backlog) = OrdinaryMsgs(Left) \cup OrdinaryMsgs(pending)
    BY <1>0, BacklogParts
  <1>7a. /\ zombies' \subseteq Zombies /\ InZombies' = InZombies
         /\ \A z \in zombies' : \E y \in zombies : y.rest = z.rest /\ (y.stale => z.stale)
         /\ \A y, z \in zombies' : y.rest = z.rest => y = z
         /\ \A z \in zombies' : z.stale
    <2>1. zombies \subseteq Zombies
      BY <1>0 DEF TypeOK
    <2>2. \A z \in zombies' : z.stale
      BY <1>1, <2>1 DEF Outlived, Zombies
    <2> QED BY <1>0, <1>1, <2>1, <2>2, RestsMarked
  <1>8. InMemory' = MsgsOf(Left) \cup InZombies /\ InMemory' \subseteq InMemory
    BY <1>1, <1>6, <1>7, <1>7a DEF InMemory
  <1>9. TypeOK'
    <2>1. {sends', failures', stops', escapes', restarts'} \subseteq Nat /\ inbox' \subseteq Markers
      BY <1>0, <1>1, <1>2 DEF TypeOK
    <2>2. stopFile' \in BOOLEAN
      BY <1>0, <1>1 DEF TypeOK
    <2> QED BY <1>0, <1>1, <1>3, <1>4, <1>7a, <2>1, <2>2 DEF TypeOK, LoopOK
  <1>10. MemoryOK'
    BY <1>0, <1>1, <1>6, <1>7, <1>8 DEF MemoryOK
  <1>10a. LateOK'
    BY <1>0, <1>1, <1>6, <1>7, <1>7a, LateStays DEF Rearming
  <1>11. DiskOK'
    BY <1>0, <1>1, <1>2, FS_Subset DEF DiskOK
  <1>12. StopOK'
    BY <1>1, <1>3 DEF StopOK, Quiet
  <1>13. DeadOK'
    <2> SUFFICES ASSUME NEW m \in Messages, fate'[m] = "cancelled"
                 PROVE  /\ m \notin MsgsOf(pending') /\ ~Rearming(m)'
                        /\ (m \in MsgsOf(batch') => stale')
                        /\ (\A z \in zombies' : m \in MsgsOf(z.rest) => z.stale)
                        /\ (m \in Saved' => stopFile')
      BY DEF DeadOK
    <2>1. m \notin MsgsOf(pending') /\ ~Rearming(m)'
      BY <1>1, NoItems DEF Rearming
    <2>2. m \in MsgsOf(batch') => stale'
      <3>1. CASE phase = "idle"
        BY <1>0, <1>1, <3>1, NoItems DEF LoopOK
      <3> QED BY <1>1, <3>1
    <2>3. stopFile' = TRUE
      BY <1>1, <1>3
    <2> QED BY <1>7a, <2>1, <2>2, <2>3
  <1>14. AcceptedIsKept' /\ AcceptedIsHeld'
    BY <1>3 DEF AcceptedIsKept, AcceptedIsHeld
  <1>15. HandledOnce'
    BY <1>0, <1>2, <1>3, <1>8 DEF HandledOnce
  <1>16. ShowOK'
    <2>1. ToShow' \subseteq ToShow
      BY <1>1, NoItems DEF ToShow, Rest
    <2> QED BY <1>0, <1>1, <2>1 DEF ShowOK, ShownOnce
  <1> QED BY <1>4, <1>9, <1>10, <1>10a, <1>11, <1>12, <1>13, <1>14, <1>15, <1>16 DEF MessageInv

LEMMA ResumeStep == MessageInv /\ Resume => MessageInv'
  <1> SUFFICES ASSUME MessageInv, Resume PROVE MessageInv'
    OBVIOUS
  <1>0. /\ TypeOK /\ LoopOK /\ MemoryOK /\ LateOK /\ DiskOK /\ StopOK /\ DeadOK
        /\ AcceptedIsKept /\ HandledOnce /\ ShowOK /\ AcceptedIsHeld
    BY DEF MessageInv
  <1>1. /\ Quiet /\ stopped /\ inbox' \in {inbox, {}}
        /\ \/ stopped' = stopped /\ stopFile' = stopFile
           \/ inbox' = {} /\ stopped' = FALSE /\ stopFile' = FALSE
        /\ pending' = <<>> /\ preempted' = FALSE
        /\ UNCHANGED <<transcript, phase, batch, at, stale, superseded, rearming, zombies, sends,
                       failures, stops, escapes, restarts, fate, waited, torn, disturbed,
                       givenBack>>
    BY DEF Resume, MayResume, loop, bounds, history
  <1>2. inbox' \subseteq inbox /\ Saved' \subseteq Saved /\ (inbox' = {} => Saved' = {})
    BY <1>1 DEF Saved
  <1>3. LoopOK'
    BY <1>0, <1>1, NoItems DEF LoopOK
  <1>4. Left' = Left /\ Left \in Seq(Items)
    BY <1>0, <1>1, BacklogParts DEF Left, Rest
  <1>5. Backlog' = Left
    BY <1>1, <1>4 DEF Backlog, Left, Rest
  <1>6. /\ MsgsOf(Backlog) = MsgsOf(Left) \cup MsgsOf(pending)
        /\ Distinct(Backlog) => Distinct(Left)
        /\ Ascends(Backlog, givenBack) => Ascends(Left, givenBack)
        /\ OrdinaryMsgs(Backlog) = OrdinaryMsgs(Left) \cup OrdinaryMsgs(pending)
    BY <1>0, BacklogParts
  <1>7. InMemory' \subseteq InMemory
    BY <1>1, <1>5, <1>6 DEF InMemory, InZombies
  <1>8. \A m \in Messages : fate'[m] # "accepted"
    BY <1>0, <1>1 DEF StopOK
  <1>9. TypeOK'
    <2>1. {sends', failures', stops', escapes', restarts'} \subseteq Nat /\ inbox' \subseteq Markers
      BY <1>0, <1>1, <1>2 DEF TypeOK
    <2>2. stopFile' \in BOOLEAN /\ stopped' \in BOOLEAN
      BY <1>0, <1>1 DEF TypeOK
    <2> QED BY <1>0, <1>1, <1>3, <2>1, <2>2 DEF TypeOK, LoopOK
  <1>10. MemoryOK'
    BY <1>0, <1>1, <1>5, <1>6, <1>7 DEF MemoryOK
  <1>10a. LateOK'
    <2>1. zombies' = zombies /\ rearming' = rearming /\ zombies \subseteq Zombies
      BY <1>0, <1>1 DEF TypeOK
    <2>2. \A m : Rearming(m)' <=> Rearming(m)
      BY <2>1 DEF Rearming
    <2> QED BY <1>0, <1>1, <1>5, <1>6, <2>1, <2>2, RestsDiffer, LateStays
  <1>11. DiskOK'
    BY <1>0, <1>1, <1>2, FS_Subset DEF DiskOK
  <1>12. StopOK'
    BY <1>0, <1>1, <1>8 DEF StopOK, Quiet
  <1>13. DeadOK'
    <2>1. MsgsOf(pending') = {}
      BY <1>1, NoItems
    <2> SUFFICES ASSUME NEW m \in Messages, fate'[m] = "cancelled"
                 PROVE  /\ m \notin MsgsOf(pending') /\ ~Rearming(m)'
                        /\ (m \in MsgsOf(batch') => stale')
                        /\ (\A z \in zombies' : m \in MsgsOf(z.rest) => z.stale)
                        /\ (m \in Saved' => stopFile')
      BY DEF DeadOK
    <2>2. /\ ~Rearming(m)
          /\ m \in MsgsOf(batch) => stale
          /\ \A z \in zombies : m \in MsgsOf(z.rest) => z.stale
          /\ m \in Saved => stopFile
      BY <1>0, <1>1 DEF DeadOK
    <2>3. ~Rearming(m)'
      BY <1>1, <2>2 DEF Rearming
    <2>4. m \in Saved' => stopFile'
      BY <1>1, <1>2, <2>2
    <2> QED BY <1>1, <2>1, <2>2, <2>3, <2>4
  <1>14. AcceptedIsKept' /\ AcceptedIsHeld'
    BY <1>8 DEF AcceptedIsKept, AcceptedIsHeld
  <1>15. HandledOnce'
    BY <1>0, <1>1, <1>2, <1>7 DEF HandledOnce
  <1>16. ShowOK'
    <2>1. ToShow' \subseteq ToShow
      BY <1>1, NoItems DEF ToShow, Rest
    <2> QED BY <1>0, <1>1, <2>1 DEF ShowOK, ShownOnce
  <1> QED BY <1>3, <1>9, <1>10, <1>10a, <1>11, <1>12, <1>13, <1>14, <1>15, <1>16 DEF MessageInv

LEMMA RestartStep == MessageInv /\ Restart => MessageInv'
  <1> SUFFICES ASSUME MessageInv, Restart PROVE MessageInv'
    OBVIOUS
  <1>0. /\ TypeOK /\ LoopOK /\ MemoryOK /\ LateOK /\ DiskOK /\ StopOK /\ DeadOK
        /\ AcceptedIsKept /\ HandledOnce /\ ShowOK /\ AcceptedIsHeld
    BY DEF MessageInv
  <1>1. /\ restarts' = restarts + 1 /\ stopped' = stopFile
        /\ torn' = torn \cup {m \in ToSet(transcript) :
                                \E x \in inbox : x.msg = m /\ ~x.displayed}
        /\ pending' = <<>> /\ phase' = "idle" /\ batch' = <<>> /\ at' = 1
        /\ stale' = FALSE /\ superseded' = FALSE /\ preempted' = FALSE /\ zombies' = {}
        /\ waited' = {} /\ disturbed' = FALSE /\ givenBack' = {}
        /\ UNCHANGED <<transcript, stopFile, sends, stops, escapes, fate>>
    BY DEF Restart
  <1>2. /\ inbox' \subseteq inbox /\ failures' \in Nat /\ (failures' = 0 => failures = 0)
        /\ stopFile => rearming' = {}
        /\ ~stopFile => rearming' = inbox /\ inbox' = inbox
    <2>1. failures \in Nat
      BY <1>0 DEF TypeOK
    <2>2. CASE stopFile
      <3>1. PICK kept \in SUBSET inbox : failures' = failures + Cardinality(kept) /\ inbox' = kept
        BY <2>2 DEF Restart
      <3>2. Cardinality(kept) \in Nat
        BY <1>0, FS_Subset, FS_CardinalityType DEF DiskOK
      <3>3. rearming' = {}
        BY <2>2 DEF Restart
      <3> QED BY <2>1, <2>2, <3>1, <3>2, <3>3
    <2>3. CASE ~stopFile
      BY <2>1, <2>3 DEF Restart
    <2> QED BY <2>2, <2>3
  <1>3. Saved' \subseteq Saved /\ \A m : Rearming(m)' => m \in Saved /\ ~stopFile
    BY <1>2 DEF Saved, Rearming
  <1>4. LoopOK' /\ Quiet'
    BY <1>1, NoItems DEF LoopOK, Quiet
  <1>5. Backlog' = <<>>
    BY <1>1 DEF Backlog
  <1>6. InMemory' = {x.msg : x \in rearming'}
    BY <1>1, <1>5, NoItems DEF InMemory, InZombies
  <1>7. TypeOK'
    <2>1. {sends', failures', stops', escapes', restarts'} \subseteq Nat /\ inbox' \subseteq Markers
      BY <1>0, <1>1, <1>2 DEF TypeOK
    <2>2. torn' \subseteq Messages
      BY <1>0, <1>1 DEF TypeOK, ToSet
    <2> QED BY <1>0, <1>1, <1>2, <1>4, <2>1, <2>2 DEF TypeOK, LoopOK
  <1>8. MemoryOK'
    <2>1. restarts' # 0
      BY <1>0, <1>1 DEF TypeOK
    <2>2. \A m \in InMemory' : m <= sends
      BY <1>0, <1>2, <1>6 DEF DiskOK, Saved
    <2>3. rearming' \subseteq inbox
      BY <1>2
    <2>4. \A x, y \in rearming' : x.msg = y.msg => x = y
      BY <1>0, <2>3 DEF DiskOK
    <2> QED BY <1>1, <1>5, <2>1, <2>2, <2>4, NoItems DEF MemoryOK
  <1>8a. LateOK'
    BY <1>1 DEF LateOK
  <1>9. DiskOK'
    BY <1>0, <1>1, <1>2, <1>3, FS_Subset DEF DiskOK
  <1>10. StopOK'
    BY <1>0, <1>1, <1>4 DEF StopOK
  <1>11. DeadOK'
    BY <1>0, <1>1, <1>3, NoItems DEF DeadOK
  <1>12. \A m \in Messages : fate[m] = "accepted" => ~stopFile /\ m \in Saved
    BY <1>0 DEF StopOK, AcceptedIsKept
  <1>13. AcceptedIsKept'
    BY <1>1, <1>2, <1>12 DEF AcceptedIsKept, Saved
  <1>14. HandledOnce'
    BY <1>0, <1>1, <1>2, <1>3, <1>6 DEF HandledOnce, Rearming
  <1>15. ShowOK'
    <2>1. ShownOnce'
      BY <1>0, <1>1 DEF ShowOK, ShownOnce
    <2>2. ToShow' = {x.msg : x \in {y \in rearming' : ~y.displayed}}
      BY <1>1, NoItems DEF ToShow
    <2>3. rearming' \subseteq inbox
      BY <1>2
    <2> QED BY <1>1, <2>1, <2>2, <2>3 DEF ShowOK
  <1>16. AcceptedIsHeld'
    BY <1>1, <1>2, <1>6, <1>12 DEF AcceptedIsHeld, Saved
  <1> QED BY <1>4, <1>7, <1>8, <1>8a, <1>9, <1>10, <1>11, <1>13, <1>14, <1>15, <1>16 DEF MessageInv

\* The queue with one more item, at its end or before the others.
LEMMA AddedQueue ==
  ASSUME LoopOK, NEW x \in Items, x.msg \notin MsgsOf(Backlog), NEW q,
         q = Append(pending, x) \/ q = <<x>> \o pending
  PROVE  /\ q \in Seq(Items) /\ q # <<>>
         /\ MsgsOf(q) = MsgsOf(pending) \cup {x.msg}
         /\ OrdinaryMsgs(q) \subseteq OrdinaryMsgs(pending) \cup {x.msg}
         /\ UnshownMsgs(q) = UnshownMsgs(pending) \cup (IF x.displayed THEN {} ELSE {x.msg})
         /\ Distinct(Backlog) => Distinct(Left \o q)
         /\ Ascends(Backlog, givenBack) /\ q = Append(pending, x) /\ (\A m \in MsgsOf(Backlog) : m < x.msg)
              => Ascends(Left \o q, givenBack)
         /\ Ascends(Backlog, givenBack) /\ q = <<x>> \o pending /\ x.priority => Ascends(Left \o q, givenBack)
  <1>1. /\ Left \in Seq(Items) /\ pending \in Seq(Items)
        /\ MsgsOf(Backlog) = MsgsOf(Left) \cup MsgsOf(pending)
        /\ Distinct(Backlog) <=>
              Distinct(Left) /\ Distinct(pending) /\ MsgsOf(Left) \cap MsgsOf(pending) = {}
        /\ Ascends(Backlog, givenBack) <=>
              /\ Ascends(Left, givenBack) /\ Ascends(pending, givenBack)
              /\ \A a \in OrdinaryMsgs(Left), c \in OrdinaryMsgs(pending) : a < c \/ c \in givenBack
    BY BacklogParts
  <1> DEFINE s == <<x>>
  <1>2. /\ s \in Seq(Items) /\ Len(s) = 1 /\ MsgsOf(s) = {x.msg}
        /\ OrdinaryMsgs(s) = (IF x.priority THEN {} ELSE {x.msg})
        /\ UnshownMsgs(s) = (IF x.displayed THEN {} ELSE {x.msg})
        /\ Distinct(s) /\ Ascends(s, givenBack)
    BY OneItem
  <1>3. Append(pending, x) = pending \o s
    <2>1. pending \in Seq(Items)
      BY <1>1
    <2> QED BY <2>1, AppendIsConcat
  <1>4. q = pending \o s \/ q = s \o pending
    BY <1>3
  <1> HIDE DEF s
  <1>5. /\ q \in Seq(Items) /\ MsgsOf(q) = MsgsOf(pending) \cup {x.msg}
        /\ OrdinaryMsgs(q) = OrdinaryMsgs(pending) \cup OrdinaryMsgs(s)
        /\ UnshownMsgs(q) = UnshownMsgs(pending) \cup UnshownMsgs(s)
        /\ Distinct(q) <=> Distinct(pending) /\ x.msg \notin MsgsOf(pending)
    <2>1. CASE q = pending \o s
      BY <1>1, <1>2, <2>1, ConcatQueue, ConcatDistinct
    <2>2. CASE q = s \o pending
      BY <1>1, <1>2, <2>2, ConcatQueue, ConcatDistinct
    <2> QED BY <1>4, <2>1, <2>2
  <1>6. q # <<>>
    BY <1>5, NoItems
  <1>7. Distinct(Backlog) => Distinct(Left \o q)
    BY <1>1, <1>5, ConcatDistinct
  <1>8. \A r \in Seq(Items) : OrdinaryMsgs(r) \subseteq MsgsOf(r)
    BY DEF OrdinaryMsgs, MsgsOf
  <1>9. ASSUME Ascends(Backlog, givenBack), q = Append(pending, x), \A m \in MsgsOf(Backlog) : m < x.msg
        PROVE  Ascends(Left \o q, givenBack)
    <2>1. Ascends(q, givenBack)
      <3>1. q = pending \o s
        BY <1>3, <1>9
      <3>2. \A a \in OrdinaryMsgs(pending), c \in OrdinaryMsgs(s) : a < c \/ c \in givenBack
        BY <1>1, <1>2, <1>8, <1>9
      <3> QED BY <1>1, <1>2, <1>9, <3>1, <3>2, ConcatAscends
    <2>2. \A a \in OrdinaryMsgs(Left), c \in OrdinaryMsgs(q) : a < c \/ c \in givenBack
      BY <1>1, <1>2, <1>5, <1>8, <1>9
    <2> QED BY <1>1, <1>5, <1>9, <2>1, <2>2, ConcatAscends
  <1>10. ASSUME Ascends(Backlog, givenBack), q = s \o pending, x.priority
         PROVE  Ascends(Left \o q, givenBack)
    <2>1. Ascends(q, givenBack)
      BY <1>1, <1>2, <1>10, ConcatAscends
    <2>2. \A a \in OrdinaryMsgs(Left), c \in OrdinaryMsgs(q) : a < c \/ c \in givenBack
      BY <1>1, <1>2, <1>5, <1>10
    <2> QED BY <1>1, <1>5, <1>10, <2>1, <2>2, ConcatAscends
  <1> QED BY <1>2, <1>5, <1>6, <1>7, <1>9, <1>10 DEF s

LEMMA RearmStep == ASSUME MessageInv, NEW x \in rearming, Rearm(x) PROVE MessageInv'
  <1> DEFINE y == [msg |-> x.msg, priority |-> x.priority, displayed |-> x.displayed,
                   redriven |-> FALSE]
             q == Append(pending, y)
  <1>0. /\ TypeOK /\ LoopOK /\ MemoryOK /\ LateOK /\ DiskOK /\ StopOK /\ DeadOK
        /\ AcceptedIsKept /\ HandledOnce /\ ShowOK /\ AcceptedIsHeld
    BY DEF MessageInv
  <1>1. /\ Quiet /\ rearming' = rearming \ {x} /\ Revive(q)
        /\ UNCHANGED <<inbox, transcript, stopFile, stopped, preempted, zombies, sends, failures,
                       stops, escapes, restarts, fate, waited, torn, disturbed, givenBack>>
    BY DEF Rearm, durable, bounds, history
  <1>2. y \in Items /\ y.msg = x.msg /\ y.displayed = x.displayed /\ x.msg \notin MsgsOf(Backlog)
    BY <1>0 DEF TypeOK, MemoryOK, Items, Markers
  <1> HIDE DEF y
  <1>3. /\ q \in Seq(Items) /\ q # <<>>
        /\ MsgsOf(q) = MsgsOf(pending) \cup {x.msg}
        /\ UnshownMsgs(q) = UnshownMsgs(pending) \cup (IF x.displayed THEN {} ELSE {x.msg})
        /\ Distinct(Backlog) => Distinct(Left \o q)
    BY <1>0, <1>2, AddedQueue
  <1> HIDE DEF q
  <1>4. /\ LoopOK' /\ Quiet'
        /\ MsgsOf(Backlog') \subseteq MsgsOf(Left) \cup MsgsOf(q)
        /\ ~stopped \/ phase # "idle" => MsgsOf(Backlog') = MsgsOf(Left) \cup MsgsOf(q)
        /\ MsgsOf(pending') \subseteq MsgsOf(q)
        /\ MsgsOf(batch') \subseteq MsgsOf(batch) \cup MsgsOf(q)
        /\ stale' => stale
        /\ stale /\ phase # "idle" => stale' /\ batch' = batch
        /\ ~stale /\ phase # "idle" => ~stale' /\ batch' = batch
        /\ phase = "idle" => ~stale'
        /\ Distinct(Left \o q) => Distinct(Backlog')
        /\ ToShow' \subseteq ToShow \cup UnshownMsgs(q)
                              \cup {z.msg : z \in {w \in rearming' : ~w.displayed}}
    BY <1>0, <1>1, <1>3, ReviveEffect
  <1>5. MsgsOf(Backlog) = MsgsOf(Left) \cup MsgsOf(pending)
    BY <1>0, BacklogParts
  <1>6. /\ MsgsOf(Backlog') \subseteq MsgsOf(Backlog) \cup {x.msg}
        /\ ~stopped => MsgsOf(Backlog') = MsgsOf(Backlog) \cup {x.msg}
    BY <1>3, <1>4, <1>5
  <1>7. InMemory' \subseteq InMemory /\ (~stopped => InMemory' = InMemory)
    BY <1>1, <1>6 DEF InMemory, InZombies
  <1>8. TypeOK'
    <2>1. {sends', failures', stops', escapes', restarts'} \subseteq Nat /\ rearming' \subseteq Markers
      BY <1>0, <1>1 DEF TypeOK
    <2> QED BY <1>0, <1>1, <1>4, <2>1 DEF TypeOK, LoopOK
  <1>9. MemoryOK'
    <2>1. /\ restarts # 0 /\ Distinct(Backlog)
          /\ \A z \in rearming : z.msg \notin MsgsOf(Backlog)
          /\ \A z, w \in rearming : z.msg = w.msg => z = w
          /\ \A m \in InMemory \cup MsgsOf(batch) : m <= sends
      BY <1>0 DEF MemoryOK
    <2>2. MsgsOf(batch') \subseteq InMemory \cup MsgsOf(batch)
      BY <1>3, <1>4, <1>5 DEF InMemory
    <2> QED BY <1>1, <1>3, <1>4, <1>6, <1>7, <2>1, <2>2 DEF MemoryOK
  <1>9a. LateOK'
    <2>1. /\ zombies' = zombies /\ givenBack' = givenBack /\ restarts' = restarts
          /\ zombies \subseteq Zombies /\ restarts # 0
      BY <1>0, <1>1 DEF TypeOK, MemoryOK
    <2>2. Rearming(x.msg) /\ \A m : Rearming(m)' => Rearming(m)
      BY <1>1 DEF Rearming
    <2> QED BY <1>0, <1>6, <2>1, <2>2, RestsDiffer, LateStays
  <1>10. DiskOK' /\ Saved' = Saved
    BY <1>0, <1>1 DEF DiskOK, Saved
  <1>11. batch' # batch => ~stale' /\ phase = "idle"
    BY <1>4
  <1>12. StopOK'
    BY <1>0, <1>1, <1>4, <1>11 DEF StopOK
  <1>13. DeadOK'
    <2> SUFFICES ASSUME NEW m \in Messages, fate[m] = "cancelled"
                 PROVE  /\ m \notin MsgsOf(pending') /\ ~Rearming(m)'
                        /\ (m \in MsgsOf(batch') => stale')
                        /\ (\A z \in zombies' : m \in MsgsOf(z.rest) => z.stale)
                        /\ (m \in Saved' => stopFile')
      BY <1>1 DEF DeadOK
    <2>1. /\ m \notin MsgsOf(pending) /\ ~Rearming(m)
          /\ m \in MsgsOf(batch) => stale
          /\ \A z \in zombies : m \in MsgsOf(z.rest) => z.stale
          /\ m \in Saved => stopFile
      BY <1>0 DEF DeadOK
    <2>2. m # x.msg /\ m \notin MsgsOf(q) /\ ~Rearming(m)'
      BY <1>1, <1>3, <2>1 DEF Rearming
    <2>3. m \in MsgsOf(batch') => stale'
      <3>1. CASE phase = "idle"
        <4>1. MsgsOf(batch) = {}
          BY <1>0, <3>1, NoItems DEF LoopOK
        <4> QED BY <1>4, <2>2, <4>1
      <3>2. CASE phase # "idle"
        BY <1>4, <2>1, <3>2
      <3> QED BY <3>1, <3>2
    <2> QED BY <1>1, <1>4, <1>10, <2>1, <2>2, <2>3
  <1>14. AcceptedIsKept'
    BY <1>0, <1>1, <1>10 DEF AcceptedIsKept
  <1>15. HandledOnce'
    BY <1>0, <1>1, <1>7, <1>10 DEF HandledOnce
  <1>16. ShowOK'
    <2>1. ShownOnce'
      BY <1>0, <1>1 DEF ShowOK, ShownOnce
    <2>2. UnshownMsgs(q) \subseteq ToShow
      BY <1>3 DEF ToShow
    <2>3. {z.msg : z \in {w \in rearming' : ~w.displayed}} \subseteq ToShow
      BY <1>1 DEF ToShow
    <2> QED BY <1>0, <1>1, <1>4, <2>1, <2>2, <2>3 DEF ShowOK
  <1>17. AcceptedIsHeld'
    <2>1. \A m \in Messages : fate[m] = "accepted" => ~stopped
      BY <1>0 DEF StopOK
    <2> QED BY <1>0, <1>1, <1>7, <2>1 DEF AcceptedIsHeld
  <1> QED BY <1>4, <1>8, <1>9, <1>9a, <1>10, <1>12, <1>13, <1>14, <1>15, <1>16, <1>17 DEF MessageInv

LEMMA RearmFailsStep == ASSUME MessageInv, NEW x \in rearming, RearmFails(x) PROVE MessageInv'
  <1>0. /\ TypeOK /\ LoopOK /\ MemoryOK /\ LateOK /\ DiskOK /\ StopOK /\ DeadOK
        /\ AcceptedIsKept /\ HandledOnce /\ ShowOK /\ AcceptedIsHeld
    BY DEF MessageInv
  <1>1. /\ Quiet /\ rearming' = rearming \ {x} /\ WritesInbox(Upsert(inbox, x))
        /\ disturbed' = TRUE
        /\ UNCHANGED <<transcript, stopFile, stopped, pending, phase, batch, at, stale, superseded,
                       preempted, zombies, sends, stops, escapes, restarts, fate, waited, torn,
                       givenBack>>
    BY DEF RearmFails, loop
  <1>2. /\ x \in Markers /\ x.msg \in Messages /\ x.priority \in BOOLEAN
        /\ x.displayed \in BOOLEAN /\ x.msg \in InMemory /\ Rearming(x.msg)
    BY <1>0 DEF TypeOK, Markers, InMemory, Rearming
  <1>3. /\ inbox' \subseteq Markers /\ IsFiniteSet(inbox')
        /\ \A y, z \in inbox' : y.msg = z.msg => y = z
        /\ failures' \in Nat /\ (failures' = 0 => failures = 0)
        /\ Saved \subseteq Saved' /\ Saved' \subseteq Saved \cup {x.msg}
    BY <1>0, <1>1, <1>2, MarkerWritten DEF TypeOK
  <1>4. Backlog' = Backlog
    BY <1>1 DEF Backlog, Rest
  <1>5. /\ InMemory' \subseteq InMemory
        /\ \A m : Rearming(m)' => Rearming(m)
    BY <1>1, <1>4 DEF InMemory, InZombies, Rearming
  <1>6. LoopOK'
    BY <1>0, <1>1 DEF LoopOK
  <1>7. TypeOK'
    <2>1. {sends', failures', stops', escapes', restarts'} \subseteq Nat /\ rearming' \subseteq Markers
      BY <1>0, <1>1, <1>3 DEF TypeOK
    <2> QED BY <1>0, <1>1, <1>3, <2>1 DEF TypeOK
  <1>8. MemoryOK'
    BY <1>0, <1>1, <1>4, <1>5 DEF MemoryOK
  <1>8a. LateOK'
    <2>1. zombies' = zombies /\ zombies \subseteq Zombies
      BY <1>0, <1>1 DEF TypeOK
    <2> QED BY <1>0, <1>1, <1>4, <1>5, <2>1, RestsDiffer, LateStays
  <1>9. DiskOK'
    BY <1>0, <1>1, <1>2, <1>3 DEF DiskOK, MemoryOK
  <1>10. StopOK'
    BY <1>0, <1>1 DEF StopOK, Quiet
  <1>11. DeadOK'
    BY <1>0, <1>1, <1>2, <1>3, <1>5 DEF DeadOK
  <1>12. AcceptedIsKept'
    BY <1>0, <1>1, <1>3 DEF AcceptedIsKept
  <1>13. HandledOnce'
    BY <1>0, <1>1, <1>2, <1>3, <1>5 DEF HandledOnce
  <1>14. ShowOK'
    <2>1. ToShow' \subseteq ToShow
      BY <1>1 DEF ToShow, Rest
    <2> QED BY <1>0, <1>1, <2>1 DEF ShowOK, ShownOnce
  <1>15. AcceptedIsHeld'
    BY <1>1 DEF AcceptedIsHeld
  <1> QED BY <1>6, <1>7, <1>8, <1>8a, <1>9, <1>10, <1>11, <1>12, <1>13, <1>14, <1>15 DEF MessageInv

LEMMA SendStep ==
  ASSUME MessageInv, NEW priority \in BOOLEAN, NEW hits \in BOOLEAN, Send(priority, hits)
  PROVE  MessageInv'
  <1> DEFINE x == [msg |-> sends + 1, priority |-> priority, displayed |-> FALSE,
                   redriven |-> FALSE]
             q == IF priority THEN <<x>> \o pending ELSE Append(pending, x)
  <1>0. /\ TypeOK /\ LoopOK /\ MemoryOK /\ LateOK /\ DiskOK /\ StopOK /\ DeadOK
        /\ AcceptedIsKept /\ HandledOnce /\ ShowOK /\ AcceptedIsHeld
    BY DEF MessageInv
  <1>1. /\ Quiet /\ ~stopped /\ sends < MaxSends
        /\ sends' = x.msg /\ WritesInbox(Upsert(inbox, x)) /\ Revive(q)
        /\ fate' = [fate EXCEPT ![x.msg] = IF inbox' = inbox THEN "warned" ELSE "accepted"]
        /\ preempted' = (hits \/ preempted)
        /\ UNCHANGED <<transcript, stopFile, stopped, zombies, rearming, stops, escapes, restarts,
                       waited, torn, disturbed, givenBack>>
    BY DEF Send
  <1>2. sends \in Nat /\ MaxSends \in Nat
    BY <1>0, BoundsAssumption DEF TypeOK
  <1>3. /\ x \in Items /\ x.msg = sends + 1 /\ x.msg \in Messages /\ x.priority = priority
        /\ ~x.displayed
    BY <1>1, <1>2 DEF Items, Messages
  <1>4. \A m \in InMemory \cup MsgsOf(batch) \cup Saved \cup ToSet(transcript) : m <= sends
    BY <1>0 DEF MemoryOK, DiskOK
  <1>5. x.msg \notin InMemory \cup MsgsOf(batch) \cup Saved \cup ToSet(transcript)
    BY <1>2, <1>3, <1>4
  <1>6. MsgsOf(Backlog) \subseteq InMemory /\ \A m : Rearming(m) => m \in InMemory
    BY DEF InMemory, Rearming
  <1> HIDE DEF x
  <1>7. /\ q \in Seq(Items) /\ q # <<>> /\ MsgsOf(q) = MsgsOf(pending) \cup {x.msg}
        /\ OrdinaryMsgs(q) \subseteq OrdinaryMsgs(pending) \cup {x.msg}
        /\ UnshownMsgs(q) = UnshownMsgs(pending) \cup {x.msg}
        /\ Distinct(Backlog) => Distinct(Left \o q)
        /\ Ascends(Backlog, givenBack) => Ascends(Left \o q, givenBack)
    <2>1. \A m \in MsgsOf(Backlog) : m < x.msg
      <3> SUFFICES ASSUME NEW m \in MsgsOf(Backlog) PROVE m < x.msg
        OBVIOUS
      <3>1. m <= sends
        BY <1>4, <1>6
      <3>2. m \in Messages
        <4>1. Backlog \in Seq(Items)
          BY <1>0, BacklogParts
        <4> QED BY <4>1, QueueMsgs
      <3> QED BY <1>2, <1>3, <3>1, <3>2 DEF Messages
    <2>2. CASE priority
      <3>1. q = <<x>> \o pending
        BY <2>2
      <3> HIDE DEF q
      <3>2. x.msg \notin MsgsOf(Backlog)
        BY <1>5, <1>6
      <3> QED BY <1>0, <1>3, <2>2, <3>1, <3>2, AddedQueue
    <2>3. CASE ~priority
      <3>1. q = Append(pending, x)
        BY <2>3
      <3> HIDE DEF q
      <3>2. x.msg \notin MsgsOf(Backlog)
        BY <1>5, <1>6
      <3> QED BY <1>0, <1>3, <2>1, <3>1, <3>2, AddedQueue
    <2> QED BY <2>2, <2>3
  <1> HIDE DEF q
  <1>8. /\ LoopOK' /\ Quiet'
        /\ ~stopped \/ phase # "idle" => MsgsOf(Backlog') = MsgsOf(Left) \cup MsgsOf(q)
        /\ OrdinaryMsgs(Backlog') \subseteq OrdinaryMsgs(Left) \cup OrdinaryMsgs(q)
        /\ MsgsOf(pending') \subseteq MsgsOf(q)
        /\ MsgsOf(batch') \subseteq MsgsOf(batch) \cup MsgsOf(q)
        /\ stale' => stale
        /\ stale /\ phase # "idle" => stale' /\ batch' = batch
        /\ ~stale /\ phase # "idle" => ~stale' /\ batch' = batch
        /\ phase = "idle" => ~stale'
        /\ Distinct(Left \o q) => Distinct(Backlog')
        /\ Ascends(Left \o q, givenBack) => Ascends(Backlog', givenBack)
        /\ ToShow' \subseteq ToShow \cup UnshownMsgs(q)
                              \cup {z.msg : z \in {w \in rearming' : ~w.displayed}}
    BY <1>0, <1>1, <1>7, ReviveEffect
  <1>9. MsgsOf(Backlog) = MsgsOf(Left) \cup MsgsOf(pending) /\ MsgsOf(Left) \subseteq MsgsOf(batch)
        /\ OrdinaryMsgs(Backlog) = OrdinaryMsgs(Left) \cup OrdinaryMsgs(pending)
    BY <1>0, BacklogParts
  <1>10. MsgsOf(Backlog') = MsgsOf(Backlog) \cup {x.msg} /\ InMemory' = InMemory \cup {x.msg}
    BY <1>1, <1>7, <1>8, <1>9 DEF InMemory, InZombies
  <1>11. /\ inbox' \subseteq Markers /\ IsFiniteSet(inbox')
         /\ \A y, z \in inbox' : y.msg = z.msg => y = z
         /\ failures' \in Nat /\ (failures' = 0 => failures = 0)
         /\ Saved \subseteq Saved' /\ Saved' \subseteq Saved \cup {x.msg}
         /\ inbox' = inbox \/ x.msg \in Saved'
    <2>1. x.priority \in BOOLEAN /\ x.displayed \in BOOLEAN
      BY <1>3 DEF Items
    <2> QED BY <1>0, <1>1, <1>3, <2>1, MarkerWritten DEF TypeOK
  <1>12. /\ fate' \in [Messages -> Fates] /\ fate'[x.msg] \in {"accepted", "warned"}
         /\ fate'[x.msg] = "accepted" => x.msg \in Saved'
         /\ \A m \in Messages : m # x.msg => fate'[m] = fate[m]
    BY <1>0, <1>1, <1>3, <1>11 DEF TypeOK, Fates
  <1>13. \A m : Rearming(m)' <=> Rearming(m)
    BY <1>1 DEF Rearming
  <1>14. \A m \in InMemory \cup MsgsOf(batch) \cup Saved \cup ToSet(transcript) : m \in Messages
    <2>1. Backlog \in Seq(Items)
      BY <1>0, BacklogParts
    <2>2. MsgsOf(Backlog) \subseteq Messages /\ MsgsOf(batch) \subseteq Messages
      BY <1>0, <2>1, QueueMsgs DEF LoopOK
    <2>3. ToSet(transcript) \subseteq Messages
      BY <1>0 DEF TypeOK, ToSet
    <2>4. InZombies \subseteq Messages
      BY <1>0, QueueMsgs DEF InZombies, Zombies, TypeOK
    <2> QED BY <1>0, <2>2, <2>3, <2>4 DEF InMemory, TypeOK, Markers, Saved
  <1>15. TypeOK'
    <2>1. {sends', failures', stops', escapes', restarts'} \subseteq Nat
      BY <1>0, <1>1, <1>2, <1>3, <1>11 DEF TypeOK
    <2>2. preempted' \in BOOLEAN
      BY <1>0, <1>1 DEF TypeOK
    <2> QED BY <1>0, <1>1, <1>8, <1>11, <1>12, <2>1, <2>2 DEF TypeOK, LoopOK
  <1>16. \A m : m <= sends /\ m \in Messages => m <= sends'
    BY <1>1, <1>2, <1>3 DEF Messages
  <1>17. MemoryOK'
    <2>1. \A m \in InMemory' \cup MsgsOf(batch') : m <= sends'
      <3>1. MsgsOf(batch') \subseteq InMemory \cup MsgsOf(batch) \cup {x.msg}
        BY <1>7, <1>8, <1>9 DEF InMemory
      <3> QED BY <1>1, <1>2, <1>3, <1>4, <1>10, <1>14, <1>16, <3>1
    <2>2. \A y \in rearming : y.msg \notin MsgsOf(Backlog')
      BY <1>0, <1>5, <1>10 DEF MemoryOK, InMemory
    <2> QED BY <1>0, <1>1, <1>7, <1>8, <2>1, <2>2 DEF MemoryOK
  <1>17a. LateOK'
    <2>1. zombies' = zombies /\ zombies \subseteq Zombies
      BY <1>0, <1>1 DEF TypeOK
    <2>2. \A y \in InZombies : y < x.msg
      BY <1>2, <1>3, <1>4, <1>14 DEF InMemory, Messages
    <2>3. \A m \in OrdinaryMsgs(Backlog') : m \in OrdinaryMsgs(Backlog) \/ m = x.msg
      BY <1>7, <1>8, <1>9
    <2> QED BY <1>0, <1>1, <1>5, <1>10, <1>13, <2>1, <2>2, <2>3, RestsDiffer, LateStays
  <1>18. DiskOK'
    <2>1. \A m \in Saved' \cup ToSet(transcript') : m <= sends'
      BY <1>1, <1>2, <1>3, <1>4, <1>11, <1>14, <1>16
    <2>2. sends' <= MaxSends
      BY <1>1, <1>2, <1>3
    <2> QED BY <1>11, <2>1, <2>2 DEF DiskOK
  <1>19. StopOK'
    <2> SUFFICES ASSUME NEW m \in Messages, fate'[m] = "accepted", stale'
                 PROVE  m \notin MsgsOf(batch')
      BY <1>0, <1>1, <1>8 DEF StopOK
    <2>1. stale /\ phase # "idle" /\ batch' = batch
      BY <1>8
    <2>2. CASE m = x.msg
      BY <1>5, <2>1, <2>2
    <2>3. CASE m # x.msg
      BY <1>0, <1>12, <2>1, <2>3 DEF StopOK
    <2> QED BY <2>2, <2>3
  <1>20. DeadOK'
    <2> SUFFICES ASSUME NEW m \in Messages, fate'[m] = "cancelled"
                 PROVE  /\ m \notin MsgsOf(pending') /\ ~Rearming(m)'
                        /\ (m \in MsgsOf(batch') => stale')
                        /\ (\A z \in zombies' : m \in MsgsOf(z.rest) => z.stale)
                        /\ (m \in Saved' => stopFile')
      BY DEF DeadOK
    <2>1. m # x.msg /\ fate[m] = "cancelled"
      BY <1>12
    <2>2. /\ m \notin MsgsOf(pending) /\ ~Rearming(m)
          /\ m \in MsgsOf(batch) => stale
          /\ \A z \in zombies : m \in MsgsOf(z.rest) => z.stale
          /\ m \in Saved => stopFile
      BY <1>0, <2>1 DEF DeadOK
    <2>3. m \notin MsgsOf(q)
      BY <1>7, <2>1, <2>2
    <2>4. m \in MsgsOf(batch') => stale'
      <3>1. CASE phase = "idle"
        <4>1. MsgsOf(batch) = {}
          BY <1>0, <3>1, NoItems DEF LoopOK
        <4> QED BY <1>8, <2>3, <4>1
      <3>2. CASE phase # "idle"
        BY <1>8, <2>2, <3>2
      <3> QED BY <3>1, <3>2
    <2> QED BY <1>1, <1>8, <1>11, <1>13, <2>1, <2>2, <2>3, <2>4
  <1>21. AcceptedIsKept'
    BY <1>0, <1>11, <1>12 DEF AcceptedIsKept
  <1>22. HandledOnce'
    <2> SUFFICES ASSUME failures' = 0, NEW m \in Messages, fate'[m] = "handled"
                 PROVE  m \notin InMemory' /\ m \notin Saved'
      BY DEF HandledOnce
    <2>1. m # x.msg /\ fate[m] = "handled"
      BY <1>12
    <2>2. m \notin InMemory /\ m \notin Saved
      BY <1>0, <1>11, <2>1 DEF HandledOnce
    <2> QED BY <1>10, <1>11, <2>1, <2>2
  <1>23. ShowOK'
    <2>1. ShownOnce'
      BY <1>0, <1>1 DEF ShowOK, ShownOnce
    <2>2. ToShow' \subseteq ToShow \cup {x.msg}
      BY <1>1, <1>7, <1>8 DEF ToShow
    <2> QED BY <1>0, <1>1, <1>5, <2>1, <2>2 DEF ShowOK
  <1>24. AcceptedIsHeld'
    BY <1>0, <1>1, <1>10, <1>12 DEF AcceptedIsHeld
  <1> QED BY <1>8, <1>15, <1>17, <1>17a, <1>18, <1>19, <1>20, <1>21, <1>22, <1>23, <1>24 DEF MessageInv
-----------------------------------------------------------------------------
\* The loop goes on without the run that it waits for.
LEMMA GivenUpStep == MessageInv /\ GivenUp => MessageInv'
  <1> SUFFICES ASSUME MessageInv, GivenUp PROVE MessageInv'
    OBVIOUS
  <1> DEFINE r == Rest(at)  w == [rest |-> r, stale |-> stale, superseded |-> superseded]
  <1>0. TypeOK /\ LoopOK /\ MemoryOK
    BY DEF MessageInv
  <1>1. /\ phase = "running" /\ escapes' = escapes + 1 /\ zombies' = zombies \cup {w}
        /\ Continue(pending)
        /\ UNCHANGED <<inbox, transcript, stopFile, stopped, preempted, rearming, sends, failures,
                       stops, restarts, fate, waited, torn, disturbed, givenBack>>
    BY DEF GivenUp, durable, history
  <1>2. Keepable(pending)
    BY KeepPending
  <1>3. Left = r
    BY <1>1 DEF Left
  <1>4. /\ r \in Seq(Items) /\ MsgsOf(Backlog) = MsgsOf(r) \cup MsgsOf(pending)
        /\ Distinct(Backlog) <=>
              Distinct(r) /\ Distinct(pending) /\ MsgsOf(r) \cap MsgsOf(pending) = {}
        /\ Ascends(Backlog, givenBack) <=>
             /\ Ascends(r, givenBack) /\ Ascends(pending, givenBack)
             /\ \A x \in OrdinaryMsgs(r), y \in OrdinaryMsgs(pending) : x < y \/ y \in givenBack
    BY <1>0, <1>3, BacklogParts
  <1>5. Distinct(Backlog) /\ (restarts = 0 => Ascends(Backlog, givenBack))
    BY <1>0 DEF MemoryOK
  <1>6. r # <<>>
    <2>1. Len(r) > 0
      BY <1>1, AtParts
    <2> QED BY <1>4, <2>1, NoItems
  <1> HIDE DEF r
  <1>7. w \in Zombies /\ Joins(w, pending)
    BY <1>0, <1>3, <1>4, <1>5, <1>6 DEF Zombies, Joins, Older, TypeOK
  <1>8. /\ zombies' \subseteq Zombies /\ zombies \subseteq zombies' /\ escapes' \in Nat
        /\ \A z \in zombies' \ zombies : z = w
        /\ inbox' \subseteq inbox /\ failures' \in Nat /\ preempted' \in BOOLEAN
        /\ waited' \subseteq Messages /\ disturbed' \in BOOLEAN
        /\ fate' \in [Messages -> Fates]
    BY <1>0, <1>1, <1>7 DEF TypeOK
  <1>9. \A m : /\ m \in Saved => m \in Saved'
               /\ m \in MsgsOf(Backlog) => m \in MsgsOf(pending) \cup InZombies'
    <2>1. w.rest = r /\ w \in zombies'
      BY <1>1
    <2>2. MsgsOf(r) \subseteq InZombies'
      BY <2>1 DEF InZombies
    <2> QED BY <1>1, <1>4, <2>2 DEF Saved
  <1> HIDE DEF w
  <1> QED BY <1>1, <1>2, <1>7, <1>8, <1>9, LoopGoesOn

\* What a run given up is still at after it put d back.
Part(w, z, d) ==
  /\ w \in Zombies /\ w.rest # <<>> /\ Distinct(w.rest) /\ w.stale = z.stale
  /\ MsgsOf(w.rest) \subseteq MsgsOf(z.rest) \ MsgsOf(d)
  /\ OrdinaryMsgs(w.rest) \subseteq OrdinaryMsgs(z.rest)

\* Every end of a message in a run given up, and what it owes to those it leaves.
LEMMA LateGoesOn ==
  ASSUME MessageInv, NEW z \in zombies, NEW d \in Seq(Items),
         MsgsOf(d) \subseteq MsgsOf(z.rest), OrdinaryMsgs(d) \subseteq OrdinaryMsgs(z.rest),
         UnshownMsgs(d) = {}, Distinct(d), z.stale => d = <<>>,
         pending' = PutBack(d), givenBack' = givenBack \cup MsgsOf(d),
         UNCHANGED <<phase, batch, at, stale, superseded, stopFile, stopped, rearming, sends,
                     stops, escapes, restarts, transcript, torn>>,
         zombies \ {z} \subseteq zombies',
         \A w \in zombies' : w \in zombies \ {z} \/ Part(w, z, d),
         \A v, w \in zombies' : v \notin zombies \ {z} /\ w \notin zombies \ {z} => v = w,
         inbox' \subseteq inbox, failures' \in Nat, failures' = 0 => failures = 0,
         preempted' \in BOOLEAN, waited' \subseteq Messages,
         waited \subseteq waited', disturbed' \in BOOLEAN, ~disturbed' => ~disturbed,
         fate' \in [Messages -> Fates],
         \A m \in Messages : fate'[m] # fate[m] =>
            /\ fate'[m] = "handled" /\ m \in MsgsOf(z.rest) /\ m \notin MsgsOf(d)
            /\ \A w \in zombies' : Part(w, z, d) => m \notin MsgsOf(w.rest)
            /\ failures' = 0 => m \notin Saved',
         \A m \in Messages : fate'[m] = "accepted" =>
            /\ m \in Saved => m \in Saved'
            /\ ~disturbed' /\ m \in MsgsOf(z.rest) =>
                 m \in MsgsOf(d) \cup waited' \cup InZombies'
  PROVE  MessageInv'
  <1> DEFINE E == givenBack \cup MsgsOf(d)  g == PutBack(d)
  <1>0. /\ TypeOK /\ LoopOK /\ MemoryOK /\ LateOK /\ DiskOK /\ StopOK /\ DeadOK
        /\ AcceptedIsKept /\ HandledOnce /\ ShowOK /\ AcceptedIsHeld
    BY DEF MessageInv
  <1>1. /\ phase' = phase /\ batch' = batch /\ at' = at /\ stale' = stale
        /\ superseded' = superseded /\ stopFile' = stopFile /\ stopped' = stopped
        /\ rearming' = rearming /\ sends' = sends /\ stops' = stops /\ escapes' = escapes
        /\ restarts' = restarts /\ transcript' = transcript /\ torn' = torn
        /\ pending' = g /\ givenBack' = E
    OBVIOUS
  <1>2. /\ z \in Zombies /\ z.rest \in Seq(Items) /\ z.rest # <<>> /\ Distinct(z.rest)
        /\ MsgsOf(z.rest) \cap MsgsOf(Backlog) = {}
        /\ \A x \in rearming : x.msg \notin MsgsOf(z.rest)
        /\ restarts = 0 => Older(z.rest, Backlog)
    BY <1>0 DEF LateOK, TypeOK, Zombies
  <1>3. /\ Left \in Seq(Items) /\ pending \in Seq(Items) /\ Backlog \in Seq(Items)
        /\ MsgsOf(Backlog) = MsgsOf(Left) \cup MsgsOf(pending)
        /\ OrdinaryMsgs(Backlog) = OrdinaryMsgs(Left) \cup OrdinaryMsgs(pending)
        /\ Distinct(Backlog) <=>
              Distinct(Left) /\ Distinct(pending) /\ MsgsOf(Left) \cap MsgsOf(pending) = {}
        /\ Ascends(Backlog, givenBack) <=>
              /\ Ascends(Left, givenBack) /\ Ascends(pending, givenBack)
              /\ \A x \in OrdinaryMsgs(Left), y \in OrdinaryMsgs(pending) :
                   x < y \/ y \in givenBack
    BY <1>0, BacklogParts
  <1>4. /\ g \in Seq(Items) /\ MsgsOf(g) = MsgsOf(d) \cup MsgsOf(pending)
        /\ OrdinaryMsgs(g) \subseteq OrdinaryMsgs(d) \cup OrdinaryMsgs(pending)
        /\ UnshownMsgs(g) = UnshownMsgs(d) \cup UnshownMsgs(pending)
        /\ Distinct(d \o pending) => Distinct(g)
        /\ Ascends(d \o pending, E) => Ascends(g, E)
    BY <1>3, PutBackQueue
  <1> HIDE DEF g
  <1>5. Backlog' = Left \o g
    BY <1>1 DEF Backlog, Left, Rest
  <1>6. /\ MsgsOf(Backlog') = MsgsOf(Left) \cup MsgsOf(g)
        /\ OrdinaryMsgs(Backlog') = OrdinaryMsgs(Left) \cup OrdinaryMsgs(g)
    BY <1>3, <1>4, <1>5, ConcatQueue
  <1>7. /\ MsgsOf(Backlog') = MsgsOf(Backlog) \cup MsgsOf(d)
        /\ \A m \in OrdinaryMsgs(Backlog') : m \in OrdinaryMsgs(Backlog) \/ m \in MsgsOf(d)
    <2>1. OrdinaryMsgs(d) \subseteq MsgsOf(d)
      BY DEF OrdinaryMsgs, MsgsOf
    <2> QED BY <1>3, <1>4, <1>6, <2>1
  <1>8. LoopOK' /\ Quiet' = Quiet
    BY <1>0, <1>1, <1>4 DEF LoopOK, Quiet
  <1>9. /\ \A m : Rearming(m)' <=> Rearming(m)
        /\ Saved' \subseteq Saved
    BY <1>1 DEF Rearming, Saved
  <1>10. /\ \A m \in InZombies' : m \in InZombies
         /\ \A m \in InZombies : m \in InZombies' \/ m \in MsgsOf(z.rest)
    BY DEF InZombies, Part
  <1>11. InMemory' \subseteq InMemory
    <2>1. MsgsOf(d) \subseteq InZombies
      BY DEF InZombies
    <2> QED BY <1>1, <1>7, <1>10, <2>1 DEF InMemory
  <1>12. TypeOK'
    <2>1. inbox' \subseteq Markers /\ {sends', failures', stops', escapes', restarts'} \subseteq Nat
      BY <1>0, <1>1 DEF TypeOK
    <2>2. zombies' \subseteq Zombies /\ givenBack' \subseteq Messages
      BY <1>0, <1>1, QueueMsgs DEF TypeOK, Part
    <2> QED BY <1>0, <1>1, <1>8, <2>1, <2>2 DEF TypeOK, LoopOK
  <1>13. MemoryOK'
    <2>1. Distinct(Backlog')
      <3>1. Distinct(Backlog)
        BY <1>0 DEF MemoryOK
      <3>2. Distinct(g)
        BY <1>2, <1>3, <1>4, <3>1, ConcatDistinct
      <3> QED BY <1>2, <1>3, <1>4, <1>5, <3>1, <3>2, ConcatDistinct
    <2>2. ASSUME restarts = 0 PROVE Ascends(Backlog', E)
      <3>1. \A s : Ascends(s, givenBack) => Ascends(s, E)
        BY DEF Ascends
      <3>2. OrdinaryMsgs(d) \subseteq E
        BY DEF OrdinaryMsgs, MsgsOf
      <3>3. Ascends(d, E)
        BY DEF Ascends, MsgsOf
      <3>4. \A x \in OrdinaryMsgs(d), y \in OrdinaryMsgs(pending) : x < y \/ y \in E
        BY <1>2, <1>3, <2>2 DEF Older
      <3>5. Ascends(Backlog, givenBack)
        BY <1>0, <2>2 DEF MemoryOK
      <3>6. Ascends(Left, E) /\ Ascends(pending, E)
        BY <1>3, <3>1, <3>5
      <3>7. \A x \in OrdinaryMsgs(Left), y \in OrdinaryMsgs(pending) : x < y \/ y \in E
        BY <1>3, <3>5
      <3> HIDE DEF E
      <3>8. Ascends(g, E)
        BY <1>3, <1>4, <3>3, <3>4, <3>6, ConcatAscends
      <3>9. \A x \in OrdinaryMsgs(Left), y \in OrdinaryMsgs(g) : x < y \/ y \in E
        BY <1>4, <3>2, <3>7
      <3> QED BY <1>3, <1>4, <1>5, <3>6, <3>8, <3>9, ConcatAscends
    <2>3. \A x \in rearming' : x.msg \notin MsgsOf(Backlog')
      BY <1>0, <1>1, <1>2, <1>7 DEF MemoryOK
    <2>4. \A m \in InMemory' \cup MsgsOf(batch') : m <= sends'
      BY <1>0, <1>1, <1>11 DEF MemoryOK
    <2> HIDE DEF E
    <2> QED BY <1>0, <1>1, <2>1, <2>2, <2>3, <2>4 DEF MemoryOK
  <1>14. LateOK'
    <2>1. ASSUME NEW w \in zombies'
          PROVE  /\ w.rest # <<>> /\ Distinct(w.rest)
                 /\ MsgsOf(w.rest) \cap MsgsOf(Backlog') = {}
                 /\ \A x \in rearming' : x.msg \notin MsgsOf(w.rest)
                 /\ restarts' = 0 =>
                      \A x \in OrdinaryMsgs(w.rest), y \in OrdinaryMsgs(Backlog') :
                        x < y \/ y \in givenBack'
      <3>1. CASE w \in zombies \ {z}
        <4>1. /\ w.rest # <<>> /\ Distinct(w.rest)
              /\ MsgsOf(w.rest) \cap MsgsOf(Backlog) = {}
              /\ \A x \in rearming : x.msg \notin MsgsOf(w.rest)
              /\ restarts = 0 => Older(w.rest, Backlog)
              /\ MsgsOf(w.rest) \cap MsgsOf(z.rest) = {}
          BY <1>0, <3>1 DEF LateOK
        <4> QED BY <1>1, <1>7, <4>1 DEF Older
      <3>2. CASE Part(w, z, d)
        BY <1>1, <1>2, <1>7, <3>2 DEF Part, Older
      <3> QED BY <3>1, <3>2
    <2>2. ASSUME NEW v \in zombies', NEW w \in zombies', MsgsOf(v.rest) \cap MsgsOf(w.rest) # {}
          PROVE  v = w
      <3>1. \A x, y \in zombies : MsgsOf(x.rest) \cap MsgsOf(y.rest) # {} => x = y
        BY <1>0 DEF LateOK
      <3>2. CASE v \in zombies \ {z} /\ w \in zombies \ {z}
        BY <2>2, <3>1, <3>2
      <3>3. CASE v \in zombies \ {z} /\ w \notin zombies \ {z}
        BY <2>2, <3>1, <3>3 DEF Part
      <3>4. CASE v \notin zombies \ {z} /\ w \in zombies \ {z}
        BY <2>2, <3>1, <3>4 DEF Part
      <3>5. CASE v \notin zombies \ {z} /\ w \notin zombies \ {z}
        BY <3>5
      <3> QED BY <3>2, <3>3, <3>4, <3>5
    <2> QED BY <2>1, <2>2 DEF LateOK, Older
  <1>15. DiskOK'
    BY <1>0, <1>1, <1>9, FS_Subset DEF DiskOK
  <1>16. StopOK'
    <2>1. \A m \in Messages : fate'[m] = "accepted" => fate[m] = "accepted"
      OBVIOUS
    <2> QED BY <1>0, <1>1, <1>8, <2>1 DEF StopOK
  <1>17. DeadOK'
    <2> SUFFICES ASSUME NEW m \in Messages, fate'[m] = "cancelled"
                 PROVE  /\ m \notin MsgsOf(pending') /\ ~Rearming(m)'
                        /\ (m \in MsgsOf(batch') => stale')
                        /\ (\A w \in zombies' : m \in MsgsOf(w.rest) => w.stale)
                        /\ (m \in Saved' => stopFile')
      BY DEF DeadOK
    <2>1. fate[m] = "cancelled"
      OBVIOUS
    <2>2. /\ m \notin MsgsOf(pending) /\ ~Rearming(m)
          /\ m \in MsgsOf(batch) => stale
          /\ \A w \in zombies : m \in MsgsOf(w.rest) => w.stale
          /\ m \in Saved => stopFile
      BY <1>0, <2>1 DEF DeadOK
    <2>3. m \notin MsgsOf(d)
      BY <2>2, NoItems
    <2>4. \A w \in zombies' : m \in MsgsOf(w.rest) => w.stale
      BY <2>2 DEF Part
    <2> QED BY <1>1, <1>4, <1>9, <2>2, <2>3, <2>4
  <1>18. AcceptedIsKept'
    BY <1>0 DEF AcceptedIsKept
  <1>19. HandledOnce'
    <2> SUFFICES ASSUME failures' = 0, NEW m \in Messages, fate'[m] = "handled"
                 PROVE  m \notin InMemory' /\ m \notin Saved'
      BY DEF HandledOnce
    <2>1. CASE fate'[m] = fate[m]
      <3>1. m \notin InMemory /\ m \notin Saved
        BY <1>0, <2>1 DEF HandledOnce
      <3> QED BY <3>1, <1>9, <1>11
    <2>2. CASE fate'[m] # fate[m]
      <3>1. /\ m \in MsgsOf(z.rest) /\ m \notin MsgsOf(d) /\ m \notin Saved'
            /\ \A w \in zombies' : Part(w, z, d) => m \notin MsgsOf(w.rest)
        BY <2>2
      <3>2. m \notin MsgsOf(Backlog')
        BY <1>2, <1>7, <3>1
      <3>3. ASSUME NEW w \in zombies' PROVE m \notin MsgsOf(w.rest)
        BY <1>0, <3>1 DEF LateOK
      <3>4. ~Rearming(m)'
        BY <1>1, <1>2, <3>1 DEF Rearming
      <3> QED BY <3>1, <3>2, <3>3, <3>4 DEF InMemory, InZombies, Rearming
    <2> QED BY <2>1, <2>2
  <1>20. ShowOK'
    <2>1. ShownOnce'
      BY <1>0, <1>1 DEF ShowOK, ShownOnce
    <2>2. ToShow' = ToShow
      BY <1>1, <1>4 DEF ToShow, Rest
    <2> QED BY <1>0, <1>1, <2>1, <2>2 DEF ShowOK
  <1>21. AcceptedIsHeld'
    <2> SUFFICES ASSUME ~disturbed', NEW m \in Messages, fate'[m] = "accepted"
                 PROVE  m \in InMemory' \/ m \in waited'
      BY DEF AcceptedIsHeld
    <2>1. fate[m] = "accepted"
      OBVIOUS
    <2>2. m \in InMemory \/ m \in waited
      BY <1>0, <2>1 DEF AcceptedIsHeld
    <2>3. CASE m \in MsgsOf(Backlog) \/ Rearming(m)
      BY <1>1, <1>7, <2>3 DEF InMemory, Rearming
    <2>4. CASE m \in InZombies
      BY <1>7, <1>10, <2>4 DEF InMemory
    <2>5. CASE m \in waited
      BY <2>5
    <2> QED BY <2>2, <2>3, <2>4, <2>5 DEF InMemory, Rearming
  <1> QED BY <1>8, <1>12, <1>13, <1>14, <1>15, <1>16, <1>17, <1>18, <1>19, <1>20, <1>21
          DEF MessageInv

\* The message that a run given up is at, and those behind it.
LEMMA LateParts ==
  ASSUME MessageInv, NEW z \in zombies
  PROVE  LET m == z.rest[1].msg  q == Tail(z.rest)  d == AllShown(q)
         IN  /\ m \in Messages /\ q \in Seq(Items) /\ d \in Seq(Items)
             /\ MsgsOf(z.rest) = {m} \cup MsgsOf(q) /\ m \notin MsgsOf(q)
             /\ MsgsOf(d) = MsgsOf(q) /\ UnshownMsgs(d) = {}
             /\ OrdinaryMsgs(q) \subseteq OrdinaryMsgs(z.rest)
             /\ OrdinaryMsgs(d) = OrdinaryMsgs(q)
             /\ Distinct(q) /\ Distinct(d) /\ Work(d) = Work(q) /\ Work(q) < Work(z.rest)
             /\ Len(z.rest) > 1 => q # <<>>
  <1> DEFINE s == z.rest  b == s[1]  q == Tail(s)  d == AllShown(q)
  <1>1. s \in Seq(Items) /\ s # <<>> /\ Distinct(s)
    BY DEF MessageInv, LateOK, TypeOK, Zombies
  <1> HIDE DEF s
  <1>2. /\ b \in Items /\ q \in Seq(Items) /\ s = <<b>> \o q /\ Len(s) = Len(q) + 1
        /\ Len(s) > 1 => q # <<>>
    <2>1. Len(s) \in Nat /\ Len(s) > 0 /\ 1 \in DOMAIN s /\ s[1] \in Items
      BY <1>1
    <2>2. Tail(s) \in Seq(Items) /\ Len(Tail(s)) = Len(s) - 1
      BY <1>1, HeadTailProperties
    <2>3. s = <<s[1]>> \o Tail(s)
      <3>1. \A i \in 1 .. Len(Tail(s)) : Tail(s)[i] = s[i + 1]
        BY <1>1, HeadTailProperties
      <3> DEFINE c == <<s[1]>> \o Tail(s)
      <3>2. c \in Seq(Items) /\ Len(c) = Len(s)
        BY <2>1, <2>2
      <3>3. \A i \in 1 .. Len(s) : c[i] = s[i]
        BY <2>1, <2>2, <3>1
      <3> QED BY <1>1, <3>2, <3>3
    <2>4. Len(s) > 1 => Tail(s) # <<>>
      <3> DEFINE u == Tail(s)
      <3>1. Len(u) = Len(s) - 1
        BY <2>2
      <3> HIDE DEF u
      <3>2. Len(s) > 1 => Len(u) > 0
        BY <2>1, <3>1
      <3>3. u = <<>> => Len(u) = 0
        OBVIOUS
      <3>4. ~(0 > 0)
        OBVIOUS
      <3> QED BY <3>2, <3>3, <3>4 DEF u
    <2>5. Len(s) = Len(Tail(s)) + 1
      BY <2>1, <2>2
    <2> QED BY <2>1, <2>2, <2>3, <2>4, <2>5
  <1>3. b.msg \in Messages
    BY <1>2 DEF Items
  <1> HIDE DEF b, q
  <1>4. <<b>> \in Seq(Items) /\ MsgsOf(<<b>>) = {b.msg} /\ Len(<<b>>) = 1
    BY <1>2, OneItem
  <1>5. /\ MsgsOf(s) = {b.msg} \cup MsgsOf(q)
        /\ OrdinaryMsgs(q) \subseteq OrdinaryMsgs(s)
        /\ Work(s) = Work(<<b>>) + Work(q)
    BY <1>2, <1>4, ConcatQueue
  <1>6. Distinct(q) /\ b.msg \notin MsgsOf(q)
    BY <1>1, <1>2, <1>4, ConcatDistinct
  <1>7. Work(q) < Work(s)
    <2>1. Work(<<b>>) \in Nat /\ Work(<<b>>) >= 1 /\ Work(q) \in Nat
      BY <1>2, <1>4, WorkBounds, WorkType
    <2> QED BY <1>5, <2>1
  <1>8. /\ d \in Seq(Items) /\ MsgsOf(d) = MsgsOf(q) /\ OrdinaryMsgs(d) = OrdinaryMsgs(q)
        /\ UnshownMsgs(d) = {} /\ Work(d) = Work(q) /\ Distinct(d)
    BY <1>2, <1>6, ShownQueue
  <1> QED BY <1>2, <1>3, <1>5, <1>6, <1>7, <1>8 DEF s, b, q

LEMMA LateCompletesStep ==
  ASSUME MessageInv, NEW z \in zombies, LateCompletes(z) PROVE MessageInv'
  <1> DEFINE m == z.rest[1].msg  q == Tail(z.rest)  d == AllShown(q)  w == [z EXCEPT !.rest = q]
  <1>0. TypeOK
    BY DEF MessageInv
  <1>1. /\ ~z.stale /\ preempted' = FALSE /\ WritesInbox(Without(inbox, m))
        /\ fate' = [fate EXCEPT ![m] = "handled"]
        /\ UNCHANGED <<phase, batch, at, stale, superseded, transcript, stopFile, stopped,
                       rearming, sends, stops, escapes, restarts, waited, torn, disturbed>>
        /\ \/ /\ Len(z.rest) > 1 /\ zombies' = (zombies \ {z}) \cup {w}
              /\ pending' = pending /\ givenBack' = givenBack
           \/ LateEnd(z, d)
    BY DEF LateCompletes, IsCurrentLate, Settles, UnreachedLate, loop
  <1>2. /\ m \in Messages /\ q \in Seq(Items) /\ d \in Seq(Items)
        /\ MsgsOf(z.rest) = {m} \cup MsgsOf(q) /\ m \notin MsgsOf(q)
        /\ MsgsOf(d) = MsgsOf(q) /\ UnshownMsgs(d) = {}
        /\ OrdinaryMsgs(q) \subseteq OrdinaryMsgs(z.rest) /\ OrdinaryMsgs(d) = OrdinaryMsgs(q)
        /\ Distinct(q) /\ Distinct(d) /\ (Len(z.rest) > 1 => q # <<>>)
    BY LateParts
  <1>3. w \in Zombies /\ w.rest = q /\ w.stale = z.stale
    BY <1>0, <1>2 DEF TypeOK, Zombies
  <1> HIDE DEF m, q, d, w
  <1>4. /\ inbox' \subseteq inbox /\ failures' \in Nat /\ (failures' = 0 => failures = 0)
        /\ failures' = 0 => m \notin Saved'
        /\ \A n : n # m /\ n \in Saved => n \in Saved'
    <2>1. CASE inbox' = inbox /\ failures' = failures + 1
      BY <1>0, <2>1 DEF TypeOK, Saved
    <2>2. CASE inbox' = Without(inbox, m) /\ failures' = failures
      BY <1>0, <2>2 DEF TypeOK, Saved, Without
    <2> QED BY <1>1, <2>1, <2>2 DEF WritesInbox
  <1>5. /\ fate' \in [Messages -> Fates] /\ fate'[m] = "handled"
        /\ \A n \in Messages : n # m => fate'[n] = fate[n]
    BY <1>0, <1>1, <1>2 DEF TypeOK, Fates
  <1>6. waited' \subseteq Messages /\ disturbed' \in BOOLEAN
    BY <1>0, <1>1 DEF TypeOK
  <1>7. CASE LateEnd(z, d)
    <2>1. zombies' = zombies \ {z} /\ pending' = PutBack(d)
          /\ givenBack' = givenBack \cup MsgsOf(d)
      BY <1>7 DEF LateEnd
    <2>2. \A n \in Messages : fate'[n] # fate[n] =>
            /\ fate'[n] = "handled" /\ n \in MsgsOf(z.rest) /\ n \notin MsgsOf(d)
            /\ \A v \in zombies' : Part(v, z, d) => n \notin MsgsOf(v.rest)
            /\ failures' = 0 => n \notin Saved'
      <3>1. \A v \in zombies' : m \notin MsgsOf(v.rest)
        BY <1>2, <2>1 DEF MessageInv, LateOK
      <3> QED BY <1>2, <1>4, <1>5, <3>1
    <2>3. \A n \in Messages : fate'[n] = "accepted" =>
            /\ n \in Saved => n \in Saved'
            /\ n \in MsgsOf(z.rest) => n \in MsgsOf(d)
      BY <1>2, <1>4, <1>5
    <2> QED BY <1>1, <1>2, <1>4, <1>5, <1>6, <2>1, <2>2, <2>3, LateGoesOn
  <1>8. CASE /\ Len(z.rest) > 1 /\ zombies' = (zombies \ {z}) \cup {w}
             /\ pending' = pending /\ givenBack' = givenBack
    <2>1. /\ <<>> \in Seq(Items) /\ MsgsOf(<<>>) = {} /\ OrdinaryMsgs(<<>>) = {}
          /\ UnshownMsgs(<<>>) = {} /\ Distinct(<<>>)
      BY NoItems
    <2>2. pending' = PutBack(<<>>) /\ givenBack' = givenBack \cup MsgsOf(<<>>)
      BY <1>8, <2>1 DEF PutBack
    <2>3. Part(w, z, <<>>)
      BY <1>2, <1>3, <1>8, <2>1 DEF Part
    <2>4. MsgsOf(q) \subseteq InZombies'
      BY <1>3, <1>8 DEF InZombies
    <2>5. \A n \in Messages : fate'[n] # fate[n] =>
            /\ fate'[n] = "handled" /\ n \in MsgsOf(z.rest) /\ n \notin MsgsOf(<<>>)
            /\ \A v \in zombies' : Part(v, z, <<>>) => n \notin MsgsOf(v.rest)
            /\ failures' = 0 => n \notin Saved'
      <3>1. \A v \in zombies' : m \notin MsgsOf(v.rest)
        BY <1>2, <1>3, <1>8 DEF MessageInv, LateOK
      <3> QED BY <1>2, <1>4, <1>5, <2>1, <3>1
    <2>6. \A n \in Messages : fate'[n] = "accepted" =>
            /\ n \in Saved => n \in Saved'
            /\ n \in MsgsOf(z.rest) => n \in InZombies'
      BY <1>2, <1>4, <1>5, <2>4
    <2>7. /\ zombies \ {z} \subseteq zombies'
          /\ \A v \in zombies' : v \in zombies \ {z} \/ Part(v, z, <<>>)
          /\ \A u, v \in zombies' : u \notin zombies \ {z} /\ v \notin zombies \ {z} => u = v
      BY <1>8, <2>3
    <2> QED BY <1>1, <1>4, <1>5, <1>6, <2>1, <2>2, <2>5, <2>6, <2>7, LateGoesOn
  <1> QED BY <1>1, <1>7, <1>8

LEMMA LateWaitsStep ==
  ASSUME MessageInv, NEW z \in zombies, LateWaits(z) PROVE MessageInv'
  <1> DEFINE m == z.rest[1].msg  d == AllShown(Tail(z.rest))
  <1>0. TypeOK
    BY DEF MessageInv
  <1>1. /\ ~z.stale /\ preempted' = FALSE /\ waited' = waited \cup {m}
        /\ zombies' = zombies \ {z} /\ pending' = PutBack(d)
        /\ givenBack' = givenBack \cup MsgsOf(d)
        /\ UNCHANGED <<phase, batch, at, stale, superseded, inbox, transcript, stopFile, stopped,
                       rearming, sends, failures, stops, escapes, restarts, fate, torn, disturbed>>
    BY DEF LateWaits, IsCurrentLate, LateEnd, UnreachedLate, loop, durable, bounds
  <1>2. /\ m \in Messages /\ d \in Seq(Items) /\ MsgsOf(z.rest) = {m} \cup MsgsOf(d)
        /\ UnshownMsgs(d) = {} /\ OrdinaryMsgs(d) \subseteq OrdinaryMsgs(z.rest) /\ Distinct(d)
    BY LateParts
  <1> HIDE DEF m, d
  <1>3. /\ inbox' \subseteq inbox /\ failures' \in Nat /\ waited' \subseteq Messages
        /\ disturbed' \in BOOLEAN /\ fate' \in [Messages -> Fates] /\ fate' = fate
        /\ Saved' = Saved
    BY <1>0, <1>1, <1>2 DEF TypeOK, Saved
  <1>4. \A n \in MsgsOf(z.rest) : n \in MsgsOf(d) \cup waited'
    BY <1>1, <1>2
  <1> QED BY <1>1, <1>2, <1>3, <1>4, LateGoesOn

LEMMA LateAbortsStep ==
  ASSUME MessageInv, NEW z \in zombies, LateAborts(z) PROVE MessageInv'
  <1> DEFINE s == z.rest  e == Redrivable(s)
             d == IF ~preempted \/ z.stale \/ stopped THEN <<>> ELSE e
  <1>0. TypeOK
    BY DEF MessageInv
  <1>1. /\ preempted' = FALSE /\ zombies' = zombies \ {z} /\ pending' = PutBack(d)
        /\ givenBack' = givenBack \cup MsgsOf(d)
        /\ disturbed' = (disturbed \/ Len(d) < Len(s))
        /\ UNCHANGED <<phase, batch, at, stale, superseded, inbox, transcript, stopFile, stopped,
                       rearming, sends, failures, stops, escapes, restarts, fate, waited, torn>>
    BY DEF LateAborts, LateEnd, loop, durable, bounds
  <1>2. s \in Seq(Items) /\ s # <<>> /\ Distinct(s)
    BY DEF MessageInv, LateOK, TypeOK, Zombies
  <1>3. /\ e \in Seq(Items) /\ Len(e) <= Len(s) /\ MsgsOf(e) \subseteq MsgsOf(s)
        /\ Len(e) = Len(s) => MsgsOf(e) = MsgsOf(s)
        /\ OrdinaryMsgs(e) \subseteq OrdinaryMsgs(s) /\ UnshownMsgs(e) = {} /\ Distinct(e)
    BY <1>2, RedriveQueue
  <1>4. (d = <<>> \/ d = e) /\ (z.stale => d = <<>>)
    OBVIOUS
  <1> HIDE DEF s, e, d
  <1>5. /\ d \in Seq(Items) /\ MsgsOf(d) \subseteq MsgsOf(s) /\ Distinct(d)
        /\ OrdinaryMsgs(d) \subseteq OrdinaryMsgs(s) /\ UnshownMsgs(d) = {}
        /\ ~(Len(d) < Len(s)) => MsgsOf(d) = MsgsOf(s)
    <2>1. CASE d = <<>>
      <3>1. Len(s) \in Nat /\ Len(s) > 0
        BY <1>2
      <3> QED BY <2>1, <3>1, NoItems
    <2>2. CASE d = e
      <3>1. Len(s) \in Nat /\ Len(e) \in Nat
        BY <1>2, <1>3
      <3> QED BY <1>3, <2>2, <3>1
    <2> QED BY <1>4, <2>1, <2>2
  <1>6. /\ inbox' \subseteq inbox /\ failures' \in Nat /\ waited' \subseteq Messages
        /\ fate' \in [Messages -> Fates] /\ fate' = fate /\ Saved' = Saved
        /\ disturbed \in BOOLEAN
    BY <1>0, <1>1 DEF TypeOK, Saved
  <1>7. disturbed' \in BOOLEAN /\ (~disturbed' => ~disturbed)
    BY <1>1, <1>6
  <1>8. ~disturbed' => MsgsOf(d) = MsgsOf(s)
    <2>1. ~disturbed' => ~(Len(d) < Len(s))
      BY <1>1, Zenon
    <2> QED BY <1>5, <2>1
  <1> QED BY <1>1, <1>4, <1>5, <1>6, <1>7, <1>8, LateGoesOn DEF s

LEMMA LateFailsStep ==
  ASSUME MessageInv, NEW z \in zombies, LateFails(z) PROVE MessageInv'
  <1>0. TypeOK
    BY DEF MessageInv
  <1>1. /\ zombies' = zombies \ {z} /\ pending' = PutBack(<<>>)
        /\ givenBack' = givenBack \cup MsgsOf(<<>>) /\ disturbed' = TRUE
        /\ UNCHANGED <<phase, batch, at, stale, superseded, inbox, transcript, stopFile, stopped,
                       preempted, rearming, sends, failures, stops, escapes, restarts, fate,
                       waited, torn>>
    BY DEF LateFails, LateEnd, loop, durable, bounds
  <1>2. /\ inbox' \subseteq inbox /\ failures' \in Nat /\ waited' \subseteq Messages
        /\ preempted' \in BOOLEAN /\ fate' \in [Messages -> Fates] /\ fate' = fate
        /\ Saved' = Saved
    BY <1>0, <1>1 DEF TypeOK, Saved
  <1>3. /\ <<>> \in Seq(Items) /\ MsgsOf(<<>>) = {} /\ OrdinaryMsgs(<<>>) = {}
        /\ UnshownMsgs(<<>>) = {} /\ Distinct(<<>>)
    BY NoItems
  <1> QED BY <1>1, <1>2, <1>3, LateGoesOn
-----------------------------------------------------------------------------
LEMMA MessageInit == Init => MessageInv
  <1> SUFFICES ASSUME Init PROVE MessageInv
    OBVIOUS
  <1> USE DEF Init
  <1>1. Backlog = <<>>
    BY DEF Backlog
  <1>2. InMemory = {} /\ zombies = {} /\ Saved = {} /\ ToSet(transcript) = {} /\ transcript \in Seq(Messages)
    BY <1>1, NoItems DEF InMemory, InZombies, Saved, ToSet
  <1>3. \A m \in Messages : fate[m] = "unsent"
    OBVIOUS
  <1>4. LoopOK
    BY NoItems DEF LoopOK
  <1>5. TypeOK
    <2>1. fate \in [Messages -> Fates]
      BY DEF Fates
    <2>2. {sends, failures, stops, escapes, restarts} \subseteq Nat
      OBVIOUS
    <2>3. /\ inbox \subseteq Markers /\ stopFile \in BOOLEAN /\ stopped \in BOOLEAN
          /\ preempted \in BOOLEAN /\ rearming \subseteq Markers
          /\ waited \subseteq Messages /\ torn \subseteq Messages /\ disturbed \in BOOLEAN
          /\ zombies \subseteq Zombies /\ givenBack \subseteq Messages
      OBVIOUS
    <2> QED BY ONLY <1>2, <1>4, <2>1, <2>2, <2>3 DEF TypeOK, LoopOK
  <1>6. MemoryOK
    BY <1>1, <1>2, NoItems DEF MemoryOK
  <1>6a. LateOK
    BY <1>2 DEF LateOK
  <1>7. DiskOK
    <2>1. MaxSends \in Nat
      BY BoundsAssumption
    <2>2. 0 <= MaxSends
      BY <2>1
    <2> QED BY <1>2, <2>2, FS_EmptySet DEF DiskOK
  <1>8. StopOK
    BY <1>3 DEF StopOK, Quiet
  <1>9. DeadOK /\ AcceptedIsKept /\ HandledOnce /\ AcceptedIsHeld
    BY <1>3 DEF DeadOK, AcceptedIsKept, HandledOnce, AcceptedIsHeld
  <1>10. ShowOK
    <2>1. ShownOnce
      BY DEF ShownOnce
    <2> QED BY <1>2, <2>1 DEF ShowOK
  <1> QED BY <1>4, <1>5, <1>6, <1>6a, <1>7, <1>8, <1>9, <1>10 DEF MessageInv

LEMMA MessageStutter == MessageInv /\ UNCHANGED vars => MessageInv'
  <1> SUFFICES ASSUME MessageInv, UNCHANGED vars PROVE MessageInv'
    OBVIOUS
  <1>0. TypeOK /\ LoopOK /\ DiskOK /\ ShowOK /\ StopOK
    BY DEF MessageInv
  <1>1. UNCHANGED <<inbox, transcript, stopFile, stopped, pending, phase, batch, at, stale,
                    superseded, preempted, zombies, rearming, sends, failures, stops, escapes,
                    restarts, fate, waited, torn, disturbed, givenBack>>
    BY DEF vars, durable, loop, bounds, history
  <1>2. LoopOK' /\ Backlog' = Backlog /\ ToShow' = ToShow /\ Quiet' = Quiet /\ Saved' = Saved
    BY <1>0, <1>1 DEF LoopOK, Backlog, Rest, ToShow, Quiet, Saved
  <1>3. DiskOK' /\ ShowOK'
    BY <1>0, <1>1, <1>2 DEF DiskOK, ShowOK, ShownOnce
  <1>4. Quiet' \/ (~stale /\ ~stopped)
    BY <1>0, <1>2 DEF StopOK
  <1>5. /\ inbox' \subseteq Markers /\ transcript' \in Seq(Messages) /\ failures' \in Nat
        /\ failures' = 0 => failures = 0
        /\ preempted' \in BOOLEAN
        /\ Saved \subseteq Saved' /\ Saved' \subseteq Saved
    BY <1>0, <1>1, <1>2 DEF TypeOK
  <1>6. /\ UNCHANGED <<stopFile, stopped, pending, batch, stale, rearming, sends, stops,
                       escapes, restarts, fate, waited, torn, disturbed, givenBack>>
        /\ zombies' = zombies
    BY <1>1
  <1> QED BY <1>2, <1>3, <1>4, <1>5, <1>6, MemoryStays

LEMMA MessageNext == MessageInv /\ [Next]_vars => MessageInv'
  <1> SUFFICES ASSUME MessageInv, [Next]_vars PROVE MessageInv'
    OBVIOUS
  <1>1. CASE \E priority, hits \in BOOLEAN : Send(priority, hits)
    BY <1>1, SendStep
  <1>2. CASE Deliver
    BY <1>2, ResolveStep, ResolveFailsStep, AppendEntryStep, MarkDisplayedStep, StartRunStep,
       LoopThrowsStep, CompletesStep, WaitsStep, AbortsStep, RunFailsStep, GivenUpStep
       DEF Deliver
  <1>3. CASE OtherWake \/ \E hits \in BOOLEAN : UserTurn(hits)
    BY <1>3, OtherWakeStep, UserTurnStep
  <1>4. CASE \E saved \in BOOLEAN : Stop(saved)
    BY <1>4, StopStep
  <1>5. CASE Resume \/ Restart
    BY <1>5, ResumeStep, RestartStep
  <1>6. CASE \E x \in rearming : Rearm(x) \/ RearmFails(x)
    BY <1>6, RearmStep, RearmFailsStep
  <1>7. CASE \E z \in zombies : Late(z)
    BY <1>7, LateCompletesStep, LateWaitsStep, LateAbortsStep, LateFailsStep DEF Late
  <1>8. CASE UNCHANGED vars
    BY <1>8, MessageStutter
  <1> QED BY <1>1, <1>2, <1>3, <1>4, <1>5, <1>6, <1>7, <1>8 DEF Next

\* The inductive invariant holds in every state.
THEOREM MessageInvariant == Spec => []MessageInv
  <1> QED BY MessageInit, MessageNext, PTL DEF Spec

\* The variables keep their types; a loop that is under way is in its batch, and an idle
\* one has none.
THEOREM MessageTypes == Spec => []TypeOK
  <1>1. MessageInv => TypeOK
    BY DEF MessageInv
  <1> QED BY <1>1, MessageInvariant, PTL

\* A message whose sender was told that it is safe stays on disk until a wake completed
\* it or a stop cancelled it.
THEOREM MessageKept == Spec => []AcceptedIsKept
  <1>1. MessageInv => AcceptedIsKept
    BY DEF MessageInv
  <1> QED BY <1>1, MessageInvariant, PTL

\* A saved stop is final: what it cancelled is only left in a batch that unwinds, or in
\* a run given up that knows of the stop.
THEOREM StopIsFinal == Spec => []CancelledStaysDead
  <1>1. ASSUME MessageInv PROVE CancelledStaysDead
    <2> SUFFICES ASSUME NEW m \in Messages, fate[m] = "cancelled"
                 PROVE  /\ m \notin MsgsOf(pending) /\ ~Rearming(m)
                        /\ m \in MsgsOf(batch) => stale /\ Quiet
                        /\ \A z \in zombies : m \in MsgsOf(z.rest) => z.stale
      BY DEF CancelledStaysDead
    <2>1. /\ m \notin MsgsOf(pending) /\ ~Rearming(m)
          /\ m \in MsgsOf(batch) => stale
          /\ \A z \in zombies : m \in MsgsOf(z.rest) => z.stale
      BY <1>1 DEF MessageInv, DeadOK
    <2>2. stale => Quiet
      BY <1>1 DEF MessageInv, StopOK
    <2> QED BY <2>1, <2>2
  <1> QED BY <1>1, MessageInvariant, PTL

\* A handled message is not handed over again, unless a write failed.
THEOREM MessageHandledOnce == Spec => []HandledOnce
  <1>1. MessageInv => HandledOnce
    BY DEF MessageInv
  <1> QED BY <1>1, MessageInvariant, PTL

\* A message is shown twice only across a torn write, and beyond the window.
THEOREM MessageShownOnce == Spec => []ShownOnce
  <1>1. MessageInv => ShownOnce
    BY DEF MessageInv, ShowOK
  <1> QED BY <1>1, MessageInvariant, PTL

\* Without restarts ordinary messages are gone through in the order they were sent.
THEOREM MessageOrder == Spec => []SendOrder
  <1>1. ASSUME MessageInv PROVE SendOrder
    <2> DEFINE s == OrdinaryOf(Backlog)
    <2> SUFFICES ASSUME restarts = 0, NEW i \in DOMAIN s, NEW j \in DOMAIN s, i < j
                 PROVE  s[i].msg < s[j].msg \/ s[j].msg \in givenBack
      BY DEF SendOrder
    <2>1. Backlog \in Seq(Items) /\ Ascends(Backlog, givenBack)
      BY <1>1, BacklogParts DEF MessageInv, MemoryOK
    <2>2. Ascends(s, givenBack) /\ \A k \in DOMAIN s : s[k] \in Items \ Priority
      BY <2>1, ThoseQueue DEF OrdinaryOf
    <2> HIDE DEF s
    <2>3. \A k \in DOMAIN s : ~s[k].priority
      BY <2>2 DEF Priority
    <2> QED BY <2>2, <2>3 DEF Ascends
  <1> QED BY <1>1, MessageInvariant, PTL

\* Nothing is queued without a loop, but for what a run given up put back.
LEMMA QueueServed ==
  ASSUME MessageInv, QueuedHasLoop, [Next]_vars
  PROVE  QueuedHasLoop'
  <1>0. TypeOK /\ LoopOK
    BY DEF MessageInv
  <1>1. failures \in Nat /\ pending \in Seq(Items)
    BY <1>0 DEF TypeOK
  <1>2. MsgsOf(<<>>) = {}
    BY NoItems
  <1>3. ASSUME pending' = <<>> PROVE QueuedHasLoop'
    BY <1>2, <1>3 DEF QueuedHasLoop
  <1>4. ASSUME NEW q, Continue(q) PROVE QueuedHasLoop'
    BY <1>3, <1>4 DEF Continue
  <1>5. ASSUME NEW q, Revive(q) PROVE QueuedHasLoop'
    BY <1>4, <1>5 DEF Revive, loop, QueuedHasLoop
  <1>6. ASSUME phase' # "idle" PROVE QueuedHasLoop'
    BY <1>6 DEF QueuedHasLoop
  <1>7. ASSUME pending' = pending, phase' = phase, givenBack' = givenBack,
               failures' = 0 => failures = 0
        PROVE  QueuedHasLoop'
    BY <1>7 DEF QueuedHasLoop
  <1>8. CASE \E priority, hits \in BOOLEAN : Send(priority, hits)
    <2>1. PICK q : Revive(q)
      BY <1>8 DEF Send
    <2> QED BY <1>5, <2>1
  <1>9. CASE Resolve \/ StartRun
    BY <1>4, <1>6, <1>9 DEF Resolve, StartRun
  <1>10. CASE ResolveFails \/ RunFails \/ Waits \/ Aborts \/ GivenUp
    BY <1>4, <1>10 DEF ResolveFails, RunFails, Waits, Aborts, GivenUp
  <1>11. CASE AppendEntry \/ MarkDisplayed
    BY <1>6, <1>11 DEF AppendEntry, MarkDisplayed
  <1>12. CASE LoopThrows
    BY <1>1, <1>12 DEF LoopThrows, QueuedHasLoop
  <1>13. CASE Completes
    <2>1. phase' = "running" \/ Continue(PutBack(Unreached))
      BY <1>13 DEF Completes
    <2> QED BY <1>4, <1>6, <2>1
  <1>14. CASE OtherWake \/ \E hits \in BOOLEAN : UserTurn(hits)
    BY <1>7, <1>14 DEF OtherWake, UserTurn, loop, bounds, history
  <1>15. CASE Resume \/ Restart \/ \E saved \in BOOLEAN : Stop(saved)
    BY <1>3, <1>15 DEF Resume, Restart, Stop
  <1>16. CASE \E x \in rearming : Rearm(x) \/ RearmFails(x)
    <2> PICK x \in rearming : Rearm(x) \/ RearmFails(x)
      BY <1>16
    <2>1. CASE Rearm(x)
      BY <1>5, <2>1 DEF Rearm
    <2>2. CASE RearmFails(x)
      BY <1>1, <1>7, <2>2 DEF RearmFails, WritesInbox, loop
    <2> QED BY <2>1, <2>2
  <1>17. CASE \E z \in zombies : Late(z)
    <2> PICK z \in zombies : Late(z)
      BY <1>17
    <2>1. ASSUME NEW d \in Seq(Items), LateEnd(z, d), phase' = phase,
                 failures' = 0 => failures = 0
          PROVE  QueuedHasLoop'
      <3>1. MsgsOf(pending') = MsgsOf(d) \cup MsgsOf(pending)
        BY <1>1, <2>1, PutBackQueue DEF LateEnd
      <3> QED BY <2>1, <3>1 DEF LateEnd, QueuedHasLoop
    <2>2. AllShown(Tail(z.rest)) \in Seq(Items) /\ z.rest \in Seq(Items)
      BY <1>0, LateParts DEF TypeOK, Zombies
    <2>3. CASE LateCompletes(z)
      <3>1. /\ phase' = phase /\ (failures' = 0 => failures = 0)
            /\ \/ pending' = pending /\ givenBack' = givenBack
               \/ LateEnd(z, AllShown(Tail(z.rest)))
        BY <1>1, <2>3 DEF LateCompletes, Settles, WritesInbox, UnreachedLate, loop
      <3> QED BY <1>7, <2>1, <2>2, <3>1
    <2>4. CASE LateWaits(z)
      BY <2>1, <2>2, <2>4 DEF LateWaits, UnreachedLate, loop, bounds
    <2>5. CASE LateAborts(z)
      <3> DEFINE d == IF ~preempted \/ z.stale \/ stopped THEN <<>> ELSE Redrivable(z.rest)
      <3>1. LateEnd(z, d) /\ phase' = phase /\ failures' = failures
        BY <2>5 DEF LateAborts, loop, bounds
      <3>2. Redrivable(z.rest) \in Seq(Items)
        BY <2>2, RedriveQueue
      <3>3. d \in Seq(Items)
        BY <3>2
      <3> QED BY <2>1, <3>1, <3>3
    <2>6. CASE LateFails(z)
      <3>1. LateEnd(z, <<>>) /\ phase' = phase /\ failures' = failures
        BY <2>6 DEF LateFails, loop, bounds
      <3> QED BY <2>1, <3>1, NoItems
    <2> QED BY <2>3, <2>4, <2>5, <2>6 DEF Late
  <1>18. CASE UNCHANGED vars
    BY <1>7, <1>18 DEF vars, loop, bounds, history
  <1> QED BY <1>8, <1>9, <1>10, <1>11, <1>12, <1>13, <1>14, <1>15, <1>16, <1>17, <1>18
          DEF Next, Deliver

\* While no write failed, what is queued has a loop that will take it, whatever is given
\* up, interrupted, stopped or restarted: only what a run given up put back may not.
THEOREM MessageServed == Spec => []QueuedHasLoop
  <1>1. Init => QueuedHasLoop
    BY NoItems DEF Init, QueuedHasLoop
  <1> QED BY <1>1, QueueServed, MessageInvariant, PTL DEF Spec

\* No accepted message is left to the next process, unless a run, a session or the loop
\* failed or an abort set work aside, nor to a queue without a loop.
THEOREM MessageNotStranded == Spec => []NoneStranded
  <1>1. MessageInv => AcceptedIsHeld
    BY DEF MessageInv
  <1>2. AcceptedIsHeld /\ QueuedHasLoop => NoneStranded
    BY DEF NoneStranded
  <1> QED BY <1>1, <1>2, MessageServed, MessageInvariant, PTL

\* Every run of the loop that ends leaves the process less to do.
LEMMA RunEnds ==
  ASSUME MessageInv, phase = "running", [Next]_vars
  PROVE  <<phase, at>>' # <<phase, at>> => Work(Backlog') < Work(Backlog)
  <1>0. LoopOK
    BY DEF MessageInv
  <1>1. /\ Work(Backlog) = Work(Rest(at)) + Work(pending)
        /\ pending \in Seq(Items) /\ Rest(at) \in Seq(Items) /\ Backlog \in Seq(Items)
    BY <1>0, BacklogParts DEF Left
  <1>2. Work(Rest(at + 1)) < Work(Rest(at)) /\ Rest(at + 1) \in Seq(Items) /\ Len(Rest(at)) > 0
    BY AtParts
  <1>3. /\ Work(Backlog) \in Nat /\ Work(Rest(at)) \in Nat /\ Work(pending) \in Nat
        /\ Work(Rest(at + 1)) \in Nat
    BY <1>1, <1>2, WorkType
  <1>4. Work(Rest(at)) >= Len(Rest(at)) /\ Len(Rest(at)) \in Nat
    BY <1>1, WorkBounds
  <1>5. Work(pending) < Work(Backlog)
    BY <1>1, <1>2, <1>3, <1>4
  <1>6. ASSUME NEW q, Keepable(q), Work(q) < Work(Backlog), Continue(q)
        PROVE  Work(Backlog') < Work(Backlog)
    <2>1. q \in Seq(Items)
      BY <1>6 DEF Keepable
    <2>2. Work(Backlog') <= Work(q) /\ Backlog' \in Seq(Items)
      <3>1. LoopOK' /\ Work(Backlog') <= Work(q) /\ Backlog' = batch'
        BY <1>6, <2>1, ContinueEffect
      <3> QED BY <3>1 DEF LoopOK
    <2>3. Work(q) \in Nat /\ Work(Backlog') \in Nat
      BY <2>1, <2>2, WorkType
    <2> QED BY <1>3, <1>6, <2>2, <2>3
  <1>7. Keepable(pending)
    BY KeepPending
  <1>8. CASE Completes
    <2> DEFINE q == PutBack(Unreached)
    <2>1. ~stale /\ \/ phase' = phase /\ batch' = batch /\ at' = at + 1 /\ pending' = pending
                    \/ Continue(q)
      BY <1>8 DEF Completes, IsCurrent
    <2>2. Keepable(q) /\ Work(q) < Work(Backlog)
      BY <2>1, KeepUnreached
    <2> HIDE DEF q
    <2>3. CASE Continue(q)
      BY <1>6, <2>2, <2>3
    <2>4. CASE phase' = phase /\ batch' = batch /\ at' = at + 1 /\ pending' = pending
      <3>1. Backlog' = Rest(at + 1) \o pending
        BY <2>4 DEF Backlog, Rest
      <3>2. Work(Backlog') = Work(Rest(at + 1)) + Work(pending)
        BY <1>1, <1>2, <3>1, ConcatQueue
      <3> QED BY <1>1, <1>2, <1>3, <3>2
    <2> QED BY <2>1, <2>3, <2>4
  <1>9. CASE Waits
    <2>1. ~stale /\ Continue(PutBack(Unreached))
      BY <1>9 DEF Waits, IsCurrent, KeptInMemory
    <2> QED BY <1>6, <2>1, KeepUnreached
  <1>10. CASE Aborts
    <2> DEFINE d == Redrivable(Rest(at))  g == PutBack(d)
    <2>1. Continue(pending) \/ (~stale /\ Continue(g))
      <3>1. Continue(PutBack(IF ~preempted \/ stale \/ stopped THEN <<>> ELSE d))
        BY <1>10 DEF Aborts
      <3>2. PutBack(<<>>) = pending
        BY DEF PutBack
      <3> QED BY <3>1, <3>2
    <2>2. ~stale => Keepable(g) /\ Work(g) < Work(Backlog)
      BY KeepRedriven
    <2> HIDE DEF g
    <2> QED BY <1>5, <1>6, <1>7, <2>1, <2>2
  <1>11. CASE RunFails \/ GivenUp
    BY <1>5, <1>6, <1>7, <1>11 DEF RunFails, GivenUp
  <1>12. CASE Restart
    <2>1. Backlog' = <<>>
      BY <1>12 DEF Restart, Backlog
    <2> QED BY <1>3, <1>5, <2>1, NoItems
  <1>13. CASE \E priority, hits \in BOOLEAN : Send(priority, hits)
    BY <1>13 DEF Send, Revive, loop
  <1>14. CASE \E x \in rearming : Rearm(x) \/ RearmFails(x)
    BY <1>14 DEF Rearm, RearmFails, Revive, loop
  <1>15. CASE \/ Resume \/ OtherWake \/ UNCHANGED vars
              \/ \E hits \in BOOLEAN : UserTurn(hits)
              \/ \E saved \in BOOLEAN : Stop(saved)
    BY <1>15 DEF UserTurn, OtherWake, Resume, Stop, loop, vars
  <1>16. CASE \/ Resolve \/ ResolveFails \/ AppendEntry \/ MarkDisplayed \/ StartRun
              \/ LoopThrows
    BY <1>16 DEF Resolve, ResolveFails, AppendEntry, MarkDisplayed, StartRun, LoopThrows
  <1>17. CASE \E z \in zombies : Late(z)
    BY <1>17 DEF Late, LateCompletes, LateWaits, LateAborts, LateFails, loop
  <1> QED BY <1>8, <1>9, <1>10, <1>11, <1>12, <1>13, <1>14, <1>15, <1>16, <1>17 DEF Next, Deliver

\* A run given up that ends puts back less than it had.
LEMMA LateRunEnds ==
  ASSUME MessageInv, [Next]_vars, NEW z \in zombies, z \notin zombies'
  PROVE  Work(Backlog') < Work(Backlog) + Work(z.rest)
  <1>0. TypeOK /\ LoopOK
    BY DEF MessageInv
  <1>1. /\ Work(Backlog) = Work(Left) + Work(pending) /\ Backlog = Left \o pending
        /\ pending \in Seq(Items) /\ Left \in Seq(Items) /\ Backlog \in Seq(Items)
    BY <1>0, BacklogParts
  <1>2. /\ Work(Backlog) \in Nat /\ Work(Left) \in Nat /\ Work(pending) \in Nat
    BY <1>1, WorkType
  <1>3. \A y \in zombies : /\ y.rest \in Seq(Items) /\ Work(y.rest) \in Nat
                           /\ Len(y.rest) \in Nat /\ Work(y.rest) > 0 /\ Len(y.rest) > 0
    <2> SUFFICES ASSUME NEW y \in zombies
                 PROVE  /\ y.rest \in Seq(Items) /\ Work(y.rest) \in Nat
                        /\ Len(y.rest) \in Nat /\ Work(y.rest) > 0 /\ Len(y.rest) > 0
      OBVIOUS
    <2>1. y.rest \in Seq(Items) /\ y.rest # <<>>
      BY DEF MessageInv, LateOK, TypeOK, Zombies
    <2>2. Len(y.rest) \in Nat /\ Len(y.rest) > 0
      BY <2>1
    <2>3. Work(y.rest) \in Nat /\ Work(y.rest) >= Len(y.rest)
      BY <2>1, WorkBounds
    <2> QED BY <2>1, <2>2, <2>3
  <1>4. CASE \E hits \in BOOLEAN : UserTurn(hits)
    <2>1. Backlog' = Backlog
      BY <1>4 DEF UserTurn, Backlog, Rest
    <2> QED BY <1>2, <1>3, <2>1
  <1>5. CASE \E saved \in BOOLEAN : Stop(saved)
    <2>1. pending' = <<>> /\ phase' = phase /\ batch' = batch /\ at' = at
      BY <1>5 DEF Stop
    <2>2. Backlog' = Left
      BY <1>1, <2>1 DEF Backlog, Left, Rest
    <2> QED BY <1>1, <1>2, <1>3, <2>2
  <1>6. CASE Restart
    <2>1. Backlog' = <<>>
      BY <1>6 DEF Restart, Backlog
    <2>2. Work(Backlog') = 0
      BY <2>1, NoItems
    <2> QED BY <1>2, <1>3, <2>2
  <1>7. CASE \E y \in zombies : Late(y)
    <2> PICK y \in zombies : Late(y)
      BY <1>7
    <2>1. phase' = phase /\ batch' = batch /\ at' = at
      BY DEF Late, LateCompletes, LateWaits, LateAborts, LateFails, loop
    <2>2. ASSUME NEW d \in Seq(Items), LateEnd(y, d), Work(d) < Work(y.rest)
          PROVE  Work(Backlog') < Work(Backlog) + Work(z.rest)
      <3>1. z = y
        BY <2>2 DEF LateEnd
      <3>2. /\ PutBack(d) \in Seq(Items) /\ Work(PutBack(d)) = Work(d) + Work(pending)
            /\ Work(d) \in Nat
        BY <1>1, PutBackQueue, WorkType
      <3>3. Backlog' = Left \o PutBack(d)
        BY <2>1, <2>2 DEF LateEnd, Backlog, Left, Rest
      <3>4. Work(Backlog') = Work(Left) + Work(PutBack(d))
        BY <1>1, <3>2, <3>3, ConcatQueue
      <3> QED BY <1>1, <1>2, <1>3, <2>2, <3>1, <3>2, <3>4
    <2>3. /\ AllShown(Tail(y.rest)) \in Seq(Items)
          /\ Work(AllShown(Tail(y.rest))) < Work(y.rest)
      BY LateParts
    <2>4. CASE LateCompletes(y)
      <3>1. pending' = pending \/ LateEnd(y, AllShown(Tail(y.rest)))
        BY <2>4 DEF LateCompletes, UnreachedLate
      <3>2. CASE pending' = pending
        <4>1. Backlog' = Backlog
          BY <2>1, <3>2 DEF Backlog, Rest
        <4> QED BY <1>2, <1>3, <4>1
      <3> QED BY <2>2, <2>3, <3>1, <3>2
    <2>5. CASE LateWaits(y)
      BY <2>2, <2>3, <2>5 DEF LateWaits, UnreachedLate
    <2>6. CASE LateAborts(y)
      <3> DEFINE e == Redrivable(y.rest)
                 d == IF ~preempted \/ y.stale \/ stopped THEN <<>> ELSE e
      <3>1. LateEnd(y, d)
        BY <2>6 DEF LateAborts
      <3>2. e \in Seq(Items) /\ Work(e) + Len(y.rest) = Work(y.rest)
        BY <1>3, RedriveQueue
      <3>3. Work(e) \in Nat
        BY <3>2, WorkType
      <3> HIDE DEF e
      <3>4. Work(e) < Work(y.rest)
        BY <1>3, <3>2, <3>3
      <3>5. d \in Seq(Items) /\ Work(d) < Work(y.rest)
        BY <1>3, <3>2, <3>4, NoItems
      <3> HIDE DEF d
      <3> QED BY <2>2, <3>1, <3>5
    <2>7. CASE LateFails(y)
      <3>1. LateEnd(y, <<>>) /\ <<>> \in Seq(Items) /\ Work(<<>>) < Work(y.rest)
        BY <1>3, <2>7, NoItems DEF LateFails
      <3> QED BY <2>2, <3>1
    <2> QED BY <2>4, <2>5, <2>6, <2>7 DEF Late
  <1>8. CASE Deliver
    BY <1>8 DEF Deliver, Resolve, ResolveFails, AppendEntry, MarkDisplayed, StartRun, LoopThrows,
                Completes, Waits, Aborts, RunFails, GivenUp
  <1>9. CASE \/ \E priority, hits \in BOOLEAN : Send(priority, hits)
             \/ \E x \in rearming : Rearm(x) \/ RearmFails(x)
             \/ OtherWake \/ Resume \/ UNCHANGED vars
    BY <1>9 DEF Send, Rearm, RearmFails, OtherWake, Resume, vars
  <1> QED BY <1>4, <1>5, <1>6, <1>7, <1>8, <1>9 DEF Next

\* However often users and peers preempt it, every run that returns leaves the loop less
\* to do, so it comes to an end; one given up never puts back as much as it had.
THEOREM LoopProgress == Spec => RunsMakeProgress
  <1>1. MessageInv /\ [Next]_vars =>
          [/\ phase = "running" /\ <<phase, at>>' # <<phase, at>> =>
                Work(Backlog') < Work(Backlog)
           /\ \A z \in zombies \ zombies' :
                Work(Backlog') < Work(Backlog) + Work(z.rest)]_vars
    BY RunEnds, LateRunEnds
  <1> QED BY <1>1, MessageInvariant, PTL DEF Spec, RunsMakeProgress
=============================================================================
