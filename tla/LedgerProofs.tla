---------------------------- MODULE LedgerProofs ----------------------------
(***************************************************************************)
(* Proofs about PromptAcceptanceLedger: for any nonces, any capacity and   *)
(* any sequence of failed writes, crashes and damages, whatever the ledger *)
(* has wrong lies in a gap it declares.                                    *)
(***************************************************************************)
EXTENDS PromptAcceptanceLedger, SequenceLemmas

Unique(recs) == \A i, j \in DOMAIN recs : recs[i].nonce = recs[j].nonce => i = j
Recs == {recs \in Seq(Record) : Unique(recs)}
Kept == {recs \in Recs : Len(recs) <= MaxRecords}
Instants == Times \cup {NoTime}
Windows == [from : Times, to : Times]
AnyGaps == [horizon : Instants, windows : Seq(Windows), reset : Instants]
Gaps == {g \in AnyGaps : Len(g.windows) <= MaxDegradedWindows}
Spans == [from : Instants, to : Instants]

\* The gaps g admit to what was done with a nonce recorded at time at and changed
\* last in the span c.
Admits(g, at, c) ==
  \/ g.horizon >= at
  \/ \E i \in DOMAIN g.windows : g.windows[i].from <= c.to /\ g.windows[i].to >= at
  \/ g.reset >= c.from

-----------------------------------------------------------------------------
(* The records. *)

LEMMA StatusesFacts == "none" \notin Statuses /\ "pending" \in Statuses
  BY BoundsAssumption DEF Statuses

LEMMA StatusKnown ==
  ASSUME NEW recs \in Recs, NEW i \in DOMAIN recs
  PROVE  /\ PlaceOf(recs, recs[i].nonce) = i
         /\ StatusIn(recs, recs[i].nonce) = recs[i].status
         /\ recs[i].status # "none" /\ recs[i] \in Record
  <1>1. recs \in Seq(Record) /\ Unique(recs)
    BY DEF Recs
  <1>2. recs[i] \in Record
    BY <1>1
  <1>3. PlaceOf(recs, recs[i].nonce) = i
    BY <1>1 DEF PlaceOf, Unique
  <1>4. recs[i].nonce \in NoncesOf(recs)
    BY DEF NoncesOf
  <1> QED BY <1>2, <1>3, <1>4, StatusesFacts DEF StatusIn, Record

LEMMA StatusUnknown ==
  ASSUME NEW recs \in Recs, NEW n
  PROVE  n \in NoncesOf(recs) <=> StatusIn(recs, n) # "none"
  <1>1. CASE n \in NoncesOf(recs)
    <2>1. PICK i \in DOMAIN recs : n = recs[i].nonce
      BY <1>1 DEF NoncesOf
    <2> QED BY <1>1, <2>1, StatusKnown
  <1>2. CASE n \notin NoncesOf(recs)
    BY <1>2 DEF StatusIn
  <1> QED BY <1>1, <1>2

\* Two ledgers that hold the same record of a nonce give it the same status.
LEMMA SameStatus ==
  ASSUME NEW recs \in Recs, NEW new \in Recs, NEW n,
         \A i \in DOMAIN recs : recs[i].nonce = n =>
            \E k \in DOMAIN new : new[k].nonce = n /\ new[k].status = recs[i].status,
         \A k \in DOMAIN new : new[k].nonce = n => \E i \in DOMAIN recs : recs[i].nonce = n
  PROVE  StatusIn(new, n) = StatusIn(recs, n)
  <1>1. CASE n \in NoncesOf(recs)
    <2>1. PICK i \in DOMAIN recs : recs[i].nonce = n
      BY <1>1 DEF NoncesOf
    <2>2. PICK k \in DOMAIN new : new[k].nonce = n /\ new[k].status = recs[i].status
      BY <2>1
    <2> QED BY <2>1, <2>2, StatusKnown
  <1>2. CASE n \notin NoncesOf(recs)
    <2>1. n \notin NoncesOf(new)
      BY <1>2 DEF NoncesOf
    <2> QED BY <1>2, <2>1 DEF StatusIn
  <1> QED BY <1>1, <1>2

LEMMA AppendRecord ==
  ASSUME NEW recs \in Recs, NEW r \in Record, r.nonce \notin NoncesOf(recs)
  PROVE  LET new == Append(recs, r)
         IN  /\ new \in Recs /\ Len(new) = Len(recs) + 1 /\ new[Len(recs) + 1] = r
             /\ StatusIn(new, r.nonce) = r.status
             /\ \A n : n # r.nonce => StatusIn(new, n) = StatusIn(recs, n)
             /\ \A k \in DOMAIN new : new[k] = r \/ \E i \in DOMAIN recs : k = i /\ new[k] = recs[i]
  <1> DEFINE new == Append(recs, r)
  <1>0. recs \in Seq(Record) /\ Unique(recs)
    BY DEF Recs
  <1>1. /\ new \in Seq(Record) /\ Len(recs) \in Nat /\ Len(new) = Len(recs) + 1
        /\ DOMAIN recs = 1 .. Len(recs) /\ DOMAIN new = 1 .. Len(recs) + 1
        /\ new[Len(recs) + 1] = r /\ \A k \in 1 .. Len(recs) : new[k] = recs[k]
    BY <1>0
  <1> HIDE DEF new
  <1>2. \A k \in DOMAIN new : new[k] = r \/ \E i \in DOMAIN recs : k = i /\ new[k] = recs[i]
    BY <1>1
  <1>3. Unique(new)
    BY <1>0, <1>1 DEF Unique, NoncesOf
  <1>4. new \in Recs
    BY <1>1, <1>3 DEF Recs
  <1>5. StatusIn(new, r.nonce) = r.status
    <2>1. Len(recs) + 1 \in DOMAIN new
      BY <1>1
    <2> QED BY <1>1, <1>4, <2>1, StatusKnown
  <1>6. ASSUME NEW n, n # r.nonce PROVE StatusIn(new, n) = StatusIn(recs, n)
    <2>1. \A i \in DOMAIN recs : i \in DOMAIN new /\ new[i] = recs[i]
      BY <1>1
    <2>2. \A i \in DOMAIN recs : recs[i].nonce = n =>
            \E k \in DOMAIN new : new[k].nonce = n /\ new[k].status = recs[i].status
      BY <2>1
    <2>3. \A k \in DOMAIN new : new[k].nonce = n => \E i \in DOMAIN recs : recs[i].nonce = n
      BY <1>2, <1>6
    <2> QED BY <1>4, <2>2, <2>3, SameStatus
  <1> QED BY <1>1, <1>2, <1>4, <1>5, <1>6 DEF new

LEMMA RemoveRecord ==
  ASSUME NEW recs \in Recs, NEW i \in DOMAIN recs
  PROVE  LET new == RemoveAt(recs, i)
         IN  /\ new \in Recs /\ Len(new) = Len(recs) - 1
             /\ StatusIn(new, recs[i].nonce) = "none"
             /\ \A n : n # recs[i].nonce => StatusIn(new, n) = StatusIn(recs, n)
             /\ \A k \in DOMAIN new : \E j \in DOMAIN recs : new[k] = recs[j]
  <1> DEFINE new == RemoveAt(recs, i)
  <1>0. recs \in Seq(Record) /\ Unique(recs) /\ Len(recs) \in Nat /\ DOMAIN recs = 1 .. Len(recs)
    BY DEF Recs
  <1>1. /\ new \in Seq(Record) /\ Len(new) = Len(recs) - 1
        /\ \A k \in 1 .. Len(recs) - 1 : new[k] = IF k < i THEN recs[k] ELSE recs[k + 1]
    BY <1>0, RemoveAtElements
  <1> HIDE DEF new
  <1>2. DOMAIN new = 1 .. Len(recs) - 1
    BY <1>1
  <1>3. ASSUME NEW k \in DOMAIN new
        PROVE  \E j \in DOMAIN recs : j = (IF k < i THEN k ELSE k + 1) /\ new[k] = recs[j] /\ j # i
    BY <1>0, <1>1, <1>2
  <1>4. ASSUME NEW j \in DOMAIN recs, j # i PROVE \E k \in DOMAIN new : new[k] = recs[j]
    <2>1. CASE j < i
      BY <1>0, <1>1, <1>2, <2>1
    <2>2. CASE j > i
      <3>1. j - 1 \in DOMAIN new /\ ~(j - 1 < i) /\ (j - 1) + 1 = j
        BY <1>0, <1>2, <2>2
      <3> QED BY <1>1, <1>2, <3>1
    <2> QED BY <1>0, <1>4, <2>1, <2>2
  <1>5. Unique(new)
    <2> SUFFICES ASSUME NEW a \in DOMAIN new, NEW b \in DOMAIN new, new[a].nonce = new[b].nonce
                 PROVE  a = b
      BY DEF Unique
    <2>1. PICK x \in DOMAIN recs : x = (IF a < i THEN a ELSE a + 1) /\ new[a] = recs[x]
      BY <1>3
    <2>2. PICK y \in DOMAIN recs : y = (IF b < i THEN b ELSE b + 1) /\ new[b] = recs[y]
      BY <1>3
    <2>3. x = y
      BY <1>0, <2>1, <2>2 DEF Unique
    <2> QED BY <1>0, <1>2, <2>1, <2>2, <2>3
  <1>6. new \in Recs
    BY <1>1, <1>5 DEF Recs
  <1>7. StatusIn(new, recs[i].nonce) = "none"
    <2>1. recs[i].nonce \notin NoncesOf(new)
      BY <1>0, <1>3 DEF NoncesOf, Unique
    <2> QED BY <2>1 DEF StatusIn
  <1>8. ASSUME NEW n, n # recs[i].nonce PROVE StatusIn(new, n) = StatusIn(recs, n)
    <2>1. \A j \in DOMAIN recs : recs[j].nonce = n =>
            \E k \in DOMAIN new : new[k].nonce = n /\ new[k].status = recs[j].status
      BY <1>4, <1>8
    <2>2. \A k \in DOMAIN new : new[k].nonce = n => \E j \in DOMAIN recs : recs[j].nonce = n
      BY <1>3
    <2> QED BY <1>6, <2>1, <2>2, SameStatus
  <1> QED BY <1>1, <1>3, <1>6, <1>7, <1>8 DEF new

LEMMA CompleteRecord ==
  ASSUME NEW recs \in Recs, NEW n \in NoncesOf(recs), NEW s \in Statuses
  PROVE  LET new == WithStatus(recs, n, s)
         IN  /\ new \in Recs /\ Len(new) = Len(recs)
             /\ StatusIn(new, n) = s
             /\ \A m : m # n => StatusIn(new, m) = StatusIn(recs, m)
             /\ \A k \in DOMAIN new :
                  \E j \in DOMAIN recs : new[k].nonce = recs[j].nonce /\ new[k].at = recs[j].at
  <1> DEFINE new == WithStatus(recs, n, s)
  <1>0. recs \in Seq(Record) /\ Unique(recs) /\ Len(recs) \in Nat /\ DOMAIN recs = 1 .. Len(recs)
    BY DEF Recs
  <1>1. PICK p \in DOMAIN recs : recs[p].nonce = n /\ PlaceOf(recs, n) = p /\ recs[p] \in Record
    BY StatusKnown DEF NoncesOf
  <1>2. new = [recs EXCEPT ![p] = [recs[p] EXCEPT !.status = s]]
    BY <1>1 DEF WithStatus
  <1>3. /\ [recs[p] EXCEPT !.status = s] \in Record
        /\ [recs[p] EXCEPT !.status = s].nonce = n /\ [recs[p] EXCEPT !.status = s].at = recs[p].at
        /\ [recs[p] EXCEPT !.status = s].status = s
    BY <1>1 DEF Record
  <1>4. /\ new \in Seq(Record) /\ Len(new) = Len(recs) /\ DOMAIN new = DOMAIN recs
        /\ new[p].nonce = n /\ new[p].at = recs[p].at /\ new[p].status = s
        /\ \A k \in DOMAIN recs \ {p} : new[k] = recs[k]
    BY <1>0, <1>2, <1>3, ExceptSeq
  <1> HIDE DEF new
  <1>5. \A k \in DOMAIN recs : new[k].nonce = recs[k].nonce /\ new[k].at = recs[k].at
    BY <1>1, <1>4
  <1>6. new \in Recs
    BY <1>0, <1>4, <1>5 DEF Recs, Unique
  <1>7. StatusIn(new, n) = s
    BY <1>4, <1>6, StatusKnown
  <1>8. ASSUME NEW m, m # n PROVE StatusIn(new, m) = StatusIn(recs, m)
    <2>1. \A j \in DOMAIN recs : recs[j].nonce = m =>
            \E k \in DOMAIN new : new[k].nonce = m /\ new[k].status = recs[j].status
      BY <1>1, <1>4, <1>8
    <2>2. \A k \in DOMAIN new : new[k].nonce = m => \E j \in DOMAIN recs : recs[j].nonce = m
      BY <1>4, <1>5
    <2> QED BY <1>6, <2>1, <2>2, SameStatus
  <1> QED BY <1>4, <1>5, <1>6, <1>7, <1>8 DEF new

\* evictPastCap on a ledger with one record too many at most.
LEMMA VictimExists ==
  ASSUME NEW recs \in Recs, recs # <<>>
  PROVE  /\ Victim(recs) \in DOMAIN recs
         /\ Completed(recs) # {} => recs[Victim(recs)].status # "pending"
  <1>0. recs \in Seq(Record) /\ Len(recs) \in Nat /\ DOMAIN recs = 1 .. Len(recs) /\ Len(recs) > 0
    BY DEF Recs
  <1>1. CASE Completed(recs) = {}
    BY <1>0, <1>1 DEF Victim
  <1>2. CASE Completed(recs) # {}
    <2>1. Completed(recs) \subseteq Nat
      BY <1>0 DEF Completed
    <2>2. \E i \in Completed(recs) : \A j \in Completed(recs) : i <= j
      BY <1>2, <2>1, LeastExists
    <2>3. Victim(recs) \in Completed(recs)
      BY <1>2, <2>2 DEF Victim
    <2> QED BY <2>3 DEF Completed
  <1> QED BY <1>1, <1>2

LEMMA EvictedKept ==
  ASSUME NEW recs \in Recs, Len(recs) <= MaxRecords + 1
  PROVE  /\ Evicted(recs) \in Kept
         /\ \A k \in DOMAIN Evicted(recs) : \E j \in DOMAIN recs : Evicted(recs)[k] = recs[j]
  <1>0. recs \in Seq(Record) /\ Len(recs) \in Nat /\ MaxRecords \in Nat \ {0}
    BY BoundsAssumption DEF Recs
  <1>1. CASE Len(recs) <= MaxRecords
    BY <1>1 DEF Evicted, Kept
  <1>2. CASE ~(Len(recs) <= MaxRecords)
    <2>1. recs # <<>>
      BY <1>0, <1>2
    <2>2. Victim(recs) \in DOMAIN recs
      BY <2>1, VictimExists
    <2>3. Evicted(recs) = RemoveAt(recs, Victim(recs))
      BY <1>2 DEF Evicted
    <2> QED BY <1>0, <2>2, <2>3, RemoveRecord DEF Kept
  <1> QED BY <1>1, <1>2

\* What is evicted is of before the horizon; all else is as it was.
LEMMA EvictedStatus ==
  ASSUME NEW recs \in Recs, NEW g \in Gaps, NEW n
  PROVE  \/ StatusIn(Evicted(recs), n) = StatusIn(recs, n)
         \/ \E i \in DOMAIN recs : /\ recs[i].nonce = n /\ StatusIn(Evicted(recs), n) = "none"
                                   /\ EvictionGaps(recs, g).horizon >= recs[i].at
                                   /\ recs[i].status = "pending" => Completed(recs) = {}
  <1>0. recs \in Seq(Record) /\ Len(recs) \in Nat /\ MaxRecords \in Nat \ {0}
    BY BoundsAssumption DEF Recs
  <1>1. CASE Len(recs) <= MaxRecords
    BY <1>1 DEF Evicted
  <1>2. CASE ~(Len(recs) <= MaxRecords)
    <2> DEFINE v == Victim(recs)
    <2>1. recs # <<>>
      BY <1>0, <1>2
    <2>2. /\ v \in DOMAIN recs /\ (Completed(recs) # {} => recs[v].status # "pending")
          /\ recs[v] \in Record
      BY <1>0, <2>1, VictimExists
    <2>3. /\ Evicted(recs) = RemoveAt(recs, v)
          /\ EvictionGaps(recs, g) = WithEvictionHorizon(g, recs[v].at)
      BY <1>2 DEF Evicted, EvictionGaps
    <2> HIDE DEF v
    <2>4. EvictionGaps(recs, g).horizon >= recs[v].at
      <3>1. g.horizon \in Times \cup {NoTime} /\ recs[v].at \in Times /\ g \in AnyGaps
        BY <2>2 DEF Gaps, AnyGaps, Record, Instants
      <3>2. EvictionGaps(recs, g).horizon = Latest(g.horizon, recs[v].at)
        BY <2>3, <3>1 DEF WithEvictionHorizon, AnyGaps
      <3> QED BY <3>1, <3>2, BoundsAssumption DEF Latest, Times, NoTime
    <2>5. CASE n = recs[v].nonce
      BY <2>2, <2>3, <2>4, <2>5, RemoveRecord
    <2>6. CASE n # recs[v].nonce
      BY <2>2, <2>3, <2>6, RemoveRecord
    <2> QED BY <2>5, <2>6
  <1> QED BY <1>1, <1>2

-----------------------------------------------------------------------------
(* The gaps. *)

LEMMA InstantsFacts ==
  /\ Times \subseteq Int /\ Instants \subseteq Int /\ Times \subseteq Instants
  /\ NoTime \in Instants /\ NoTime = -1 /\ \A t \in Times : t >= 0 /\ t # NoTime
  /\ \A t \in Instants : t # NoTime => t \in Times
  /\ \A a, b \in Instants : Latest(a, b) \in Instants /\ Latest(a, b) >= a /\ Latest(a, b) >= b
  /\ \A a, b \in Times : Latest(a, b) \in Times /\ Earliest(a, b) \in Times
                         /\ Earliest(a, b) <= a /\ Earliest(a, b) <= b
  BY BoundsAssumption DEF Times, Instants, NoTime, Latest, Earliest

LEMMA NoGapsTyped == NoGaps \in Gaps
  BY InstantsFacts, BoundsAssumption DEF NoGaps, Gaps, AnyGaps

LEMMA HorizonGrows ==
  ASSUME NEW g \in Gaps, NEW x \in Times
  PROVE  /\ WithEvictionHorizon(g, x) \in Gaps
         /\ \A at \in Instants, c \in Spans : Admits(g, at, c) => Admits(WithEvictionHorizon(g, x), at, c)
  <1>1. /\ WithEvictionHorizon(g, x).windows = g.windows /\ WithEvictionHorizon(g, x).reset = g.reset
        /\ WithEvictionHorizon(g, x).horizon >= g.horizon /\ WithEvictionHorizon(g, x) \in Gaps
    BY InstantsFacts DEF Gaps, AnyGaps, WithEvictionHorizon
  <1>2. g.horizon \in Int /\ WithEvictionHorizon(g, x).horizon \in Int
    BY <1>1, InstantsFacts DEF Gaps, AnyGaps
  <1> QED BY <1>1, <1>2, InstantsFacts DEF Admits

LEMMA ResetGrows ==
  ASSUME NEW g \in Gaps, NEW x \in Times
  PROVE  /\ WithCorruptReset(g, x) \in Gaps
         /\ \A at \in Instants, c \in Spans :
              Admits(g, at, c) \/ x >= c.from => Admits(WithCorruptReset(g, x), at, c)
  <1>1. /\ WithCorruptReset(g, x).windows = g.windows /\ WithCorruptReset(g, x).horizon = g.horizon
        /\ WithCorruptReset(g, x).reset >= g.reset /\ WithCorruptReset(g, x).reset >= x
        /\ WithCorruptReset(g, x) \in Gaps
    BY InstantsFacts DEF Gaps, AnyGaps, WithCorruptReset
  <1>2. g.reset \in Int /\ WithCorruptReset(g, x).reset \in Int /\ \A c \in Spans : c.from \in Int
    BY <1>1, InstantsFacts DEF Gaps, AnyGaps, Spans
  <1> QED BY <1>1, <1>2, InstantsFacts DEF Admits

\* A window w touches what was done with a nonce.
Touches(w, at, c) == w.from <= c.to /\ w.to >= at

LEMMA WindowGrows ==
  ASSUME NEW g \in Gaps, NEW w \in Windows
  PROVE  /\ WithDegradedWindow(g, w) \in Gaps
         /\ \A at \in Instants, c \in Spans :
              Admits(g, at, c) \/ Touches(w, at, c) => Admits(WithDegradedWindow(g, w), at, c)
  <1> DEFINE new == WithDegradedWindow(g, w)  ws == g.windows
  <1>0. /\ ws \in Seq(Windows) /\ Len(ws) \in Nat /\ Len(ws) <= MaxDegradedWindows /\ g \in AnyGaps
        /\ MaxDegradedWindows \in Nat \ {0} /\ DOMAIN ws = 1 .. Len(ws)
        /\ \A i \in 1 .. Len(ws) : ws[i] \in Windows
    BY BoundsAssumption DEF Gaps, AnyGaps
  <1>1. CASE Len(ws) < MaxDegradedWindows
    <2>1. new = [g EXCEPT !.windows = Append(ws, w)]
      BY <1>1 DEF WithDegradedWindow
    <2>2. /\ new \in AnyGaps /\ new.windows = Append(ws, w)
          /\ new.horizon = g.horizon /\ new.reset = g.reset
      BY <1>0, <2>1 DEF AnyGaps
    <2>3. /\ Len(Append(ws, w)) = Len(ws) + 1 /\ Append(ws, w)[Len(ws) + 1] = w
          /\ \A i \in 1 .. Len(ws) : Append(ws, w)[i] = ws[i]
          /\ DOMAIN Append(ws, w) = 1 .. Len(ws) + 1
      BY <1>0
    <2>4. new \in Gaps
      BY <1>0, <1>1, <2>2, <2>3 DEF Gaps
    <2> HIDE DEF new
    <2>5. ASSUME NEW at \in Instants, NEW c \in Spans, Admits(g, at, c) \/ Touches(w, at, c)
          PROVE  Admits(new, at, c)
      <3>1. CASE Touches(w, at, c)
        <4>1. Len(ws) + 1 \in DOMAIN new.windows
          BY <1>0, <2>2, <2>3
        <4> QED BY <2>2, <2>3, <3>1, <4>1 DEF Admits, Touches
      <3>2. CASE \E i \in DOMAIN ws : ws[i].from <= c.to /\ ws[i].to >= at
        <4>1. PICK i \in DOMAIN ws : ws[i].from <= c.to /\ ws[i].to >= at
          BY <3>2
        <4>2. i \in DOMAIN new.windows /\ new.windows[i] = ws[i]
          BY <1>0, <2>2, <2>3
        <4> QED BY <4>1, <4>2 DEF Admits
      <3> QED BY <2>2, <2>5, <3>1, <3>2 DEF Admits
    <2> QED BY <2>4, <2>5 DEF new
  <1>2. CASE ~(Len(ws) < MaxDegradedWindows)
    <2> DEFINE l == ws[Len(ws)]  m == [from |-> Earliest(l.from, w.from), to |-> Latest(l.to, w.to)]
               f == SubSeq(ws, 1, Len(ws) - 1)  all == Append(f, m)
    <2>0. Len(ws) \in 1 .. Len(ws) /\ Len(ws) = MaxDegradedWindows
      BY <1>0, <1>2
    <2>1. new = [g EXCEPT !.windows = all]
      BY <1>2 DEF WithDegradedWindow, Front, Last
    <2>2. /\ l \in Windows /\ m \in Windows /\ m.from <= l.from /\ m.from <= w.from
          /\ m.to >= l.to /\ m.to >= w.to
      <3>1. l \in Windows
        BY <1>0, <2>0
      <3> HIDE DEF l
      <3>2. l.from \in Times /\ l.to \in Times /\ w.from \in Times /\ w.to \in Times
        BY <3>1 DEF Windows
      <3> QED BY <3>1, <3>2, InstantsFacts DEF Windows
    <2>3. f \in Seq(Windows) /\ Len(f) = Len(ws) - 1 /\ \A i \in 1 .. Len(ws) - 1 : f[i] = ws[i]
      BY <1>0, <2>0
    <2> HIDE DEF f, m
    <2>4. /\ all \in Seq(Windows) /\ Len(all) = Len(ws) /\ DOMAIN all = 1 .. Len(ws)
          /\ all[Len(ws)] = m /\ \A i \in 1 .. Len(ws) - 1 : all[i] = ws[i]
      BY <1>0, <2>0, <2>2, <2>3
    <2> HIDE DEF all
    <2>5. /\ new \in AnyGaps /\ new.windows = all
          /\ new.horizon = g.horizon /\ new.reset = g.reset
      BY <1>0, <2>1, <2>4 DEF AnyGaps
    <2>6. new \in Gaps
      BY <1>0, <2>4, <2>5 DEF Gaps
    <2> HIDE DEF new
    <2>7. ASSUME NEW at \in Instants, NEW c \in Spans, Admits(g, at, c) \/ Touches(w, at, c)
          PROVE  Admits(new, at, c)
      <3>0. at \in Int /\ c.to \in Int
        BY InstantsFacts DEF Spans
      <3>1. Touches(l, at, c) \/ Touches(w, at, c) => Admits(new, at, c)
        <4>1. /\ l.from \in Int /\ l.to \in Int /\ w.from \in Int /\ w.to \in Int
              /\ m.from \in Int /\ m.to \in Int
          BY <2>2, InstantsFacts DEF Windows
        <4>2. Touches(l, at, c) \/ Touches(w, at, c) => Touches(m, at, c)
          BY <2>2, <3>0, <4>1 DEF Touches
        <4>3. Len(ws) \in DOMAIN new.windows /\ new.windows[Len(ws)] = m
          BY <2>0, <2>4, <2>5
        <4> QED BY <4>2, <4>3 DEF Touches, Admits
      <3>2. CASE \E i \in DOMAIN ws : ws[i].from <= c.to /\ ws[i].to >= at
        <4>1. PICK i \in DOMAIN ws : ws[i].from <= c.to /\ ws[i].to >= at
          BY <3>2
        <4>2. CASE i = Len(ws)
          BY <3>1, <4>1, <4>2 DEF Touches
        <4>3. CASE i # Len(ws)
          <5>1. i \in 1 .. Len(ws) - 1
            BY <1>0, <4>3
          <5>2. i \in DOMAIN new.windows /\ new.windows[i] = ws[i]
            BY <1>0, <2>4, <2>5, <5>1
          <5> QED BY <4>1, <5>2 DEF Admits
        <4> QED BY <4>2, <4>3
      <3> QED BY <2>5, <2>7, <3>1, <3>2 DEF Admits
    <2> QED BY <2>6, <2>7 DEF new
  <1> QED BY <1>1, <1>2

\* persist() folds the time the ledger was degraded into its gaps.
LEMMA FoldedGrows ==
  ASSUME NEW g \in Gaps, NEW since \in Instants, NEW t \in Times
  PROVE  /\ Folded(g, since, t) \in Gaps
         /\ \A at \in Instants, c \in Spans :
              \/ Admits(g, at, c)
              \/ since # NoTime /\ since <= c.to /\ at <= t
              => Admits(Folded(g, since, t), at, c)
  <1>1. CASE since = NoTime
    BY <1>1 DEF Folded
  <1>2. CASE since # NoTime
    <2> DEFINE w == [from |-> since, to |-> t]
    <2>1. w \in Windows /\ w.from = since /\ w.to = t
      BY <1>2, InstantsFacts DEF Windows
    <2>2. Folded(g, since, t) = WithDegradedWindow(g, w)
      BY <1>2 DEF Folded
    <2> HIDE DEF w
    <2>3. ASSUME NEW at \in Instants, NEW c \in Spans, since <= c.to, at <= t
          PROVE  Touches(w, at, c)
      BY <2>1, <2>3, InstantsFacts DEF Touches
    <2> QED BY <2>1, <2>2, <2>3, WindowGrows
  <1> QED BY <1>1, <1>2

-----------------------------------------------------------------------------
(* The invariant. *)

Types ==
  /\ now \in Times /\ loaded \in BOOLEAN /\ markerMayExist \in BOOLEAN /\ untraced \in BOOLEAN
  /\ records \in Kept /\ gaps \in Gaps
  /\ file \in [records : Kept, gaps : Gaps, damaged : BOOLEAN]
  /\ degradedSince \in Instants /\ marker \in Instants
HistoryTypes ==
  /\ truth \in [Nonces -> Statuses \cup {"none"}]
  /\ recordedAt \in [Nonces -> Instants] /\ changed \in [Nonces -> Spans]

\* Nothing is of a time to come.
Past(t) == t <= now
HistoryPast ==
  \A n \in Nonces : Past(recordedAt[n]) /\ Past(changed[n].from) /\ Past(changed[n].to)
Clock == Past(degradedSince) /\ Past(marker) /\ HistoryPast

\* A record is not older than the first recording of its nonce.
DatedBy(recs, since) ==
  \A i \in DOMAIN recs : since[recs[i].nonce] # NoTime /\ since[recs[i].nonce] <= recs[i].at
Dated ==
  /\ DatedBy(records, recordedAt) /\ DatedBy(file.records, recordedAt)
  /\ \A n \in Nonces : truth[n] # "none" => recordedAt[n] # NoTime /\ changed[n].from # NoTime

\* The process knows whether there is a marker, and the marker is of no later than
\* the window it announces; without a process, memory is empty.
MarkerKnown ==
  /\ loaded => (markerMayExist <=> marker # NoTime)
  /\ degradedSince # NoTime => loaded /\ (marker # NoTime => marker <= degradedSince)

\* What is wrong about n lies in a window that began at time since.
Within(since, c) == since # NoTime /\ since <= c.to

\* A ledger that holds recs and g, degraded since the time given, does not hide what
\* it has wrong about n; and the disk does not if the process ends now.
Honest(recs, g, since, n) ==
  StatusIn(recs, n) # truth[n] =>
    Admits(g, recordedAt[n], changed[n]) \/ Within(since, changed[n])
InMemory ==
  loaded /\ ~untraced => \A n \in Nonces : Honest(records, gaps, degradedSince, n)
OnDisk ==
  ~untraced => \A n \in Nonces :
    Honest(file.records, file.gaps, degradedSince, n) \/ file.damaged \/ Within(marker, changed[n])

LedgerInv == Types /\ HistoryTypes /\ Clock /\ Dated /\ MarkerKnown /\ InMemory /\ OnDisk

-----------------------------------------------------------------------------
(* persist(), and what calls it. *)

LEMMA LaterFacts ==
  ASSUME Types, NEW t \in Later
  PROVE  t \in Times /\ t >= now
  <1>1. MaxTime \in Nat /\ now \in Int /\ 0 <= now /\ now <= MaxTime
    BY BoundsAssumption DEF Types, Times
  <1>2. t = now \/ t = IF now + 1 < MaxTime THEN now + 1 ELSE MaxTime
    BY DEF Later, Earliest
  <1> QED BY <1>1, <1>2 DEF Times

\* One of the two ways persist() ends, for the ledger as it is now or as load()
\* has just read it.
Persists(recs, g, mayExist, t) ==
  \/ Saved(recs, g, degradedSince, mayExist, t)
  \/ NotSaved(recs, g, degradedSince, mayExist, t)

\* What a call that persists does to the history.
Records(t) ==
  \A n \in Nonces :
    \/ changed'[n].to = t
    \/ truth'[n] = truth[n] /\ recordedAt'[n] = recordedAt[n] /\ changed'[n] = changed[n]

Persisting(recs, g, mayExist, t) ==
  /\ t \in Later /\ now' = t /\ loaded' = TRUE
  /\ (untraced' = untraced \/ untraced' = TRUE)
  /\ Persists(recs, g, mayExist, t) /\ Records(t)

LEMMA PersistTypes ==
  ASSUME LedgerInv, NEW recs \in Kept, NEW g \in Gaps, NEW mayExist \in BOOLEAN, NEW t,
         mayExist <=> marker # NoTime, Persisting(recs, g, mayExist, t)
  PROVE  Types'
  <1>0. t \in Times /\ degradedSince \in Instants /\ marker \in Instants /\ untraced \in BOOLEAN
        /\ file \in [records : Kept, gaps : Gaps, damaged : BOOLEAN]
    BY LaterFacts DEF Persisting, LedgerInv, Types
  <1>1. now' \in Times /\ loaded' \in BOOLEAN /\ untraced' \in BOOLEAN
    BY <1>0 DEF Persisting
  <1>2. records' \in Kept /\ gaps' \in Gaps /\ file' \in [records : Kept, gaps : Gaps, damaged : BOOLEAN]
    <2>1. CASE Saved(recs, g, degradedSince, mayExist, t)
      <3>1. Folded(g, degradedSince, t) \in Gaps
        BY <1>0, FoldedGrows
      <3>2. /\ records' = recs /\ gaps' = Folded(g, degradedSince, t)
            /\ file' = [records |-> recs, gaps |-> Folded(g, degradedSince, t), damaged |-> FALSE]
        BY <2>1 DEF Saved
      <3> QED BY <3>1, <3>2
    <2>2. CASE NotSaved(recs, g, degradedSince, mayExist, t)
      BY <1>0, <2>2 DEF NotSaved
    <2> QED BY <2>1, <2>2 DEF Persisting, Persists
  <1>3. degradedSince' \in Instants /\ marker' \in Instants
    BY <1>0, InstantsFacts DEF Persisting, Persists, Saved, NotSaved
  <1>4. markerMayExist' \in BOOLEAN
    BY DEF Persisting, Persists, Saved, NotSaved
  <1> QED BY <1>1, <1>2, <1>3, <1>4 DEF Types

LEMMA PersistMarker ==
  ASSUME LedgerInv, NEW recs \in Kept, NEW g \in Gaps, NEW mayExist \in BOOLEAN, NEW t,
         mayExist <=> marker # NoTime, Persisting(recs, g, mayExist, t)
  PROVE  MarkerKnown' /\ Past(degradedSince)' /\ Past(marker)'
  <1>0. /\ t \in Times /\ t >= now /\ now \in Times /\ now' = t /\ loaded' = TRUE
        /\ degradedSince \in Instants /\ marker \in Instants
        /\ degradedSince <= now /\ marker <= now
        /\ degradedSince # NoTime /\ marker # NoTime => marker <= degradedSince
    BY LaterFacts DEF Persisting, LedgerInv, Types, Clock, Past, MarkerKnown
  <1>1. CASE Saved(recs, g, degradedSince, mayExist, t)
    BY <1>0, <1>1, InstantsFacts DEF Saved, MarkerKnown, Past
  <1>2. CASE NotSaved(recs, g, degradedSince, mayExist, t)
    BY <1>0, <1>2, InstantsFacts DEF NotSaved, MarkerKnown, Past
  <1> QED BY <1>1, <1>2 DEF Persisting, Persists

\* A nonce the new ledger is honest about now is one it is honest about when saved,
\* or when it stays degraded.
LEMMA PersistHonest ==
  ASSUME LedgerInv, HistoryTypes', HistoryPast', NEW recs \in Kept, NEW g \in Gaps,
         NEW mayExist \in BOOLEAN, NEW t, Persisting(recs, g, mayExist, t), NEW n \in Nonces,
         StatusIn(recs, n) # truth'[n] =>
           Admits(g, recordedAt'[n], changed'[n]) \/ Within(degradedSince, changed'[n])
  PROVE  Honest(records, gaps, degradedSince, n)'
  <1>0. /\ t \in Times /\ degradedSince \in Instants /\ now' = t
        /\ recordedAt'[n] \in Instants /\ changed'[n] \in Spans /\ recordedAt'[n] <= t
    BY LaterFacts DEF Persisting, LedgerInv, Types, HistoryTypes, HistoryPast, Past
  <1>1. CASE Saved(recs, g, degradedSince, mayExist, t)
    <2>1. records' = recs /\ gaps' = Folded(g, degradedSince, t)
      BY <1>1 DEF Saved
    <2>2. StatusIn(recs, n) # truth'[n] => Admits(Folded(g, degradedSince, t), recordedAt'[n], changed'[n])
      BY <1>0, FoldedGrows DEF Within
    <2> QED BY <2>1, <2>2 DEF Honest
  <1>2. CASE NotSaved(recs, g, degradedSince, mayExist, t)
    <2>1. records' = recs /\ gaps' = g
          /\ (degradedSince # NoTime => degradedSince' = degradedSince)
      BY <1>2 DEF NotSaved
    <2> QED BY <2>1 DEF Honest, Within
  <1> QED BY <1>1, <1>2 DEF Persisting, Persists

\* The disk stays honest: the file is the new ledger, or the old one and the change
\* lies in the window that is now open.
LEMMA PersistDisk ==
  ASSUME LedgerInv, Types', HistoryTypes', HistoryPast', InMemory', NEW recs \in Kept, NEW g \in Gaps,
         NEW mayExist \in BOOLEAN, NEW t, mayExist <=> marker # NoTime,
         Persisting(recs, g, mayExist, t)
  PROVE  OnDisk'
  <1> SUFFICES ASSUME ~untraced', NEW n \in Nonces
               PROVE  \/ Honest(file.records, file.gaps, degradedSince, n)'
                      \/ file'.damaged \/ Within(marker', changed'[n])
    BY DEF OnDisk
  <1>0. loaded' = TRUE /\ ~untraced
    <2>1. untraced' = untraced \/ untraced' = TRUE
      BY DEF Persisting
    <2>2. untraced \in BOOLEAN
      BY DEF LedgerInv, Types
    <2>3. loaded' = TRUE
      BY DEF Persisting
    <2> QED BY <2>1, <2>2, <2>3
  <1>1. CASE Saved(recs, g, degradedSince, mayExist, t)
    <2>1. file'.records = records' /\ file'.gaps = gaps'
      BY <1>1 DEF Saved
    <2>2. Honest(records, gaps, degradedSince, n)'
      BY <1>0 DEF InMemory
    <2> QED BY <2>1, <2>2 DEF Honest
  <1>2. CASE NotSaved(recs, g, degradedSince, mayExist, t)
    <2>1. /\ file' = file
          /\ degradedSince' = IF degradedSince = NoTime THEN t ELSE degradedSince
          /\ marker # NoTime => marker' = marker
      BY <1>2 DEF NotSaved
    <2>2. CASE changed'[n].to = t
      <3>1. degradedSince' # NoTime /\ degradedSince' <= t
        <4>1. t \in Times /\ t >= now /\ now \in Times /\ degradedSince \in Instants /\ degradedSince <= now
          BY LaterFacts DEF Persisting, LedgerInv, Types, Clock, Past
        <4> QED BY <2>1, <4>1, InstantsFacts
      <3> QED BY <2>2, <3>1 DEF Honest, Within
    <2>3. CASE truth'[n] = truth[n] /\ recordedAt'[n] = recordedAt[n] /\ changed'[n] = changed[n]
      <3>1. \/ Honest(file.records, file.gaps, degradedSince, n)
            \/ file.damaged \/ Within(marker, changed[n])
        BY <1>0 DEF LedgerInv, OnDisk
      <3> QED BY <2>1, <2>3, <3>1 DEF Honest, Within
    <2> QED BY <2>2, <2>3 DEF Persisting, Records
  <1> QED BY <1>1, <1>2 DEF Persisting, Persists

\* The whole of it: the history of the call and the ledger it persists are typed and
\* dated, and what the ledger has wrong it admits.
Sound(recs, g) ==
  /\ recs \in Kept /\ g \in Gaps
  /\ HistoryTypes' /\ HistoryPast' /\ DatedBy(recs, recordedAt')
  /\ \A i \in DOMAIN file.records :
       recordedAt'[file.records[i].nonce] = recordedAt[file.records[i].nonce]
  /\ \A n \in Nonces : truth'[n] # "none" => recordedAt'[n] # NoTime /\ changed'[n].from # NoTime
  /\ ~untraced' => \A n \in Nonces : StatusIn(recs, n) # truth'[n] =>
       Admits(g, recordedAt'[n], changed'[n]) \/ Within(degradedSince, changed'[n])

LEMMA PersistKeeps ==
  ASSUME LedgerInv, NEW recs, NEW g, NEW mayExist \in BOOLEAN, NEW t, mayExist <=> marker # NoTime,
         Persisting(recs, g, mayExist, t), Sound(recs, g)
  PROVE  LedgerInv'
  <1>0. recs \in Kept /\ g \in Gaps /\ HistoryTypes' /\ HistoryPast'
    BY DEF Sound, Persisting
  <1>1. Types'
    BY <1>0, PersistTypes
  <1>2. MarkerKnown' /\ Clock'
    BY <1>0, PersistMarker DEF Clock
  <1>3. InMemory'
    <2> SUFFICES ASSUME ~untraced', NEW n \in Nonces PROVE Honest(records, gaps, degradedSince, n)'
      BY DEF InMemory
    <2>1. StatusIn(recs, n) # truth'[n] =>
            Admits(g, recordedAt'[n], changed'[n]) \/ Within(degradedSince, changed'[n])
      BY <1>0 DEF Sound
    <2> QED BY <1>0, <2>1, PersistHonest
  <1>4. OnDisk'
    BY <1>0, <1>1, <1>3, PersistDisk
  <1>5. Dated'
    <2>1. records' = recs /\ (file' = file \/ file'.records = recs)
      BY DEF Persisting, Persists, Saved, NotSaved
    <2>2. DatedBy(file.records, recordedAt)
      BY DEF LedgerInv, Dated
    <2>3. DatedBy(file.records, recordedAt')
      BY <2>2 DEF Sound, DatedBy
    <2>4. DatedBy(recs, recordedAt')
      BY DEF Sound
    <2> QED BY <2>1, <2>3, <2>4 DEF Dated, Sound
  <1> QED BY <1>0, <1>1, <1>2, <1>3, <1>4, <1>5 DEF LedgerInv

LEMMA EvictionGapsGrow ==
  ASSUME NEW recs \in Recs, NEW g \in Gaps
  PROVE  /\ EvictionGaps(recs, g) \in Gaps
         /\ \A at \in Instants, c \in Spans : Admits(g, at, c) => Admits(EvictionGaps(recs, g), at, c)
  <1>0. recs \in Seq(Record) /\ Len(recs) \in Nat /\ MaxRecords \in Nat \ {0}
    BY BoundsAssumption DEF Recs
  <1>1. CASE Len(recs) <= MaxRecords
    BY <1>1 DEF EvictionGaps
  <1>2. CASE ~(Len(recs) <= MaxRecords)
    <2>1. recs # <<>>
      BY <1>0, <1>2
    <2>2. recs[Victim(recs)] \in Record
      BY <1>0, <2>1, VictimExists
    <2>3. recs[Victim(recs)].at \in Times
      BY <2>2 DEF Record
    <2> QED BY <1>2, <2>3, HorizonGrows DEF EvictionGaps
  <1> QED BY <1>1, <1>2

\* What a call that gives n a status leaves of the history.
LEMMA HistoryStep ==
  ASSUME LedgerInv, NEW n \in Nonces, NEW s \in Statuses \cup {"none"}, NEW t \in Later, now' = t,
         GivesStatus(n, s, t),
         \/ recordedAt' = [recordedAt EXCEPT ![n] = IF @ = NoTime THEN now ELSE @]
         \/ recordedAt' = recordedAt
  PROVE  /\ HistoryTypes' /\ HistoryPast' /\ Records(t)
         /\ truth'[n] = s /\ changed'[n].from = now
         /\ \A m \in Nonces \ {n} :
              truth'[m] = truth[m] /\ recordedAt'[m] = recordedAt[m] /\ changed'[m] = changed[m]
         /\ recordedAt'[n] = recordedAt[n] \/ (recordedAt[n] = NoTime /\ recordedAt'[n] = now)
  <1>0. /\ t \in Times /\ t >= now /\ now \in Times /\ HistoryTypes /\ HistoryPast
        /\ now \in Instants /\ t \in Instants
    BY LaterFacts, InstantsFacts DEF LedgerInv, Types, Clock
  <1>1. /\ truth' \in [Nonces -> Statuses \cup {"none"}] /\ truth'[n] = s
        /\ \A m \in Nonces \ {n} : truth'[m] = truth[m]
    BY <1>0 DEF GivesStatus, HistoryTypes
  <1>2. /\ changed' \in [Nonces -> Spans] /\ changed'[n] = [from |-> now, to |-> t]
        /\ \A m \in Nonces \ {n} : changed'[m] = changed[m]
    <2>1. [from |-> now, to |-> t] \in Spans
      BY <1>0 DEF Spans
    <2>2. changed \in [Nonces -> Spans] /\ changed' = [changed EXCEPT ![n] = [from |-> now, to |-> t]]
      BY <1>0 DEF HistoryTypes, GivesStatus
    <2> QED BY <2>1, <2>2
  <1>3. /\ recordedAt' \in [Nonces -> Instants]
        /\ \A m \in Nonces \ {n} : recordedAt'[m] = recordedAt[m]
        /\ recordedAt'[n] = recordedAt[n] \/ (recordedAt[n] = NoTime /\ recordedAt'[n] = now)
    <2>1. recordedAt \in [Nonces -> Instants]
      BY <1>0 DEF HistoryTypes
    <2> QED BY <1>0, <2>1
  <1>4. changed'[n].from = now /\ changed'[n].to = t
    BY <1>2
  <1>5. HistoryPast'
    <2> SUFFICES ASSUME NEW m \in Nonces
                 PROVE  recordedAt'[m] <= t /\ changed'[m].from <= t /\ changed'[m].to <= t
      BY DEF HistoryPast, Past
    <2>1. /\ recordedAt[m] <= now /\ changed[m].from <= now /\ changed[m].to <= now
          /\ recordedAt[m] \in Int /\ changed[m].from \in Int /\ changed[m].to \in Int
          /\ now \in Int /\ t \in Int
      BY <1>0, InstantsFacts DEF HistoryPast, Past, HistoryTypes, Spans
    <2>2. CASE m = n
      BY <1>0, <1>3, <1>4, <2>1, <2>2
    <2>3. CASE m # n
      <3>1. recordedAt'[m] = recordedAt[m] /\ changed'[m] = changed[m]
        BY <1>2, <1>3, <2>3
      <3> QED BY <1>0, <2>1, <3>1
    <2> QED BY <2>2, <2>3
  <1>6. Records(t)
    BY <1>1, <1>2, <1>3, <1>4 DEF Records
  <1> QED BY <1>1, <1>2, <1>3, <1>4, <1>5, <1>6 DEF HistoryTypes

LEMMA RecordPendingKeeps ==
  ASSUME LedgerInv, NEW n \in Nonces, RecordPending(n)
  PROVE  LedgerInv'
  <1> DEFINE r == [nonce |-> n, status |-> "pending", at |-> now]
             all == Append(records, r)
  <1>0. /\ records \in Kept /\ records \in Recs /\ Len(records) <= MaxRecords /\ Len(records) \in Nat
        /\ gaps \in Gaps /\ loaded /\ loaded' = TRUE /\ untraced' = untraced /\ now \in Times
        /\ n \notin NoncesOf(records) /\ markerMayExist \in BOOLEAN /\ (markerMayExist <=> marker # NoTime)
        /\ file.records \in Seq(Record) /\ records \in Seq(Record)
    BY DEF LedgerInv, Types, Kept, Recs, RecordPending, MarkerKnown
  <1>1. PICK t \in Later : /\ now' = t /\ Persist(Evicted(all), EvictionGaps(all, gaps), t)
                           /\ GivesStatus(n, "pending", t)
                           /\ recordedAt' = [recordedAt EXCEPT ![n] = IF @ = NoTime THEN now ELSE @]
    BY DEF RecordPending
  <1>2. r \in Record /\ r.nonce = n /\ r.status = "pending" /\ r.at = now
    BY <1>0, StatusesFacts DEF Record
  <1> HIDE DEF r
  <1>3. /\ all \in Recs /\ Len(all) = Len(records) + 1 /\ StatusIn(all, n) = "pending"
        /\ \A m : m # n => StatusIn(all, m) = StatusIn(records, m)
        /\ \A k \in DOMAIN all : all[k] = r \/ \E i \in DOMAIN records : k = i /\ all[k] = records[i]
    BY <1>0, <1>2, AppendRecord
  <1> HIDE DEF all
  <1>4. /\ Evicted(all) \in Kept
        /\ \A k \in DOMAIN Evicted(all) : \E j \in DOMAIN all : Evicted(all)[k] = all[j]
    <2>1. Len(all) <= MaxRecords + 1
      BY <1>0, <1>3, BoundsAssumption
    <2> QED BY <1>3, <2>1, EvictedKept
  <1>5. EvictionGaps(all, gaps) \in Gaps
    BY <1>0, <1>3, EvictionGapsGrow
  <1>6. /\ HistoryTypes' /\ HistoryPast' /\ Records(t)
        /\ truth'[n] = "pending" /\ changed'[n].from = now
        /\ \A m \in Nonces \ {n} :
             truth'[m] = truth[m] /\ recordedAt'[m] = recordedAt[m] /\ changed'[m] = changed[m]
        /\ recordedAt'[n] = recordedAt[n] \/ (recordedAt[n] = NoTime /\ recordedAt'[n] = now)
    BY <1>1, StatusesFacts, HistoryStep
  <1>7. /\ recordedAt'[n] # NoTime /\ recordedAt'[n] <= now /\ now # NoTime
    <2>1. recordedAt[n] <= now /\ now >= 0 /\ now # NoTime
      BY <1>0, InstantsFacts DEF LedgerInv, Clock, HistoryPast, Past
    <2> QED BY <1>0, <1>6, <2>1, <1>1, InstantsFacts DEF LedgerInv, HistoryTypes
  <1>8. \A j \in DOMAIN all : recordedAt'[all[j].nonce] # NoTime /\ recordedAt'[all[j].nonce] <= all[j].at
    <2> SUFFICES ASSUME NEW j \in DOMAIN all
                 PROVE  recordedAt'[all[j].nonce] # NoTime /\ recordedAt'[all[j].nonce] <= all[j].at
      OBVIOUS
    <2>1. CASE all[j] = r
      BY <1>2, <1>7, <2>1
    <2>2. CASE \E i \in DOMAIN records : all[j] = records[i]
      <3>1. PICK i \in DOMAIN records : all[j] = records[i]
        BY <2>2
      <3>2. records[i].nonce \in Nonces \ {n}
        <4>1. records[i] \in Record
          BY <1>0
        <4> QED BY <1>0, <4>1 DEF NoncesOf, Record
      <3>3. recordedAt[records[i].nonce] # NoTime /\ recordedAt[records[i].nonce] <= records[i].at
        BY DEF LedgerInv, Dated, DatedBy
      <3> QED BY <1>6, <3>1, <3>2, <3>3
    <2> QED BY <1>3, <2>1, <2>2
  <1>9. DatedBy(Evicted(all), recordedAt')
    BY <1>4, <1>8 DEF DatedBy
  <1>10. \A i \in DOMAIN file.records :
           recordedAt'[file.records[i].nonce] = recordedAt[file.records[i].nonce]
    <2> SUFFICES ASSUME NEW i \in DOMAIN file.records
                 PROVE  recordedAt'[file.records[i].nonce] = recordedAt[file.records[i].nonce]
      OBVIOUS
    <2>1. file.records[i].nonce \in Nonces /\ recordedAt[file.records[i].nonce] # NoTime
      <3>1. file.records[i] \in Record
        BY <1>0
      <3>2. recordedAt[file.records[i].nonce] # NoTime
        BY DEF LedgerInv, Dated, DatedBy
      <3> QED BY <3>1, <3>2 DEF Record
    <2> QED BY <1>6, <2>1
  <1>11. \A m \in Nonces : truth'[m] # "none" => recordedAt'[m] # NoTime /\ changed'[m].from # NoTime
    BY <1>6, <1>7 DEF LedgerInv, Dated
  <1>12. ASSUME ~untraced, NEW m \in Nonces, StatusIn(Evicted(all), m) # truth'[m]
         PROVE  \/ Admits(EvictionGaps(all, gaps), recordedAt'[m], changed'[m])
                \/ Within(degradedSince, changed'[m])
    <2>1. CASE StatusIn(Evicted(all), m) = StatusIn(all, m)
      <3>1. m # n
        BY <1>3, <1>6, <1>12, <2>1
      <3>2. /\ truth'[m] = truth[m] /\ recordedAt'[m] = recordedAt[m] /\ changed'[m] = changed[m]
            /\ recordedAt[m] \in Instants /\ changed[m] \in Spans
        BY <1>6, <3>1 DEF LedgerInv, HistoryTypes
      <3>3. Honest(records, gaps, degradedSince, m)
        BY <1>0, <1>12 DEF LedgerInv, InMemory
      <3>4. StatusIn(records, m) # truth[m]
        BY <1>3, <1>12, <2>1, <3>1, <3>2
      <3>5. Admits(gaps, recordedAt[m], changed[m]) \/ Within(degradedSince, changed[m])
        BY <3>3, <3>4 DEF Honest
      <3> QED BY <1>0, <1>3, <3>2, <3>5, EvictionGapsGrow
    <2>2. CASE \E i \in DOMAIN all : all[i].nonce = m /\ EvictionGaps(all, gaps).horizon >= all[i].at
      <3>1. PICK i \in DOMAIN all : all[i].nonce = m /\ EvictionGaps(all, gaps).horizon >= all[i].at
        BY <2>2
      <3>2. recordedAt'[m] <= all[i].at
        BY <1>8, <3>1
      <3>3. EvictionGaps(all, gaps).horizon \in Int /\ recordedAt'[m] \in Int /\ all[i].at \in Int
        <4>1. all[i] \in Record
          BY <1>3 DEF Recs
        <4> QED BY <1>5, <1>6, <4>1, InstantsFacts DEF Gaps, AnyGaps, HistoryTypes, Record
      <3> QED BY <3>1, <3>2, <3>3 DEF Admits
    <2> QED BY <1>0, <1>3, <2>1, <2>2, EvictedStatus
  <1>13. Sound(Evicted(all), EvictionGaps(all, gaps))
    BY <1>0, <1>4, <1>5, <1>6, <1>9, <1>10, <1>11, <1>12 DEF Sound
  <1>14. Persisting(Evicted(all), EvictionGaps(all, gaps), markerMayExist, t)
    BY <1>0, <1>1, <1>6 DEF Persisting, Persists, Persist
  <1> QED BY <1>0, <1>13, <1>14, PersistKeeps

\* A change of one record, or its removal, that makes the ledger true about n.
LEMMA ChangeKeeps ==
  ASSUME LedgerInv, loaded, loaded' = TRUE, untraced' = untraced, recordedAt' = recordedAt,
         NEW n \in Nonces, recordedAt[n] # NoTime,
         NEW s \in Statuses \cup {"none"}, NEW t \in Later, now' = t, GivesStatus(n, s, t),
         NEW recs \in Kept, Persist(recs, gaps, t), StatusIn(recs, n) = s,
         \A m : m # n => StatusIn(recs, m) = StatusIn(records, m),
         \A k \in DOMAIN recs :
           \E j \in DOMAIN records : recs[k].nonce = records[j].nonce /\ recs[k].at = records[j].at
  PROVE  LedgerInv'
  <1>0. gaps \in Gaps /\ now \in Times /\ markerMayExist \in BOOLEAN /\ (markerMayExist <=> marker # NoTime)
    BY DEF LedgerInv, Types, MarkerKnown
  <1>1. /\ HistoryTypes' /\ HistoryPast' /\ Records(t)
        /\ truth'[n] = s /\ changed'[n].from = now
        /\ \A m \in Nonces \ {n} :
             truth'[m] = truth[m] /\ recordedAt'[m] = recordedAt[m] /\ changed'[m] = changed[m]
    BY HistoryStep
  <1>2. DatedBy(recs, recordedAt')
    BY DEF LedgerInv, Dated, DatedBy
  <1>3. \A m \in Nonces : truth'[m] # "none" => recordedAt'[m] # NoTime /\ changed'[m].from # NoTime
    BY <1>0, <1>1, InstantsFacts DEF LedgerInv, Dated
  <1>4. ASSUME ~untraced, NEW m \in Nonces, StatusIn(recs, m) # truth'[m]
        PROVE  Admits(gaps, recordedAt'[m], changed'[m]) \/ Within(degradedSince, changed'[m])
    <2>1. m # n
      BY <1>1, <1>4
    <2>2. truth'[m] = truth[m] /\ changed'[m] = changed[m] /\ StatusIn(records, m) # truth[m]
      BY <1>1, <1>4, <2>1
    <2>3. Honest(records, gaps, degradedSince, m)
      BY <1>4 DEF LedgerInv, InMemory
    <2> QED BY <2>2, <2>3 DEF Honest
  <1>5. Sound(recs, gaps)
    BY <1>0, <1>1, <1>2, <1>3, <1>4 DEF Sound
  <1>6. Persisting(recs, gaps, markerMayExist, t)
    BY <1>1 DEF Persisting, Persists, Persist
  <1> QED BY <1>0, <1>5, <1>6, PersistKeeps

\* A nonce in the ledger has been recorded.
LEMMA KnownDated ==
  ASSUME LedgerInv, NEW n \in NoncesOf(records)
  PROVE  recordedAt[n] # NoTime /\ \E i \in DOMAIN records : PlaceOf(records, n) = i /\ records[i].nonce = n
  <1>1. PICK i \in DOMAIN records : records[i].nonce = n
    BY DEF NoncesOf
  <1>2. PlaceOf(records, n) = i
    BY <1>1, StatusKnown DEF LedgerInv, Types, Kept
  <1> QED BY <1>1, <1>2 DEF LedgerInv, Dated, DatedBy

LEMMA CompletionKeeps ==
  ASSUME LedgerInv, NEW n \in Nonces, NEW s \in Outcomes, MarkCompleted(n, s)
  PROVE  LedgerInv'
  <1>0. /\ records \in Recs /\ Len(records) <= MaxRecords /\ loaded /\ loaded' = TRUE
        /\ untraced' = untraced /\ recordedAt' = recordedAt /\ s \in Statuses
        /\ StatusIn(records, n) = "pending"
    BY DEF LedgerInv, Types, Kept, MarkCompleted, StatusOf, Statuses
  <1>1. n \in NoncesOf(records)
    BY <1>0, StatusUnknown
  <1>2. recordedAt[n] # NoTime
    BY <1>1, KnownDated
  <1>3. PICK t \in Later : /\ now' = t /\ Persist(WithStatus(records, n, s), gaps, t)
                           /\ GivesStatus(n, s, t)
    BY DEF MarkCompleted
  <1> DEFINE new == WithStatus(records, n, s)
  <1>4. /\ new \in Recs /\ Len(new) = Len(records) /\ StatusIn(new, n) = s
        /\ \A m : m # n => StatusIn(new, m) = StatusIn(records, m)
        /\ \A k \in DOMAIN new :
             \E j \in DOMAIN records : new[k].nonce = records[j].nonce /\ new[k].at = records[j].at
    BY <1>0, <1>1, CompleteRecord
  <1>5. new \in Kept
    BY <1>0, <1>4 DEF Kept
  <1> HIDE DEF new
  <1>6. Persist(new, gaps, t)
    BY <1>3 DEF new
  <1> QED BY <1>0, <1>2, <1>3, <1>4, <1>5, <1>6, ChangeKeeps

LEMMA ClearKeeps ==
  ASSUME LedgerInv, NEW n \in Nonces, ClearUnlessAccepted(n)
  PROVE  LedgerInv'
  <1>0. /\ records \in Recs /\ Len(records) <= MaxRecords /\ loaded /\ loaded' = TRUE
        /\ untraced' = untraced /\ recordedAt' = recordedAt /\ records \in Seq(Record)
        /\ StatusIn(records, n) # "none"
    BY DEF LedgerInv, Types, Kept, Recs, ClearUnlessAccepted, StatusOf
  <1>1. n \in NoncesOf(records)
    BY <1>0, StatusUnknown
  <1>2. PICK i \in DOMAIN records : PlaceOf(records, n) = i /\ records[i].nonce = n
    BY <1>1, KnownDated
  <1>3. recordedAt[n] # NoTime
    BY <1>1, KnownDated
  <1>4. PICK t \in Later : now' = t /\ Persist(Without(records, n), gaps, t) /\ GivesStatus(n, "none", t)
    BY DEF ClearUnlessAccepted
  <1> DEFINE new == RemoveAt(records, i)
  <1>5. /\ new \in Recs /\ Len(new) = Len(records) - 1 /\ StatusIn(new, n) = "none"
        /\ \A m : m # n => StatusIn(new, m) = StatusIn(records, m)
        /\ \A k \in DOMAIN new : \E j \in DOMAIN records : new[k] = records[j]
    BY <1>0, <1>2, RemoveRecord
  <1>6. new = Without(records, n)
    BY <1>2 DEF Without
  <1> HIDE DEF new
  <1>7. new \in Kept
    <2>1. Len(records) \in Nat /\ MaxRecords \in Nat
      BY <1>0, BoundsAssumption
    <2> QED BY <1>0, <1>5, <2>1 DEF Kept
  <1>8. \A k \in DOMAIN new :
           \E j \in DOMAIN records : new[k].nonce = records[j].nonce /\ new[k].at = records[j].at
    BY <1>5
  <1>9. Persist(new, gaps, t)
    BY <1>4, <1>6
  <1> QED BY <1>0, <1>3, <1>4, <1>5, <1>7, <1>8, <1>9, ChangeKeeps

LEMMA DisposeKeeps ==
  ASSUME LedgerInv, Dispose
  PROVE  LedgerInv'
  <1>0. /\ records \in Kept /\ gaps \in Gaps /\ loaded /\ loaded' = TRUE /\ untraced' = untraced
        /\ truth' = truth /\ recordedAt' = recordedAt /\ changed' = changed
        /\ markerMayExist \in BOOLEAN /\ (markerMayExist <=> marker # NoTime)
    BY DEF LedgerInv, Types, MarkerKnown, Dispose, history
  <1>1. PICK t \in Later : now' = t /\ Persist(records, gaps, t)
    BY DEF Dispose
  <1>2. Persisting(records, gaps, markerMayExist, t)
    BY <1>0, <1>1 DEF Persisting, Persists, Persist, Records
  <1>3. HistoryTypes' /\ HistoryPast'
    <2>1. HistoryTypes /\ HistoryPast /\ t \in Int /\ now \in Int /\ t >= now
      BY LaterFacts, InstantsFacts DEF LedgerInv, Clock, Types
    <2>2. \A n \in Nonces : recordedAt[n] \in Int /\ changed[n].from \in Int /\ changed[n].to \in Int
      BY <2>1, InstantsFacts DEF HistoryTypes, Spans
    <2> QED BY <1>0, <1>1, <2>1, <2>2 DEF HistoryTypes, HistoryPast, Past
  <1>4. Sound(records, gaps)
    BY <1>0, <1>3 DEF Sound, LedgerInv, Dated, InMemory, Honest
  <1> QED BY <1>0, <1>2, <1>4, PersistKeeps

-----------------------------------------------------------------------------
(* load(), and what happens to the disk. *)

LEMMA ReadGaps ==
  ASSUME LedgerInv, NEW g \in Gaps
  PROVE  /\ WithMarker(g) \in Gaps
         /\ \A n \in Nonces :
              \/ Admits(g, recordedAt[n], changed[n]) \/ Within(marker, changed[n])
              => Admits(WithMarker(g), recordedAt[n], changed[n])
  <1>0. now \in Times /\ marker \in Instants /\ HistoryTypes /\ HistoryPast
    BY DEF LedgerInv, Types, Clock
  <1>1. CASE marker = NoTime
    BY <1>1 DEF WithMarker, Within
  <1>2. CASE marker # NoTime
    <2> DEFINE w == [from |-> marker, to |-> now]
    <2>1. w \in Windows /\ w.from = marker /\ w.to = now
      BY <1>0, <1>2, InstantsFacts DEF Windows
    <2>2. WithMarker(g) = WithDegradedWindow(g, w)
      BY <1>2 DEF WithMarker
    <2> HIDE DEF w
    <2>3. ASSUME NEW n \in Nonces, Within(marker, changed[n])
          PROVE  Touches(w, recordedAt[n], changed[n])
      BY <1>0, <2>1, <2>3, InstantsFacts DEF Touches, Within, HistoryPast, Past, HistoryTypes
    <2>4. \A n \in Nonces : recordedAt[n] \in Instants /\ changed[n] \in Spans
      BY <1>0 DEF HistoryTypes
    <2> QED BY <2>1, <2>2, <2>3, <2>4, WindowGrows
  <1> QED BY <1>1, <1>2

LEMMA ParsedGrows ==
  ASSUME LedgerInv
  PROVE  /\ ParsedGaps \in Gaps
         /\ \A n \in Nonces :
              Admits(file.gaps, recordedAt[n], changed[n]) \/ file.damaged
              => Admits(ParsedGaps, recordedAt[n], changed[n])
  <1>0. now \in Times /\ file.gaps \in Gaps /\ HistoryTypes /\ HistoryPast
    BY DEF LedgerInv, Types, Clock
  <1>1. \A n \in Nonces : recordedAt[n] \in Instants /\ changed[n] \in Spans /\ now >= changed[n].from
    BY <1>0, InstantsFacts DEF HistoryTypes, HistoryPast, Past, Spans
  <1>2. CASE file.damaged
    BY <1>0, <1>1, <1>2, ResetGrows DEF ParsedGaps
  <1>3. CASE ~file.damaged
    BY <1>0, <1>3 DEF ParsedGaps
  <1> QED BY <1>2, <1>3

LEMMA NoRecords == <<>> \in Kept /\ DOMAIN <<>> = {}
  BY BoundsAssumption DEF Kept, Recs, Unique

\* load() of what was read: what is wrong with it is in its gaps, or untraced.
LEMMA LoadsKeeps ==
  ASSUME LedgerInv, NEW recs \in Kept, NEW g \in Gaps, NEW damaged \in BOOLEAN,
         LoadsAs(recs, g, damaged), DatedBy(recs, recordedAt),
         untraced' = untraced \/ untraced' = TRUE,
         ~untraced' => \A n \in Nonces :
           StatusIn(recs, n) # truth[n] => Admits(WithMarker(g), recordedAt[n], changed[n]),
         ~untraced' /\ ~damaged => recs = file.records /\ g = file.gaps
  PROVE  LedgerInv'
  <1> DEFINE read == WithMarker(g)  mayExist == marker # NoTime
  <1>0. /\ ~loaded /\ loaded' = TRUE /\ degradedSince = NoTime
        /\ truth' = truth /\ recordedAt' = recordedAt /\ changed' = changed
        /\ file \in [records : Kept, gaps : Gaps, damaged : BOOLEAN]
        /\ HistoryTypes /\ HistoryPast /\ mayExist \in BOOLEAN
    BY DEF LedgerInv, Types, Clock, MarkerKnown, LoadsAs, history
  <1>1. PICK t \in Later :
          /\ now' = t
          /\ IF NeedsPersist(damaged)
             THEN \/ Saved(recs, read, NoTime, mayExist, t)
                  \/ NotSaved(recs, read, NoTime, mayExist, t)
             ELSE /\ records' = recs /\ gaps' = g
                  /\ degradedSince' = NoTime /\ markerMayExist' = FALSE
                  /\ UNCHANGED <<file, marker>>
    BY DEF LoadsAs
  <1>2. HistoryTypes' /\ HistoryPast'
    <2>1. t \in Int /\ now \in Int /\ t >= now
      BY LaterFacts, InstantsFacts DEF LedgerInv, Types
    <2>2. \A n \in Nonces : recordedAt[n] \in Int /\ changed[n].from \in Int /\ changed[n].to \in Int
      BY <1>0, InstantsFacts DEF HistoryTypes, Spans
    <2> QED BY <1>0, <1>1, <2>1, <2>2 DEF HistoryTypes, HistoryPast, Past
  <1>3. read \in Gaps
    BY ReadGaps
  <1>4. ASSUME ~untraced', NEW n \in Nonces, StatusIn(recs, n) # truth[n]
        PROVE  Admits(read, recordedAt[n], changed[n])
    BY <1>4
  <1> HIDE DEF read, mayExist
  <1>5. CASE NeedsPersist(damaged)
    <2>1. Persisting(recs, read, mayExist, t)
      BY <1>0, <1>1, <1>5 DEF Persisting, Persists, Records
    <2>2. Sound(recs, read)
      BY <1>0, <1>2, <1>3, <1>4 DEF Sound, LedgerInv, Dated
    <2>3. mayExist <=> marker # NoTime
      BY DEF mayExist
    <2> QED BY <1>0, <2>1, <2>2, <2>3, PersistKeeps
  <1>6. CASE ~NeedsPersist(damaged)
    <2>1. /\ records' = recs /\ gaps' = g /\ degradedSince' = NoTime
          /\ markerMayExist' = FALSE /\ file' = file /\ marker' = marker /\ marker = NoTime
          /\ ~damaged /\ g = read
      BY <1>1, <1>6 DEF NeedsPersist, read, WithMarker
    <2>2. t \in Times /\ NoTime \in Instants /\ NoTime <= t
      <3>1. t \in Times
        BY LaterFacts DEF LedgerInv
      <3>2. t \in Int /\ t >= 0 /\ NoTime = -1 /\ NoTime \in Instants
        BY <3>1, InstantsFacts
      <3> QED BY <3>1, <3>2
    <2>3. Types'
      BY <1>0, <1>1, <1>3, <2>1, <2>2 DEF Types, LedgerInv
    <2>4. Clock'
      BY <1>1, <1>2, <2>1, <2>2 DEF Clock, Past
    <2>5. Dated' /\ MarkerKnown'
      BY <1>0, <2>1 DEF LedgerInv, Dated, MarkerKnown
    <2>6. InMemory' /\ OnDisk'
      <3>1. ASSUME ~untraced', NEW n \in Nonces
            PROVE  Honest(records, gaps, degradedSince, n)'
        BY <1>0, <1>4, <2>1, <3>1 DEF Honest
      <3>2. ASSUME ~untraced', NEW n \in Nonces
            PROVE  Honest(file.records, file.gaps, degradedSince, n)'
        <4>1. file'.gaps = gaps' /\ file'.records = records'
          BY <2>1, <3>2
        <4> QED BY <3>1, <3>2, <4>1 DEF Honest
      <3> QED BY <3>1, <3>2 DEF InMemory, OnDisk
    <2> QED BY <1>2, <2>3, <2>4, <2>5, <2>6 DEF LedgerInv
  <1> QED BY <1>5, <1>6

LEMMA LoadKeeps ==
  ASSUME LedgerInv, Load
  PROVE  LedgerInv'
  <1>0. /\ LoadsAs(file.records, ParsedGaps, file.damaged) /\ untraced' = untraced
        /\ ~loaded /\ degradedSince = NoTime /\ untraced \in BOOLEAN
        /\ file.records \in Kept /\ file.damaged \in BOOLEAN
        /\ DatedBy(file.records, recordedAt)
    BY DEF LedgerInv, Types, Dated, MarkerKnown, Load, LoadsAs
  <1>1. ParsedGaps \in Gaps
    BY ParsedGrows
  <1>2. ASSUME ~untraced, NEW n \in Nonces, StatusIn(file.records, n) # truth[n]
        PROVE  Admits(WithMarker(ParsedGaps), recordedAt[n], changed[n])
    <2>1. \/ Honest(file.records, file.gaps, degradedSince, n)
          \/ file.damaged \/ Within(marker, changed[n])
      BY <1>2 DEF LedgerInv, OnDisk
    <2>2. Admits(file.gaps, recordedAt[n], changed[n]) \/ file.damaged \/ Within(marker, changed[n])
      BY <1>0, <1>2, <2>1 DEF Honest, Within
    <2> QED BY <1>1, <2>2, ParsedGrows, ReadGaps
  <1>3. ~file.damaged => ParsedGaps = file.gaps
    BY DEF ParsedGaps
  <1> QED BY <1>0, <1>1, <1>2, <1>3, LoadsKeeps

LEMMA LoadUnreadableKeeps ==
  ASSUME LedgerInv, LoadUnreadable
  PROVE  LedgerInv'
  <1>1. LoadsAs(<<>>, NoGaps, FALSE) /\ untraced' = TRUE /\ NoGaps \in Gaps
    BY NoGapsTyped DEF LoadUnreadable
  <1>2. <<>> \in Kept /\ DatedBy(<<>>, recordedAt)
    BY NoRecords DEF DatedBy
  <1> QED BY <1>1, <1>2, LoadsKeeps

LEMMA CrashKeeps ==
  ASSUME LedgerInv, Crash
  PROVE  LedgerInv'
  <1>0. /\ loaded' = FALSE /\ records' = <<>> /\ gaps' = NoGaps /\ degradedSince' = NoTime
        /\ markerMayExist' = FALSE /\ untraced' = (untraced \/ (degradedSince # NoTime /\ marker = NoTime))
        /\ now' = now /\ file' = file
        /\ marker' = marker /\ truth' = truth /\ recordedAt' = recordedAt /\ changed' = changed
    BY DEF Crash, history
  <1>2. Types'
    BY <1>0, NoRecords, NoGapsTyped, InstantsFacts DEF LedgerInv, Types
  <1>3. Clock' /\ HistoryTypes'
    BY <1>0, InstantsFacts DEF LedgerInv, Clock, HistoryPast, Past, HistoryTypes, Types
  <1>4. Dated' /\ MarkerKnown' /\ InMemory'
    BY <1>0, NoRecords DEF LedgerInv, Dated, DatedBy, MarkerKnown, InMemory
  <1>5. OnDisk'
    <2> SUFFICES ASSUME ~untraced', NEW n \in Nonces
                 PROVE  \/ Honest(file.records, file.gaps, degradedSince, n)'
                        \/ file'.damaged \/ Within(marker', changed'[n])
      BY DEF OnDisk
    <2>1. ~untraced /\ (degradedSince # NoTime => marker # NoTime /\ marker <= degradedSince)
      BY <1>0 DEF LedgerInv, MarkerKnown
    <2>2. \/ Honest(file.records, file.gaps, degradedSince, n)
          \/ file.damaged \/ Within(marker, changed[n])
      BY <2>1 DEF LedgerInv, OnDisk
    <2>3. Within(degradedSince, changed[n]) => Within(marker, changed[n])
      <3>1. changed[n].to \in Int /\ marker \in Int /\ degradedSince \in Int
        BY InstantsFacts DEF LedgerInv, Types, HistoryTypes, Spans
      <3> QED BY <2>1, <3>1 DEF Within
    <2> QED BY <1>0, <2>2, <2>3 DEF Honest
  <1> QED BY <1>2, <1>3, <1>4, <1>5 DEF LedgerInv

LEMMA DamageKeeps ==
  ASSUME LedgerInv, Damage
  PROVE  LedgerInv'
  <1>0. /\ ~loaded /\ UNCHANGED <<now, loaded, records, gaps, degradedSince, markerMayExist>>
        /\ UNCHANGED <<marker, truth, recordedAt, changed, untraced>>
        /\ file \in [records : Kept, gaps : Gaps, damaged : BOOLEAN]
    BY DEF Damage, memory, history, LedgerInv, Types
  <1>1. /\ file' \in [records : Kept, gaps : Gaps, damaged : BOOLEAN] /\ file'.damaged
        /\ DatedBy(file'.records, recordedAt)
    <2>1. CASE \E i \in DOMAIN file.records :
                 file' = [file EXCEPT !.records = RemoveAt(@, i), !.damaged = TRUE]
      <3>1. PICK i \in DOMAIN file.records :
              file' = [file EXCEPT !.records = RemoveAt(@, i), !.damaged = TRUE]
        BY <2>1
      <3> DEFINE recs == file.records  new == RemoveAt(recs, i)
      <3>2. recs \in Recs /\ Len(recs) <= MaxRecords /\ Len(recs) \in Nat /\ MaxRecords \in Nat
        BY <1>0, BoundsAssumption DEF Kept, Recs
      <3>3. /\ new \in Recs /\ Len(new) = Len(recs) - 1
            /\ \A k \in DOMAIN new : \E j \in DOMAIN recs : new[k] = recs[j]
        BY <3>2, RemoveRecord
      <3>4. file' = [records |-> new, gaps |-> file.gaps, damaged |-> TRUE]
        BY <1>0, <3>1
      <3>5. DatedBy(recs, recordedAt)
        BY DEF LedgerInv, Dated
      <3> HIDE DEF new, recs
      <3>6. new \in Kept
        BY <3>2, <3>3 DEF Kept
      <3>7. DatedBy(new, recordedAt)
        BY <3>3, <3>5 DEF DatedBy
      <3> QED BY <1>0, <3>4, <3>6, <3>7
    <2>2. CASE \E g \in {file.gaps, NoGaps} : file' = [file EXCEPT !.gaps = g, !.damaged = TRUE]
      <3>1. PICK g \in {file.gaps, NoGaps} : file' = [file EXCEPT !.gaps = g, !.damaged = TRUE]
        BY <2>2
      <3>2. g \in Gaps
        BY <1>0, NoGapsTyped
      <3>3. file' = [records |-> file.records, gaps |-> g, damaged |-> TRUE]
        BY <1>0, <3>1
      <3>4. DatedBy(file.records, recordedAt)
        BY DEF LedgerInv, Dated
      <3> QED BY <1>0, <3>2, <3>3, <3>4
    <2> QED BY <2>1, <2>2 DEF Damage
  <1>2. Types' /\ HistoryTypes' /\ Clock'
    BY <1>0, <1>1 DEF LedgerInv, Types, HistoryTypes, Clock, HistoryPast, Past
  <1>3. Dated' /\ MarkerKnown' /\ InMemory' /\ OnDisk'
    BY <1>0, <1>1 DEF LedgerInv, Dated, MarkerKnown, InMemory, OnDisk, DatedBy
  <1> QED BY <1>2, <1>3 DEF LedgerInv

LEMMA TickKeeps ==
  ASSUME LedgerInv, Tick
  PROVE  LedgerInv'
  <1>0. /\ now' = now + 1 /\ now < MaxTime
        /\ UNCHANGED <<loaded, records, gaps, degradedSince, markerMayExist, file, marker>>
        /\ UNCHANGED <<truth, recordedAt, changed, untraced>>
    BY DEF Tick, memory, history
  <1>1. now' \in Times /\ now \in Int
    BY <1>0, BoundsAssumption DEF LedgerInv, Types, Times
  <1>2. \A x \in Instants : x <= now => x <= now'
    BY <1>0, <1>1, InstantsFacts
  <1>3. Types' /\ HistoryTypes'
    BY <1>0, <1>1 DEF LedgerInv, Types, HistoryTypes
  <1>4. Clock'
    <2>1. /\ degradedSince \in Instants /\ marker \in Instants
          /\ \A n \in Nonces : /\ recordedAt[n] \in Instants
                               /\ changed[n].from \in Instants /\ changed[n].to \in Instants
      BY DEF LedgerInv, Types, HistoryTypes, Spans
    <2> QED BY <1>0, <1>2, <2>1 DEF LedgerInv, Clock, HistoryPast, Past
  <1>5. Dated' /\ MarkerKnown' /\ InMemory' /\ OnDisk'
    BY <1>0 DEF LedgerInv, Dated, MarkerKnown, InMemory, OnDisk, DatedBy, Honest
  <1> QED BY <1>3, <1>4, <1>5 DEF LedgerInv

-----------------------------------------------------------------------------
LEMMA LedgerStep == LedgerInv /\ [Next]_vars => LedgerInv'
  <1> SUFFICES ASSUME LedgerInv, [Next]_vars PROVE LedgerInv'
    OBVIOUS
  <1>1. CASE UNCHANGED vars
    <2>1. /\ UNCHANGED <<now, loaded, records, gaps, degradedSince, markerMayExist, file, marker>>
          /\ UNCHANGED <<truth, recordedAt, changed, untraced>>
      BY <1>1 DEF vars, memory, history
    <2> QED BY <2>1 DEF LedgerInv, Types, HistoryTypes, Clock, HistoryPast, Past, Dated, DatedBy,
                        MarkerKnown, InMemory, OnDisk, Honest
  <1>2. CASE \E n \in Nonces : RecordPending(n)
    BY <1>2, RecordPendingKeeps
  <1>3. CASE \E n \in Nonces : ClearUnlessAccepted(n)
    BY <1>3, ClearKeeps
  <1>4. CASE \E n \in Nonces : \E s \in Outcomes : MarkCompleted(n, s)
    BY <1>4, CompletionKeeps
  <1> QED BY <1>1, <1>2, <1>3, <1>4, DisposeKeeps, LoadKeeps, LoadUnreadableKeeps, CrashKeeps,
             DamageKeeps, TickKeeps DEF Next

LEMMA LedgerInit == Init => LedgerInv
  <1> SUFFICES ASSUME Init PROVE LedgerInv
    OBVIOUS
  <1>1. Types
    <2>1. 0 \in Times
      BY BoundsAssumption DEF Times
    <2>2. [records |-> <<>>, gaps |-> NoGaps, damaged |-> FALSE]
            \in [records : Kept, gaps : Gaps, damaged : BOOLEAN]
      BY NoRecords, NoGapsTyped
    <2> QED BY <2>1, <2>2, NoRecords, NoGapsTyped, InstantsFacts DEF Init, Types
  <1>2. HistoryTypes
    BY InstantsFacts DEF Init, HistoryTypes, Spans
  <1>3. Clock
    BY InstantsFacts DEF Init, Clock, HistoryPast, Past
  <1>4. Dated /\ MarkerKnown /\ InMemory
    BY NoRecords DEF Init, Dated, DatedBy, MarkerKnown, InMemory
  <1>5. OnDisk
    BY DEF Init, OnDisk, Honest, StatusIn, NoncesOf
  <1> QED BY <1>1, <1>2, <1>3, <1>4, <1>5 DEF LedgerInv

LEMMA LedgerAlways == Spec => []LedgerInv
  BY LedgerInit, LedgerStep, PTL DEF Spec

\* The ledger in memory and on disk never outgrows MAX_RECORDS nor its windows
\* MAX_DEGRADED_WINDOWS, and never holds a nonce twice, whatever is damaged.
THEOREM LedgerTypeCorrect == Spec => []TypeOK
  <1>1. LedgerInv => TypeOK
    <2> SUFFICES ASSUME LedgerInv PROVE TypeOK
      OBVIOUS
    <2>1. ASSUME NEW recs \in Kept, NEW g \in Gaps PROVE IsLedger(recs, g)
      <3>1. recs \in Seq(Record) /\ g.windows \in Seq(Windows) /\ Unique(recs) /\ Len(recs) <= MaxRecords
        BY DEF Kept, Recs, Gaps, AnyGaps
      <3>2. IsGaps(g)
        <4>1. g.horizon \in Instants /\ g.reset \in Instants /\ Len(g.windows) <= MaxDegradedWindows
          BY DEF Gaps, AnyGaps
        <4>2. \A i \in DOMAIN g.windows : g.windows[i] \in [from : Times, to : Times]
          <5>1. \A i \in DOMAIN g.windows : g.windows[i] \in Windows
            BY <3>1
          <5> QED BY <5>1, Zenon DEF Windows
        <4> QED BY <4>1, <4>2 DEF IsGaps, Instants
      <3>3. \A i \in DOMAIN recs : recs[i] \in Record
        BY <3>1
      <3> QED BY <3>1, <3>2, <3>3 DEF IsLedger, Unique
    <2> QED BY <2>1 DEF LedgerInv, Types, TypeOK, Instants
  <1> QED BY <1>1, LedgerAlways, PTL

\* What the ledger has wrong about a nonce lies in a gap it declares (historyGaps),
\* through every order of failed writes, crashes, evictions and damage.
THEOREM GapsAreHonest == Spec => []GapsCoverWhatIsWrong
  <1>1. LedgerInv => GapsCoverWhatIsWrong
    <2> SUFFICES ASSUME LedgerInv, loaded, ~untraced, NEW n \in Nonces, StatusOf(n) # truth[n]
                 PROVE  Covered(n)
      BY DEF GapsCoverWhatIsWrong
    <2>1. Admits(gaps, recordedAt[n], changed[n]) \/ Within(degradedSince, changed[n])
      BY DEF LedgerInv, InMemory, Honest, StatusOf
    <2> QED BY <2>1 DEF Admits, Within, Covered
  <1> QED BY <1>1, LedgerAlways, PTL

\* "not-found" (lookup) is the truth about a nonce, up to the two faults that leave
\* no trace.
THEOREM NotFoundTrusted == Spec => []NotFoundIsTrue
  <1>1. LedgerInv => NotFoundIsTrue
    <2> SUFFICES ASSUME LedgerInv, loaded, ~untraced, NEW n \in Nonces,
                        Lookup(n) = "not-found", truth[n] # "none"
                 PROVE  FALSE
      BY DEF NotFoundIsTrue
    <2>1. n \notin NoncesOf(records) /\ gaps = NoGaps /\ degradedSince = NoTime
      BY DEF Lookup
    <2>2. StatusIn(records, n) = "none"
      BY <2>1 DEF StatusIn
    <2>3. Admits(NoGaps, recordedAt[n], changed[n])
      BY <2>1, <2>2 DEF LedgerInv, InMemory, Honest, Within
    <2>4. /\ recordedAt[n] # NoTime /\ changed[n].from # NoTime
          /\ recordedAt[n] \in Instants /\ changed[n].from \in Instants
      BY DEF LedgerInv, Dated, HistoryTypes, Spans
    <2>5. recordedAt[n] >= 0 /\ changed[n].from >= 0 /\ recordedAt[n] \in Int /\ changed[n].from \in Int
      BY <2>4, InstantsFacts
    <2>6. ~(NoTime >= recordedAt[n]) /\ ~(NoTime >= changed[n].from)
      BY <2>5, InstantsFacts
    <2> QED BY <2>3, <2>6 DEF Admits, NoGaps
  <1> QED BY <1>1, LedgerAlways, PTL

\* evictPastCap drops a send in flight only when every other record is in flight.
THEOREM SendsSpared == Spec => EvictionSparesSendsInFlight
  <1> DEFINE Spares == \A n \in Nonces :
        loaded /\ loaded' /\ StatusOf(n) = "pending" /\ StatusOf(n)' = "none"
          => truth'[n] = "none" \/ Completed(records) = {}
  <1>1. LedgerInv /\ [Next]_vars => [Spares]_vars
    <2> SUFFICES ASSUME LedgerInv, Next, NEW n \in Nonces, loaded, loaded' = TRUE,
                        StatusIn(records, n) = "pending", StatusIn(records', n) = "none"
                 PROVE  truth'[n] = "none" \/ Completed(records) = {}
      BY DEF StatusOf, LedgerInv, Types
    <2>0. records \in Recs /\ records \in Seq(Record) /\ Len(records) \in Nat /\ gaps \in Gaps
      BY DEF LedgerInv, Types, Kept, Recs
    <2>1. CASE \E m \in Nonces : RecordPending(m)
      <3>1. PICK m \in Nonces : RecordPending(m)
        BY <2>1
      <3> DEFINE r == [nonce |-> m, status |-> "pending", at |-> now]
                 all == Append(records, r)
      <3>2. r \in Record /\ r.nonce = m /\ r.status = "pending" /\ m \notin NoncesOf(records)
        BY <3>1, StatusesFacts DEF Record, LedgerInv, Types, RecordPending
      <3>3. records' = Evicted(all)
        BY <3>1 DEF RecordPending, Persist, Saved, NotSaved
      <3> HIDE DEF r
      <3>4. /\ all \in Recs /\ \A k : k # m => StatusIn(all, k) = StatusIn(records, k)
            /\ StatusIn(all, m) = "pending" /\ Len(all) = Len(records) + 1
        BY <2>0, <3>2, AppendRecord
      <3>5. \A i \in DOMAIN records : i \in DOMAIN all /\ all[i] = records[i]
        BY <2>0
      <3> HIDE DEF all
      <3>6. StatusIn(all, n) = "pending"
        BY <3>4
      <3>7. PICK i \in DOMAIN all : all[i].nonce = n /\ (all[i].status = "pending" => Completed(all) = {})
        BY <2>0, <3>3, <3>4, <3>6, EvictedStatus
      <3>8. all[i].status = "pending"
        BY <3>4, <3>6, <3>7, StatusKnown
      <3> QED BY <3>5, <3>7, <3>8 DEF Completed
    <2>2. CASE \E m \in Nonces : ClearUnlessAccepted(m)
      <3>1. PICK m \in Nonces : ClearUnlessAccepted(m)
        BY <2>2
      <3>2. records' = Without(records, m) /\ truth' = [truth EXCEPT ![m] = "none"]
        BY <3>1 DEF ClearUnlessAccepted, Persist, Saved, NotSaved, GivesStatus
      <3>3. truth \in [Nonces -> Statuses \cup {"none"}]
        BY DEF LedgerInv, HistoryTypes
      <3>4. CASE m = n
        BY <3>2, <3>3, <3>4
      <3>5. CASE m # n
        <4>1. StatusIn(records, m) # "none"
          BY <3>1 DEF ClearUnlessAccepted, StatusOf
        <4>2. m \in NoncesOf(records)
          BY <2>0, <4>1, StatusUnknown
        <4>3. PICK i \in DOMAIN records : PlaceOf(records, m) = i /\ records[i].nonce = m
          BY <4>2, KnownDated
        <4>4. StatusIn(RemoveAt(records, i), n) = StatusIn(records, n)
          BY <2>0, <3>5, <4>3, RemoveRecord
        <4> QED BY <3>2, <4>3, <4>4 DEF Without
      <3> QED BY <3>4, <3>5
    <2>3. CASE \E m \in Nonces : \E s \in Outcomes : MarkCompleted(m, s)
      <3>1. PICK m \in Nonces, s \in Outcomes : MarkCompleted(m, s)
        BY <2>3
      <3>2. records' = WithStatus(records, m, s) /\ StatusIn(records, m) = "pending" /\ s \in Statuses
        BY <3>1 DEF MarkCompleted, Persist, Saved, NotSaved, StatusOf, Statuses
      <3>3. m \in NoncesOf(records)
        BY <2>0, <3>2, StatusUnknown
      <3>4. /\ StatusIn(records', m) = s
            /\ \A k : k # m => StatusIn(records', k) = StatusIn(records, k)
        BY <2>0, <3>2, <3>3, CompleteRecord
      <3> QED BY <3>2, <3>4, StatusesFacts
    <2>4. CASE Dispose \/ Load \/ LoadUnreadable \/ Crash \/ Damage \/ Tick
      <3>1. records' = records
        BY <2>4 DEF Dispose, Persist, Saved, NotSaved, Load, LoadUnreadable, LoadsAs, Crash, Damage, Tick,
               memory
      <3> QED BY <3>1
    <2> QED BY <2>1, <2>2, <2>3, <2>4 DEF Next
  <1> QED BY <1>1, LedgerAlways, PTL DEF Spec, EvictionSparesSendsInFlight
=============================================================================
