----------------------- MODULE AutomationFiresProofs -----------------------
(***************************************************************************)
(* What AutomationFires promises, for every number of fires, every length  *)
(* of the history and of the batches, and any number of troubles: an entry *)
(* of the consumer's Map is "running" exactly while its fire is under way, *)
(* once (UnderWayOnce); what is reported as succeeded was run              *)
(* (SucceededWasRun); and no fire runs again whose end the store knows     *)
(* (NoKnownRunRepeats).                                                    *)
(*                                                                         *)
(* The argument.  A delivery moves its fire from one place to the next and *)
(* leaves by completing it or forgetting it (PlacesOK); the only other     *)
(* step that changes an entry is the return of a report, which must not    *)
(* find the entry running again: it does not, since a fire is delivered    *)
(* again only if it was forgotten unacknowledged, and the consumer forgets *)
(* what it has reported only after a poll that acknowledged it, or with no *)
(* other report of it under way (CallsOK).  So the fires of two wakes are  *)
(* disjoint, and the record one of them finishes says nothing new of the   *)
(* other's fires but for those the record had named before (RecordsOK):    *)
(* what was unknown when a fire was delivered is unknown when it begins    *)
(* (FreshOK).                                                              *)
(***************************************************************************)
EXTENDS AutomationFires, SequenceLemmas, FiniteSetTheorems

Injective(s) == \A i, j \in DOMAIN s : s[i] = s[j] => i = j

\* A fire is in one place at most, and in one exactly while its entry is running.
InRun(k) == ToSet(run[k].fires)
Placed(f) == f \in listing \/ f \in ToSet(items) \/ \E k \in Kinds : f \in InRun(k)
PlacesOK ==
  /\ \A f \in Fires : states[f] = "running" <=> Placed(f)
  /\ listing \cap ToSet(items) = {}
  /\ \A k \in Kinds : InRun(k) \cap (listing \cup ToSet(items)) = {}
  /\ InRun("slot") \cap InRun("event") = {}
  /\ Injective(items)
RunsOK ==
  /\ \A k \in Kinds : run[k].stage = "idle" => run[k] = Idle
  /\ \A j, k \in Kinds : run[j].stage = "running" /\ run[k].stage = "running" => j = k
  /\ items # <<>> => debounce \/ run["event"].stage # "idle"

\* A report under way is of a fire that will not be delivered again before it returns.
CallOK(c) ==
  /\ states[c.fire] # "running"
  /\ states[c.fire] = "none" => c.fire \in acked
  /\ states[c.fire] = "reported" /\ poll.phase = "answered" => c.fire \in acked
  /\ c.by = "tick" => poll.phase = "reporting"
CallsOK ==
  /\ \A c \in calls : CallOK(c)
  /\ \A c, d \in calls : c.by = "deliver" /\ d.by = "deliver" /\ c.fire = d.fire => c = d
  /\ poll.returned \cap acked = {}

\* What is known as succeeded was run, or an absorbed record named it.
Earned == ranOk \cup absorbed
Names(r) == (r.also \cup {r.id}) \cap Fires
EarnedOK ==
  /\ \A f \in Fires : states[f] = "succeeded" \/ backend[f] = "succeeded" => f \in Earned
  /\ \A c \in calls : c.status = "succeeded" => c.fire \in Earned
  /\ \A k \in Kinds : run[k].outcome = "ok" => InRun(k) \subseteq Earned
  /\ \A i \in DOMAIN runs : runs[i].status = "ok" => Names(runs[i]) \subseteq Earned

\* The record a run is under names no other fires but those it took over.
RecordsOK ==
  /\ \A k \in Kinds : run[k].stage = "running" /\ run[k].recorded
                        => AbsorbedBy(run[k].fires) \subseteq absorbed
  /\ \A k \in Kinds : run[k].recorded => run[k].stage \in {"running", "settling"}
  /\ \A z \in zombies : ToSet(z.fires) \subseteq givenUp

\* What was unknown of a fire when it was delivered still is when it begins.
Waiting(f) == \/ f \in ToSet(items)
              \/ \E k \in Kinds : f \in InRun(k) /\ run[k].stage \in {"resolving", "enqueued"}
FreshOK == \A f \in Fires \ (absorbed \cup givenUp) : Waiting(f) => ~KnownDone(f)

FiresInv == /\ TypeOK /\ PlacesOK /\ RunsOK /\ CallsOK
            /\ EarnedOK /\ RecordsOK /\ FreshOK

-----------------------------------------------------------------------------
\* What the model's operators return.

LEMMA MinLeast ==
  ASSUME NEW S, S \subseteq Nat, S # {}
  PROVE  Min(S) \in S /\ \A i \in S : Min(S) <= i
  BY LeastExists DEF Min

LEMMA MinOfTwo ==
  ASSUME NEW a \in Nat, NEW b \in Nat
  PROVE  /\ Min({a, b}) \in Nat /\ Min({a, b}) <= a /\ Min({a, b}) <= b
         /\ Min({a, b}) \in {a, b}
  <1>1. {a, b} \subseteq Nat /\ {a, b} # {}
    OBVIOUS
  <1>2. Min({a, b}) \in {a, b} /\ \A i \in {a, b} : Min({a, b}) <= i
    BY <1>1, MinLeast
  <1> QED BY <1>2

LEMMA ElementsOf ==
  ASSUME NEW S, NEW s \in Seq(S)
  PROVE  /\ ToSet(s) \subseteq S
         /\ \A i \in DOMAIN s : s[i] \in ToSet(s)
         /\ \A x \in ToSet(s) : \E i \in DOMAIN s : s[i] = x
         /\ s # <<>> => Head(s) \in ToSet(s) /\ ToSet(Tail(s)) \subseteq ToSet(s)
  <1>1. DOMAIN s = 1 .. Len(s) /\ \A i \in 1 .. Len(s) : s[i] \in S
    OBVIOUS
  <1>2. ASSUME s # <<>> PROVE Head(s) \in ToSet(s) /\ ToSet(Tail(s)) \subseteq ToSet(s)
    <2>1. /\ Len(s) >= 1 /\ Len(s) \in Nat /\ Head(s) = s[1]
          /\ Tail(s) \in Seq(S) /\ DOMAIN Tail(s) = 1 .. Len(s) - 1
          /\ \A i \in 1 .. Len(s) - 1 : Tail(s)[i] = s[i + 1]
      BY <1>2, EmptySeq
    <2>2. 1 \in DOMAIN s
      BY <1>1, <2>1
    <2>3. \A i \in DOMAIN Tail(s) : i + 1 \in DOMAIN s
      BY <1>1, <2>1
    <2> QED BY <2>1, <2>2, <2>3 DEF ToSet
  <1> QED BY <1>1, <1>2 DEF ToSet

LEMMA ElementsOfEmpty == ToSet(<<>>) = {}
  BY DEF ToSet

LEMMA ElementsOfOne == ASSUME NEW x PROVE ToSet(<<x>>) = {x}
  <1>1. DOMAIN <<x>> = {1} /\ <<x>>[1] = x
    OBVIOUS
  <1> QED BY <1>1 DEF ToSet

LEMMA ElementsOfAppend ==
  ASSUME NEW S, NEW s \in Seq(S), NEW x \in S
  PROVE  ToSet(Append(s, x)) = ToSet(s) \cup {x}
  <1>1. /\ DOMAIN s = 1 .. Len(s) /\ DOMAIN Append(s, x) = 1 .. Len(s) + 1
        /\ Len(s) \in Nat
        /\ \A i \in 1 .. Len(s) : Append(s, x)[i] = s[i]
        /\ Append(s, x)[Len(s) + 1] = x
    OBVIOUS
  <1>2. 1 .. Len(s) + 1 = (1 .. Len(s)) \cup {Len(s) + 1}
    BY <1>1
  <1> QED BY <1>1, <1>2 DEF ToSet

\* A cut of a sequence without repetitions shares nothing with the rest.
LEMMA ElementsOfCut ==
  ASSUME NEW S, NEW s \in Seq(S), Injective(s), NEW n \in 0 .. Len(s)
  PROVE  LET l == SubSeq(s, 1, n)
             r == SubSeq(s, n + 1, Len(s))
         IN  /\ l \in Seq(S) /\ r \in Seq(S) /\ Len(r) = Len(s) - n
             /\ ToSet(l) \cup ToSet(r) = ToSet(s)
             /\ ToSet(l) \cap ToSet(r) = {}
             /\ Injective(r)
  <1> DEFINE l == SubSeq(s, 1, n)  r == SubSeq(s, n + 1, Len(s))
  <1>1. /\ l \in Seq(S) /\ DOMAIN l = 1 .. n /\ \A i \in 1 .. n : l[i] = s[i]
        /\ r \in Seq(S) /\ DOMAIN r = 1 .. Len(s) - n /\ Len(r) = Len(s) - n
        /\ \A i \in 1 .. Len(s) - n : r[i] = s[i + n]
        /\ DOMAIN s = 1 .. Len(s) /\ Len(s) \in Nat
    OBVIOUS
  <1> HIDE DEF l, r
  <1>2. ASSUME NEW x \in ToSet(s) PROVE x \in ToSet(l) \cup ToSet(r)
    <2>1. PICK i \in 1 .. Len(s) : s[i] = x
      BY <1>1 DEF ToSet
    <2>2. CASE i <= n
      <3>1. i \in 1 .. n /\ l[i] = x
        BY <1>1, <2>1, <2>2
      <3> QED BY <1>1, <3>1 DEF ToSet
    <2>3. CASE i > n
      <3>1. i - n \in 1 .. Len(s) - n /\ (i - n) + n = i
        BY <1>1, <2>3
      <3>2. r[i - n] = x
        BY <1>1, <2>1, <3>1
      <3> QED BY <1>1, <3>1, <3>2 DEF ToSet
    <2> QED BY <2>2, <2>3, <1>1
  <1>3. ToSet(l) \subseteq ToSet(s)
    BY <1>1 DEF ToSet
  <1>4. ToSet(r) \subseteq ToSet(s)
    <2>1. \A i \in 1 .. Len(s) - n : i + n \in 1 .. Len(s)
      BY <1>1
    <2> QED BY <1>1, <2>1 DEF ToSet
  <1>5. ToSet(l) \cap ToSet(r) = {}
    <2> SUFFICES ASSUME NEW i \in 1 .. n, NEW j \in 1 .. Len(s) - n, l[i] = r[j] PROVE FALSE
      BY <1>1 DEF ToSet
    <2>1. i \in 1 .. Len(s) /\ j + n \in 1 .. Len(s) /\ i # j + n
      BY <1>1
    <2>2. s[i] = s[j + n]
      BY <1>1
    <2> QED BY <1>1, <2>1, <2>2 DEF Injective
  <1>6. Injective(r)
    <2> SUFFICES ASSUME NEW i \in 1 .. Len(s) - n, NEW j \in 1 .. Len(s) - n, r[i] = r[j]
                 PROVE  i = j
      BY <1>1 DEF Injective
    <2>1. i + n \in 1 .. Len(s) /\ j + n \in 1 .. Len(s) /\ s[i + n] = s[j + n]
      BY <1>1
    <2>2. i + n = j + n
      BY <1>1, <2>1 DEF Injective
    <2> QED BY <1>1, <2>2
  <1> QED BY <1>1, <1>2, <1>3, <1>4, <1>5, <1>6 DEF l, r

\* Wakes, and what ends one or begins one.
LEMMA IdleType == Idle \in RunStates /\ Idle.fires = <<>> /\ Idle.stage = "idle"
                  /\ Idle.outcome = "none" /\ Idle.stale = FALSE /\ Idle.recorded = FALSE
  BY EmptySeq DEF Idle, RunStates, Outcomes, Stages

LEMMA WakeType ==
  ASSUME NEW fires \in Seq(Fires), NEW stage \in Stages
  PROVE  /\ Wake(fires, stage) \in RunStates
         /\ Wake(fires, stage).stage = stage /\ Wake(fires, stage).fires = fires
         /\ Wake(fires, stage).outcome = "none" /\ ~Wake(fires, stage).recorded
         /\ ~Wake(fires, stage).stale
  <1> DEFINE w == Wake(fires, stage)
  <1>1. ASSUME NEW r \in RunStates, w = [r EXCEPT !.stage = stage, !.fires = fires]
        PROVE  /\ w \in RunStates /\ w.stage = stage /\ w.fires = fires
               /\ w.outcome = r.outcome /\ w.recorded = r.recorded /\ w.stale = r.stale
    BY <1>1 DEF RunStates
  <1>2. w = [Idle EXCEPT !.stage = stage, !.fires = fires]
    BY DEF Wake
  <1> HIDE DEF w
  <1>3. /\ w \in RunStates /\ w.stage = stage /\ w.fires = fires
        /\ w.outcome = Idle.outcome /\ w.recorded = Idle.recorded /\ w.stale = Idle.stale
    BY <1>1, <1>2, IdleType, Zenon
  <1> QED BY <1>3, IdleType DEF w

LEMMA RunParts ==
  ASSUME NEW r \in RunStates
  PROVE  /\ r.stage \in Stages /\ r.fires \in Seq(Fires) /\ r.outcome \in Outcomes
         /\ r.stale \in BOOLEAN /\ r.recorded \in BOOLEAN
         /\ r = [stage |-> r.stage, fires |-> r.fires, stale |-> r.stale,
                 recorded |-> r.recorded, outcome |-> r.outcome]
  BY DEF RunStates

\* A step to another stage keeps what the wake is about.
Moves(k, stage, outcome) ==
  /\ run' \in [Kinds -> RunStates]
  /\ run'[k].stage = stage /\ run'[k].outcome = outcome
  /\ run'[k].fires = run[k].fires /\ run'[k].stale = run[k].stale
  /\ \A j \in Kinds \ {k} : run'[j] = run[j]

LEMMA EndsEffect ==
  ASSUME run \in [Kinds -> RunStates], NEW k \in Kinds, NEW o \in Outcomes, Ends(k, o)
  PROVE  Moves(k, "settling", o) /\ run'[k].recorded = run[k].recorded
  <1>1. /\ run[k] \in RunStates
        /\ run' = [run EXCEPT ![k] = [run[k] EXCEPT !.stage = "settling", !.outcome = o]]
    BY DEF Ends
  <1> DEFINE r == [run[k] EXCEPT !.stage = "settling", !.outcome = o]
  <1>2. /\ r \in RunStates /\ r.stage = "settling" /\ r.outcome = o
        /\ r.fires = run[k].fires /\ r.stale = run[k].stale /\ r.recorded = run[k].recorded
    BY <1>1 DEF RunStates, Stages
  <1> HIDE DEF r
  <1> QED BY <1>1, <1>2 DEF Moves, r

LEMMA StageEffect ==
  ASSUME run \in [Kinds -> RunStates], NEW k \in Kinds, NEW s \in Stages,
         run' = [run EXCEPT ![k].stage = s]
  PROVE  Moves(k, s, run[k].outcome) /\ run'[k].recorded = run[k].recorded
  <1> DEFINE r == [run[k] EXCEPT !.stage = s]
  <1>1. run[k] \in RunStates /\ run' = [run EXCEPT ![k] = r]
    OBVIOUS
  <1>2. /\ r \in RunStates /\ r.stage = s /\ r.outcome = run[k].outcome
        /\ r.fires = run[k].fires /\ r.stale = run[k].stale /\ r.recorded = run[k].recorded
    BY <1>1 DEF RunStates
  <1> HIDE DEF r
  <1> QED BY <1>1, <1>2 DEF Moves

LEMMA RecordedEffect ==
  ASSUME run \in [Kinds -> RunStates], NEW k \in Kinds,
         run' = [run EXCEPT ![k].stage = "running", ![k].recorded = TRUE]
  PROVE  Moves(k, "running", run[k].outcome) /\ run'[k].recorded
  <1> DEFINE r == [run[k] EXCEPT !.stage = "running", !.recorded = TRUE]
  <1>1. run[k] \in RunStates /\ run' = [run EXCEPT ![k] = r]
    OBVIOUS
  <1>2. /\ r \in RunStates /\ r.stage = "running" /\ r.outcome = run[k].outcome
        /\ r.fires = run[k].fires /\ r.stale = run[k].stale /\ r.recorded = TRUE
    BY <1>1 DEF RunStates, Stages
  <1> HIDE DEF r
  <1> QED BY <1>1, <1>2 DEF Moves

\* Replacing a wake as a whole.
LEMMA ReplaceEffect ==
  ASSUME run \in [Kinds -> RunStates], NEW k \in Kinds, NEW r \in RunStates,
         run' = [run EXCEPT ![k] = r]
  PROVE  /\ run' \in [Kinds -> RunStates] /\ run'[k] = r
         /\ \A j \in Kinds \ {k} : run'[j] = run[j]
  OBVIOUS

\* A slot, or a run by hand, is woken at once.
LEMMA SlotWakes ==
  ASSUME run \in [Kinds -> RunStates], NEW fires \in Seq(Fires),
         run' = [run EXCEPT !["slot"] = Wake(fires, "resolving")]
  PROVE  /\ run'["slot"].stage = "resolving" /\ run'["slot"].fires = fires
         /\ run'["slot"].outcome = "none" /\ ~run'["slot"].recorded
         /\ run'["event"] = run["event"]
  <1> DEFINE w == Wake(fires, "resolving")
  <1>1. /\ w \in RunStates /\ w.stage = "resolving" /\ w.fires = fires
        /\ w.outcome = "none" /\ ~w.recorded
    <2>1. "resolving" \in Stages
      BY DEF Stages
    <2> QED BY <2>1, WakeType
  <1> HIDE DEF w
  <1>2. "slot" \in Kinds /\ "event" \in Kinds \ {"slot"} /\ run' = [run EXCEPT !["slot"] = w]
    BY DEF Kinds, w
  <1>3. run'["slot"] = w /\ run'["event"] = run["event"]
    BY <1>1, <1>2, ReplaceEffect
  <1> QED BY <1>1, <1>3, Zenon

\* The records of runs.
LEMMA RecordParts ==
  ASSUME NEW r \in StoredRuns
  PROVE  r.id \in Fires \cup {Manual} /\ r.also \subseteq Fires
         /\ r.status \in {"running", "ok", "error"}
  BY DEF StoredRuns

LEMMA NewRecordType ==
  ASSUME NEW fires \in Seq(Fires)
  PROVE  /\ NewRecord(fires) \in StoredRuns
         /\ NewRecord(fires).status = "running"
         /\ NewRecord(fires).id = IdOf(fires)
         /\ NewRecord(fires).also \subseteq ToSet(fires)
         /\ IdOf(fires) \in ToSet(fires) \cup {Manual}
  <1> DEFINE a == IF fires = <<>> THEN {} ELSE ToSet(Tail(fires))
  <1>1. a \subseteq ToSet(fires) /\ ToSet(fires) \subseteq Fires
    BY ElementsOf
  <1>2. IdOf(fires) \in ToSet(fires) \cup {Manual}
    BY ElementsOf DEF IdOf
  <1>3. NewRecord(fires) = [id |-> IdOf(fires), also |-> a, status |-> "running"]
    BY DEF NewRecord
  <1> HIDE DEF a
  <1> QED BY <1>1, <1>2, <1>3 DEF StoredRuns

HistoryOK(records) == records \in Seq(StoredRuns) /\ Len(records) <= History
LEMMA NumbersType == /\ History \in Nat /\ MaxWake \in Nat /\ MaxQueued \in Nat
                     /\ History > 0 /\ MaxWake > 0 /\ MaxQueued > 0 /\ MaxTroubles \in Nat
  BY BoundsAssumption

\* A new record goes first, the oldest is dropped.
LEMMA WithRecordEffect ==
  ASSUME HistoryOK(runs), NEW fires \in Seq(Fires), RunsOf(IdOf(fires)) = {}
  PROVE  /\ HistoryOK(WithRecord(fires)) /\ Len(WithRecord(fires)) >= 1
         /\ WithRecord(fires)[1] = NewRecord(fires)
         /\ \A i \in 2 .. Len(WithRecord(fires)) :
              i - 1 \in DOMAIN runs /\ WithRecord(fires)[i] = runs[i - 1]
  <1> DEFINE all == <<NewRecord(fires)>> \o runs  n == Min({History, Len(all)})
  <1>1. NewRecord(fires) \in StoredRuns
    BY NewRecordType
  <1>2. /\ all \in Seq(StoredRuns) /\ Len(all) = Len(runs) + 1 /\ Len(runs) \in Nat
        /\ all[1] = NewRecord(fires)
        /\ \A i \in 2 .. Len(runs) + 1 : all[i] = runs[i - 1]
    <2>1. <<NewRecord(fires)>> \in Seq(StoredRuns) /\ runs \in Seq(StoredRuns)
      BY <1>1 DEF HistoryOK
    <2> QED BY <2>1
  <1> HIDE DEF all
  <1>3. n \in Nat /\ n <= History /\ n <= Len(all) /\ n >= 1
    <2>1. History \in Nat /\ Len(all) \in Nat /\ History >= 1 /\ Len(all) >= 1
      BY <1>2, NumbersType
    <2>2. n \in {History, Len(all)} /\ n \in Nat /\ n <= History /\ n <= Len(all)
      BY <2>1, MinOfTwo
    <2> HIDE DEF n
    <2> QED BY <2>1, <2>2
  <1>4. WithRecord(fires) = SubSeq(all, 1, n)
    BY DEF WithRecord, Kept, all
  <1> HIDE DEF n
  <1>5. /\ SubSeq(all, 1, n) \in Seq(StoredRuns) /\ Len(SubSeq(all, 1, n)) = n
        /\ \A i \in 1 .. n : SubSeq(all, 1, n)[i] = all[i]
    BY <1>2, <1>3
  <1>6. \A i \in 2 .. n : i - 1 \in DOMAIN runs /\ i \in 2 .. Len(runs) + 1
    <2>1. DOMAIN runs = 1 .. Len(runs)
      BY DEF HistoryOK
    <2> QED BY <2>1, <1>2, <1>3
  <1> QED BY <1>2, <1>3, <1>4, <1>5, <1>6 DEF HistoryOK

\* Finishing a record changes its status only.
LEMMA FinishedEffect ==
  ASSUME HistoryOK(runs), NEW id, NEW status \in {"ok", "error"}
  PROVE  LET done == Finished(id, status)
         IN  /\ HistoryOK(done) /\ DOMAIN done = DOMAIN runs
             /\ \A i \in DOMAIN runs :
                  /\ done[i].id = runs[i].id /\ done[i].also = runs[i].also
                  /\ done[i] \in StoredRuns /\ runs[i] \in StoredRuns
                  /\ done[i].status = IF i \in RunsOf(id) THEN status ELSE runs[i].status
  <1> DEFINE done == Finished(id, status)
             e(i) == IF i \in RunsOf(id) THEN [runs[i] EXCEPT !.status = status] ELSE runs[i]
  <1>1. DOMAIN runs = 1 .. Len(runs) /\ Len(runs) \in Nat /\ runs \in Seq(StoredRuns)
    BY DEF HistoryOK
  <1>2. done = [i \in 1 .. Len(runs) |-> e(i)]
    BY <1>1 DEF Finished
  <1>3. ASSUME NEW i \in 1 .. Len(runs)
        PROVE  /\ e(i) \in StoredRuns /\ runs[i] \in StoredRuns
               /\ e(i).id = runs[i].id /\ e(i).also = runs[i].also
               /\ e(i).status = IF i \in RunsOf(id) THEN status ELSE runs[i].status
    <2>1. runs[i] \in StoredRuns
      BY <1>1
    <2>2. CASE i \in RunsOf(id)
      BY <2>1, <2>2 DEF StoredRuns
    <2>3. CASE i \notin RunsOf(id)
      BY <2>1, <2>3
    <2> QED BY <2>2, <2>3
  <1> HIDE DEF e
  <1>4. done \in [1 .. Len(runs) -> StoredRuns]
    BY <1>2, <1>3
  <1>5. done \in Seq(StoredRuns) /\ Len(done) = Len(runs) /\ DOMAIN done = 1 .. Len(runs)
    BY <1>1, <1>4, SeqDef
  <1>6. \A i \in 1 .. Len(runs) : done[i] = e(i)
    BY <1>2
  <1> HIDE DEF done
  <1>7. HistoryOK(done)
    BY <1>5 DEF HistoryOK
  <1> QED BY <1>1, <1>3, <1>5, <1>6, <1>7 DEF done

\* Entries that are completed, and entries that are forgotten.
Entries == {"none", "running", "reported"} \cup Statuses
LEMMA CompletesEffect ==
  ASSUME states \in [Fires -> Entries], calls \subseteq Reports,
         NEW F \in SUBSET Fires, NEW status \in Statuses, Completes(F, status)
  PROVE  /\ states' \in [Fires -> Entries] /\ calls' \subseteq Reports
         /\ \A f \in F : states'[f] = status
         /\ \A f \in Fires \ F : states'[f] = states[f]
         /\ calls \subseteq calls'
         /\ \A c \in calls' \ calls : c = Report(c.fire, "deliver", status) /\ c.fire \in F
  <1>1. \A f \in Fires : Report(f, "deliver", status) \in Reports
    BY DEF Report, Reports
  <1>2. \A f \in Fires : Report(f, "deliver", status).fire = f
    BY DEF Report
  <1> QED BY <1>1, <1>2 DEF Completes, Entries

LEMMA ForgetsEffect ==
  ASSUME states \in [Fires -> Entries], NEW F \in SUBSET Fires, Forgets(F)
  PROVE  /\ states' \in [Fires -> Entries] /\ calls' = calls
         /\ \A f \in F : states'[f] = "none"
         /\ \A f \in Fires \ F : states'[f] = states[f]
  BY DEF Forgets, Entries

LEMMA ExistingType == \A f : Existing(f) \in {"none"} \cup Statuses
  BY DEF Existing, Statuses

LEMMA OutcomeStatus == \A o : StatusOf(o) \in Statuses
  BY DEF StatusOf, Statuses

-----------------------------------------------------------------------------
\* What each step does to the parts of the state that have a structure.

LEMMA TickTypes == ASSUME TypeOK, AnyTick PROVE TypeOK'
  <1> USE DEF external, durable, consumer, wakes, history
  <1>1. CASE \E returned \in SUBSET Fires : Polls(returned)
    BY <1>1 DEF TypeOK, Polls, PollStates, ToAck
  <1>2. CASE PollFails
    BY <1>2 DEF TypeOK, PollFails, PollStates, NoPoll, Trouble
  <1>3. CASE PollReturns
    BY <1>3 DEF TypeOK, PollReturns, PollStates
  <1>4. CASE TickEnds
    BY <1>4 DEF TypeOK, TickEnds, PollStates, NoPoll
  <1>5. CASE \E f \in Fires : TickVisits(f)
    <2>1. PICK f \in Fires : TickVisits(f)
      BY <1>5
    <2>2. Report(f, "tick", states[f]) \in Reports
      BY <2>1 DEF TickVisits, Completed, Report, Reports
    <2> QED BY <2>1, <2>2 DEF TypeOK, TickVisits
  <1>6. CASE \E c \in calls : CallReaches(c) \/ CallReturns(c) \/ CallFails(c)
    <2>1. PICK c \in calls : CallReaches(c) \/ CallReturns(c) \/ CallFails(c)
      BY <1>6
    <2>2. /\ c \in Reports /\ c.fire \in Fires /\ c.status \in Statuses
          /\ [c EXCEPT !.at = "reached"] \in Reports
      BY <2>1 DEF TypeOK, Reports
    <2>3. CASE CallReaches(c)
      BY <2>2, <2>3 DEF TypeOK, CallReaches
    <2>4. CASE CallReturns(c)
      BY <2>2, <2>4 DEF TypeOK, CallReturns
    <2>5. CASE CallFails(c)
      BY <2>2, <2>5 DEF TypeOK, CallFails, AfterError, Trouble
    <2> QED BY <2>1, <2>3, <2>4, <2>5
  <1> QED BY <1>1, <1>2, <1>3, <1>4, <1>5, <1>6 DEF AnyTick

\* A batch that the event joins.
LEMMA BatchEffect ==
  ASSUME items \in Seq(Events), Len(items) <= MaxQueued, NEW f \in Events
  PROVE  LET batch == Append(items, f)
         IN  /\ batch \in Seq(Events) /\ batch # <<>>
             /\ ToSet(batch) = ToSet(items) \cup {f}
             /\ Len(batch) <= MaxQueued + 1
             /\ Len(batch) > MaxQueued => /\ Tail(batch) \in Seq(Events)
                                          /\ Len(Tail(batch)) <= MaxQueued
                                          /\ Head(batch) \in Events
                                          /\ Len(batch) > 1 /\ Head(batch) = Head(items)
                                          /\ items # <<>>
  <1> DEFINE batch == Append(items, f)
  <1>1. /\ batch \in Seq(Events) /\ Len(batch) = Len(items) + 1 /\ Len(items) \in Nat
        /\ \A i \in 1 .. Len(items) : batch[i] = items[i]
    OBVIOUS
  <1>2. ToSet(batch) = ToSet(items) \cup {f}
    BY ElementsOfAppend
  <1>3. MaxQueued \in Nat /\ MaxQueued > 0
    BY NumbersType
  <1> HIDE DEF batch
  <1>4. batch # <<>>
    BY <1>1
  <1>5. ASSUME Len(batch) > MaxQueued
        PROVE  /\ Tail(batch) \in Seq(Events) /\ Len(Tail(batch)) <= MaxQueued
               /\ Head(batch) \in Events /\ Len(batch) > 1 /\ Head(batch) = Head(items)
               /\ items # <<>>
    <2>1. Len(items) >= 1
      BY <1>1, <1>3, <1>5
    <2>2. Head(batch) = batch[1] /\ Head(items) = items[1] /\ batch[1] \in Events
          /\ items # <<>>
      BY <1>1, <2>1
    <2>3. Len(Tail(batch)) = Len(batch) - 1 /\ Tail(batch) \in Seq(Events)
      BY <1>1, <1>4
    <2> QED BY <1>1, <1>3, <2>1, <2>2, <2>3
  <1> QED BY <1>1, <1>2, <1>3, <1>4, <1>5 DEF batch

LEMMA EntriesType == TypeOK => states \in [Fires -> Entries] /\ calls \subseteq Reports
  BY DEF TypeOK, Entries

LEMMA DeliveryTypes ==
  ASSUME TypeOK, NEW f \in Fires,
         \/ ConsumerStopped(f) \/ ListingFails(f) \/ RanBefore(f)
         \/ Refuse(f) \/ FireSlot(f) \/ EnqueueEvent(f)
  PROVE  TypeOK'
  <1> USE DEF external, durable, consumer, wakes, history
  <1>0. states \in [Fires -> Entries] /\ calls \subseteq Reports /\ {f} \in SUBSET Fires
    BY EntriesType
  <1>1. CASE ConsumerStopped(f)
    <2>1. states' \in [Fires -> Entries] /\ calls' = calls
      BY <1>0, <1>1, ForgetsEffect DEF ConsumerStopped
    <2> QED BY <1>1, <2>1 DEF TypeOK, ConsumerStopped, Delivering, Entries
  <1>2. CASE ListingFails(f)
    <2>1. states' \in [Fires -> Entries] /\ calls' = calls
      BY <1>0, <1>2, ForgetsEffect DEF ListingFails
    <2> QED BY <1>2, <2>1 DEF TypeOK, ListingFails, Delivering, Entries, Trouble
  <1>3. CASE RanBefore(f)
    <2>1. Existing(f) \in Statuses /\ Completes({f}, Existing(f))
      BY <1>3, ExistingType DEF RanBefore
    <2>2. states' \in [Fires -> Entries] /\ calls' \subseteq Reports
      BY <1>0, <2>1, CompletesEffect
    <2> QED BY <1>3, <2>2 DEF TypeOK, RanBefore, Delivering, Entries
  <1>4. CASE Refuse(f)
    <2>1. "failed" \in Statuses /\ Completes({f}, "failed")
      BY <1>4 DEF Refuse, Statuses
    <2>2. states' \in [Fires -> Entries] /\ calls' \subseteq Reports
      BY <1>0, <2>1, CompletesEffect
    <2> QED BY <1>4, <2>2 DEF TypeOK, Refuse, Delivering, Entries
  <1>5. CASE FireSlot(f)
    <2>1. CASE Declines("slot")
      <3>1. states' \in [Fires -> Entries] /\ calls' = calls /\ run' = run
        BY <1>0, <1>5, <2>1, ForgetsEffect DEF FireSlot
      <3> QED BY <1>5, <3>1 DEF TypeOK, FireSlot, Delivering, Entries
    <2>2. CASE ~Declines("slot")
      <3>1. Wake(<<f>>, "resolving") \in RunStates
        <4>1. <<f>> \in Seq(Fires) /\ "resolving" \in Stages
          BY DEF Stages
        <4> QED BY <4>1, WakeType
      <3>2. run' \in [Kinds -> RunStates] /\ states' = states /\ calls' = calls
        BY <1>5, <2>2, <3>1 DEF FireSlot, TypeOK
      <3> QED BY <1>5, <3>2 DEF TypeOK, FireSlot, Delivering
    <2> QED BY <2>1, <2>2
  <1>6. CASE EnqueueEvent(f)
    <2> DEFINE batch == Append(items, f)
    <2>1. f \in Events /\ items \in Seq(Events) /\ Len(items) <= MaxQueued
      BY <1>6 DEF EnqueueEvent, TypeOK
    <2>2. /\ batch \in Seq(Events)
          /\ Len(batch) > MaxQueued => /\ Tail(batch) \in Seq(Events)
                                       /\ Len(Tail(batch)) <= MaxQueued
                                       /\ Head(batch) \in Events
      BY <2>1, BatchEffect
    <2>3. IF Len(batch) > MaxQueued
          THEN items' = Tail(batch) /\ Completes({Head(batch)}, "failed")
          ELSE items' = batch /\ UNCHANGED <<states, calls>>
      BY <1>6 DEF EnqueueEvent
    <2> HIDE DEF batch
    <2>4. Len(batch) > MaxQueued \/ Len(batch) <= MaxQueued
      BY <2>2, NumbersType
    <2>5. "failed" \in Statuses /\ Events \subseteq Fires
      BY DEF Statuses, Fires
    <2>6. /\ states' \in [Fires -> Entries] /\ calls' \subseteq Reports
          /\ items' \in Seq(Events) /\ Len(items') <= MaxQueued
      <3>1. CASE Len(batch) > MaxQueued
        <4>1. {Head(batch)} \in SUBSET Fires /\ Completes({Head(batch)}, "failed")
          BY <2>2, <2>3, <2>5, <3>1
        <4>2. states' \in [Fires -> Entries] /\ calls' \subseteq Reports
          BY <1>0, <2>5, <4>1, CompletesEffect
        <4> QED BY <2>2, <2>3, <3>1, <4>2
      <3>2. CASE ~(Len(batch) > MaxQueued)
        BY <1>0, <2>2, <2>3, <2>4, <3>2
      <3> QED BY <3>1, <3>2
    <2>7. debounce' \in BOOLEAN
      BY <1>6 DEF EnqueueEvent, Armed, TypeOK
    <2> QED BY <1>6, <2>6, <2>7 DEF TypeOK, EnqueueEvent, Delivering, Entries
  <1> QED BY <1>1, <1>2, <1>3, <1>4, <1>5, <1>6

\* The timer takes what one wake may hold.
Flushed == Min({MaxWake, Len(items)})
LEMMA FlushEffect ==
  ASSUME TypeOK, Flush
  PROVE  LET stage == IF userStopped THEN "settling" ELSE "resolving"
         IN  /\ Flushed \in 0 .. Len(items)
             /\ items' = SubSeq(items, Flushed + 1, Len(items))
             /\ items' \in Seq(Events) /\ Len(items') <= MaxQueued
             /\ run' \in [Kinds -> RunStates]
             /\ run'["event"].stage = stage
             /\ run'["event"].fires = SubSeq(items, 1, Flushed)
             /\ run'["event"].outcome = "none" /\ ~run'["event"].recorded
             /\ run'["slot"] = run["slot"]
  <1> DEFINE n == Flushed  stage == IF userStopped THEN "settling" ELSE "resolving"
             left == SubSeq(items, n + 1, Len(items))  taken == SubSeq(items, 1, n)
  <1>1. items \in Seq(Events) /\ Len(items) \in Nat /\ Len(items) <= MaxQueued
    BY DEF TypeOK
  <1>2. n \in Nat /\ n <= Len(items)
    <2>1. MaxWake \in Nat
      BY NumbersType
    <2> QED BY <1>1, <2>1, MinOfTwo DEF Flushed
  <1>3. items' = left /\ run' = [run EXCEPT !["event"] = Wake(taken, stage)]
    BY DEF Flush, Flushed
  <1> HIDE DEF n
  <1>4. /\ left \in Seq(Events) /\ Len(left) = Len(items) - n
        /\ taken \in Seq(Events)
    BY <1>1, <1>2
  <1> HIDE DEF left, taken
  <1>5. taken \in Seq(Fires) /\ stage \in Stages
    <2>1. Events \subseteq Fires
      BY DEF Fires
    <2>2. taken \in Seq(Fires)
      BY <1>4, <2>1
    <2> QED BY <2>2 DEF Stages
  <1> HIDE DEF stage
  <1>6. /\ Wake(taken, stage) \in RunStates /\ Wake(taken, stage).stage = stage
        /\ Wake(taken, stage).fires = taken /\ Wake(taken, stage).outcome = "none"
        /\ ~Wake(taken, stage).recorded
    BY <1>5, WakeType
  <1>7. /\ run' \in [Kinds -> RunStates] /\ run'["event"] = Wake(taken, stage)
        /\ run'["slot"] = run["slot"]
    BY <1>3, <1>6 DEF TypeOK, Kinds
  <1>8. n \in 0 .. Len(items) /\ Len(left) <= MaxQueued
    <2>1. MaxQueued \in Nat
      BY NumbersType
    <2> QED BY <1>1, <1>2, <1>4, <2>1
  <1> QED BY <1>3, <1>4, <1>6, <1>7, <1>8 DEF n, left, taken, stage

LEMMA WithRecordType ==
  ASSUME HistoryOK(runs), NEW fires \in Seq(Fires) PROVE HistoryOK(WithRecord(fires))
  <1>1. CASE RunsOf(IdOf(fires)) = {}
    BY <1>1, WithRecordEffect
  <1>2. CASE RunsOf(IdOf(fires)) # {}
    <2>1. WithRecord(fires) = runs
      BY <1>2 DEF WithRecord
    <2> QED BY <2>1
  <1> QED BY <1>1, <1>2

LEMMA AbsorbedType ==
  ASSUME HistoryOK(runs), NEW fires PROVE AbsorbedBy(fires) \subseteq Fires
  <1>1. \A i \in RunsOf(IdOf(fires)) : i \in DOMAIN runs
    BY DEF RunsOf
  <1>2. \A i \in DOMAIN runs : runs[i] \in StoredRuns
    BY DEF HistoryOK
  <1>3. \A i \in RunsOf(IdOf(fires)) : runs[i].also \subseteq Fires
    BY <1>1, <1>2, RecordParts
  <1> QED BY <1>3 DEF AbsorbedBy

LEMMA HistoryType == TypeOK => HistoryOK(runs)
  BY DEF TypeOK, HistoryOK

LEMMA FinishesEffect ==
  ASSUME TypeOK, NEW w, NEW status \in {"ok", "error"}, Finishes(w, status)
  PROVE  /\ HistoryOK(runs') /\ troubles' \in Nat
         /\ runs' = runs \/ (w.recorded /\ runs' = Finished(IdOf(w.fires), status))
  <1>1. HistoryOK(runs)
    BY HistoryType
  <1>2. troubles' \in Nat
    BY DEF Finishes, Trouble, NoTrouble, TypeOK
  <1>3. CASE w.recorded /\ runs' = Finished(IdOf(w.fires), status)
    BY <1>1, <1>2, <1>3, FinishedEffect
  <1>4. CASE runs' = runs
    BY <1>1, <1>2, <1>4
  <1> QED BY <1>3, <1>4 DEF Finishes

LEMMA ThrowsEffect ==
  ASSUME TypeOK, NEW w, NEW o, NEW status \in {"ok", "error"}, Throws(w, o, status)
  PROVE  /\ HistoryOK(runs') /\ troubles' \in Nat
         /\ runs' = runs \/ (w.recorded /\ runs' = Finished(IdOf(w.fires), status))
  <1>1. HistoryOK(runs)
    BY HistoryType
  <1>2. troubles' \in Nat
    BY DEF Throws, Trouble, TypeOK
  <1>3. CASE w.recorded /\ runs' = Finished(IdOf(w.fires), status)
    BY <1>1, <1>2, <1>3, FinishedEffect
  <1>4. CASE runs' = runs
    BY <1>1, <1>2, <1>4
  <1> QED BY <1>3, <1>4 DEF Throws

\* A wake that the queue starts, with a record or without.
LEMMA StartsEffect ==
  ASSUME TypeOK, NEW k \in Kinds, Starts(k)
  PROVE  LET w == run[k]
         IN  /\ troubles' \in Nat /\ run' \in [Kinds -> RunStates] /\ HistoryOK(runs')
             /\ absorbed' \subseteq Fires
             /\ w.stage = "enqueued" /\ \A j \in Kinds : run[j].stage # "running"
             /\ \/ /\ w.stale /\ Moves(k, "settling", "interrupted")
                   /\ runs' = runs /\ absorbed' = absorbed
                \/ /\ Moves(k, "running", w.outcome) /\ run'[k].recorded
                   /\ runs' = WithRecord(w.fires)
                   /\ absorbed' = absorbed \cup AbsorbedBy(w.fires)
                \/ /\ Moves(k, "running", w.outcome) /\ run'[k].recorded = w.recorded
                   /\ runs' = runs /\ absorbed' = absorbed
  <1>0. HistoryOK(runs) /\ run \in [Kinds -> RunStates] /\ absorbed \subseteq Fires
        /\ run[k].fires \in Seq(Fires)
    BY HistoryType, RunParts DEF TypeOK
  <1>1. run[k].stage = "enqueued" /\ \A j \in Kinds : run[j].stage # "running"
    BY DEF Starts
  <1>2. CASE run[k].stale /\ Ends(k, "interrupted") /\ UNCHANGED <<runs, absorbed>> /\ NoTrouble
    <2>1. Moves(k, "settling", "interrupted")
      <3>1. "interrupted" \in Outcomes
        BY DEF Outcomes
      <3> QED BY <1>0, <1>2, <3>1, EndsEffect
    <2>2. troubles' \in Nat
      BY <1>2 DEF NoTrouble, TypeOK
    <2> QED BY <1>0, <1>1, <1>2, <2>1, <2>2 DEF Moves
  <1>3. CASE /\ runs' = WithRecord(run[k].fires)
             /\ absorbed' = absorbed \cup AbsorbedBy(run[k].fires)
             /\ run' = [run EXCEPT ![k].stage = "running", ![k].recorded = TRUE]
             /\ NoTrouble
    <2>1. Moves(k, "running", run[k].outcome) /\ run'[k].recorded
      BY <1>0, <1>3, RecordedEffect
    <2>2. troubles' \in Nat
      BY <1>3 DEF NoTrouble, TypeOK
    <2>3. HistoryOK(runs') /\ absorbed' \subseteq Fires
      BY <1>0, <1>3, WithRecordType, AbsorbedType
    <2> QED BY <1>1, <1>3, <2>1, <2>2, <2>3 DEF Moves
  <1>4. CASE /\ Trouble
             /\ run' = [run EXCEPT ![k].stage = "running"]
             /\ UNCHANGED <<runs, absorbed>>
    <2>1. Moves(k, "running", run[k].outcome) /\ run'[k].recorded = run[k].recorded
      <3>1. "running" \in Stages
        BY DEF Stages
      <3> QED BY <1>0, <1>4, <3>1, StageEffect
    <2>2. troubles' \in Nat
      BY <1>4 DEF Trouble, TypeOK
    <2> QED BY <1>0, <1>1, <1>4, <2>1, <2>2 DEF Moves
  <1> QED BY <1>2, <1>3, <1>4 DEF Starts

\* A wake that waits moves on: it ends, or it is queued.
LEMMA ResolvesEffect ==
  ASSUME TypeOK, NEW k \in Kinds, Resolves(k)
  PROVE  /\ run \in [Kinds -> RunStates] /\ run[k].stage = "resolving"
         /\ Moves(k, "settling", "interrupted") \/ Moves(k, "enqueued", run[k].outcome)
  <1>1. run \in [Kinds -> RunStates]
    BY DEF TypeOK
  <1>2. "interrupted" \in Outcomes /\ "enqueued" \in Stages
    BY DEF Outcomes, Stages
  <1> QED BY <1>1, <1>2, EndsEffect, StageEffect DEF Resolves

LEMMA RunEndsEffect ==
  ASSUME TypeOK, NEW k \in Kinds, NEW o \in Outcomes, NEW s \in {"ok", "error"},
         RunEnds(k, o, s)
  PROVE  /\ Moves(k, "settling", o) /\ run[k].stage = "running"
         /\ HistoryOK(runs') /\ troubles' \in Nat /\ ranOk' \subseteq Fires
         /\ ranOk \subseteq ranOk' /\ o = "ok" => s = "ok"
         /\ s = "ok" => InRun(k) \subseteq ranOk'
         /\ \/ runs' = runs
            \/ run[k].recorded /\ runs' = Finished(IdOf(run[k].fires), s)
  <1>1. run \in [Kinds -> RunStates] /\ o \in Outcomes /\ run[k].stage = "running"
        /\ run[k].fires \in Seq(Fires)
    BY RunParts DEF TypeOK, RunEnds
  <1>2. Ends(k, o)
    BY DEF RunEnds, Ends
  <1>3. Moves(k, "settling", o)
    BY <1>1, <1>2, EndsEffect
  <1>4. o = "ok" => s = "ok"
    BY DEF RunEnds, Agree, Throws
  <1>5. /\ HistoryOK(runs') /\ troubles' \in Nat
        /\ runs' = runs \/ (run[k].recorded /\ runs' = Finished(IdOf(run[k].fires), s))
    <2>1. CASE Finishes(run[k], s)
      BY <2>1, FinishesEffect
    <2>2. CASE Throws(run[k], o, s)
      BY <2>2, ThrowsEffect
    <2> QED BY <2>1, <2>2 DEF RunEnds
  <1>6. /\ ranOk' \subseteq Fires /\ ranOk \subseteq ranOk'
        /\ s = "ok" => InRun(k) \subseteq ranOk'
    <2>1. ToSet(run[k].fires) \subseteq Fires /\ ranOk \subseteq Fires
      BY <1>1, ElementsOf DEF TypeOK
    <2> QED BY <2>1 DEF RunEnds, InRun
  <1> QED BY <1>1, <1>3, <1>4, <1>5, <1>6

LEMMA ZombieEndsEffect ==
  ASSUME TypeOK, NEW z \in zombies, NEW status \in {"ok", "error"}, ZombieEnds(z, status)
  PROVE  /\ HistoryOK(runs') /\ troubles' \in Nat /\ ranOk' \subseteq Fires
         /\ absorbed' \subseteq Fires /\ zombies' = zombies \ {z}
         /\ z.fires \in Seq(Fires) /\ ranOk \subseteq ranOk'
         /\ absorbed' = absorbed \cup AbsorbedBy(z.fires)
         /\ status = "ok" => ToSet(z.fires) \subseteq ranOk'
         /\ runs' = runs \/ runs' = Finished(IdOf(z.fires), status)
  <1>1. z.fires \in Seq(Fires)
    BY DEF TypeOK, Zombies
  <1>2. /\ HistoryOK(runs') /\ troubles' \in Nat
        /\ runs' = runs \/ runs' = Finished(IdOf(z.fires), status)
    BY FinishesEffect DEF ZombieEnds
  <1>3. AbsorbedBy(z.fires) \subseteq Fires
    BY HistoryType, AbsorbedType
  <1>4. ToSet(z.fires) \subseteq Fires
    BY <1>1, ElementsOf
  <1>5. ranOk \subseteq Fires /\ absorbed \subseteq Fires
    BY DEF TypeOK
  <1>6. /\ zombies' = zombies \ {z} /\ absorbed' = absorbed \cup AbsorbedBy(z.fires)
        /\ ranOk' = IF status = "ok" THEN ranOk \cup ToSet(z.fires) ELSE ranOk
    BY DEF ZombieEnds
  <1>7. /\ ranOk' \subseteq Fires /\ ranOk \subseteq ranOk'
        /\ status = "ok" => ToSet(z.fires) \subseteq ranOk'
    BY <1>4, <1>5, <1>6
  <1>8. absorbed' \subseteq Fires
    BY <1>3, <1>5, <1>6
  <1> QED BY <1>1, <1>2, <1>6, <1>7, <1>8, Zenon

\* Settling answers or forgets what the wake was for, and leaves nothing of it.
LEMMA SettlesEffect ==
  ASSUME TypeOK, NEW k \in Kinds, Settles(k)
  PROVE  /\ states' \in [Fires -> Entries] /\ calls' \subseteq Reports
         /\ InRun(k) \subseteq Fires
         /\ \A f \in Fires \ InRun(k) : states'[f] = states[f]
         /\ run' \in [Kinds -> RunStates] /\ run'[k] = Idle
         /\ \A j \in Kinds \ {k} : run'[j] = run[j]
         /\ \/ /\ calls' = calls /\ \A f \in InRun(k) : states'[f] = "none"
            \/ /\ calls \subseteq calls'
               /\ \A f \in InRun(k) : states'[f] = StatusOf(run[k].outcome)
               /\ \A c \in calls' \ calls :
                    /\ c = Report(c.fire, "deliver", StatusOf(run[k].outcome))
                    /\ c.fire \in InRun(k)
  <1>1. states \in [Fires -> Entries] /\ calls \subseteq Reports
    BY EntriesType
  <1>2. run \in [Kinds -> RunStates] /\ run[k].fires \in Seq(Fires)
    BY RunParts DEF TypeOK
  <1>3. InRun(k) \subseteq Fires /\ InRun(k) \in SUBSET Fires
    BY <1>2, ElementsOf DEF InRun
  <1>4. run' \in [Kinds -> RunStates] /\ run'[k] = Idle
        /\ \A j \in Kinds \ {k} : run'[j] = run[j]
    BY <1>2, IdleType, ReplaceEffect DEF Settles
  <1>5. CASE Forgets(InRun(k))
    BY <1>1, <1>3, <1>4, <1>5, ForgetsEffect
  <1>6. CASE Completes(InRun(k), StatusOf(run[k].outcome))
    <2> DEFINE s == StatusOf(run[k].outcome)
    <2>1. s \in Statuses
      BY OutcomeStatus
    <2>2. Completes(InRun(k), s)
      BY <1>6
    <2> HIDE DEF s
    <2>3. /\ states' \in [Fires -> Entries] /\ calls' \subseteq Reports
          /\ \A f \in InRun(k) : states'[f] = s
          /\ \A f \in Fires \ InRun(k) : states'[f] = states[f]
          /\ calls \subseteq calls'
          /\ \A c \in calls' \ calls : c = Report(c.fire, "deliver", s) /\ c.fire \in InRun(k)
      BY <1>1, <1>3, <2>1, <2>2, CompletesEffect
    <2> QED BY <1>3, <1>4, <2>3 DEF s
  <1> QED BY <1>5, <1>6 DEF Settles, InRun

LEMMA RunTypes == ASSUME TypeOK, AnyRun PROVE TypeOK'
  <1> USE DEF external, durable, consumer, wakes, history
  <1>1. CASE Flush
    <2>1. /\ items' \in Seq(Events) /\ Len(items') <= MaxQueued
          /\ run' \in [Kinds -> RunStates]
      BY <1>1, FlushEffect
    <2> QED BY <1>1, <2>1 DEF TypeOK, Flush
  <1>2. CASE FireByHand
    <2>1. <<>> \in Seq(Fires) /\ "resolving" \in Stages /\ "slot" \in Kinds
      BY EmptySeq DEF Stages, Kinds
    <2>2. run' \in [Kinds -> RunStates]
      BY <1>2, <2>1, WakeType, ReplaceEffect DEF FireByHand, TypeOK
    <2> QED BY <1>2, <2>2 DEF TypeOK, FireByHand, Trouble
  <1>3. ASSUME NEW k \in Kinds, GoesNoFurther(k) PROVE TypeOK'
    <2>1. run' \in [Kinds -> RunStates]
      <3>1. Ends(k, "none") /\ "none" \in Outcomes /\ run \in [Kinds -> RunStates]
        BY <1>3 DEF GoesNoFurther, Outcomes, TypeOK
      <3> QED BY <3>1, EndsEffect DEF Moves
    <2> QED BY <1>3, <2>1 DEF TypeOK, GoesNoFurther, Trouble
  <1>4. ASSUME NEW k \in Kinds, Resolves(k) PROVE TypeOK'
    <2>1. run' \in [Kinds -> RunStates]
      BY <1>4, ResolvesEffect DEF Moves
    <2> QED BY <1>4, <2>1 DEF TypeOK, Resolves
  <1>5. ASSUME NEW k \in Kinds, Starts(k) PROVE TypeOK'
    <2>1. /\ run' \in [Kinds -> RunStates] /\ HistoryOK(runs')
          /\ troubles' \in Nat /\ absorbed' \subseteq Fires
      BY <1>5, StartsEffect
    <2> QED BY <1>5, <2>1 DEF TypeOK, Starts, HistoryOK
  <1>6. ASSUME NEW k \in Kinds, GivenUp(k) PROVE TypeOK'
    <2>1. run[k] \in RunStates /\ run \in [Kinds -> RunStates]
      BY DEF TypeOK
    <2>2. run[k].fires \in Seq(Fires) /\ run[k].recorded \in BOOLEAN
      BY <2>1, RunParts
    <2>3. run' \in [Kinds -> RunStates]
      <3>1. Ends(k, "error") /\ "error" \in Outcomes
        BY <1>6 DEF GivenUp, Outcomes
      <3> QED BY <2>1, <3>1, EndsEffect DEF Moves
    <2>4. [fires |-> run[k].fires, recorded |-> run[k].recorded] \in Zombies
      BY <2>2 DEF Zombies
    <2>5. ToSet(run[k].fires) \subseteq Fires
      BY <2>2, ElementsOf
    <2> QED BY <1>6, <2>3, <2>4, <2>5 DEF TypeOK, GivenUp, Trouble
  <1>7. ASSUME NEW k \in Kinds, Settles(k) PROVE TypeOK'
    <2>1. /\ states' \in [Fires -> Entries] /\ calls' \subseteq Reports
          /\ run' \in [Kinds -> RunStates]
      BY <1>7, SettlesEffect
    <2>2. debounce' \in BOOLEAN
      BY <1>7 DEF TypeOK, Settles, Rearmed
    <2> QED BY <1>7, <2>1, <2>2 DEF TypeOK, Settles, Entries
  <1>8. ASSUME NEW k \in Kinds, NEW o \in Outcomes, NEW s \in {"ok", "error"},
               RunEnds(k, o, s)
        PROVE  TypeOK'
    <2>1. /\ run' \in [Kinds -> RunStates] /\ HistoryOK(runs')
          /\ troubles' \in Nat /\ ranOk' \subseteq Fires
      BY <1>8, RunEndsEffect DEF Moves
    <2> QED BY <1>8, <2>1 DEF TypeOK, RunEnds, HistoryOK
  <1>9. ASSUME NEW z \in zombies, NEW s \in {"ok", "error"}, ZombieEnds(z, s) PROVE TypeOK'
    <2>1. /\ HistoryOK(runs') /\ troubles' \in Nat /\ ranOk' \subseteq Fires
          /\ absorbed' \subseteq Fires /\ zombies' = zombies \ {z}
      BY <1>9, ZombieEndsEffect
    <2> QED BY <1>9, <2>1 DEF TypeOK, ZombieEnds, HistoryOK
  <1> QED BY <1>1, <1>2, <1>3, <1>4, <1>5, <1>6, <1>7, <1>8, <1>9 DEF AnyRun

LEMMA UserStopsEffect ==
  ASSUME TypeOK, UserStops
  PROVE  /\ run' \in [Kinds -> RunStates]
         /\ \A k \in Kinds : /\ run'[k].stage = run[k].stage
                             /\ run'[k].fires = run[k].fires
                             /\ run'[k].outcome = run[k].outcome
                             /\ run'[k].recorded = run[k].recorded
                             /\ run'[k].stale = (run[k].stage # "idle")
  <1> DEFINE r(k) == [run[k] EXCEPT !.stale = run[k].stage # "idle"]
  <1>1. run' = [k \in Kinds |-> r(k)]
    BY DEF UserStops
  <1>2. \A k \in Kinds : run[k] \in RunStates
    BY DEF TypeOK
  <1>3. ASSUME NEW k \in Kinds
        PROVE  /\ r(k) \in RunStates
               /\ r(k).stage = run[k].stage /\ r(k).fires = run[k].fires
               /\ r(k).outcome = run[k].outcome /\ r(k).recorded = run[k].recorded
               /\ r(k).stale = (run[k].stage # "idle")
    BY <1>2 DEF RunStates
  <1> HIDE DEF r
  <1> QED BY <1>1, <1>3

LEMMA StopTypes == ASSUME TypeOK, AnyStop PROVE TypeOK'
  <1> USE DEF external, durable, consumer, wakes, history
  <1>1. CASE Suspends
    BY <1>1 DEF TypeOK, Suspends, Trouble
  <1>2. CASE ResumesWakes
    BY <1>2 DEF TypeOK, ResumesWakes
  <1>3. CASE UserStops
    <2>1. run' \in [Kinds -> RunStates]
      BY <1>3, UserStopsEffect
    <2> QED BY <1>3, <2>1 DEF TypeOK, UserStops, Trouble
  <1>4. CASE UserResumes
    BY <1>4 DEF TypeOK, UserResumes
  <1>5. CASE Crash
    <2>1. run' \in [Kinds -> RunStates]
      BY <1>5, IdleType DEF Crash
    <2>2. items' \in Seq(Events) /\ Len(items') <= MaxQueued
      <3>1. items' = <<>> /\ MaxQueued \in Nat
        BY <1>5, NumbersType DEF Crash
      <3> QED BY <3>1
    <2>3. poll' \in PollStates
      BY <1>5 DEF Crash, NoPoll, PollStates
    <2>4. troubles' \in Nat
      BY <1>5 DEF Crash, Trouble, TypeOK
    <2> QED BY <1>5, <2>1, <2>2, <2>3, <2>4 DEF TypeOK, Crash
  <1> QED BY <1>1, <1>2, <1>3, <1>4, <1>5 DEF AnyStop

LEMMA TypesStep == TypeOK /\ [Next]_vars => TypeOK'
  <1> SUFFICES ASSUME TypeOK, [Next]_vars PROVE TypeOK'
    OBVIOUS
  <1>1. CASE UNCHANGED vars
    BY <1>1 DEF TypeOK, vars, external, durable, consumer, wakes, history
  <1>2. CASE AnyDelivery
    BY <1>2, DeliveryTypes DEF AnyDelivery
  <1> QED BY <1>1, <1>2, TickTypes, RunTypes, StopTypes DEF Next

LEMMA TypesInit == Init => TypeOK
  <1> SUFFICES ASSUME Init PROVE TypeOK
    OBVIOUS
  <1>1. run \in [Kinds -> RunStates]
    BY IdleType DEF Init
  <1>2. /\ items = <<>> /\ runs = <<>> /\ MaxQueued \in Nat /\ History \in Nat
        /\ Len(<<>>) = 0
    BY NumbersType DEF Init
  <1>3. items \in Seq(Events) /\ Len(items) <= MaxQueued
    BY <1>2
  <1>4. runs \in Seq(StoredRuns) /\ Len(runs) <= History
    BY <1>2
  <1>5. poll \in PollStates
    BY DEF Init, NoPoll, PollStates
  <1> QED BY <1>1, <1>3, <1>4, <1>5 DEF Init, TypeOK

-----------------------------------------------------------------------------
\* Where the fires are.

LEMMA InRunType == TypeOK => \A k \in Kinds : InRun(k) \subseteq Fires
  <1> SUFFICES ASSUME TypeOK, NEW k \in Kinds PROVE InRun(k) \subseteq Fires
    OBVIOUS
  <1>1. run[k].fires \in Seq(Fires)
    BY RunParts DEF TypeOK
  <1> QED BY <1>1, ElementsOf DEF InRun

SamePlaces == /\ listing' = listing /\ items' = items
              /\ \A k \in Kinds : InRun(k)' = InRun(k)
LEMMA PlacesKept ==
  ASSUME PlacesOK, SamePlaces,
         \A f \in Fires : states'[f] = "running" <=> states[f] = "running"
  PROVE  PlacesOK'
  BY DEF PlacesOK, SamePlaces, Placed, Kinds

LEMMA MovesPlaces ==
  ASSUME NEW k \in Kinds, NEW s, NEW o, Moves(k, s, o)
  PROVE  \A j \in Kinds : InRun(j)' = InRun(j)
  BY DEF Moves, InRun

\* A fire that leaves the list of deliveries for nowhere, a wake or the batch.
LEMMA LeavesListing ==
  ASSUME PlacesOK, NEW f \in listing, listing' = listing \ {f}, items' = items,
         \A k \in Kinds : InRun(k)' = InRun(k),
         listing \subseteq Fires, states'[f] # "running",
         \A g \in Fires \ {f} : states'[g] = states[g]
  PROVE  PlacesOK'
  BY DEF PlacesOK, Placed, Kinds

LEMMA PlacesTick == ASSUME TypeOK, PlacesOK, CallsOK, AnyTick PROVE PlacesOK'
  <1> USE DEF consumer, wakes
  <1>1. CASE (\E returned \in SUBSET Fires : Polls(returned)) \/ PollFails \/ TickEnds
    <2>1. SamePlaces /\ states' = states
      BY <1>1 DEF Polls, PollFails, TickEnds, SamePlaces, InRun
    <2> QED BY <2>1, PlacesKept
  <1>2. CASE PollReturns
    <2> DEFINE new == {f \in poll.returned : New(f)}
    <2>1. /\ items' = items /\ run' = run /\ listing' = listing \cup new
          /\ poll.returned \subseteq Fires
          /\ \A f \in Fires : states'[f] = IF f \in new THEN "running"
                                ELSE IF states[f] = "reported" /\ f \notin poll.returned
                                     THEN "none" ELSE states[f]
      BY <1>2 DEF PollReturns, TypeOK, PollStates
    <2>2. \A f \in new : f \in Fires /\ states[f] = "none"
      BY <2>1 DEF New
    <2> HIDE DEF new
    <2>3. \A f \in Fires : states'[f] = "running" <=> f \in new \/ states[f] = "running"
      BY <2>1
    <2>4. \A k \in Kinds : InRun(k)' = InRun(k)
      BY <2>1 DEF InRun
    <2>5. \A f \in new : ~Placed(f)
      BY <2>2 DEF PlacesOK
    <2> QED BY <2>1, <2>3, <2>4, <2>5 DEF PlacesOK, Placed, Kinds
  <1>3. CASE \E f \in Fires : TickVisits(f)
    <2>1. SamePlaces /\ states' = states
      BY <1>3 DEF TickVisits, SamePlaces, InRun
    <2> QED BY <2>1, PlacesKept
  <1>4. ASSUME NEW c \in calls, CallReaches(c) \/ CallReturns(c) \/ CallFails(c)
        PROVE  PlacesOK'
    <2>1. c.fire \in Fires /\ states[c.fire] # "running"
      BY <1>4 DEF TypeOK, Reports, CallsOK, CallOK
    <2>2. SamePlaces
      BY <1>4 DEF CallReaches, CallReturns, CallFails, SamePlaces, InRun
    <2>3. \A f \in Fires : states'[f] = "running" <=> states[f] = "running"
      BY <1>4, <2>1 DEF CallReaches, CallReturns, CallFails, AfterError, TypeOK
    <2> QED BY <2>2, <2>3, PlacesKept
  <1> QED BY <1>1, <1>2, <1>3, <1>4 DEF AnyTick

LEMMA NotRunning == \A s \in Statuses : s # "running"
  BY DEF Statuses

\* What is looked up is in no other place.
LEMMA OnlyListed ==
  ASSUME PlacesOK, NEW f \in listing
  PROVE  f \notin ToSet(items) /\ \A k \in Kinds : f \notin InRun(k)
  BY DEF PlacesOK

LEMMA PlacesDelivery ==
  ASSUME TypeOK, PlacesOK, RunsOK, NEW f \in Fires,
         \/ ConsumerStopped(f) \/ ListingFails(f) \/ RanBefore(f)
         \/ Refuse(f) \/ FireSlot(f) \/ EnqueueEvent(f)
  PROVE  PlacesOK'
  <1> USE DEF consumer, wakes
  <1>0. /\ states \in [Fires -> Entries] /\ calls \subseteq Reports /\ {f} \in SUBSET Fires
        /\ listing \subseteq Fires /\ "failed" \in Statuses
    BY EntriesType DEF TypeOK, Statuses
  <1>1. f \in listing /\ listing' = listing \ {f}
    BY DEF ConsumerStopped, ListingFails, RanBefore, Refuse, FireSlot, EnqueueEvent, Delivering
  <1>2. ASSUME items' = items, run' = run,
               \/ Forgets({f})
               \/ \E s \in Statuses : Completes({f}, s)
        PROVE  PlacesOK'
    <2>1. states'[f] # "running" /\ \A g \in Fires \ {f} : states'[g] = states[g]
      <3>1. CASE Forgets({f})
        BY <1>0, <3>1, ForgetsEffect
      <3>2. ASSUME NEW s \in Statuses, Completes({f}, s)
            PROVE  states'[f] # "running" /\ \A g \in Fires \ {f} : states'[g] = states[g]
        <4>1. states'[f] = s /\ \A g \in Fires \ {f} : states'[g] = states[g]
          BY <1>0, <3>2, CompletesEffect
        <4> QED BY <4>1, NotRunning
      <3> QED BY <1>2, <3>1, <3>2
    <2>2. \A k \in Kinds : InRun(k)' = InRun(k)
      BY <1>2 DEF InRun
    <2> QED BY <1>0, <1>1, <1>2, <2>1, <2>2, LeavesListing
  <1>3. CASE ConsumerStopped(f) \/ ListingFails(f)
    BY <1>2, <1>3 DEF ConsumerStopped, ListingFails
  <1>4. CASE RanBefore(f) \/ Refuse(f)
    <2>1. Existing(f) # "none" => Existing(f) \in Statuses
      BY ExistingType
    <2> QED BY <1>0, <1>2, <1>4, <2>1 DEF RanBefore, Refuse
  <1>5. CASE FireSlot(f)
    <2>1. CASE Declines("slot")
      BY <1>2, <1>5, <2>1 DEF FireSlot
    <2>2. CASE ~Declines("slot")
      <3>1. /\ items' = items /\ states' = states /\ "slot" \in Kinds
            /\ run' = [run EXCEPT !["slot"] = Wake(<<f>>, "resolving")]
            /\ run["slot"].stage = "idle"
        BY <1>5, <2>2 DEF FireSlot, Declines, Kinds
      <3>2. InRun("slot") = {}
        BY <3>1, IdleType, ElementsOfEmpty DEF RunsOK, InRun
      <3>3. InRun("slot")' = {f} /\ InRun("event")' = InRun("event")
        <4>1. <<f>> \in Seq(Fires) /\ run \in [Kinds -> RunStates]
          BY DEF TypeOK
        <4>3. run'["slot"].fires = <<f>> /\ run'["event"] = run["event"]
          BY <3>1, <4>1, SlotWakes
        <4> QED BY <4>3, ElementsOfOne DEF InRun
      <3>4. f \notin ToSet(items) /\ f \notin InRun("event")
        BY <1>1, OnlyListed DEF Kinds
      <3> QED BY <1>1, <3>1, <3>2, <3>3, <3>4 DEF PlacesOK, Placed, Kinds
    <2> QED BY <2>1, <2>2
  <1>6. CASE EnqueueEvent(f)
    <2> DEFINE batch == Append(items, f)
    <2>1. f \in Events /\ items \in Seq(Events) /\ Len(items) <= MaxQueued
      BY <1>6 DEF EnqueueEvent, TypeOK
    <2>2. /\ batch \in Seq(Events) /\ batch # <<>>
          /\ ToSet(batch) = ToSet(items) \cup {f}
          /\ Len(batch) > MaxQueued => Head(batch) = Head(items) /\ items # <<>>
      BY <2>1, BatchEffect
    <2>3. Injective(batch) /\ Len(batch) \in Nat
      <3>1. /\ DOMAIN items = 1 .. Len(items) /\ Len(items) \in Nat
            /\ DOMAIN batch = 1 .. Len(items) + 1 /\ Len(batch) = Len(items) + 1
            /\ \A i \in 1 .. Len(items) : batch[i] = items[i]
            /\ batch[Len(items) + 1] = f
        BY <2>1
      <3>2. \A i \in 1 .. Len(items) : items[i] # f
        <4>1. f \notin ToSet(items)
          BY <1>1, OnlyListed
        <4> QED BY <3>1, <4>1 DEF ToSet
      <3>3. Injective(items)
        BY DEF PlacesOK
      <3> HIDE DEF batch
      <3>4. \A i \in 1 .. Len(items) + 1 : i \in 1 .. Len(items) \/ i = Len(items) + 1
        BY <3>1
      <3> QED BY <3>1, <3>2, <3>3, <3>4 DEF Injective
    <2>4. IF Len(batch) > MaxQueued
          THEN items' = Tail(batch) /\ Completes({Head(batch)}, "failed")
          ELSE items' = batch /\ UNCHANGED <<states, calls>>
      BY <1>6 DEF EnqueueEvent
    <2> HIDE DEF batch
    <2>5. \A k \in Kinds : InRun(k)' = InRun(k)
      BY <1>6 DEF EnqueueEvent, InRun
    <2>6. f \notin ToSet(items) /\ \A k \in Kinds : f \notin InRun(k)
      BY <1>1, OnlyListed
    <2>7. CASE Len(batch) > MaxQueued
      <3> DEFINE h == Head(batch)
      <3>1. h \in ToSet(items) /\ h \in Fires /\ h # f
        <4>1. h \in ToSet(items) /\ ToSet(items) \subseteq Events
          BY <2>1, <2>2, <2>7, ElementsOf
        <4> QED BY <4>1, <2>6 DEF Fires
      <3>2. /\ states'[h] = "failed"
            /\ \A g \in Fires \ {h} : states'[g] = states[g]
        <4>1. {h} \in SUBSET Fires /\ Completes({h}, "failed")
          BY <3>1, <2>4, <2>7
        <4> HIDE DEF h
        <4> QED BY <1>0, <4>1, CompletesEffect
      <3>3. /\ ToSet(items') = (ToSet(items) \cup {f}) \ {h}
            /\ Injective(items')
        <4> DEFINE l == SubSeq(batch, 1, 1)  r == SubSeq(batch, 1 + 1, Len(batch))
        <4>1. /\ DOMAIN batch = 1 .. Len(batch) /\ Len(batch) >= 1 /\ 1 \in 0 .. Len(batch)
              /\ h = batch[1]
          BY <2>2, <2>3
        <4>2. /\ ToSet(l) \cup ToSet(r) = ToSet(batch) /\ ToSet(l) \cap ToSet(r) = {}
              /\ Injective(r)
          BY <2>2, <2>3, <4>1, ElementsOfCut
        <4>3. DOMAIN l = {1} /\ l[1] = h
          BY <2>2, <4>1
        <4>4. ToSet(l) = {h}
          BY <4>3 DEF ToSet
        <4>5. items' = r
          <5>1. items' = Tail(batch)
            BY <2>4, <2>7
          <5>2. Tail(batch) \in Seq(Events) /\ r \in Seq(Events) /\ Len(Tail(batch)) = Len(r)
            BY <2>2, <4>1
          <5>3. \A n \in 1 .. Len(r) : Tail(batch)[n] = r[n]
            BY <2>2, <4>1
          <5> QED BY <5>1, <5>2, <5>3, SeqEqual
        <4> HIDE DEF l, r, h
        <4> QED BY <2>2, <4>2, <4>4, <4>5
      <3> HIDE DEF h
      <3>4. h \notin listing /\ \A k \in Kinds : h \notin InRun(k)
        BY <3>1 DEF PlacesOK
      <3> QED BY <1>0, <1>1, <2>5, <2>6, <3>1, <3>2, <3>3, <3>4 DEF PlacesOK, Placed, Kinds
    <2>8. CASE ~(Len(batch) > MaxQueued)
      <3>1. items' = batch /\ states' = states
        BY <2>4, <2>8
      <3> QED BY <1>1, <2>2, <2>3, <2>5, <2>6, <3>1 DEF PlacesOK, Placed, Kinds
    <2> QED BY <2>7, <2>8
  <1> QED BY <1>3, <1>4, <1>5, <1>6

LEMMA PlacesRun == ASSUME TypeOK, PlacesOK, RunsOK, AnyRun PROVE PlacesOK'
  <1> USE DEF consumer, wakes
  <1>0. run \in [Kinds -> RunStates] /\ items \in Seq(Events) /\ Len(items) \in Nat
    BY DEF TypeOK
  <1>1. ASSUME listing' = listing, items' = items, states' = states,
               NEW k \in Kinds, NEW s, NEW o, Moves(k, s, o)
        PROVE  PlacesOK'
    BY <1>1, MovesPlaces, PlacesKept DEF SamePlaces
  <1>2. CASE Flush
    <2> DEFINE n == Flushed  l == SubSeq(items, 1, n)  r == SubSeq(items, n + 1, Len(items))
    <2>1. /\ n \in 0 .. Len(items) /\ items' = r /\ run'["event"].fires = l
          /\ run'["slot"] = run["slot"]
      BY <1>2, FlushEffect
    <2>2. InRun("event") = {} /\ "event" \in Kinds
      <3>1. run["event"].stage = "idle" /\ "event" \in Kinds
        BY <1>2 DEF Flush, Kinds
      <3> QED BY <3>1, IdleType, ElementsOfEmpty DEF RunsOK, InRun
    <2> HIDE DEF n
    <2>3. ToSet(l) \cup ToSet(r) = ToSet(items) /\ ToSet(l) \cap ToSet(r) = {} /\ Injective(r)
      BY <1>0, <2>1, ElementsOfCut DEF PlacesOK
    <2> HIDE DEF l, r
    <2>4. InRun("event")' = ToSet(l) /\ InRun("slot")' = InRun("slot")
      BY <2>1 DEF InRun
    <2>5. states' = states /\ listing' = listing
      BY <1>2 DEF Flush
    <2> QED BY <2>1, <2>2, <2>3, <2>4, <2>5 DEF PlacesOK, Placed, Kinds
  <1>3. CASE FireByHand
    <2>1. "slot" \in Kinds /\ run["slot"] = Idle
      BY <1>3 DEF FireByHand, RunsOK, Kinds
    <2>2. run'["slot"].fires = <<>> /\ run'["event"] = run["event"]
      <3>1. <<>> \in Seq(Fires)
        BY EmptySeq
      <3>2. run' = [run EXCEPT !["slot"] = Wake(<<>>, "resolving")]
        BY <1>3 DEF FireByHand
      <3> QED BY <1>0, <3>1, <3>2, SlotWakes
    <2>3. SamePlaces /\ states' = states
      <3>1. \A k \in Kinds : InRun(k)' = InRun(k)
        BY <2>1, <2>2, IdleType DEF InRun, Kinds
      <3> QED BY <1>3, <3>1 DEF FireByHand, SamePlaces
    <2> QED BY <2>3, PlacesKept
  <1>4. ASSUME NEW k \in Kinds, GoesNoFurther(k) PROVE PlacesOK'
    <2>1. Moves(k, "settling", "none")
      <3>1. "none" \in Outcomes /\ Ends(k, "none")
        BY <1>4 DEF Outcomes, GoesNoFurther
      <3> QED BY <1>0, <3>1, EndsEffect
    <2> QED BY <1>1, <1>4, <2>1 DEF GoesNoFurther
  <1>5. ASSUME NEW k \in Kinds, Resolves(k) PROVE PlacesOK'
    <2>1. Moves(k, "settling", "interrupted") \/ Moves(k, "enqueued", run[k].outcome)
      BY <1>5, ResolvesEffect
    <2> QED BY <1>1, <1>5, <2>1 DEF Resolves
  <1>6. ASSUME NEW k \in Kinds, Starts(k) PROVE PlacesOK'
    <2>1. Moves(k, "settling", "interrupted") \/ Moves(k, "running", run[k].outcome)
      BY <1>6, StartsEffect
    <2> QED BY <1>1, <1>6, <2>1 DEF Starts
  <1>7. ASSUME NEW k \in Kinds, GivenUp(k) PROVE PlacesOK'
    <2>1. Moves(k, "settling", "error")
      <3>1. "error" \in Outcomes /\ Ends(k, "error")
        BY <1>7 DEF Outcomes, GivenUp
      <3> QED BY <1>0, <3>1, EndsEffect
    <2> QED BY <1>1, <1>7, <2>1 DEF GivenUp
  <1>8. ASSUME NEW k \in Kinds, NEW o \in Outcomes, NEW s \in {"ok", "error"},
               RunEnds(k, o, s)
        PROVE  PlacesOK'
    <2>1. Moves(k, "settling", o)
      BY <1>8, RunEndsEffect
    <2> QED BY <1>1, <1>8, <2>1 DEF RunEnds
  <1>9. ASSUME NEW k \in Kinds, Settles(k) PROVE PlacesOK'
    <2>1. /\ InRun(k) \subseteq Fires
          /\ \A f \in Fires \ InRun(k) : states'[f] = states[f]
          /\ run'[k] = Idle /\ \A j \in Kinds \ {k} : run'[j] = run[j]
      BY <1>9, SettlesEffect
    <2>2. \A f \in InRun(k) : states'[f] # "running"
      <3>1. \/ \A f \in InRun(k) : states'[f] = "none"
            \/ \A f \in InRun(k) : states'[f] = StatusOf(run[k].outcome)
        BY <1>9, SettlesEffect
      <3>2. StatusOf(run[k].outcome) # "running"
        BY OutcomeStatus, NotRunning
      <3> QED BY <3>1, <3>2
    <2>3. InRun(k)' = {} /\ \A j \in Kinds \ {k} : InRun(j)' = InRun(j)
      BY <2>1, IdleType, ElementsOfEmpty DEF InRun
    <2>4. items' = items /\ listing' = listing
      BY <1>9 DEF Settles
    <2> QED BY <2>1, <2>2, <2>3, <2>4 DEF PlacesOK, Placed, Kinds
  <1>10. ASSUME NEW z \in zombies, NEW s \in {"ok", "error"}, ZombieEnds(z, s)
         PROVE  PlacesOK'
    <2>1. SamePlaces /\ states' = states
      BY <1>10 DEF ZombieEnds, SamePlaces, InRun
    <2> QED BY <2>1, PlacesKept
  <1> QED BY <1>2, <1>3, <1>4, <1>5, <1>6, <1>7, <1>8, <1>9, <1>10 DEF AnyRun

\* Nothing is anywhere.
LEMMA NothingPlaced ==
  ASSUME listing' = {}, items' = <<>>, run' = [k \in Kinds |-> Idle],
         states' = [f \in Fires |-> "none"]
  PROVE  PlacesOK' /\ RunsOK'
  <1>1. \A k \in Kinds : run'[k] = Idle /\ InRun(k)' = {}
    BY IdleType, ElementsOfEmpty DEF InRun
  <1>2. ToSet(items') = {} /\ DOMAIN items' = {}
    BY ElementsOfEmpty
  <1>3. Injective(items')
    BY <1>2 DEF Injective
  <1>4. PlacesOK'
    BY <1>1, <1>2, <1>3 DEF PlacesOK, Placed, Kinds
  <1>5. RunsOK'
    BY <1>1, IdleType DEF RunsOK
  <1> QED BY <1>4, <1>5

LEMMA PlacesStop == ASSUME TypeOK, PlacesOK, AnyStop PROVE PlacesOK'
  <1> USE DEF consumer, wakes
  <1>1. CASE Suspends \/ ResumesWakes \/ UserResumes
    <2>1. SamePlaces /\ states' = states
      BY <1>1 DEF Suspends, ResumesWakes, UserResumes, SamePlaces, InRun
    <2> QED BY <2>1, PlacesKept
  <1>2. CASE UserStops
    <2>1. \A k \in Kinds : InRun(k)' = InRun(k)
      BY <1>2, UserStopsEffect DEF InRun
    <2>2. SamePlaces /\ states' = states
      BY <1>2, <2>1 DEF UserStops, SamePlaces
    <2> QED BY <2>2, PlacesKept
  <1>3. CASE Crash
    BY <1>3, NothingPlaced DEF Crash
  <1> QED BY <1>1, <1>2, <1>3 DEF AnyStop

LEMMA PlacesStep == TypeOK /\ PlacesOK /\ RunsOK /\ CallsOK /\ [Next]_vars => PlacesOK'
  <1> SUFFICES ASSUME TypeOK, PlacesOK, RunsOK, CallsOK, [Next]_vars PROVE PlacesOK'
    OBVIOUS
  <1>1. CASE UNCHANGED vars
    <2>1. SamePlaces /\ states' = states
      BY <1>1 DEF vars, consumer, wakes, SamePlaces, InRun
    <2> QED BY <2>1, PlacesKept
  <1>2. CASE AnyDelivery
    BY <1>2, PlacesDelivery DEF AnyDelivery
  <1> QED BY <1>1, <1>2, PlacesTick, PlacesRun, PlacesStop DEF Next

-----------------------------------------------------------------------------
\* The wakes: one runs at a time, and the batch is looked at again.

LEMMA RunsKept ==
  ASSUME RunsOK, run' = run, items' = items, debounce' = debounce
  PROVE  RunsOK'
  BY DEF RunsOK

\* A wake that was not idle moves on.
LEMMA RunsMove ==
  ASSUME RunsOK, NEW k \in Kinds, NEW s, NEW o, Moves(k, s, o), s # "idle",
         s = "running" => \A j \in Kinds : run[j].stage # "running",
         items' = items, debounce' = debounce
  PROVE  RunsOK'
  <1>1. /\ run'[k].stage = s /\ \A j \in Kinds \ {k} : run'[j] = run[j]
    BY DEF Moves
  <1>2. \A j \in Kinds : run'[j].stage = "idle" => run'[j] = Idle
    BY <1>1 DEF RunsOK
  <1>3. \A i, j \in Kinds : run'[i].stage = "running" /\ run'[j].stage = "running" => i = j
    BY <1>1 DEF RunsOK
  <1>4. items' # <<>> => debounce' \/ run'["event"].stage # "idle"
    <2>1. CASE k = "event"
      BY <1>1, <2>1
    <2>2. CASE k # "event"
      <3>1. run'["event"] = run["event"]
        BY <1>1, <2>2 DEF Kinds
      <3> QED BY <3>1 DEF RunsOK
    <2> QED BY <2>1, <2>2
  <1> QED BY <1>2, <1>3, <1>4 DEF RunsOK

LEMMA RunsStep == TypeOK /\ RunsOK /\ [Next]_vars => RunsOK'
  <1> SUFFICES ASSUME TypeOK, RunsOK, [Next]_vars PROVE RunsOK'
    OBVIOUS
  <1> USE DEF consumer, wakes
  <1>0. run \in [Kinds -> RunStates]
    BY DEF TypeOK
  <1>1. CASE UNCHANGED vars
    BY <1>1, RunsKept DEF vars
  <1>2. CASE AnyTick
    BY <1>2, RunsKept DEF AnyTick, Polls, PollFails, PollReturns, TickEnds, TickVisits,
                          CallReaches, CallReturns, CallFails
  <1>3. ASSUME NEW f \in Fires, ConsumerStopped(f) \/ ListingFails(f) \/ RanBefore(f) \/ Refuse(f)
        PROVE  RunsOK'
    BY <1>3, RunsKept DEF ConsumerStopped, ListingFails, RanBefore, Refuse
  <1>4. ASSUME NEW f \in Fires, FireSlot(f) PROVE RunsOK'
    <2>1. CASE Declines("slot")
      BY <1>4, <2>1, RunsKept DEF FireSlot
    <2>2. CASE ~Declines("slot")
      <3>1. run' = [run EXCEPT !["slot"] = Wake(<<f>>, "resolving")] /\ "slot" \in Kinds
        BY <1>4, <2>2 DEF FireSlot, Kinds
      <3>2. <<f>> \in Seq(Fires)
        OBVIOUS
      <3>3. run'["slot"].stage = "resolving" /\ run'["event"] = run["event"]
        BY <1>0, <3>1, <3>2, SlotWakes
      <3> QED BY <1>4, <3>3 DEF RunsOK, Kinds, FireSlot
    <2> QED BY <2>1, <2>2
  <1>5. ASSUME NEW f \in Fires, EnqueueEvent(f) PROVE RunsOK'
    BY <1>5 DEF EnqueueEvent, Armed, RunsOK
  <1>6. CASE Flush
    <2>1. /\ run'["event"].stage \in {"settling", "resolving"}
          /\ run'["slot"] = run["slot"]
      BY <1>6, FlushEffect
    <2> QED BY <2>1 DEF RunsOK, Kinds
  <1>7. CASE FireByHand
    <2>1. run' = [run EXCEPT !["slot"] = Wake(<<>>, "resolving")] /\ <<>> \in Seq(Fires)
      BY <1>7, EmptySeq DEF FireByHand
    <2>2. run'["slot"].stage = "resolving" /\ run'["event"] = run["event"]
      BY <1>0, <2>1, SlotWakes
    <2> QED BY <1>7, <2>2 DEF RunsOK, Kinds, FireByHand
  <1>8. ASSUME NEW k \in Kinds, GoesNoFurther(k) \/ GivenUp(k) PROVE RunsOK'
    <2>1. PICK o \in {"none", "error"} : Ends(k, o)
      BY <1>8 DEF GoesNoFurther, GivenUp
    <2>2. Moves(k, "settling", o)
      BY <1>0, <2>1, EndsEffect DEF Outcomes
    <2> QED BY <1>8, <2>2, RunsMove DEF GoesNoFurther, GivenUp
  <1>9. ASSUME NEW k \in Kinds, Resolves(k) PROVE RunsOK'
    <2>1. Moves(k, "settling", "interrupted") \/ Moves(k, "enqueued", run[k].outcome)
      BY <1>9, ResolvesEffect
    <2> QED BY <1>9, <2>1, RunsMove DEF Resolves
  <1>10. ASSUME NEW k \in Kinds, Starts(k) PROVE RunsOK'
    <2>1. /\ Moves(k, "settling", "interrupted") \/ Moves(k, "running", run[k].outcome)
          /\ \A j \in Kinds : run[j].stage # "running"
      BY <1>10, StartsEffect
    <2> QED BY <1>10, <2>1, RunsMove DEF Starts
  <1>11. ASSUME NEW k \in Kinds, NEW o \in Outcomes, NEW s \in {"ok", "error"},
                RunEnds(k, o, s)
         PROVE  RunsOK'
    <2>1. Moves(k, "settling", o)
      BY <1>11, RunEndsEffect
    <2> QED BY <1>11, <2>1, RunsMove DEF RunEnds
  <1>12. ASSUME NEW k \in Kinds, Settles(k) PROVE RunsOK'
    <2>1. run'[k] = Idle /\ \A j \in Kinds \ {k} : run'[j] = run[j]
      BY <1>12, SettlesEffect
    <2>2. /\ items' = items
          /\ debounce' = IF k = "event" THEN items # <<>> ELSE debounce
      BY <1>12 DEF Settles, Rearmed
    <2>3. \A j \in Kinds : run'[j].stage = "idle" => run'[j] = Idle
      BY <2>1 DEF RunsOK
    <2>4. \A i, j \in Kinds : run'[i].stage = "running" /\ run'[j].stage = "running" => i = j
      BY <2>1, IdleType DEF RunsOK
    <2>5. items' # <<>> => debounce' \/ run'["event"].stage # "idle"
      <3>1. CASE k = "event"
        BY <2>2, <3>1
      <3>2. CASE k # "event"
        BY <2>1, <2>2, <3>2 DEF RunsOK, Kinds
      <3> QED BY <3>1, <3>2
    <2> QED BY <2>3, <2>4, <2>5 DEF RunsOK
  <1>13. ASSUME NEW z \in zombies, NEW s \in {"ok", "error"}, ZombieEnds(z, s)
         PROVE  RunsOK'
    BY <1>13, RunsKept DEF ZombieEnds
  <1>14. CASE Suspends \/ ResumesWakes \/ UserResumes
    BY <1>14, RunsKept DEF Suspends, ResumesWakes, UserResumes
  <1>15. CASE UserStops
    <2>1. /\ items' = items /\ debounce' = debounce
          /\ run' = [k \in Kinds |-> [run[k] EXCEPT !.stale = run[k].stage # "idle"]]
      BY <1>15 DEF UserStops
    <2>2. \A k \in Kinds : run'[k].stage = run[k].stage
      BY <1>15, UserStopsEffect
    <2>3. \A k \in Kinds : run[k].stage = "idle" => run'[k] = Idle
      <3> SUFFICES ASSUME NEW k \in Kinds, run[k].stage = "idle" PROVE run'[k] = Idle
        OBVIOUS
      <3>1. run[k] = Idle /\ run'[k] \in RunStates /\ run[k] \in RunStates
        BY <1>0, <1>15, UserStopsEffect DEF RunsOK
      <3>2. /\ run'[k].stage = run[k].stage /\ run'[k].fires = run[k].fires
            /\ run'[k].outcome = run[k].outcome /\ run'[k].recorded = run[k].recorded
            /\ run'[k].stale = FALSE /\ run[k].stale = FALSE
        BY <1>15, <3>1, UserStopsEffect, IdleType
      <3>3. run'[k] = run[k]
        BY <3>1, <3>2, RunParts
      <3> QED BY <3>1, <3>3
    <2>4. \A k \in Kinds : run'[k].stage = "idle" => run'[k] = Idle
      BY <2>2, <2>3
    <2>5. \A i, j \in Kinds : run'[i].stage = "running" /\ run'[j].stage = "running" => i = j
      BY <2>2 DEF RunsOK
    <2>6. items' # <<>> => debounce' \/ run'["event"].stage # "idle"
      BY <2>1, <2>2 DEF RunsOK, Kinds
    <2> QED BY <2>4, <2>5, <2>6 DEF RunsOK
  <1>16. CASE Crash
    BY <1>16, NothingPlaced DEF Crash
  <1> QED BY <1>1, <1>2, <1>3, <1>4, <1>5, <1>6, <1>7, <1>8, <1>9, <1>10, <1>11, <1>12,
             <1>13, <1>14, <1>15, <1>16 DEF Next, AnyDelivery, AnyRun, AnyStop

-----------------------------------------------------------------------------
\* The reports under way: none comes back to an entry that is running again.

LEMMA CallsType ==
  ASSUME TypeOK, NEW c \in calls
  PROVE  c.fire \in Fires /\ c.by \in {"deliver", "tick"} /\ c.status \in Statuses
         /\ states[c.fire] \in Entries
  BY DEF TypeOK, Reports, Entries

LEMMA CallsKept ==
  ASSUME CallsOK, calls' = calls, states' = states, acked' = acked, poll' = poll
  PROVE  CallsOK'
  BY DEF CallsOK, CallOK

LEMMA CallsForget ==
  ASSUME TypeOK, CallsOK, NEW F \in SUBSET Fires, \A f \in F : states[f] = "running",
         Forgets(F), acked' = acked, poll' = poll
  PROVE  CallsOK'
  <1>1. calls' = calls /\ \A f \in Fires \ F : states'[f] = states[f]
    BY EntriesType, ForgetsEffect
  <1>2. ASSUME NEW c \in calls PROVE states'[c.fire] = states[c.fire]
    BY <1>1, CallsType DEF CallsOK, CallOK
  <1> QED BY <1>1, <1>2 DEF CallsOK, CallOK

LEMMA CallsComplete ==
  ASSUME TypeOK, CallsOK, NEW F \in SUBSET Fires, \A f \in F : states[f] = "running",
         NEW s \in Statuses, Completes(F, s), acked' = acked, poll' = poll
  PROVE  CallsOK'
  <1>1. /\ \A f \in F : states'[f] = s
        /\ \A f \in Fires \ F : states'[f] = states[f]
        /\ \A c \in calls' \ calls : c = Report(c.fire, "deliver", s) /\ c.fire \in F
    BY EntriesType, CompletesEffect
  <1>2. ASSUME NEW c \in calls
        PROVE  c.fire \notin F /\ states'[c.fire] = states[c.fire]
    BY <1>1, CallsType DEF CallsOK, CallOK
  <1>3. ASSUME NEW c \in calls' PROVE CallOK(c)'
    <2>1. CASE c \in calls
      BY <1>2, <2>1 DEF CallsOK, CallOK
    <2>2. CASE c \notin calls
      <3>1. /\ states'[c.fire] = s /\ s # "running" /\ s # "none" /\ s # "reported"
            /\ c.by = "deliver"
        BY <1>1, <2>2 DEF Report, Statuses
      <3> QED BY <3>1 DEF CallOK
    <2> QED BY <2>1, <2>2
  <1>4. ASSUME NEW c \in calls', NEW d \in calls', c.by = "deliver", d.by = "deliver",
               c.fire = d.fire
        PROVE  c = d
    <2>1. CASE c \in calls /\ d \in calls
      BY <1>4, <2>1 DEF CallsOK
    <2>2. CASE c \notin calls /\ d \notin calls
      BY <1>1, <1>4, <2>2
    <2> QED BY <1>1, <1>2, <1>4, <2>1, <2>2
  <1>5. poll'.returned \cap acked' = {}
    BY DEF CallsOK
  <1> QED BY <1>3, <1>4, <1>5 DEF CallsOK

LEMMA CallsTick == ASSUME TypeOK, CallsOK, AnyTick PROVE CallsOK'
  <1> USE DEF external
  <1>1. ASSUME NEW returned \in SUBSET Fires, Polls(returned) PROVE CallsOK'
    <2>1. /\ acked' = acked \cup ToAck /\ poll'.returned \cap acked' = {}
          /\ poll.phase = "idle" /\ states' = states /\ calls' = calls
      BY <1>1 DEF Polls
    <2>2. \A c \in calls : states[c.fire] = "reported" => c.fire \in acked'
      BY <2>1, CallsType DEF ToAck
    <2>3. \A c \in calls : c.by # "tick"
      BY <2>1 DEF CallsOK, CallOK
    <2> QED BY <2>1, <2>2, <2>3 DEF CallsOK, CallOK
  <1>2. CASE PollFails
    BY <1>2 DEF PollFails, CallsOK, CallOK, NoPoll
  <1>3. CASE PollReturns
    <2>1. /\ calls' = calls /\ acked' = acked /\ poll.phase = "answered"
          /\ poll' = [phase |-> "reporting", returned |-> {}]
          /\ \A f \in Fires : states'[f] = IF f \in poll.returned /\ states[f] = "none"
                                           THEN "running"
                                ELSE IF states[f] = "reported" /\ f \notin poll.returned
                                     THEN "none" ELSE states[f]
      BY <1>3 DEF PollReturns, New, TypeOK, PollStates
    <2>2. ASSUME NEW c \in calls PROVE CallOK(c)'
      <3>1. c.fire \in Fires /\ CallOK(c) /\ (c.fire \in acked => c.fire \notin poll.returned)
        BY CallsType DEF CallsOK
      <3>2. states'[c.fire] # "running" /\ (states'[c.fire] = "none" => c.fire \in acked)
        BY <2>1, <3>1 DEF CallOK
      <3> QED BY <2>1, <3>2 DEF CallOK
    <2> QED BY <2>1, <2>2 DEF CallsOK
  <1>4. CASE TickEnds
    <2>1. \A c \in calls : c.by # "tick"
      BY <1>4 DEF TickEnds, TickWaits
    <2> QED BY <1>4, <2>1 DEF TickEnds, CallsOK, CallOK, NoPoll
  <1>5. ASSUME NEW f \in Fires, TickVisits(f) PROVE CallsOK'
    <2> DEFINE r == Report(f, "tick", states[f])
    <2>1. /\ calls' = calls \cup {r} /\ states' = states /\ poll' = poll /\ acked' = acked
          /\ poll.phase = "reporting" /\ states[f] \in Statuses
      BY <1>5 DEF TickVisits, Completed
    <2>2. r.by = "tick" /\ r.fire = f
      BY DEF Report
    <2> HIDE DEF r
    <2>3. states[f] # "running" /\ states[f] # "none" /\ states[f] # "reported"
      BY <2>1 DEF Statuses
    <2> QED BY <2>1, <2>2, <2>3 DEF CallsOK, CallOK
  <1>6. ASSUME NEW c \in calls, CallReaches(c) PROVE CallsOK'
    <2> DEFINE r == [c EXCEPT !.at = "reached"]
    <2>1. r.fire = c.fire /\ r.by = c.by
      BY DEF TypeOK, Reports
    <2> HIDE DEF r
    <2>2. calls' = (calls \ {c}) \cup {r} /\ states' = states /\ poll' = poll /\ acked' = acked
      BY <1>6 DEF CallReaches, r
    <2> QED BY <2>1, <2>2 DEF CallsOK, CallOK
  <1>7. ASSUME NEW c \in calls, CallReturns(c) PROVE CallsOK'
    <2>1. /\ calls' = calls \ {c} /\ poll' = poll /\ acked' = acked
          /\ states' = [states EXCEPT ![c.fire] = "reported"]
      BY <1>7 DEF CallReturns
    <2>2. ASSUME NEW d \in calls \ {c} PROVE CallOK(d)'
      <3>1. d.fire \in Fires /\ CallOK(d)
        BY CallsType DEF CallsOK
      <3>2. CASE d.fire # c.fire
        <4>1. states'[d.fire] = states[d.fire]
          BY <2>1, <3>1, <3>2 DEF TypeOK
        <4> QED BY <2>1, <3>1, <4>1 DEF CallOK
      <3>3. CASE d.fire = c.fire
        <4>1. states'[d.fire] = "reported"
          BY <2>1, <3>1, <3>3 DEF TypeOK
        <4>2. poll.phase # "answered"
          <5> SUFFICES ASSUME poll.phase = "answered" PROVE FALSE
            OBVIOUS
          <5>1. c.by = "deliver" /\ d.by = "deliver"
            BY CallsType DEF CallsOK, CallOK
          <5> QED BY <3>3, <5>1 DEF CallsOK
        <4> QED BY <2>1, <3>1, <4>1, <4>2 DEF CallOK
      <3> QED BY <3>2, <3>3
    <2> QED BY <2>1, <2>2 DEF CallsOK
  <1>8. ASSUME NEW c \in calls, CallFails(c) PROVE CallsOK'
    <2>1. calls' = calls \ {c} /\ states' = states /\ poll' = poll /\ acked' = acked
      BY <1>8 DEF CallFails, AfterError
    <2> QED BY <2>1 DEF CallsOK, CallOK
  <1> QED BY <1>1, <1>2, <1>3, <1>4, <1>5, <1>6, <1>7, <1>8 DEF AnyTick

LEMMA CallsDelivery ==
  ASSUME TypeOK, PlacesOK, CallsOK, NEW f \in Fires,
         \/ ConsumerStopped(f) \/ ListingFails(f) \/ RanBefore(f)
         \/ Refuse(f) \/ FireSlot(f) \/ EnqueueEvent(f)
  PROVE  CallsOK'
  <1>1. states[f] = "running" /\ {f} \in SUBSET Fires /\ "failed" \in Statuses
    BY DEF ConsumerStopped, ListingFails, RanBefore, Refuse, FireSlot, EnqueueEvent,
           Delivering, PlacesOK, Placed, Statuses
  <1>2. acked' = acked /\ poll' = poll
    BY DEF ConsumerStopped, ListingFails, RanBefore, Refuse, FireSlot, EnqueueEvent, external
  <1>3. CASE ConsumerStopped(f) \/ ListingFails(f)
    BY <1>1, <1>2, <1>3, CallsForget DEF ConsumerStopped, ListingFails
  <1>4. CASE RanBefore(f)
    <2>1. Existing(f) \in Statuses /\ Completes({f}, Existing(f))
      BY <1>4, ExistingType DEF RanBefore
    <2> QED BY <1>1, <1>2, <2>1, CallsComplete
  <1>5. CASE Refuse(f)
    BY <1>1, <1>2, <1>5, CallsComplete DEF Refuse
  <1>6. CASE FireSlot(f)
    <2>1. Forgets({f}) \/ UNCHANGED <<states, calls>>
      BY <1>6 DEF FireSlot
    <2> QED BY <1>1, <1>2, <2>1, CallsForget, CallsKept
  <1>7. CASE EnqueueEvent(f)
    <2> DEFINE batch == Append(items, f)
    <2>1. f \in Events /\ items \in Seq(Events) /\ Len(items) <= MaxQueued
      BY <1>7 DEF EnqueueEvent, TypeOK
    <2>2. CASE Len(batch) > MaxQueued
      <3>1. Head(batch) = Head(items) /\ items # <<>>
        BY <2>1, <2>2, BatchEffect
      <3>2. Completes({Head(items)}, "failed")
        <4>1. Completes({Head(batch)}, "failed")
          BY <1>7, <2>2 DEF EnqueueEvent
        <4> HIDE DEF batch
        <4> QED BY <3>1, <4>1
      <3>3. Head(items) \in ToSet(items) /\ ToSet(items) \subseteq Fires
        <4>1. Head(items) \in ToSet(items) /\ ToSet(items) \subseteq Events
          BY <2>1, <3>1, ElementsOf
        <4> QED BY <4>1 DEF Fires
      <3>4. states[Head(items)] = "running" /\ {Head(items)} \in SUBSET Fires
        BY <3>3 DEF PlacesOK, Placed
      <3> QED BY <1>1, <1>2, <3>2, <3>4, CallsComplete
    <2>3. CASE ~(Len(batch) > MaxQueued)
      BY <1>2, <1>7, <2>3, CallsKept DEF EnqueueEvent
    <2> QED BY <2>2, <2>3
  <1> QED BY <1>3, <1>4, <1>5, <1>6, <1>7

LEMMA CallsStep == TypeOK /\ PlacesOK /\ CallsOK /\ [Next]_vars => CallsOK'
  <1> SUFFICES ASSUME TypeOK, PlacesOK, CallsOK, [Next]_vars PROVE CallsOK'
    OBVIOUS
  <1> USE DEF external, consumer
  <1>1. CASE UNCHANGED vars
    BY <1>1, CallsKept DEF vars
  <1>2. CASE AnyDelivery
    BY <1>2, CallsDelivery DEF AnyDelivery
  <1>3. ASSUME NEW k \in Kinds, Settles(k) PROVE CallsOK'
    <2>1. InRun(k) \in SUBSET Fires /\ \A f \in InRun(k) : states[f] = "running"
      BY InRunType DEF PlacesOK, Placed
    <2>2. acked' = acked /\ poll' = poll
      BY <1>3 DEF Settles
    <2>3. Forgets(InRun(k)) \/ Completes(InRun(k), StatusOf(run[k].outcome))
      BY <1>3 DEF Settles, InRun
    <2> QED BY <2>1, <2>2, <2>3, OutcomeStatus, CallsForget, CallsComplete
  <1>4. CASE Flush \/ FireByHand
    BY <1>4, CallsKept DEF Flush, FireByHand
  <1>5. ASSUME NEW k \in Kinds,
               \/ GoesNoFurther(k) \/ Resolves(k) \/ Starts(k) \/ GivenUp(k)
               \/ \E o \in Outcomes, s \in {"ok", "error"} : RunEnds(k, o, s)
        PROVE  CallsOK'
    BY <1>5, CallsKept DEF GoesNoFurther, Resolves, Starts, GivenUp, RunEnds
  <1>6. CASE \E z \in zombies, s \in {"ok", "error"} : ZombieEnds(z, s)
    BY <1>6, CallsKept DEF ZombieEnds
  <1>7. CASE Suspends \/ ResumesWakes \/ UserStops \/ UserResumes
    BY <1>7, CallsKept DEF Suspends, ResumesWakes, UserStops, UserResumes
  <1>8. CASE Crash
    BY <1>8 DEF Crash, NoPoll, CallsOK, CallOK
  <1> QED BY <1>1, <1>2, <1>3, <1>4, <1>5, <1>6, <1>7, <1>8, CallsTick
          DEF Next, AnyRun, AnyStop

-----------------------------------------------------------------------------
\* What the store says of a fire, before and after a record is made or finished.

LEMMA CoveringType ==
  ASSUME HistoryOK(runs), NEW f
  PROVE  /\ Covering(f) \subseteq DOMAIN runs /\ Covering(f) \subseteq Nat
         /\ Covering(f) # {} => /\ Min(Covering(f)) \in Covering(f)
                                /\ \A i \in Covering(f) : Min(Covering(f)) <= i
  <1>1. DOMAIN runs \subseteq Nat
    BY DEF HistoryOK
  <1>2. Covering(f) \subseteq DOMAIN runs
    BY DEF Covering
  <1> QED BY <1>1, <1>2, MinLeast

LEMMA RunsTyped == HistoryOK(runs) => \A i \in DOMAIN runs : runs[i] \in StoredRuns
  BY DEF HistoryOK

LEMMA UnknownWhenNone ==
  ASSUME HistoryOK(runs), NEW f, Existing(f) = "none" PROVE ~KnownDone(f)
  <1>1. CASE Covering(f) = {}
    BY <1>1 DEF KnownDone
  <1>2. CASE Covering(f) # {}
    <2> DEFINE s == runs[Min(Covering(f))].status
    <2>1. s \in {"running", "ok", "error"}
      BY <1>2, CoveringType, RunsTyped, RecordParts
    <2>2. s # "ok" /\ s # "error"
      BY <1>2 DEF Existing
    <2> QED BY <2>1, <2>2 DEF KnownDone
  <1> QED BY <1>1, <1>2

LEMMA DoneWhenSucceeded ==
  ASSUME HistoryOK(runs), NEW f \in Fires, Existing(f) = "succeeded"
  PROVE  \E i \in DOMAIN runs : runs[i].status = "ok" /\ f \in Names(runs[i])
  <1> DEFINE m == Min(Covering(f))
  <1>1. Covering(f) # {} /\ runs[m].status = "ok"
    BY DEF Existing
  <1>2. m \in Covering(f) /\ m \in DOMAIN runs
    BY <1>1, CoveringType
  <1> HIDE DEF m
  <1>3. runs[m].id = f \/ f \in runs[m].also
    BY <1>2 DEF Covering
  <1> QED BY <1>1, <1>2, <1>3 DEF Names, m

\* A new record makes nothing known.
LEMMA UnknownWithRecord ==
  ASSUME HistoryOK(runs), NEW fires \in Seq(Fires), runs' = WithRecord(fires),
         NEW f, ~KnownDone(f)
  PROVE  ~KnownDone(f)'
  <1>1. CASE RunsOf(IdOf(fires)) # {}
    <2>1. runs' = runs
      BY <1>1 DEF WithRecord
    <2> QED BY <2>1 DEF KnownDone, Covering
  <1>2. CASE RunsOf(IdOf(fires)) = {}
    <2>1. /\ HistoryOK(runs') /\ Len(runs') >= 1 /\ runs'[1] = NewRecord(fires)
          /\ \A i \in 2 .. Len(runs') : i - 1 \in DOMAIN runs /\ runs'[i] = runs[i - 1]
      BY <1>2, WithRecordEffect
    <2> DEFINE C == Covering(f)'  m == Min(C)
    <2> SUFFICES ASSUME C # {} PROVE runs'[m].status = "running"
      BY DEF KnownDone
    <2>2. C = {i \in DOMAIN runs' : runs'[i].id = f \/ f \in runs'[i].also}
      BY DEF Covering
    <2>3. DOMAIN runs' = 1 .. Len(runs') /\ Len(runs') \in Nat
      BY <2>1 DEF HistoryOK
    <2>4. C \subseteq Nat
      BY <2>2, <2>3
    <2> HIDE DEF C
    <2>5. m \in C /\ \A i \in C : m <= i
      BY <2>4, MinLeast
    <2> HIDE DEF m
    <2>6. CASE m = 1
      BY <2>1, <2>6, NewRecordType
    <2>7. CASE m # 1
      <3>1. m \in 2 .. Len(runs')
        BY <2>2, <2>3, <2>5, <2>7
      <3>2. m - 1 \in DOMAIN runs /\ runs'[m] = runs[m - 1]
        BY <2>1, <3>1
      <3>3. m - 1 \in Covering(f)
        BY <2>2, <2>5, <3>2 DEF Covering
      <3>4. ASSUME NEW i \in Covering(f) PROVE m - 1 <= i
        <4> SUFFICES ASSUME i < m - 1 PROVE FALSE
          <5>1. i \in Nat /\ m \in Nat
            BY <3>1, CoveringType
          <5> QED BY <5>1
        <4>1. i \in DOMAIN runs /\ DOMAIN runs = 1 .. Len(runs)
          BY CoveringType DEF HistoryOK
        <4>2. i + 1 \in 2 .. Len(runs') /\ (i + 1) - 1 = i /\ i + 1 < m
          BY <2>3, <3>1, <4>1
        <4>3. runs'[i + 1] = runs[i]
          BY <2>1, <4>2
        <4>4. i + 1 \in C
          BY <2>2, <2>3, <4>2, <4>3 DEF Covering
        <4>5. m <= i + 1
          BY <2>5, <4>4
        <4> QED BY <3>1, <4>1, <4>2, <4>5
      <3>5. m - 1 = Min(Covering(f))
        <4>1. /\ Min(Covering(f)) \in Covering(f) /\ Covering(f) \subseteq Nat
              /\ \A i \in Covering(f) : Min(Covering(f)) <= i
          BY <3>3, CoveringType
        <4>2. Min(Covering(f)) <= m - 1 /\ m - 1 <= Min(Covering(f))
          BY <3>3, <3>4, <4>1
        <4> QED BY <3>1, <4>1, <4>2
      <3>6. runs[m - 1].status = "running"
        BY <3>3, <3>5 DEF KnownDone
      <3> QED BY <3>2, <3>6
    <2> QED BY <2>6, <2>7
  <1> QED BY <1>1, <1>2

\* A record that ends says nothing new of fires that its wake did not have, but for those
\* it was absorbed with.
LEMMA UnknownWithEnd ==
  ASSUME HistoryOK(runs), NEW fires \in Seq(Fires), NEW status \in {"ok", "error"},
         runs' = Finished(IdOf(fires), status),
         NEW f \in Fires, f \notin ToSet(fires), f \notin AbsorbedBy(fires), ~KnownDone(f)
  PROVE  ~KnownDone(f)'
  <1> DEFINE m == Min(Covering(f))  id == IdOf(fires)
  <1>1. /\ DOMAIN runs' = DOMAIN runs
        /\ \A i \in DOMAIN runs :
             /\ runs'[i].id = runs[i].id /\ runs'[i].also = runs[i].also
             /\ runs'[i].status = IF i \in RunsOf(id) THEN status ELSE runs[i].status
    BY FinishedEffect
  <1>2. Covering(f)' = Covering(f)
    BY <1>1 DEF Covering
  <1> SUFFICES ASSUME Covering(f) # {} PROVE runs'[m].status = "running"
    BY <1>2 DEF KnownDone
  <1>3. m \in Covering(f) /\ m \in DOMAIN runs /\ runs[m].status = "running"
    BY CoveringType DEF KnownDone
  <1> HIDE DEF m
  <1>4. m \notin RunsOf(id)
    <2> SUFFICES ASSUME m \in RunsOf(id) PROVE FALSE
      OBVIOUS
    <2>1. id # Manual /\ runs[m].id = id
      BY DEF RunsOf
    <2>2. id \in ToSet(fires)
      BY <2>1, NewRecordType
    <2>3. f \in runs[m].also
      BY <1>3, <2>1, <2>2 DEF Covering
    <2>4. f \in AbsorbedBy(fires)
      BY <2>3 DEF AbsorbedBy
    <2> QED BY <2>4
  <1> QED BY <1>1, <1>3, <1>4

\* A record that ends well names what was run, or absorbed.
LEMMA EarnedWithEnd ==
  ASSUME HistoryOK(runs), NEW fires \in Seq(Fires), NEW status \in {"ok", "error"},
         runs' = Finished(IdOf(fires), status),
         NEW E, status = "ok" => ToSet(fires) \subseteq E, AbsorbedBy(fires) \subseteq E,
         \A i \in DOMAIN runs : runs[i].status = "ok" => Names(runs[i]) \subseteq E
  PROVE  \A i \in DOMAIN runs' : runs'[i].status = "ok" => Names(runs'[i]) \subseteq E
  <1> DEFINE id == IdOf(fires)
  <1>1. /\ DOMAIN runs' = DOMAIN runs
        /\ \A i \in DOMAIN runs :
             /\ runs'[i].id = runs[i].id /\ runs'[i].also = runs[i].also
             /\ runs'[i].status = IF i \in RunsOf(id) THEN status ELSE runs[i].status
    BY FinishedEffect
  <1> SUFFICES ASSUME NEW i \in DOMAIN runs, runs'[i].status = "ok"
               PROVE  Names(runs'[i]) \subseteq E
    BY <1>1
  <1>2. Names(runs'[i]) = Names(runs[i])
    BY <1>1 DEF Names
  <1>3. CASE i \notin RunsOf(id)
    BY <1>1, <1>2, <1>3
  <1>4. CASE i \in RunsOf(id)
    <2>1. status = "ok" /\ runs[i].id = id /\ id # Manual
      BY <1>1, <1>4 DEF RunsOf
    <2>2. id \in ToSet(fires) /\ ToSet(fires) \subseteq E
      BY <2>1, NewRecordType
    <2>3. runs[i].also \subseteq AbsorbedBy(fires) \cup ToSet(fires)
      BY <1>4 DEF AbsorbedBy
    <2> QED BY <1>2, <2>1, <2>2, <2>3 DEF Names
  <1> QED BY <1>3, <1>4

\* What a record was absorbed with does not change when one ends.
LEMMA AbsorbedWithEnd ==
  ASSUME HistoryOK(runs), NEW id, NEW status \in {"ok", "error"},
         runs' = Finished(id, status), NEW fires
  PROVE  AbsorbedBy(fires)' = AbsorbedBy(fires)
  <1>1. /\ DOMAIN runs' = DOMAIN runs
        /\ \A i \in DOMAIN runs :
             runs'[i].id = runs[i].id /\ runs'[i].also = runs[i].also
    BY FinishedEffect
  <1> DEFINE R == {i \in DOMAIN runs : IdOf(fires) # Manual /\ runs[i].id = IdOf(fires)}
  <1>2. RunsOf(IdOf(fires)) = R /\ RunsOf(IdOf(fires))' = R
    BY <1>1 DEF RunsOf
  <1>3. \A i \in R : runs'[i].also = runs[i].also
    BY <1>1
  <1>4. /\ AbsorbedBy(fires) = UNION {runs[i].also \ ToSet(fires) : i \in R}
        /\ AbsorbedBy(fires)' = UNION {runs'[i].also \ ToSet(fires) : i \in R}
    BY <1>2 DEF AbsorbedBy
  <1> HIDE DEF R
  <1> QED BY <1>3, <1>4

-----------------------------------------------------------------------------
\* What is counted as succeeded was run.

LEMMA EarnedGrows ==
  [Next]_vars => /\ ranOk \subseteq ranOk' /\ absorbed \subseteq absorbed'
                 /\ givenUp \subseteq givenUp'
  <1> SUFFICES ASSUME [Next]_vars
               PROVE  /\ ranOk \subseteq ranOk' /\ absorbed \subseteq absorbed'
                      /\ givenUp \subseteq givenUp'
    OBVIOUS
  <1> USE DEF history
  <1>1. CASE AnyTick \/ AnyStop \/ UNCHANGED vars
    BY <1>1 DEF vars, AnyTick, Polls, PollFails, PollReturns, TickEnds, TickVisits,
                CallReaches, CallReturns, CallFails, AnyStop, Suspends, ResumesWakes,
                UserStops, UserResumes, Crash
  <1>2. CASE AnyDelivery
    BY <1>2 DEF AnyDelivery, ConsumerStopped, ListingFails, RanBefore, Refuse, FireSlot,
                EnqueueEvent
  <1>3. CASE AnyRun
    BY <1>3 DEF AnyRun, Flush, FireByHand, GoesNoFurther, Resolves, Starts, GivenUp, Settles,
                RunEnds, ZombieEnds
  <1> QED BY <1>1, <1>2, <1>3 DEF Next

\* The four parts of EarnedOK.
EntriesEarned == \A f \in Fires : states[f] = "succeeded" \/ backend[f] = "succeeded"
                                    => f \in Earned
CallsEarned == \A c \in calls : c.status = "succeeded" => c.fire \in Earned
WakesEarned == \A k \in Kinds : run[k].outcome = "ok" => InRun(k) \subseteq Earned
RunsEarned == \A i \in DOMAIN runs : runs[i].status = "ok" => Names(runs[i]) \subseteq Earned

LEMMA EarnedParts ==
  ASSUME EntriesEarned', CallsEarned', WakesEarned', RunsEarned'
  PROVE  EarnedOK'
  BY DEF EarnedOK, EntriesEarned, CallsEarned, WakesEarned, RunsEarned

LEMMA ReportParts ==
  \A f, by, status : /\ Report(f, by, status).fire = f /\ Report(f, by, status).by = by
                     /\ Report(f, by, status).status = status
  BY DEF Report

\* Fires completed with a status they have earned.
LEMMA CompletesEarned ==
  ASSUME TypeOK, EarnedOK, NEW F \in SUBSET Fires, NEW s \in Statuses, Completes(F, s),
         s = "succeeded" => F \subseteq Earned,
         ranOk \subseteq ranOk', absorbed \subseteq absorbed', backend' = backend
  PROVE  EntriesEarned' /\ CallsEarned'
  <1>1. /\ \A f \in F : states'[f] = s
        /\ \A f \in Fires \ F : states'[f] = states[f]
        /\ \A c \in calls' \ calls : c = Report(c.fire, "deliver", s) /\ c.fire \in F
    BY EntriesType, CompletesEffect
  <1>2. Earned \subseteq Earned'
    BY DEF Earned
  <1>3. EntriesEarned'
    BY <1>1, <1>2 DEF EntriesEarned, EarnedOK
  <1>4. ASSUME NEW c \in calls', c.status = "succeeded" PROVE c.fire \in Earned'
    <2>1. CASE c \in calls
      BY <1>2, <1>4, <2>1 DEF EarnedOK
    <2>2. CASE c \notin calls
      <3>1. c.status = s /\ c.fire \in F
        BY <1>1, <2>2, ReportParts
      <3> QED BY <1>2, <1>4, <3>1
    <2> QED BY <2>1, <2>2
  <1> QED BY <1>3, <1>4 DEF CallsEarned

LEMMA ForgetsEarned ==
  ASSUME TypeOK, EarnedOK, NEW F \in SUBSET Fires, Forgets(F),
         ranOk \subseteq ranOk', absorbed \subseteq absorbed', backend' = backend
  PROVE  EntriesEarned' /\ CallsEarned'
  <1>1. /\ calls' = calls /\ \A f \in F : states'[f] = "none"
        /\ \A f \in Fires \ F : states'[f] = states[f]
    BY EntriesType, ForgetsEffect
  <1>2. Earned \subseteq Earned'
    BY DEF Earned
  <1> QED BY <1>1, <1>2 DEF EntriesEarned, CallsEarned, EarnedOK

\* Everything else stands.
LEMMA EntriesStand ==
  ASSUME EarnedOK, states' = states, backend' = backend, calls' = calls,
         Earned \subseteq Earned'
  PROVE  EntriesEarned' /\ CallsEarned'
  BY DEF EarnedOK, EntriesEarned, CallsEarned

LEMMA WakesStand ==
  ASSUME EarnedOK, Earned \subseteq Earned',
         \A k \in Kinds : \/ run'[k].outcome # "ok"
                          \/ run'[k].outcome = run[k].outcome /\ run'[k].fires = run[k].fires
  PROVE  WakesEarned'
  <1> SUFFICES ASSUME NEW k \in Kinds, run'[k].outcome = "ok" PROVE InRun(k)' \subseteq Earned'
    BY DEF WakesEarned
  <1>1. run[k].outcome = "ok" /\ InRun(k)' = InRun(k)
    BY DEF InRun
  <1> QED BY <1>1 DEF EarnedOK

LEMMA RunsStand ==
  ASSUME EarnedOK, Earned \subseteq Earned', runs' = runs
  PROVE  RunsEarned'
  BY DEF EarnedOK, RunsEarned

LEMMA EarnedTick == ASSUME TypeOK, EarnedOK, AnyTick, Earned \subseteq Earned' PROVE EarnedOK'
  <1> USE DEF external, durable, wakes
  <1>1. run' = run /\ runs' = runs
    BY DEF AnyTick, Polls, PollFails, PollReturns, TickEnds, TickVisits,
           CallReaches, CallReturns, CallFails
  <1>2. WakesEarned' /\ RunsEarned'
    BY <1>1, WakesStand, RunsStand
  <1>3. CASE (\E returned \in SUBSET Fires : Polls(returned)) \/ PollFails \/ TickEnds
    <2>1. EntriesEarned' /\ CallsEarned'
      BY <1>3, EntriesStand DEF Polls, PollFails, TickEnds
    <2> QED BY <1>2, <2>1, EarnedParts
  <1>4. CASE PollReturns
    <2>1. /\ calls' = calls /\ backend' = backend
          /\ \A f \in Fires : states'[f] = "succeeded" => states[f] = "succeeded"
      BY <1>4 DEF PollReturns
    <2>2. EntriesEarned' /\ CallsEarned'
      BY <2>1 DEF EarnedOK, EntriesEarned, CallsEarned
    <2> QED BY <1>2, <2>2, EarnedParts
  <1>5. ASSUME NEW f \in Fires, TickVisits(f) PROVE EarnedOK'
    <2>1. calls' = calls \cup {Report(f, "tick", states[f])} /\ states' = states
          /\ backend' = backend
      BY <1>5 DEF TickVisits
    <2>2. EntriesEarned' /\ CallsEarned'
      BY <2>1, ReportParts DEF EarnedOK, EntriesEarned, CallsEarned
    <2> QED BY <1>2, <2>2, EarnedParts
  <1>6. ASSUME NEW c \in calls, CallReaches(c) PROVE EarnedOK'
    <2> DEFINE r == [c EXCEPT !.at = "reached"]
    <2>1. r.fire = c.fire /\ r.status = c.status /\ c.fire \in Fires
      BY DEF TypeOK, Reports
    <2> HIDE DEF r
    <2>2. /\ calls' = (calls \ {c}) \cup {r} /\ states' = states
          /\ backend' = IF backend[c.fire] = "owed"
                        THEN [backend EXCEPT ![c.fire] = c.status] ELSE backend
      BY <1>6 DEF CallReaches, r
    <2>3. CallsEarned'
      BY <2>1, <2>2 DEF EarnedOK, CallsEarned
    <2>4. \A f \in Fires : backend'[f] = "succeeded" =>
            backend[f] = "succeeded" \/ (f = c.fire /\ c.status = "succeeded")
      BY <2>1, <2>2 DEF TypeOK
    <2>5. EntriesEarned'
      BY <2>2, <2>4 DEF EarnedOK, EntriesEarned
    <2> QED BY <1>2, <2>3, <2>5, EarnedParts
  <1>7. ASSUME NEW c \in calls, CallReturns(c) \/ CallFails(c) PROVE EarnedOK'
    <2>1. /\ calls' \subseteq calls /\ backend' = backend /\ c.fire \in Fires
          /\ states' = states \/ states' = [states EXCEPT ![c.fire] = "reported"]
      BY <1>7 DEF CallReturns, CallFails, AfterError, TypeOK, Reports
    <2>2. \A f \in Fires : states'[f] = "succeeded" => states[f] = "succeeded"
      BY <2>1 DEF TypeOK
    <2>3. EntriesEarned' /\ CallsEarned'
      BY <2>1, <2>2 DEF EarnedOK, EntriesEarned, CallsEarned
    <2> QED BY <1>2, <2>3, EarnedParts
  <1> QED BY <1>3, <1>4, <1>5, <1>6, <1>7 DEF AnyTick

LEMMA EarnedDelivery ==
  ASSUME TypeOK, EarnedOK, NEW f \in Fires,
         \/ ConsumerStopped(f) \/ ListingFails(f) \/ RanBefore(f)
         \/ Refuse(f) \/ FireSlot(f) \/ EnqueueEvent(f),
         ranOk \subseteq ranOk', absorbed \subseteq absorbed'
  PROVE  EarnedOK'
  <1> USE DEF external, durable, wakes
  <1>0. {f} \in SUBSET Fires /\ "failed" \in Statuses /\ "failed" # "succeeded"
        /\ Earned \subseteq Earned'
    BY DEF Statuses, Earned
  <1>1. runs' = runs /\ backend' = backend
    BY DEF ConsumerStopped, ListingFails, RanBefore, Refuse, FireSlot, EnqueueEvent
  <1>2. RunsEarned'
    BY <1>0, <1>1, RunsStand
  <1>3. CASE ConsumerStopped(f) \/ ListingFails(f)
    <2>1. Forgets({f}) /\ run' = run
      BY <1>3 DEF ConsumerStopped, ListingFails
    <2> QED BY <1>0, <1>1, <1>2, <2>1, ForgetsEarned, WakesStand, EarnedParts
  <1>4. CASE RanBefore(f)
    <2>1. Existing(f) \in Statuses /\ Completes({f}, Existing(f)) /\ run' = run
      BY <1>4, ExistingType DEF RanBefore
    <2>2. Existing(f) = "succeeded" => {f} \subseteq Earned
      <3> SUFFICES ASSUME Existing(f) = "succeeded" PROVE f \in Earned
        OBVIOUS
      <3>1. PICK i \in DOMAIN runs : runs[i].status = "ok" /\ f \in Names(runs[i])
        BY HistoryType, DoneWhenSucceeded
      <3> QED BY <3>1 DEF EarnedOK
    <2>3. EntriesEarned' /\ CallsEarned'
      BY <1>0, <1>1, <2>1, <2>2, CompletesEarned
    <2>4. WakesEarned'
      BY <1>0, <2>1, WakesStand
    <2> QED BY <1>2, <2>3, <2>4, EarnedParts
  <1>5. CASE Refuse(f)
    <2>1. Completes({f}, "failed") /\ run' = run
      BY <1>5 DEF Refuse
    <2>2. EntriesEarned' /\ CallsEarned'
      BY <1>0, <1>1, <2>1, CompletesEarned
    <2> QED BY <1>0, <1>2, <2>1, <2>2, WakesStand, EarnedParts
  <1>6. CASE FireSlot(f)
    <2>1. EntriesEarned' /\ CallsEarned'
      <3>1. Forgets({f}) \/ UNCHANGED <<states, calls>>
        BY <1>6 DEF FireSlot
      <3> QED BY <1>0, <1>1, <3>1, ForgetsEarned, EntriesStand
    <2>2. WakesEarned'
      <3>1. CASE run' = run
        BY <1>0, <3>1, WakesStand
      <3>2. CASE run' = [run EXCEPT !["slot"] = Wake(<<f>>, "resolving")]
        <4>1. <<f>> \in Seq(Fires) /\ run \in [Kinds -> RunStates]
          BY DEF TypeOK
        <4>2. run'["slot"].outcome = "none" /\ run'["event"] = run["event"]
          BY <3>2, <4>1, SlotWakes
        <4> QED BY <1>0, <4>2, WakesStand DEF Kinds
      <3> QED BY <1>6, <3>1, <3>2 DEF FireSlot
    <2> QED BY <1>2, <2>1, <2>2, EarnedParts
  <1>7. CASE EnqueueEvent(f)
    <2> DEFINE batch == Append(items, f)
    <2>1. f \in Events /\ items \in Seq(Events) /\ Len(items) <= MaxQueued /\ run' = run
      BY <1>7 DEF EnqueueEvent, TypeOK
    <2>2. EntriesEarned' /\ CallsEarned'
      <3>1. CASE Len(batch) > MaxQueued
        <4>1. Head(batch) \in Fires
          BY <2>1, <3>1, BatchEffect DEF Fires
        <4>2. Completes({Head(batch)}, "failed") /\ {Head(batch)} \in SUBSET Fires
          BY <1>7, <3>1, <4>1 DEF EnqueueEvent
        <4> QED BY <1>0, <1>1, <4>2, CompletesEarned
      <3>2. CASE ~(Len(batch) > MaxQueued)
        BY <1>0, <1>1, <1>7, <3>2, EntriesStand DEF EnqueueEvent
      <3> QED BY <3>1, <3>2
    <2>3. WakesEarned'
      BY <1>0, <2>1, WakesStand
    <2> QED BY <1>2, <2>2, <2>3, EarnedParts
  <1> QED BY <1>3, <1>4, <1>5, <1>6, <1>7

\* The outcome of a wake that moves on.
LEMMA WakesMove ==
  ASSUME EarnedOK, Earned \subseteq Earned', NEW k \in Kinds, NEW s, NEW o, Moves(k, s, o),
         o = "ok" => run[k].outcome = "ok" \/ InRun(k) \subseteq Earned'
  PROVE  WakesEarned'
  <1> SUFFICES ASSUME NEW j \in Kinds, run'[j].outcome = "ok" PROVE InRun(j)' \subseteq Earned'
    BY DEF WakesEarned
  <1>1. InRun(j)' = InRun(j)
    BY MovesPlaces
  <1>2. CASE j = k
    BY <1>1, <1>2 DEF Moves, EarnedOK
  <1>3. CASE j # k
    BY <1>1, <1>3 DEF Moves, EarnedOK
  <1> QED BY <1>2, <1>3

LEMMA EarnedRun ==
  ASSUME TypeOK, EarnedOK, RecordsOK, AnyRun,
         ranOk \subseteq ranOk', absorbed \subseteq absorbed'
  PROVE  EarnedOK'
  <1> USE DEF external, durable, consumer
  <1>0. Earned \subseteq Earned' /\ HistoryOK(runs) /\ run \in [Kinds -> RunStates]
        /\ \A i \in DOMAIN runs : runs[i].status = "ok" => Names(runs[i]) \subseteq Earned'
    BY HistoryType DEF Earned, TypeOK, EarnedOK
  <1>1. CASE Flush
    <2>1. run'["event"].outcome = "none" /\ run'["slot"] = run["slot"]
      BY <1>1, FlushEffect
    <2>2. WakesEarned'
      BY <1>0, <2>1, WakesStand DEF Kinds
    <2> QED BY <1>0, <1>1, <2>2, EntriesStand, RunsStand, EarnedParts DEF Flush
  <1>2. CASE FireByHand
    <2>1. run' = [run EXCEPT !["slot"] = Wake(<<>>, "resolving")] /\ <<>> \in Seq(Fires)
      BY <1>2, EmptySeq DEF FireByHand
    <2>2. run'["slot"].outcome = "none" /\ run'["event"] = run["event"]
      BY <1>0, <2>1, SlotWakes
    <2>3. WakesEarned'
      BY <1>0, <2>2, WakesStand DEF Kinds
    <2> QED BY <1>0, <1>2, <2>3, EntriesStand, RunsStand, EarnedParts DEF FireByHand
  <1>3. ASSUME NEW k \in Kinds, GoesNoFurther(k) \/ GivenUp(k) PROVE EarnedOK'
    <2>1. PICK o \in {"none", "error"} : Ends(k, o)
      BY <1>3 DEF GoesNoFurther, GivenUp
    <2>2. Moves(k, "settling", o)
      BY <1>0, <2>1, EndsEffect DEF Outcomes
    <2>3. WakesEarned'
      BY <1>0, <2>2, WakesMove
    <2>4. UNCHANGED <<states, calls, backend, runs>>
      BY <1>3 DEF GoesNoFurther, GivenUp
    <2> QED BY <1>0, <2>3, <2>4, EntriesStand, RunsStand, EarnedParts
  <1>4. ASSUME NEW k \in Kinds, Resolves(k) PROVE EarnedOK'
    <2>1. Moves(k, "settling", "interrupted") \/ Moves(k, "enqueued", run[k].outcome)
      BY <1>4, ResolvesEffect
    <2>2. WakesEarned'
      BY <1>0, <2>1, WakesMove
    <2>3. UNCHANGED <<states, calls, backend, runs>>
      BY <1>4 DEF Resolves
    <2> QED BY <1>0, <2>2, <2>3, EntriesStand, RunsStand, EarnedParts
  <1>5. ASSUME NEW k \in Kinds, Starts(k) PROVE EarnedOK'
    <2>1. /\ Moves(k, "settling", "interrupted") \/ Moves(k, "running", run[k].outcome)
          /\ runs' = runs \/ runs' = WithRecord(run[k].fires)
      BY <1>5, StartsEffect
    <2>2. WakesEarned'
      BY <1>0, <2>1, WakesMove
    <2>3. UNCHANGED <<states, calls, backend>>
      BY <1>5 DEF Starts
    <2>4. RunsEarned'
      <3>1. CASE runs' = runs
        BY <1>0, <3>1, RunsStand
      <3>2. CASE runs' = WithRecord(run[k].fires) /\ runs' # runs
        <4>1. run[k].fires \in Seq(Fires)
          BY <1>0, RunParts
        <4>2. RunsOf(IdOf(run[k].fires)) = {}
          BY <3>2 DEF WithRecord
        <4>3. /\ HistoryOK(runs') /\ Len(runs') >= 1 /\ runs'[1] = NewRecord(run[k].fires)
              /\ \A i \in 2 .. Len(runs') : i - 1 \in DOMAIN runs /\ runs'[i] = runs[i - 1]
          BY <1>0, <3>2, <4>1, <4>2, WithRecordEffect
        <4>4. runs'[1].status # "ok"
          BY <4>1, <4>3, NewRecordType
        <4>5. \A i \in DOMAIN runs' : i = 1 \/ i \in 2 .. Len(runs')
          BY <4>3 DEF HistoryOK
        <4> QED BY <1>0, <4>3, <4>4, <4>5 DEF RunsEarned
      <3> QED BY <2>1, <3>1, <3>2
    <2> QED BY <1>0, <2>2, <2>3, <2>4, EntriesStand, EarnedParts
  <1>6. ASSUME NEW k \in Kinds, NEW o \in Outcomes, NEW s \in {"ok", "error"},
               RunEnds(k, o, s)
        PROVE  EarnedOK'
    <2> DEFINE fires == run[k].fires
    <2>1. /\ Moves(k, "settling", o) /\ run[k].stage = "running"
          /\ o = "ok" => s = "ok"
          /\ s = "ok" => InRun(k) \subseteq Earned'
          /\ \/ runs' = runs
             \/ run[k].recorded /\ runs' = Finished(IdOf(fires), s)
      BY <1>6, RunEndsEffect DEF Earned
    <2>2. WakesEarned'
      BY <1>0, <2>1, WakesMove
    <2>3. RunsEarned'
      <3>1. CASE runs' = runs
        BY <1>0, <3>1, RunsStand
      <3>2. CASE run[k].recorded /\ runs' = Finished(IdOf(fires), s)
        <4>1. AbsorbedBy(fires) \subseteq Earned'
          BY <1>0, <2>1, <3>2 DEF RecordsOK, Earned
        <4>2. fires \in Seq(Fires)
          BY <1>0, RunParts
        <4>3. s = "ok" => ToSet(fires) \subseteq Earned'
          BY <2>1 DEF InRun
        <4> HIDE DEF fires
        <4>4. \A i \in DOMAIN runs' : runs'[i].status = "ok" => Names(runs'[i]) \subseteq Earned'
          BY <1>0, <3>2, <4>1, <4>2, <4>3, EarnedWithEnd
        <4> QED BY <4>4 DEF RunsEarned
      <3> QED BY <2>1, <3>1, <3>2
    <2>4. UNCHANGED <<states, calls, backend>>
      BY <1>6 DEF RunEnds
    <2> QED BY <1>0, <2>2, <2>3, <2>4, EntriesStand, EarnedParts
  <1>7. ASSUME NEW k \in Kinds, Settles(k) PROVE EarnedOK'
    <2>1. /\ run'[k] = Idle /\ \A j \in Kinds \ {k} : run'[j] = run[j]
          /\ InRun(k) \in SUBSET Fires
      BY <1>7, SettlesEffect
    <2>2. WakesEarned'
      BY <1>0, <2>1, IdleType, WakesStand
    <2>3. backend' = backend /\ runs' = runs
      BY <1>7 DEF Settles
    <2>4. EntriesEarned' /\ CallsEarned'
      <3>1. CASE Forgets(InRun(k))
        BY <2>1, <2>3, <3>1, ForgetsEarned
      <3>2. CASE Completes(InRun(k), StatusOf(run[k].outcome))
        <4>1. StatusOf(run[k].outcome) = "succeeded" => InRun(k) \subseteq Earned
          BY DEF StatusOf, EarnedOK
        <4> QED BY <2>1, <2>3, <3>2, <4>1, OutcomeStatus, CompletesEarned
      <3> QED BY <1>7, <3>1, <3>2 DEF Settles, InRun
    <2> QED BY <1>0, <2>2, <2>3, <2>4, RunsStand, EarnedParts
  <1>8. ASSUME NEW z \in zombies, NEW s \in {"ok", "error"}, ZombieEnds(z, s) PROVE EarnedOK'
    <2>1. /\ z.fires \in Seq(Fires) /\ AbsorbedBy(z.fires) \subseteq Earned'
          /\ s = "ok" => ToSet(z.fires) \subseteq Earned'
          /\ runs' = runs \/ runs' = Finished(IdOf(z.fires), s)
      BY <1>8, ZombieEndsEffect DEF Earned
    <2>2. RunsEarned'
      <3>1. CASE runs' = runs
        BY <1>0, <3>1, RunsStand
      <3>2. CASE runs' = Finished(IdOf(z.fires), s)
        <4>1. \A i \in DOMAIN runs' : runs'[i].status = "ok" => Names(runs'[i]) \subseteq Earned'
          BY <1>0, <2>1, <3>2, EarnedWithEnd
        <4> QED BY <4>1 DEF RunsEarned
      <3> QED BY <2>1, <3>1, <3>2
    <2>3. UNCHANGED <<states, calls, backend, run>>
      BY <1>8 DEF ZombieEnds
    <2> QED BY <1>0, <2>2, <2>3, EntriesStand, WakesStand, EarnedParts
  <1> QED BY <1>1, <1>2, <1>3, <1>4, <1>5, <1>6, <1>7, <1>8 DEF AnyRun

LEMMA EarnedStep == TypeOK /\ EarnedOK /\ RecordsOK /\ [Next]_vars => EarnedOK'
  <1> SUFFICES ASSUME TypeOK, EarnedOK, RecordsOK, [Next]_vars PROVE EarnedOK'
    OBVIOUS
  <1> USE DEF external, durable, consumer, wakes
  <1>0. ranOk \subseteq ranOk' /\ absorbed \subseteq absorbed' /\ Earned \subseteq Earned'
    BY EarnedGrows DEF Earned
  <1>1. CASE \/ Suspends \/ ResumesWakes \/ UserStops \/ UserResumes \/ UNCHANGED vars
    <2>1. UNCHANGED <<states, calls, backend, runs>>
      BY <1>1 DEF Suspends, ResumesWakes, UserStops, UserResumes, vars
    <2>2. \A k \in Kinds : run'[k].outcome = run[k].outcome /\ run'[k].fires = run[k].fires
      <3>1. CASE UserStops
        BY <3>1, UserStopsEffect
      <3>2. CASE \/ Suspends \/ ResumesWakes \/ UserResumes \/ UNCHANGED vars
        BY <3>2 DEF Suspends, ResumesWakes, UserResumes, vars
      <3> QED BY <1>1, <3>1, <3>2
    <2> QED BY <1>0, <2>1, <2>2, EntriesStand, RunsStand, WakesStand, EarnedParts
  <1>2. CASE Crash
    <2>1. /\ backend' = backend /\ runs' = runs /\ calls' = {}
          /\ \A f \in Fires : states'[f] = "none"
          /\ \A k \in Kinds : run'[k] = Idle
      BY <1>2 DEF Crash
    <2>2. EntriesEarned' /\ CallsEarned'
      BY <1>0, <2>1 DEF EarnedOK, EntriesEarned, CallsEarned
    <2>3. WakesEarned' /\ RunsEarned'
      BY <1>0, <2>1, IdleType, WakesStand, RunsStand
    <2> QED BY <2>2, <2>3, EarnedParts
  <1>3. CASE AnyDelivery
    BY <1>0, <1>3, EarnedDelivery DEF AnyDelivery
  <1> QED BY <1>0, <1>1, <1>2, <1>3, EarnedTick, EarnedRun DEF Next, AnyStop

-----------------------------------------------------------------------------
\* What the record of a run names.

\* The three parts of RecordsOK.
Absorbs(k) == run[k].stage = "running" /\ run[k].recorded
                => AbsorbedBy(run[k].fires) \subseteq absorbed
Records(k) == run[k].recorded => run[k].stage \in {"running", "settling"}
Zombied(z) == ToSet(z.fires) \subseteq givenUp
LEMMA RecordsParts ==
  ASSUME \A k \in Kinds : Absorbs(k)' /\ Records(k)', \A z \in zombies' : Zombied(z)'
  PROVE  RecordsOK'
  BY DEF RecordsOK, Absorbs, Records, Zombied

LEMMA ZombiesStand ==
  ASSUME RecordsOK, givenUp \subseteq givenUp', zombies' \subseteq zombies
  PROVE  \A z \in zombies' : Zombied(z)'
  BY DEF RecordsOK, Zombied

LEMMA RecordsKept ==
  ASSUME RecordsOK, runs' = runs, absorbed \subseteq absorbed', givenUp \subseteq givenUp',
         zombies' \subseteq zombies,
         \A k \in Kinds : \/ /\ run'[k].stage = run[k].stage /\ run'[k].fires = run[k].fires
                             /\ run'[k].recorded = run[k].recorded
                          \/ /\ run'[k].recorded = run[k].recorded
                             /\ run'[k].stage = "settling"
                          \/ ~run'[k].recorded
  PROVE  RecordsOK'
  <1>1. ASSUME NEW k \in Kinds PROVE Absorbs(k)' /\ Records(k)'
    <2>2. CASE /\ run'[k].stage = run[k].stage /\ run'[k].fires = run[k].fires
               /\ run'[k].recorded = run[k].recorded
      <3>1. AbsorbedBy(run[k].fires)' = AbsorbedBy(run[k].fires)
        BY <2>2 DEF AbsorbedBy, RunsOf
      <3> QED BY <2>2, <3>1 DEF RecordsOK, Absorbs, Records
    <2>3. CASE run'[k].stage = "settling" \/ ~run'[k].recorded
      BY <2>3 DEF Absorbs, Records
    <2> QED BY <2>2, <2>3
  <1> QED BY <1>1, ZombiesStand, RecordsParts

\* Ends of runs: one wake settles, one record may end.
LEMMA RecordsEnd ==
  ASSUME TypeOK, RecordsOK, absorbed \subseteq absorbed', givenUp \subseteq givenUp',
         zombies' \subseteq zombies, NEW id, NEW status \in {"ok", "error"},
         runs' = Finished(id, status),
         \A k \in Kinds : \/ run'[k] = run[k]
                          \/ run'[k].stage = "settling"
  PROVE  RecordsOK'
  <1>1. ASSUME NEW k \in Kinds PROVE Absorbs(k)' /\ Records(k)'
    <2>1. CASE run'[k] = run[k]
      <3>1. \A fires : AbsorbedBy(fires)' = AbsorbedBy(fires)
        BY HistoryType, AbsorbedWithEnd
      <3> QED BY <2>1, <3>1 DEF RecordsOK, Absorbs, Records
    <2>2. CASE run'[k].stage = "settling"
      BY <2>2 DEF Absorbs, Records
    <2> QED BY <2>1, <2>2
  <1> QED BY <1>1, ZombiesStand, RecordsParts

\* A wake that starts names in its record what it has or what was absorbed.
LEMMA RecordsStart ==
  ASSUME TypeOK, RecordsOK, NEW k \in Kinds, Starts(k) PROVE RecordsOK'
  <1> DEFINE w == run[k]
  <1>1. /\ w.stage = "enqueued" /\ \A j \in Kinds : run[j].stage # "running"
        /\ \/ /\ w.stale /\ Moves(k, "settling", "interrupted")
              /\ runs' = runs /\ absorbed' = absorbed
           \/ /\ Moves(k, "running", w.outcome) /\ run'[k].recorded
              /\ runs' = WithRecord(w.fires)
              /\ absorbed' = absorbed \cup AbsorbedBy(w.fires)
           \/ /\ Moves(k, "running", w.outcome) /\ run'[k].recorded = w.recorded
              /\ runs' = runs /\ absorbed' = absorbed
    BY StartsEffect
  <1>2. zombies' = zombies /\ givenUp' = givenUp
    BY DEF Starts, wakes
  <1>3. ~w.recorded
    BY <1>1 DEF RecordsOK
  <1>4. ASSUME NEW j \in Kinds \ {k} PROVE Absorbs(j)' /\ Records(j)'
    <2>1. run'[j] = run[j] /\ run[j].stage # "running"
      BY <1>1 DEF Moves
    <2> QED BY <2>1 DEF RecordsOK, Absorbs, Records
  <1>5. Absorbs(k)' /\ Records(k)'
    <2>1. CASE Moves(k, "settling", "interrupted")
      BY <2>1 DEF Moves, Absorbs, Records
    <2>2. CASE Moves(k, "running", w.outcome) /\ run'[k].recorded = w.recorded
      BY <1>3, <2>2 DEF Moves, Absorbs, Records
    <2>3. CASE /\ Moves(k, "running", w.outcome) /\ runs' = WithRecord(w.fires)
               /\ absorbed' = absorbed \cup AbsorbedBy(w.fires)
      <3>1. run'[k].fires = w.fires /\ run'[k].stage = "running"
        BY <2>3 DEF Moves
      <3>2. CASE RunsOf(IdOf(w.fires)) # {}
        <4>1. runs' = runs
          BY <2>3, <3>2 DEF WithRecord
        <4>2. AbsorbedBy(run[k].fires)' = AbsorbedBy(w.fires)
          BY <3>1, <4>1 DEF AbsorbedBy, RunsOf
        <4> QED BY <2>3, <3>1, <4>2 DEF Absorbs, Records
      <3>3. CASE RunsOf(IdOf(w.fires)) = {}
        <4>1. w.fires \in Seq(Fires)
          BY RunParts DEF TypeOK
        <4>2. /\ HistoryOK(runs') /\ Len(runs') >= 1 /\ runs'[1] = NewRecord(w.fires)
              /\ \A i \in 2 .. Len(runs') : i - 1 \in DOMAIN runs /\ runs'[i] = runs[i - 1]
          BY <2>3, <3>3, <4>1, HistoryType, WithRecordEffect
        <4>3. runs'[1].also \subseteq ToSet(w.fires)
          BY <4>1, <4>2, NewRecordType
        <4>4. \A i \in DOMAIN runs' : i = 1 \/ i \in 2 .. Len(runs')
          BY <4>2 DEF HistoryOK
        <4>5. \A i \in RunsOf(IdOf(w.fires))' : i = 1
          <5> SUFFICES ASSUME NEW i \in DOMAIN runs', runs'[i].id = IdOf(w.fires), i # 1,
                              IdOf(w.fires) # Manual
                       PROVE  FALSE
            BY <3>1 DEF RunsOf
          <5>1. i - 1 \in DOMAIN runs /\ runs'[i] = runs[i - 1]
            BY <4>2, <4>4
          <5> QED BY <3>3, <5>1 DEF RunsOf
        <4> QED BY <3>1, <4>3, <4>5 DEF Absorbs, Records, AbsorbedBy
      <3> QED BY <3>2, <3>3
    <2> QED BY <1>1, <2>1, <2>2, <2>3
  <1>6. \A z \in zombies' : Zombied(z)'
    BY <1>2, ZombiesStand
  <1> QED BY <1>4, <1>5, <1>6, RecordsParts

LEMMA RecordsStep == TypeOK /\ RecordsOK /\ [Next]_vars => RecordsOK'
  <1> SUFFICES ASSUME TypeOK, RecordsOK, [Next]_vars PROVE RecordsOK'
    OBVIOUS
  <1> USE DEF durable, wakes
  <1>0. /\ absorbed \subseteq absorbed' /\ givenUp \subseteq givenUp'
        /\ run \in [Kinds -> RunStates]
    BY EarnedGrows DEF TypeOK
  <1>1. CASE \/ AnyTick \/ Suspends \/ ResumesWakes \/ UserResumes \/ UNCHANGED vars
    <2>1. runs' = runs /\ run' = run /\ zombies' = zombies
      BY <1>1 DEF AnyTick, Polls, PollFails, PollReturns, TickEnds, TickVisits, CallReaches,
                  CallReturns, CallFails, Suspends, ResumesWakes, UserResumes, vars
    <2> QED BY <1>0, <2>1, RecordsKept
  <1>2. ASSUME NEW f \in Fires, ConsumerStopped(f) \/ ListingFails(f) \/ RanBefore(f)
                                  \/ Refuse(f) \/ EnqueueEvent(f)
        PROVE  RecordsOK'
    <2>1. runs' = runs /\ run' = run /\ zombies' = zombies
      BY <1>2 DEF ConsumerStopped, ListingFails, RanBefore, Refuse, EnqueueEvent
    <2> QED BY <1>0, <2>1, RecordsKept
  <1>3. ASSUME NEW f \in Fires, FireSlot(f) PROVE RecordsOK'
    <2>1. run' = run \/ (~run'["slot"].recorded /\ run'["event"] = run["event"])
      <3>1. <<f>> \in Seq(Fires)
        OBVIOUS
      <3> QED BY <1>0, <1>3, <3>1, SlotWakes DEF FireSlot
    <2>2. runs' = runs /\ zombies' = zombies
      BY <1>3 DEF FireSlot
    <2> QED BY <1>0, <2>1, <2>2, RecordsKept DEF Kinds
  <1>4. CASE FireByHand
    <2>1. run' = [run EXCEPT !["slot"] = Wake(<<>>, "resolving")] /\ <<>> \in Seq(Fires)
      BY <1>4, EmptySeq DEF FireByHand
    <2>2. ~run'["slot"].recorded /\ run'["event"] = run["event"]
      BY <1>0, <2>1, SlotWakes
    <2>3. runs' = runs /\ zombies' = zombies
      BY <1>4 DEF FireByHand
    <2> QED BY <1>0, <2>2, <2>3, RecordsKept DEF Kinds
  <1>5. CASE Flush
    <2>1. ~run'["event"].recorded /\ run'["slot"] = run["slot"]
      BY <1>5, FlushEffect
    <2>2. runs' = runs /\ zombies' = zombies
      BY <1>5 DEF Flush
    <2> QED BY <1>0, <2>1, <2>2, RecordsKept DEF Kinds
  <1>6. ASSUME NEW k \in Kinds, GoesNoFurther(k) PROVE RecordsOK'
    <2>1. Moves(k, "settling", "none") /\ run'[k].recorded = run[k].recorded
      <3>1. Ends(k, "none") /\ "none" \in Outcomes
        BY <1>6 DEF GoesNoFurther, Outcomes
      <3> QED BY <1>0, <3>1, EndsEffect
    <2>2. runs' = runs /\ zombies' = zombies
      BY <1>6 DEF GoesNoFurther
    <2> QED BY <1>0, <2>1, <2>2, RecordsKept DEF Moves
  <1>7. ASSUME NEW k \in Kinds, Resolves(k) PROVE RecordsOK'
    <2>1. run[k].stage = "resolving" /\ ~run[k].recorded
      BY <1>7 DEF Resolves, RecordsOK
    <2>2. /\ \A j \in Kinds \ {k} : run'[j] = run[j]
          /\ run'[k].recorded = run[k].recorded
      <3>1. "interrupted" \in Outcomes /\ "enqueued" \in Stages
        BY DEF Outcomes, Stages
      <3>2. Ends(k, "interrupted") \/ run' = [run EXCEPT ![k].stage = "enqueued"]
        BY <1>7 DEF Resolves
      <3> QED BY <1>0, <3>1, <3>2, EndsEffect, StageEffect DEF Moves
    <2>3. runs' = runs /\ zombies' = zombies
      BY <1>7 DEF Resolves
    <2> QED BY <1>0, <2>1, <2>2, <2>3, RecordsKept
  <1>8. ASSUME NEW k \in Kinds, Starts(k) PROVE RecordsOK'
    BY <1>8, RecordsStart
  <1>9. ASSUME NEW k \in Kinds, GivenUp(k) PROVE RecordsOK'
    <2> DEFINE y == [fires |-> run[k].fires, recorded |-> run[k].recorded]
    <2>1. Moves(k, "settling", "error")
      <3>1. Ends(k, "error") /\ "error" \in Outcomes
        BY <1>9 DEF GivenUp, Outcomes
      <3> QED BY <1>0, <3>1, EndsEffect
    <2>2. /\ runs' = runs /\ absorbed' = absorbed /\ zombies' = zombies \cup {y}
          /\ givenUp' = givenUp \cup ToSet(run[k].fires)
      BY <1>9 DEF GivenUp
    <2>3. ASSUME NEW j \in Kinds PROVE Absorbs(j)' /\ Records(j)'
      <3>1. CASE j = k
        BY <2>1, <3>1 DEF Moves, Absorbs, Records
      <3>2. CASE j # k
        <4>1. run'[j] = run[j]
          BY <2>1, <3>2 DEF Moves
        <4>2. AbsorbedBy(run[j].fires)' = AbsorbedBy(run[j].fires)
          BY <2>2, <4>1 DEF AbsorbedBy, RunsOf
        <4> QED BY <2>2, <4>1, <4>2 DEF RecordsOK, Absorbs, Records
      <3> QED BY <3>1, <3>2
    <2>4. y.fires = run[k].fires
      OBVIOUS
    <2> HIDE DEF y
    <2>5. \A z \in zombies' : Zombied(z)'
      BY <2>2, <2>4 DEF RecordsOK, Zombied
    <2> QED BY <2>3, <2>5, RecordsParts
  <1>10. ASSUME NEW k \in Kinds, NEW o \in Outcomes, NEW s \in {"ok", "error"},
                RunEnds(k, o, s)
         PROVE  RecordsOK'
    <2>1. /\ Moves(k, "settling", o)
          /\ runs' = runs \/ runs' = Finished(IdOf(run[k].fires), s)
      BY <1>10, RunEndsEffect
    <2>2. run'[k].recorded = run[k].recorded /\ zombies' = zombies
      <3>1. Ends(k, o) /\ o \in Outcomes
        BY <1>10 DEF RunEnds, Ends
      <3>2. run'[k].recorded = run[k].recorded
        BY <1>0, <3>1, EndsEffect
      <3> QED BY <1>10, <3>2 DEF RunEnds
    <2> QED BY <1>0, <2>1, <2>2, RecordsKept, RecordsEnd DEF Moves
  <1>11. ASSUME NEW k \in Kinds, Settles(k) PROVE RecordsOK'
    <2>1. run'[k] = Idle /\ \A j \in Kinds \ {k} : run'[j] = run[j]
      BY <1>11, SettlesEffect
    <2>2. runs' = runs /\ zombies' = zombies
      BY <1>11 DEF Settles
    <2> QED BY <1>0, <2>1, <2>2, IdleType, RecordsKept
  <1>12. ASSUME NEW z \in zombies, NEW s \in {"ok", "error"}, ZombieEnds(z, s)
         PROVE  RecordsOK'
    <2>1. /\ zombies' \subseteq zombies
          /\ runs' = runs \/ runs' = Finished(IdOf(z.fires), s)
      BY <1>12, ZombieEndsEffect
    <2>2. run' = run
      BY <1>12 DEF ZombieEnds
    <2> QED BY <1>0, <2>1, <2>2, RecordsKept, RecordsEnd
  <1>13. CASE UserStops
    <2>1. runs' = runs /\ zombies' = zombies
      BY <1>13 DEF UserStops
    <2>2. \A k \in Kinds : /\ run'[k].stage = run[k].stage /\ run'[k].fires = run[k].fires
                           /\ run'[k].recorded = run[k].recorded
      BY <1>13, UserStopsEffect
    <2> QED BY <1>0, <2>1, <2>2, RecordsKept
  <1>14. CASE Crash
    <2>1. runs' = runs /\ zombies' = {} /\ \A k \in Kinds : run'[k] = Idle
      BY <1>14 DEF Crash
    <2> QED BY <1>0, <2>1, IdleType, RecordsKept
  <1> QED BY <1>1, <1>2, <1>3, <1>4, <1>5, <1>6, <1>7, <1>8, <1>9, <1>10, <1>11, <1>12,
             <1>13, <1>14 DEF Next, AnyDelivery, AnyRun, AnyStop

-----------------------------------------------------------------------------
\* What the store did not know of a fire when it was delivered.

LEMMA FreshStands ==
  ASSUME FreshOK, runs' = runs, absorbed \subseteq absorbed', givenUp \subseteq givenUp',
         \A f \in Fires : Waiting(f)' => Waiting(f)
  PROVE  FreshOK'
  BY DEF FreshOK, KnownDone, Covering

LEMMA WaitingStands ==
  ASSUME items' = items,
         \A k \in Kinds : \/ run'[k].stage = run[k].stage /\ run'[k].fires = run[k].fires
                          \/ run'[k].stage \notin {"resolving", "enqueued"}
  PROVE  \A f \in Fires : Waiting(f)' => Waiting(f)
  BY DEF Waiting, InRun

LEMMA WaitingMoves ==
  ASSUME items' = items, NEW k \in Kinds, NEW s, NEW o, Moves(k, s, o),
         \/ s \notin {"resolving", "enqueued"}
         \/ run[k].stage \in {"resolving", "enqueued"}
  PROVE  \A f \in Fires : Waiting(f)' => Waiting(f)
  <1>1. \A j \in Kinds : InRun(j)' = InRun(j)
    BY MovesPlaces
  <1>2. \A j \in Kinds \ {k} : run'[j] = run[j]
    BY DEF Moves
  <1>3. run'[k].stage = s
    BY DEF Moves
  <1> QED BY <1>1, <1>2, <1>3 DEF Waiting

\* What is delivered now is not known as done.
LEMMA FreshDelivered ==
  ASSUME TypeOK, FreshOK, runs' = runs,
         absorbed \subseteq absorbed', givenUp \subseteq givenUp',
         NEW f \in Fires, Existing(f) = "none",
         \A g \in Fires : Waiting(g)' => Waiting(g) \/ g = f
  PROVE  FreshOK'
  <1>1. ~KnownDone(f)
    BY HistoryType, UnknownWhenNone
  <1> QED BY <1>1 DEF FreshOK, KnownDone, Covering

LEMMA FreshDelivery ==
  ASSUME TypeOK, FreshOK, NEW f \in Fires,
         \/ ConsumerStopped(f) \/ ListingFails(f) \/ RanBefore(f)
         \/ Refuse(f) \/ FireSlot(f) \/ EnqueueEvent(f),
         absorbed \subseteq absorbed', givenUp \subseteq givenUp'
  PROVE  FreshOK'
  <1> USE DEF durable, wakes
  <1>1. CASE ConsumerStopped(f) \/ ListingFails(f) \/ RanBefore(f) \/ Refuse(f)
    <2>1. runs' = runs /\ run' = run /\ items' = items
      BY <1>1 DEF ConsumerStopped, ListingFails, RanBefore, Refuse
    <2> QED BY <2>1, WaitingStands, FreshStands
  <1>2. CASE FireSlot(f)
    <2>1. runs' = runs /\ items' = items /\ Existing(f) = "none"
      BY <1>2 DEF FireSlot
    <2>2. CASE run' = run
      BY <2>1, <2>2, WaitingStands, FreshStands
    <2>3. CASE run' = [run EXCEPT !["slot"] = Wake(<<f>>, "resolving")]
      <3>1. <<f>> \in Seq(Fires) /\ run \in [Kinds -> RunStates]
        BY DEF TypeOK
      <3>2. run'["slot"].fires = <<f>> /\ run'["event"] = run["event"]
        BY <2>3, <3>1, SlotWakes
      <3>3. InRun("slot")' = {f} /\ InRun("event")' = InRun("event")
        BY <3>2, ElementsOfOne DEF InRun
      <3>4. \A g \in Fires : Waiting(g)' => Waiting(g) \/ g = f
        BY <2>1, <3>2, <3>3 DEF Waiting, Kinds
      <3> QED BY <2>1, <3>4, FreshDelivered
    <2> QED BY <1>2, <2>2, <2>3 DEF FireSlot
  <1>3. CASE EnqueueEvent(f)
    <2> DEFINE batch == Append(items, f)
    <2>1. /\ f \in Events /\ items \in Seq(Events) /\ Len(items) <= MaxQueued
          /\ run' = run /\ runs' = runs /\ Existing(f) = "none"
      BY <1>3 DEF EnqueueEvent, TypeOK
    <2>2. /\ batch \in Seq(Events) /\ batch # <<>>
          /\ ToSet(batch) = ToSet(items) \cup {f}
      BY <2>1, BatchEffect
    <2>3. items' = batch \/ items' = Tail(batch)
      BY <1>3 DEF EnqueueEvent
    <2> HIDE DEF batch
    <2>4. ToSet(items') \subseteq ToSet(items) \cup {f}
      BY <2>2, <2>3, ElementsOf
    <2>5. \A g \in Fires : Waiting(g)' => Waiting(g) \/ g = f
      BY <2>1, <2>4 DEF Waiting, InRun
    <2> QED BY <2>1, <2>5, FreshDelivered
  <1> QED BY <1>1, <1>2, <1>3

LEMMA FreshRun ==
  ASSUME TypeOK, PlacesOK, RecordsOK, FreshOK, AnyRun,
         absorbed \subseteq absorbed', givenUp \subseteq givenUp'
  PROVE  FreshOK'
  <1> USE DEF durable
  <1>0. run \in [Kinds -> RunStates] /\ HistoryOK(runs)
    BY HistoryType DEF TypeOK
  <1>1. CASE Flush
    <2> DEFINE l == SubSeq(items, 1, Flushed)  r == SubSeq(items, Flushed + 1, Len(items))
    <2>1. /\ Flushed \in 0 .. Len(items) /\ items' = r /\ run'["event"].fires = l
          /\ run'["slot"] = run["slot"] /\ items \in Seq(Events)
      BY <1>1, FlushEffect DEF TypeOK
    <2>2. ToSet(l) \cup ToSet(r) = ToSet(items)
      BY <2>1, ElementsOfCut DEF PlacesOK
    <2> HIDE DEF l, r
    <2>3. InRun("event")' = ToSet(l) /\ InRun("slot")' = InRun("slot") /\ runs' = runs
      BY <1>1, <2>1 DEF InRun, Flush
    <2>4. \A f \in Fires : Waiting(f)' => Waiting(f)
      BY <2>1, <2>2, <2>3 DEF Waiting, Kinds
    <2> QED BY <2>3, <2>4, FreshStands
  <1>2. CASE FireByHand
    <2>1. /\ run' = [run EXCEPT !["slot"] = Wake(<<>>, "resolving")] /\ <<>> \in Seq(Fires)
          /\ runs' = runs /\ items' = items
      BY <1>2, EmptySeq DEF FireByHand
    <2>2. run'["slot"].fires = <<>> /\ run'["event"] = run["event"]
      BY <1>0, <2>1, SlotWakes
    <2>3. InRun("slot")' = {} /\ InRun("event")' = InRun("event")
      BY <2>2, ElementsOfEmpty DEF InRun
    <2>4. \A f \in Fires : Waiting(f)' => Waiting(f)
      BY <2>1, <2>2, <2>3 DEF Waiting, Kinds
    <2> QED BY <2>1, <2>4, FreshStands
  <1>3. ASSUME NEW k \in Kinds, GoesNoFurther(k) \/ GivenUp(k) PROVE FreshOK'
    <2>1. PICK o \in {"none", "error"} : Ends(k, o)
      BY <1>3 DEF GoesNoFurther, GivenUp
    <2>2. Moves(k, "settling", o)
      BY <1>0, <2>1, EndsEffect DEF Outcomes
    <2>3. items' = items /\ runs' = runs
      BY <1>3 DEF GoesNoFurther, GivenUp
    <2> QED BY <2>2, <2>3, WaitingMoves, FreshStands
  <1>4. ASSUME NEW k \in Kinds, Resolves(k) PROVE FreshOK'
    <2>1. /\ run[k].stage = "resolving"
          /\ Moves(k, "settling", "interrupted") \/ Moves(k, "enqueued", run[k].outcome)
      BY <1>4, ResolvesEffect
    <2>2. items' = items /\ runs' = runs
      BY <1>4 DEF Resolves
    <2> QED BY <2>1, <2>2, WaitingMoves, FreshStands
  <1>5. ASSUME NEW k \in Kinds, Starts(k) PROVE FreshOK'
    <2>1. /\ Moves(k, "settling", "interrupted") \/ Moves(k, "running", run[k].outcome)
          /\ runs' = runs \/ runs' = WithRecord(run[k].fires)
      BY <1>5, StartsEffect
    <2>2. items' = items /\ run[k].fires \in Seq(Fires)
      BY <1>0, <1>5, RunParts DEF Starts
    <2>3. \A f \in Fires : Waiting(f)' => Waiting(f)
      BY <2>1, <2>2, WaitingMoves
    <2>4. CASE runs' = runs
      BY <2>3, <2>4, FreshStands
    <2>5. CASE runs' = WithRecord(run[k].fires)
      <3> SUFFICES ASSUME NEW f \in Fires, f \notin absorbed' \cup givenUp', Waiting(f)'
                   PROVE  ~KnownDone(f)'
        BY DEF FreshOK
      <3>1. ~KnownDone(f)
        BY <2>3 DEF FreshOK
      <3> QED BY <1>0, <2>2, <2>5, <3>1, UnknownWithRecord
    <2> QED BY <2>1, <2>4, <2>5
  <1>6. ASSUME NEW k \in Kinds, NEW o \in Outcomes, NEW s \in {"ok", "error"},
               RunEnds(k, o, s)
        PROVE  FreshOK'
    <2> DEFINE fires == run[k].fires
    <2>1. /\ Moves(k, "settling", o) /\ run[k].stage = "running"
          /\ \/ runs' = runs
             \/ run[k].recorded /\ runs' = Finished(IdOf(fires), s)
          /\ fires \in Seq(Fires)
      BY <1>0, <1>6, RunEndsEffect, RunParts
    <2>2. items' = items
      BY <1>6 DEF RunEnds
    <2>3. \A f \in Fires : Waiting(f)' => Waiting(f)
      BY <2>1, <2>2, WaitingMoves
    <2>4. CASE runs' = runs
      BY <2>3, <2>4, FreshStands
    <2>5. CASE run[k].recorded /\ runs' = Finished(IdOf(fires), s)
      <3> SUFFICES ASSUME NEW f \in Fires, f \notin absorbed' \cup givenUp', Waiting(f)'
                   PROVE  ~KnownDone(f)'
        BY DEF FreshOK
      <3>1. Waiting(f) /\ ~KnownDone(f) /\ f \notin absorbed
        BY <2>3 DEF FreshOK
      <3>2. f \notin ToSet(fires)
        <4>1. f \notin InRun(k)
          BY <2>1, <3>1 DEF Waiting, PlacesOK, Kinds
        <4> QED BY <4>1 DEF InRun
      <3>3. f \notin AbsorbedBy(fires)
        BY <2>1, <2>5, <3>1 DEF RecordsOK
      <3> HIDE DEF fires
      <3> QED BY <1>0, <2>1, <2>5, <3>1, <3>2, <3>3, UnknownWithEnd
    <2> QED BY <2>1, <2>4, <2>5
  <1>7. ASSUME NEW k \in Kinds, Settles(k) PROVE FreshOK'
    <2>1. run'[k] = Idle /\ \A j \in Kinds \ {k} : run'[j] = run[j]
      BY <1>7, SettlesEffect
    <2>2. items' = items /\ runs' = runs
      BY <1>7 DEF Settles
    <2>3. \A f \in Fires : Waiting(f)' => Waiting(f)
      BY <2>1, <2>2, IdleType, WaitingStands
    <2> QED BY <2>2, <2>3, FreshStands
  <1>8. ASSUME NEW z \in zombies, NEW s \in {"ok", "error"}, ZombieEnds(z, s) PROVE FreshOK'
    <2>1. /\ z.fires \in Seq(Fires) /\ absorbed' = absorbed \cup AbsorbedBy(z.fires)
          /\ runs' = runs \/ runs' = Finished(IdOf(z.fires), s)
      BY <1>8, ZombieEndsEffect
    <2>2. items' = items /\ run' = run
      BY <1>8 DEF ZombieEnds
    <2>3. \A f \in Fires : Waiting(f)' => Waiting(f)
      BY <2>2, WaitingStands
    <2>4. CASE runs' = runs
      BY <2>3, <2>4, FreshStands
    <2>5. CASE runs' = Finished(IdOf(z.fires), s)
      <3> SUFFICES ASSUME NEW f \in Fires, f \notin absorbed' \cup givenUp', Waiting(f)'
                   PROVE  ~KnownDone(f)'
        BY DEF FreshOK
      <3>1. ~KnownDone(f) /\ f \notin AbsorbedBy(z.fires) /\ f \notin ToSet(z.fires)
        BY <2>1, <2>3 DEF FreshOK, RecordsOK
      <3> QED BY <1>0, <2>1, <2>5, <3>1, UnknownWithEnd
    <2> QED BY <2>1, <2>4, <2>5
  <1> QED BY <1>1, <1>2, <1>3, <1>4, <1>5, <1>6, <1>7, <1>8 DEF AnyRun

LEMMA FreshStep ==
  TypeOK /\ PlacesOK /\ RecordsOK /\ FreshOK /\ [Next]_vars => FreshOK'
  <1> SUFFICES ASSUME TypeOK, PlacesOK, RecordsOK, FreshOK, [Next]_vars PROVE FreshOK'
    OBVIOUS
  <1> USE DEF durable, wakes
  <1>0. absorbed \subseteq absorbed' /\ givenUp \subseteq givenUp'
    BY EarnedGrows
  <1>1. CASE \/ AnyTick \/ Suspends \/ ResumesWakes \/ UserResumes \/ UNCHANGED vars
    <2>1. runs' = runs /\ run' = run /\ items' = items
      BY <1>1 DEF AnyTick, Polls, PollFails, PollReturns, TickEnds, TickVisits, CallReaches,
                  CallReturns, CallFails, Suspends, ResumesWakes, UserResumes, vars
    <2> QED BY <1>0, <2>1, WaitingStands, FreshStands
  <1>2. CASE UserStops
    <2>1. runs' = runs /\ items' = items
      BY <1>2 DEF UserStops
    <2>2. \A k \in Kinds : run'[k].stage = run[k].stage /\ run'[k].fires = run[k].fires
      BY <1>2, UserStopsEffect
    <2> QED BY <1>0, <2>1, <2>2, WaitingStands, FreshStands
  <1>3. CASE Crash
    <2>1. runs' = runs /\ items' = <<>> /\ \A k \in Kinds : run'[k] = Idle
      BY <1>3 DEF Crash
    <2>2. \A f \in Fires : ~Waiting(f)'
      BY <2>1, IdleType, ElementsOfEmpty DEF Waiting
    <2> QED BY <2>2 DEF FreshOK
  <1>4. CASE AnyDelivery
    BY <1>0, <1>4, FreshDelivery DEF AnyDelivery
  <1> QED BY <1>0, <1>1, <1>2, <1>3, <1>4, FreshRun DEF Next, AnyStop

-----------------------------------------------------------------------------
\* What holds of every state of the fires.
THEOREM FiresInvariant == Spec => []FiresInv
  <1>1. Init => FiresInv
    <2> SUFFICES ASSUME Init PROVE FiresInv
      OBVIOUS
    <2>1. TypeOK
      BY TypesInit
    <2>2. \A k \in Kinds : run[k] = Idle /\ InRun(k) = {}
      BY IdleType, ElementsOfEmpty DEF Init, InRun
    <2>3. ToSet(items) = {} /\ DOMAIN items = {}
      BY ElementsOfEmpty DEF Init
    <2>4. PlacesOK
      BY <2>2, <2>3 DEF Init, PlacesOK, Placed, Injective, Kinds
    <2>5. RunsOK /\ CallsOK
      BY <2>2, IdleType DEF Init, RunsOK, CallsOK, NoPoll
    <2>6. EarnedOK /\ RecordsOK
      <3>1. DOMAIN runs = {}
        BY DEF Init
      <3> QED BY <2>2, <3>1, IdleType DEF Init, EarnedOK, RecordsOK
    <2>7. FreshOK
      BY <2>2, <2>3 DEF FreshOK, Waiting
    <2> QED BY <2>1, <2>4, <2>5, <2>6, <2>7 DEF FiresInv
  <1>2. FiresInv /\ [Next]_vars => FiresInv'
    BY TypesStep, PlacesStep, RunsStep, CallsStep, EarnedStep, RecordsStep, FreshStep
       DEF FiresInv
  <1> QED BY <1>1, <1>2, PTL DEF Spec

\* Every variable keeps its type, the history and the batch keep their limits.
THEOREM FiresTypes == Spec => []TypeOK
  <1>1. FiresInv => TypeOK
    BY DEF FiresInv
  <1> QED BY <1>1, FiresInvariant, PTL

\* A fire is under way exactly while its entry is running, and once.
THEOREM FireUnderWayOnce == Spec => []UnderWayOnce
  <1>1. ASSUME FiresInv PROVE UnderWayOnce
    <2> SUFFICES ASSUME NEW f \in Fires
                 PROVE  Places(f) = IF states[f] = "running" THEN 1 ELSE 0
      BY <1>1 DEF FiresInv, RunsOK, UnderWayOnce
    <2> DEFINE I == {i \in DOMAIN items : items[i] = f}
               K == {k \in Kinds : f \in ToSet(run[k].fires)}
    <2>1. PlacesOK
      BY <1>1 DEF FiresInv
    <2>2. Cardinality(I) = IF f \in ToSet(items) THEN 1 ELSE 0
      <3>1. CASE f \in ToSet(items)
        <4>1. PICK i \in DOMAIN items : items[i] = f
          BY <3>1 DEF ToSet
        <4>2. I = {i}
          BY <2>1, <4>1 DEF PlacesOK, Injective
        <4> HIDE DEF I
        <4> QED BY <3>1, <4>2, FS_Singleton
      <3>2. CASE f \notin ToSet(items)
        <4>1. I = {}
          BY <3>2 DEF ToSet
        <4> HIDE DEF I
        <4> QED BY <3>2, <4>1, FS_EmptySet
      <3> QED BY <3>1, <3>2
    <2>3. Cardinality(K) = IF \E k \in Kinds : f \in InRun(k) THEN 1 ELSE 0
      <3>1. CASE \E k \in Kinds : f \in InRun(k)
        <4>1. PICK k \in Kinds : f \in InRun(k)
          BY <3>1
        <4>2. K = {k}
          BY <2>1, <4>1 DEF PlacesOK, Kinds, InRun
        <4> HIDE DEF K
        <4> QED BY <3>1, <4>2, FS_Singleton
      <3>2. CASE ~\E k \in Kinds : f \in InRun(k)
        <4>1. K = {}
          BY <3>2 DEF InRun
        <4> HIDE DEF K
        <4> QED BY <3>2, <4>1, FS_EmptySet
      <3> QED BY <3>1, <3>2
    <2>4. Places(f) = Cardinality(I) + Cardinality(K) + (IF f \in listing THEN 1 ELSE 0)
      BY DEF Places
    <2> HIDE DEF I, K
    <2> QED BY <2>1, <2>2, <2>3, <2>4 DEF PlacesOK, Placed
  <1> QED BY <1>1, FiresInvariant, PTL

\* What the backend counts as succeeded was run, or absorbed.
THEOREM FireSucceededWasRun == Spec => []SucceededWasRun
  <1>1. FiresInv => SucceededWasRun
    BY DEF FiresInv, EarnedOK, Earned, SucceededWasRun
  <1> QED BY <1>1, FiresInvariant, PTL

\* No fire begins to run while the store knows that it is done.
THEOREM FireRunsOnce == Spec => NoKnownRunRepeats
  <1>1. FiresInv /\ [Next]_vars =>
          [\A f \in Fires \ (absorbed \cup givenUp) : Begins(f) => ~KnownDone(f)]_vars
    <2> SUFFICES ASSUME FiresInv, NEW f \in Fires \ (absorbed \cup givenUp), Begins(f)
                 PROVE  ~KnownDone(f)
      OBVIOUS
    <2>1. Waiting(f)
      BY DEF Begins, Waiting, InRun
    <2> QED BY <2>1 DEF FiresInv, FreshOK
  <1> QED BY <1>1, FiresInvariant, PTL DEF Spec, NoKnownRunRepeats
=============================================================================
