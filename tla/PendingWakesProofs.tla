------------------------- MODULE PendingWakesProofs -------------------------
(***************************************************************************)
(* What PendingWakes promises, for all works and all bounds.               *)
(*                                                                         *)
(* The types come first, with the single flight of revivals.  The rest is  *)
(* about works that are dispatched again only once they are settled        *)
(* (SettledSpec; it fails without, and holds of works dispatched once,     *)
(* DispatchedOnce): no wake that is due is lost, none that was told stays  *)
(* on disk, and a boot leads to all of them.                               *)
(*                                                                         *)
(* The argument.  What is due has a marker or is being rearmed, and        *)
(* nothing else has (OwedOK).  The parents of a marker are what its work   *)
(* was dispatched for (MarkersOK), and that is transitive (WorkflowOK):    *)
(* the causes of a cause are causes.  So the workflow a revival opens is   *)
(* its batch with its causes (WorkflowIs), and what the code clears, wake  *)
(* by wake until nothing more is released, is the set that history calls   *)
(* concluded (SettlesIs): of the wakes that a smaller set left out, one    *)
(* that none of the others was dispatched for would have been released     *)
(* (LastOfDue).  No wake that the agent has yet to be told of has a        *)
(* dependent (LeavesOK), so that none is cleared before its time.  A run   *)
(* that was given up dispatches under a workflow of the same kind (LateOK).*)
(***************************************************************************)
EXTENDS PendingWakes, SequenceLemmas, FiniteSetTheorems

\* A work that runs, is marked or is being rearmed was dispatched, so that a
\* result, being its round, is told from having none.
DispatchedOnly ==
  \A w \in Works : w \in watched \/ marker[w] # None \/ rearm[w] # None
                     => round[w] # 0
TypeInv == TypeOK /\ DispatchedOnly

\* upsertPendingWakeMarker keeps the type of the store and marks one work at most.
LEMMA UpsertTyped ==
  ASSUME NEW markers \in [Works -> Markers \cup {None}], NEW w \in Works,
         NEW result \in Rounds, NEW parents \in SUBSET Works
  PROVE  /\ Upsert(markers, w, result, parents) \in [Works -> Markers \cup {None}]
         /\ Upsert(markers, w, result, parents)[w] # None
         /\ \A v \in Works \ {w} :
              Upsert(markers, w, result, parents)[v] = markers[v]
  <1> DEFINE old == IF markers[w] = None THEN [result |-> 0, parents |-> {}]
                                         ELSE markers[w]
             new == [result |-> IF result = 0 THEN old.result ELSE result,
                     parents |-> IF parents = {} THEN old.parents
                                                 ELSE parents \ {w}]
  <1>1. old \in Markers
    <2>1. [result |-> 0, parents |-> {}] \in Markers
      BY WorksAssumption DEF Markers, Rounds
    <2> QED BY <2>1
  <1>2. new \in Markers
    BY <1>1 DEF Markers
  <1>3. Upsert(markers, w, result, parents) = [markers EXCEPT ![w] = new]
    BY DEF Upsert
  <1> HIDE DEF new, old
  <1>4. new # None
    BY <1>2, NoneAssumption
  <1> QED BY <1>2, <1>3, <1>4

\* The loop of the revivals, whatever waits for it.
LEMMA TakeQueueTyped ==
  ASSUME NEW waiting \in [Works -> Rounds], TakeQueue(waiting)
  PROVE  /\ queue' \in [Works -> Rounds] /\ batch' \in [Works -> Rounds]
         /\ phase' \in {"idle", "resolving"}
         /\ phase' # "idle" <=> Holding(batch') # {}
         /\ Holding(queue') = {}
  <1>1. NoCompletions \in [Works -> Rounds] /\ Holding(NoCompletions) = {}
    BY WorksAssumption DEF NoCompletions, Holding, Rounds
  <1> QED BY <1>1 DEF TakeQueue

\* What TypeOK says of the completions in flight.
FlightOK ==
  /\ queue \in [Works -> Rounds] /\ batch \in [Works -> Rounds]
  /\ phase \in {"idle", "resolving", "queued", "running"}
  /\ phase # "idle" <=> Holding(batch) # {}
  /\ phase = "idle" => Holding(queue) = {}

\* handleBackgroundSubagentCompletion keeps both, and starts no run by itself.
LEMMA CompleteTyped ==
  ASSUME FlightOK, NEW w \in Works, NEW result \in Rounds, result # 0,
         NEW markers \in [Works -> Markers \cup {None}],
         Complete(markers, w, result)
  PROVE  /\ marker' \in [Works -> Markers \cup {None}]
         /\ FlightOK'
         /\ phase' = "running" => phase = "running"
         /\ \A v \in Works : marker'[v] # None => v = w \/ markers[v] # None
  <1> DEFINE waiting == [queue EXCEPT ![w] = result]
  <1>0. waiting \in [Works -> Rounds] /\ w \in Holding(waiting)
    BY DEF FlightOK, Holding
  <1>1. CASE queue[w] # 0
    BY <1>1 DEF Complete, completions, FlightOK, Holding
  <1>2. CASE queue[w] = 0
    <2>1. {} \in SUBSET Works
      OBVIOUS
    <2>2. /\ marker' = Upsert(markers, w, result, {})
          /\ IF phase = "idle" THEN TakeQueue(waiting)
             ELSE queue' = waiting /\ UNCHANGED <<batch, phase>>
      BY <1>2 DEF Complete
    <2>3. /\ marker' \in [Works -> Markers \cup {None}]
          /\ \A v \in Works : marker'[v] # None => v = w \/ markers[v] # None
      BY <2>1, <2>2, UpsertTyped
    <2>4. CASE phase = "idle"
      <3>1. TakeQueue(waiting)
        BY <2>2, <2>4
      <3>2. FlightOK' /\ phase' # "running"
        <4>1. /\ queue' \in [Works -> Rounds] /\ batch' \in [Works -> Rounds]
              /\ phase' \in {"idle", "resolving"}
              /\ phase' # "idle" <=> Holding(batch') # {}
              /\ Holding(queue') = {}
          BY <1>0, <3>1, TakeQueueTyped
        <4> QED BY <4>1 DEF FlightOK, Holding
      <3> QED BY <2>3, <3>2
    <2>5. CASE phase # "idle"
      <3>1. queue' = waiting /\ batch' = batch /\ phase' = phase
        BY <2>2, <2>5
      <3> QED BY <2>3, <2>5, <3>1, <1>0 DEF FlightOK, Holding
    <2> QED BY <2>4, <2>5
  <1> QED BY <1>1, <1>2

LEMMA WakesInit == Init => TypeInv
  <1> SUFFICES ASSUME Init PROVE TypeInv
    OBVIOUS
  <1>1. NoCompletions \in [Works -> Rounds] /\ Holding(NoCompletions) = {}
    BY WorksAssumption DEF NoCompletions, Holding, Rounds
  <1>2. [w \in Works |-> None] \in [Works -> Markers \cup {None}]
    OBVIOUS
  <1>3. [w \in Works |-> {}] \in [Works -> SUBSET Works] /\ 0 \in 0 .. MaxCrashes
    BY WorksAssumption
  <1>4. Holding(queue) = {} /\ Holding(batch) = {}
    BY <1>1 DEF Init
  <1>5. TypeOK
    BY <1>1, <1>2, <1>3, <1>4 DEF Init, TypeOK
  <1> QED BY <1>5 DEF Init, TypeInv, DispatchedOnly

\* One step per action; what an action leaves alone is typed as before.
LEMMA WakesStep == TypeInv /\ [Next]_vars => TypeInv'
  <1> SUFFICES ASSUME TypeInv, [Next]_vars PROVE TypeInv'
    OBVIOUS
  <1> USE DEF TypeInv
  <1>0. TypeOK /\ DispatchedOnly /\ FlightOK
    BY DEF TypeOK, FlightOK
  <1>1. ASSUME NEW w \in Works, NEW causes \in Going, Dispatch(w, causes) PROVE TypeInv'
    <2>1. 0 \in Rounds /\ causes \in SUBSET Works
      BY <1>0, WorksAssumption DEF Going, Rounds, TypeOK
    <2>2. /\ marker' \in [Works -> Markers \cup {None}]
          /\ \A v \in Works \ {w} : marker'[v] = marker[v]
      BY <1>0, <1>1, <2>1, UpsertTyped DEF Dispatch, TypeOK
    <2>3. round' \in [Works -> Rounds] /\ round'[w] # 0
          /\ \A v \in Works \ {w} : round'[v] = round[v]
      BY <1>0, <1>1, WorksAssumption DEF Dispatch, TypeOK, Rounds
    <2>4. source' \in [Works -> SUBSET Works]
      BY <1>0, <1>1, <2>1 DEF Dispatch, TypeOK
    <2>5. TypeOK'
      BY <1>0, <1>1, <2>2, <2>3, <2>4
      DEF Dispatch, TypeOK, completions, agent, Holding
    <2>6. DispatchedOnly'
      BY <1>0, <1>1, <2>2, <2>3 DEF Dispatch, DispatchedOnly
    <2> QED BY <2>5, <2>6
  <1>2. ASSUME NEW w \in Works, Arrive(w) PROVE TypeInv'
    <2>1. round[w] \in Rounds /\ round[w] # 0
          /\ marker \in [Works -> Markers \cup {None}]
      BY <1>0, <1>2 DEF Arrive, TypeOK, DispatchedOnly
    <2>2. Complete(marker, w, round[w])
      BY <1>2 DEF Arrive
    <2>3. /\ marker' \in [Works -> Markers \cup {None}]
          /\ FlightOK'
          /\ phase' = "running" => phase = "running"
          /\ \A v \in Works : marker'[v] # None => v = w \/ marker[v] # None
      BY <1>0, <2>1, <2>2, CompleteTyped
    <2>4. TypeOK'
      BY <1>0, <1>2, <2>3 DEF Arrive, TypeOK, FlightOK, agent, history
    <2>5. DispatchedOnly'
      BY <1>0, <1>2, <2>1, <2>3 DEF Arrive, DispatchedOnly
    <2> QED BY <2>4, <2>5
  <1>3. ASSUME NEW w \in Works, Abort(w) PROVE TypeInv'
    <2>1. TypeOK'
      BY <1>0, <1>3 DEF Abort, TypeOK, completions, agent, Holding
    <2>2. DispatchedOnly'
      BY <1>0, <1>3 DEF Abort, DispatchedOnly, TypeOK
    <2> QED BY <2>1, <2>2
  <1>4. ASSUME NEW w \in Works, Rearm(w) PROVE TypeInv'
    <2>0. /\ 0 \in Rounds /\ {} \in SUBSET Works
          /\ round[w] \in Rounds /\ round[w] # 0
          /\ marker \in [Works -> Markers \cup {None}]
          /\ rearm[w] \in Markers
          /\ rearm' \in [Works -> Markers \cup {None}]
          /\ \A v \in Works : rearm'[v] # None => rearm[v] # None
      BY <1>0, <1>4, WorksAssumption DEF Rearm, TypeOK, DispatchedOnly, Rounds
    <2> DEFINE bare == Upsert(marker, w, 0, {})
    <2>1. /\ bare \in [Works -> Markers \cup {None}]
          /\ \A v \in Works \ {w} : bare[v] = marker[v]
      BY <2>0, UpsertTyped
    <2> HIDE DEF bare
    <2>2. /\ marker' \in [Works -> Markers \cup {None}]
          /\ FlightOK'
          /\ phase' = "running" => phase = "running"
          /\ \A v \in Works : marker'[v] # None => v = w \/ marker[v] # None
          /\ watched' \subseteq watched \cup {w}
      <3>1. CASE rearm[w].result # 0
        <4>1. /\ Complete(marker, w, rearm[w].result) /\ watched' = watched
              /\ rearm[w].result \in Rounds
          BY <1>4, <2>0, <3>1 DEF Rearm, Markers
        <4> QED BY <1>0, <2>0, <3>1, <4>1, CompleteTyped
      <3>2. CASE rearm[w].result = 0 /\ w \in Remote
        <4>1. marker' = bare /\ watched' = watched \cup {w} /\ UNCHANGED completions
          BY <1>4, <3>2 DEF Rearm, RearmCloudAgentWake, bare
        <4> QED BY <1>0, <2>1, <4>1 DEF FlightOK, completions, Holding
      <3>3. CASE rearm[w].result = 0 /\ w \notin Remote
        <4>1. Complete(bare, w, round[w]) /\ watched' = watched
          BY <1>4, <3>3 DEF Rearm, ReviveParentForLostSubagentWake, bare
        <4>2. /\ marker' \in [Works -> Markers \cup {None}]
              /\ FlightOK'
              /\ phase' = "running" => phase = "running"
              /\ \A v \in Works : marker'[v] # None => v = w \/ bare[v] # None
          BY <1>0, <2>0, <2>1, <4>1, CompleteTyped
        <4> QED BY <2>1, <4>1, <4>2
      <3> QED BY <3>1, <3>2, <3>3
    <2>3. TypeOK'
      BY <1>0, <1>4, <2>0, <2>2 DEF Rearm, TypeOK, FlightOK, agent, history
    <2>4. DispatchedOnly'
      BY <1>0, <1>4, <2>0, <2>2 DEF Rearm, DispatchedOnly
    <2> QED BY <2>3, <2>4
  <1>5. ASSUME NEW w \in Works, RearmFails(w) PROVE TypeInv'
    <2>1. /\ marker \in [Works -> Markers \cup {None}]
          /\ rearm[w] \in Markers /\ round[w] # 0
          /\ rearm' \in [Works -> Markers \cup {None}]
          /\ \A v \in Works : rearm'[v] # None => rearm[v] # None
      BY <1>0, <1>5 DEF RearmFails, TypeOK, DispatchedOnly
    <2>2. rearm[w].result \in Rounds /\ rearm[w].parents \in SUBSET Works
      BY <2>1 DEF Markers
    <2>3. /\ marker' \in [Works -> Markers \cup {None}]
          /\ \A v \in Works \ {w} : marker'[v] = marker[v]
      BY <1>5, <2>1, <2>2, UpsertTyped DEF RearmFails
    <2>4. TypeOK'
      BY <1>0, <1>5, <2>1, <2>3
      DEF RearmFails, TypeOK, completions, agent, history, Holding
    <2>5. DispatchedOnly'
      BY <1>0, <1>5, <2>1, <2>3 DEF RearmFails, DispatchedOnly
    <2> QED BY <2>4, <2>5
  <1>6. CASE Resolve
    BY <1>0, <1>6
    DEF Resolve, TypeOK, DispatchedOnly, agent, history, Holding
  <1>7. CASE ResolveFails
    <2>1. TakeQueue(queue) /\ queue \in [Works -> Rounds]
      BY <1>0, <1>7 DEF ResolveFails, GoesOn, TypeOK
    <2>2. /\ queue' \in [Works -> Rounds] /\ batch' \in [Works -> Rounds]
          /\ phase' \in {"idle", "resolving"}
          /\ phase' # "idle" <=> Holding(batch') # {}
          /\ Holding(queue') = {}
      BY <2>1, TakeQueueTyped
    <2>3. TypeOK'
      BY <1>0, <1>7, <2>2 DEF ResolveFails, TypeOK, agent, history, Holding
    <2> QED BY <1>0, <1>7, <2>3 DEF ResolveFails, DispatchedOnly
  <1>8. CASE StartRevival
    <2>1. refs' \subseteq Works
      BY <1>8 DEF StartRevival, Workflow, Smallest
    <2>2. TypeOK'
      BY <1>0, <1>8, <2>1 DEF StartRevival, TypeOK, history, Holding
    <2> QED BY <1>0, <1>8, <2>2 DEF StartRevival, DispatchedOnly
  <1>9. ASSUME NEW completed \in BOOLEAN, RevivalEnds(completed) PROVE TypeInv'
    <2>1. TakeQueue(queue) /\ queue \in [Works -> Rounds]
      BY <1>0, <1>9 DEF RevivalEnds, GoesOn, TypeOK
    <2>2. /\ queue' \in [Works -> Rounds] /\ batch' \in [Works -> Rounds]
          /\ phase' \in {"idle", "resolving"}
          /\ phase' # "idle" <=> Holding(batch') # {}
          /\ Holding(queue') = {}
      BY <2>1, TakeQueueTyped
    <2>3. /\ marker' \in [Works -> Markers \cup {None}]
          /\ \A v \in Works : marker'[v] # None => marker[v] # None
      BY <1>0, <1>9 DEF RevivalEnds, TypeOK
    <2>4. owed' \subseteq Works
      BY <1>0, <1>9 DEF RevivalEnds, TypeOK
    <2>5. TypeOK'
      BY <1>0, <1>9, <2>2, <2>3, <2>4 DEF RevivalEnds, TypeOK, Holding
    <2> QED BY <1>0, <1>9, <2>3, <2>5 DEF RevivalEnds, DispatchedOnly
  <1>10. CASE TurnStarts
    BY <1>0, <1>10
    DEF TurnStarts, TypeOK, DispatchedOnly, completions, history, Holding
  <1>11. CASE TurnEnds
    BY <1>0, <1>11
    DEF TurnEnds, TypeOK, DispatchedOnly, completions, history, Holding
  <1>12. CASE GivenUp
    <2>1. late' \subseteq SUBSET Works
      BY <1>0, <1>12 DEF GivenUp, TypeOK
    <2>2. CASE phase = "running"
      <3>1. TakeQueue(queue) /\ queue \in [Works -> Rounds]
        BY <1>0, <1>12, <2>2 DEF GivenUp, GoesOn, TypeOK
      <3>2. /\ queue' \in [Works -> Rounds] /\ batch' \in [Works -> Rounds]
            /\ phase' \in {"idle", "resolving"}
            /\ phase' # "idle" <=> Holding(batch') # {}
            /\ Holding(queue') = {}
        BY <3>1, TakeQueueTyped
      <3>3. TypeOK'
        BY <1>0, <1>12, <2>1, <3>2 DEF GivenUp, TypeOK, history, Holding
      <3> QED BY <1>0, <1>12, <3>3 DEF GivenUp, DispatchedOnly
    <2>3. CASE phase # "running"
      <3>1. /\ UNCHANGED <<up, marker, round, watched, rearm, crashes, source, owed>>
            /\ UNCHANGED <<queue, batch, phase>> /\ ~turn' /\ turn' \in BOOLEAN
            /\ refs' = {}
        BY <1>12, <2>3 DEF GivenUp, completions, history
      <3> QED BY <1>0, <2>1, <3>1 DEF TypeOK, DispatchedOnly, Holding
    <2> QED BY <2>2, <2>3
  <1>13. ASSUME NEW causes \in late, LateEnds(causes) PROVE TypeInv'
    BY <1>0, <1>13
    DEF LateEnds, TypeOK, DispatchedOnly, completions, history, Holding
  <1>14. CASE Crash
    <2>1. NoCompletions \in [Works -> Rounds] /\ Holding(NoCompletions) = {}
      BY WorksAssumption DEF NoCompletions, Holding, Rounds
    <2>2. [w \in Works |-> None] \in [Works -> Markers \cup {None}]
      OBVIOUS
    <2>3. crashes' \in 0 .. MaxCrashes
      BY <1>0, <1>14, WorksAssumption DEF Crash, TypeOK
    <2>4. Holding(queue') = {} /\ Holding(batch') = {}
      BY <1>14, <2>1 DEF Crash
    <2>5. Holding(queue)' = {} /\ Holding(batch)' = {}
      BY <2>4 DEF Holding
    <2>6. TypeOK'
      BY <1>0, <1>14, <2>1, <2>2, <2>3, <2>5 DEF Crash, TypeOK
    <2> QED BY <1>0, <1>14, <2>6 DEF Crash, DispatchedOnly
  <1>15. CASE Boot
    <2>1. /\ marker' \in [Works -> Markers \cup {None}]
          /\ rearm' \in [Works -> Markers \cup {None}]
          /\ \A v \in Works : marker'[v] # None \/ rearm'[v] # None
                              => marker[v] # None
      BY <1>0, <1>15 DEF Boot, TypeOK
    <2>2. TypeOK'
      BY <1>0, <1>15, <2>1
      DEF Boot, TypeOK, completions, agent, history, Holding
    <2> QED BY <1>0, <1>15, <2>1, <2>2 DEF Boot, DispatchedOnly
  <1>16. CASE UNCHANGED vars
    BY <1>0, <1>16
    DEF vars, TypeOK, DispatchedOnly, completions, agent, history, Holding
  <1> QED
    BY <1>1, <1>2, <1>3, <1>4, <1>5, <1>6, <1>7, <1>8, <1>9, <1>10, <1>11,
       <1>12, <1>13, <1>14, <1>15, <1>16 DEF Next

\* The types, and the single flight of revivals: no completion waits for a loop
\* that has ended, and one run of the agent, a revival or a turn, holds the queue.
THEOREM WakesTypeCorrect == Spec => []TypeOK
  <1>1. Spec => []TypeInv
    BY WakesInit, WakesStep, PTL DEF Spec
  <1> QED BY <1>1, PTL DEF TypeInv

-----------------------------------------------------------------------------
\* What was dispatched so far: its history, and that it is finitely many.
Dispatched == {w \in Works : round[w] # 0}
HistoryOK ==
  /\ IsFiniteSet(Dispatched) /\ owed \subseteq Dispatched
  /\ \A w \in Works : source[w] \subseteq Dispatched \ {w}

\* A wake is due exactly while it has a marker or is being rearmed.
OwedOK == \A w \in Works : w \in owed <=> marker[w] # None \/ rearm[w] # None

\* A marker says what happened to its work; the one that a boot is rearming still is
\* there, or was cleared since it says nothing.
Says(w, x) == x.parents = source[w] /\ x.result \in {0, round[w]}
MarkersOK ==
  \A w \in Works :
    /\ marker[w] # None => Says(w, marker[w])
    /\ rearm[w] # None =>
         /\ Says(w, rearm[w])
         /\ \/ marker[w] = rearm[w]
            \/ marker[w] = None /\ rearm[w].result = 0 /\ source[w] = {}

\* A work is at one place in memory, marked, and its completion is that of its last
\* round; a dead process has none.
MemoryOK ==
  \A w \in Works :
    /\ w \in watched \/ queue[w] # 0 \/ batch[w] # 0 => marker[w] # None
    /\ w \in watched => queue[w] = 0 /\ batch[w] = 0 /\ rearm[w] = None
    /\ queue[w] # 0 => batch[w] = 0 /\ rearm[w] = None /\ queue[w] = round[w]
    /\ batch[w] # 0 => rearm[w] = None /\ batch[w] = round[w]
    /\ ~up => w \notin watched /\ queue[w] = 0 /\ batch[w] = 0 /\ rearm[w] = None

\* The workflow of the running revival: its batch, and what that was dispatched for.
InWorkflow(u) == \/ batch[u] # 0
                 \/ \E d \in Works : batch[d] # 0 /\ u \in source[d]
RefsOK == \A u \in Works : u \in refs <=> phase = "running" /\ InWorkflow(u)

\* What is due was dispatched for all that its causes, if due, were dispatched for.
WorkflowOK ==
  \A v \in owed : \A u \in owed : u \in source[v] => source[u] \subseteq source[v]

\* No wake is due that was dispatched for one the agent has not been told of.
Untold(w) == \/ w \in watched \/ queue[w] # 0 \/ rearm[w] # None
             \/ batch[w] # 0 /\ phase # "running"
LeavesOK == \A w \in Works : Untold(w) => \A v \in owed : w \notin source[v]

\* The workflow of a run that was given up is closed as well, and holds no wake yet to
\* be told: what it dispatches is, like that of a revival, due to all it names.
LateOK ==
  /\ ~up => late = {}
  /\ \A r \in late : /\ r \subseteq Dispatched
                     /\ \A u \in r \cap owed : source[u] \subseteq r
                     /\ \A u \in r : ~Untold(u)

DueOK == /\ HistoryOK /\ OwedOK /\ MarkersOK /\ MemoryOK /\ RefsOK
         /\ WorkflowOK /\ LeavesOK /\ LateOK
WakesInv == TypeInv /\ DueOK

\* Among wakes that are due there is one for which none of the others was dispatched.
LEMMA LastOfDue ==
  ASSUME TypeInv, HistoryOK, WorkflowOK, NEW S \in SUBSET owed, S # {}
  PROVE  \E x \in S : \A y \in S : x \notin source[y]
  <1> DEFINE N == Cardinality(Dispatched)
             Size(x) == Cardinality(source[x])
             Above == {n \in Nat : \E x \in S : n = N - Size(x)}
  <1>1. ASSUME NEW x \in S
        PROVE  /\ x \in Works /\ IsFiniteSet(source[x]) /\ Size(x) \in Nat /\ Size(x) <= N
               /\ N \in Nat /\ x \notin source[x]
    <2>1. x \in Works /\ source[x] \in SUBSET Dispatched /\ IsFiniteSet(Dispatched)
          /\ x \notin source[x]
      BY DEF TypeInv, TypeOK, HistoryOK
    <2>2. IsFiniteSet(source[x]) /\ Size(x) <= N
      BY <2>1, FS_Subset
    <2>3. Size(x) \in Nat /\ N \in Nat
      BY <2>1, <2>2, FS_CardinalityType
    <2> QED BY <2>1, <2>2, <2>3
  <1> HIDE DEF N, Size
  <1>2. Above # {} /\ Above \subseteq Nat
    <2>1. PICK x \in S : TRUE
      OBVIOUS
    <2>2. N - Size(x) \in Above
      BY <1>1
    <2> QED BY <2>2
  <1>3. PICK n \in Above : \A m \in Above : n <= m
    BY <1>2, LeastExists
  <1>4. PICK x \in S : n = N - Size(x)
    BY <1>3
  <1>5. ASSUME NEW y \in S, x \in source[y] PROVE FALSE
    <2>1. source[x] \subseteq source[y]
      BY <1>5 DEF WorkflowOK
    <2>2. IsFiniteSet(source[y]) /\ source[x] # source[y]
      BY <1>1, <1>5
    <2>3. Size(x) <= Size(y) /\ Size(x) # Size(y)
      BY <2>1, <2>2, FS_Subset DEF Size
    <2>4. N - Size(y) \in Above
      BY <1>1
    <2>5. N - Size(x) <= N - Size(y)
      BY <1>3, <1>4, <2>4
    <2> QED BY <1>1, <2>3, <2>5
  <1> QED BY <1>5

\* Runs given up stay what they are while no wake is dispatched or armed.
LEMMA LateKept ==
  ASSUME WakesInv, late' \in SUBSET late, ~up' => ~up, owed' \subseteq owed,
         UNCHANGED <<round, source>>, \A v \in Works : Untold(v)' => Untold(v)
  PROVE  LateOK'
  <1>0. LateOK /\ late \subseteq SUBSET Works
    BY DEF WakesInv, TypeInv, TypeOK, DueOK
  <1>1. ~up' => late' = {}
    BY <1>0 DEF LateOK
  <1>2. Dispatched' = Dispatched
    BY DEF Dispatched
  <1>3. ASSUME NEW r \in late'
        PROVE  /\ r \subseteq Dispatched'
               /\ \A u \in r \cap owed' : source'[u] \subseteq r
               /\ \A u \in r : ~Untold(u)'
    BY <1>0, <1>2 DEF LateOK
  <1> QED BY <1>1, <1>3 DEF LateOK

\* A completion is handed in: of a work that ran, or of one that is being rearmed.
LEMMA CompletionDue ==
  ASSUME WakesInv, NEW w \in Works, up, w \in watched \/ rearm[w] # None,
         NEW markers \in [Works -> Markers \cup {None}],
         \A v \in Works \ {w} : markers[v] = marker[v],
         IF markers[w] = None THEN source[w] = {} ELSE Says(w, markers[w]),
         Complete(markers, w, round[w]),
         watched' = watched \ {w}, rearm' = [rearm EXCEPT ![w] = None],
         UNCHANGED <<up, round, turn, refs, late, source, owed>>
  PROVE  DueOK'
  <1>0. /\ TypeOK /\ DispatchedOnly /\ DueOK /\ w \in owed
        /\ round[w] \in Rounds /\ round[w] # 0 /\ 0 \in Rounds
        /\ queue[w] = 0 /\ batch[w] = 0
    <2>1. TypeOK /\ DispatchedOnly /\ DueOK
      BY DEF WakesInv, TypeInv
    <2>2. round[w] \in Rounds /\ round[w] # 0 /\ 0 \in Rounds
      BY <2>1, WorksAssumption DEF TypeOK, DispatchedOnly, Rounds
    <2>3. queue[w] = 0 /\ batch[w] = 0 /\ w \in owed
      BY <2>1 DEF DueOK, MemoryOK, OwedOK
    <2> QED BY <2>1, <2>2, <2>3
  <1> DEFINE waiting == [queue EXCEPT ![w] = round[w]]
  <1>1. /\ marker' = Upsert(markers, w, round[w], {})
        /\ IF phase = "idle" THEN TakeQueue(waiting)
           ELSE queue' = waiting /\ UNCHANGED <<batch, phase>>
    BY <1>0 DEF Complete
  <1>2. /\ marker'[w] # None /\ marker'[w].result = round[w]
        /\ marker'[w].parents = source[w]
        /\ \A v \in Works \ {w} : marker'[v] = marker[v]
    <2>1. /\ marker'[w] # None
          /\ \A v \in Works \ {w} : marker'[v] = markers[v]
      BY <1>0, <1>1, UpsertTyped
    <2>2. /\ marker'[w].result = round[w]
          /\ marker'[w].parents = IF markers[w] = None THEN {} ELSE markers[w].parents
      BY <1>0, <1>1 DEF Upsert
    <2> QED BY <2>1, <2>2 DEF Says
  \* What is in flight afterwards.
  <1>3. \A v \in Works :
          /\ queue'[v] # 0 \/ batch'[v] # 0 => v = w \/ queue[v] # 0 \/ batch[v] # 0
          /\ v # w => /\ queue'[v] # 0 => queue'[v] = queue[v]
                      /\ batch'[v] # 0 => batch'[v] = batch[v]
          /\ v = w => queue'[v] \in {0, round[v]} /\ batch'[v] \in {0, round[v]}
          /\ queue'[v] # 0 => batch'[v] = 0
          /\ batch'[v] # 0 /\ phase' # "running" => v = w \/ phase # "running"
          /\ phase = "running" => phase' = "running" /\ batch'[v] = batch[v]
          /\ phase' = "running" => phase = "running"
    <2>0. /\ queue \in [Works -> Rounds] /\ batch \in [Works -> Rounds]
          /\ phase = "idle" => \A v \in Works : queue[v] = 0 /\ batch[v] = 0
          /\ \A v \in Works : queue[v] # 0 => batch[v] = 0
          /\ waiting[w] = round[w] /\ \A v \in Works \ {w} : waiting[v] = queue[v]
      BY <1>0 DEF TypeOK, Holding, DueOK, MemoryOK
    <2> HIDE DEF waiting
    <2>1. CASE phase = "idle"
      <3>1. /\ queue' = NoCompletions /\ batch' = waiting
            /\ phase' \in {"idle", "resolving"}
        BY <1>1, <2>1 DEF TakeQueue
      <3> QED BY <1>0, <2>0, <2>1, <3>1 DEF NoCompletions
    <2>2. CASE phase # "idle"
      <3>1. queue' = waiting /\ batch' = batch /\ phase' = phase
        BY <1>1, <2>2
      <3> QED BY <1>0, <2>0, <3>1
    <2> QED BY <2>1, <2>2
  <1>4. rearm'[w] = None /\ \A v \in Works \ {w} : rearm'[v] = rearm[v]
    BY <1>0 DEF TypeOK
  <1>5. HistoryOK'
    BY <1>0 DEF DueOK, HistoryOK, Dispatched
  <1>6. OwedOK'
    BY <1>0, <1>2, <1>4 DEF DueOK, OwedOK
  <1>7. MarkersOK'
    BY <1>0, <1>2, <1>4 DEF DueOK, MarkersOK, Says
  <1>8. MemoryOK'
    BY <1>0, <1>2, <1>3, <1>4 DEF DueOK, MemoryOK
  <1>9. RefsOK'
    BY <1>0, <1>3 DEF DueOK, RefsOK, InWorkflow
  <1>10. WorkflowOK'
    BY <1>0 DEF DueOK, WorkflowOK
  <1>11. LeavesOK'
    <2>1. \A v \in Works : Untold(v)' => Untold(v)
      BY <1>3, <1>4 DEF Untold
    <2>2. owed' = owed /\ source' = source
      OBVIOUS
    <2> QED BY <1>0, <2>1, <2>2 DEF DueOK, LeavesOK
  <1>12. LateOK'
    <2>1. \A v \in Works : Untold(v)' => Untold(v)
      BY <1>3, <1>4 DEF Untold
    <2> QED BY <2>1, LateKept
  <1> QED BY <1>5, <1>6, <1>7, <1>8, <1>9, <1>10, <1>11, <1>12 DEF DueOK

LEMMA ArriveDue == ASSUME WakesInv, NEW w \in Works, Arrive(w) PROVE DueOK'
  <1>0. TypeOK /\ DueOK
    BY DEF WakesInv, TypeInv
  <1>1. marker[w] # None /\ rearm[w] = None
    BY <1>0 DEF Arrive, DueOK, MemoryOK
  <1>2. Says(w, marker[w])
    BY <1>0, <1>1 DEF DueOK, MarkersOK
  <1>3. rearm' = [rearm EXCEPT ![w] = None]
    BY <1>0, <1>1 DEF Arrive, TypeOK
  <1>4. marker \in [Works -> Markers \cup {None}]
    BY <1>0 DEF TypeOK
  <1>5. /\ up /\ w \in watched /\ watched' = watched \ {w}
        /\ Complete(marker, w, round[w])
        /\ UNCHANGED <<up, round, turn, refs, late, source, owed>>
    BY DEF Arrive, agent, history
  <1> QED BY <1>1, <1>2, <1>3, <1>4, <1>5, CompletionDue

LEMMA RearmDue == ASSUME WakesInv, NEW w \in Works, Rearm(w) PROVE DueOK'
  <1>0. TypeOK /\ DispatchedOnly /\ DueOK /\ up /\ rearm[w] # None
    BY DEF WakesInv, TypeInv, Rearm
  <1>1. /\ w \notin watched /\ queue[w] = 0 /\ batch[w] = 0 /\ w \in owed /\ round[w] # 0
        /\ Says(w, rearm[w])
        /\ \/ marker[w] = rearm[w]
           \/ marker[w] = None /\ rearm[w].result = 0 /\ source[w] = {}
    BY <1>0 DEF DueOK, MemoryOK, OwedOK, MarkersOK, DispatchedOnly
  <1>2. IF marker[w] = None THEN source[w] = {} ELSE Says(w, marker[w])
    BY <1>0, <1>1
  <1>3. /\ marker \in [Works -> Markers \cup {None}] /\ 0 \in Rounds /\ {} \in SUBSET Works
        /\ rearm' = [rearm EXCEPT ![w] = None]
        /\ UNCHANGED <<up, round, turn, refs, late, source, owed>>
    BY <1>0, WorksAssumption DEF TypeOK, Rounds, Rearm, agent, history
  <1> DEFINE bare == Upsert(marker, w, 0, {})
  <1>4. /\ bare \in [Works -> Markers \cup {None}] /\ bare[w] # None /\ Says(w, bare[w])
        /\ \A v \in Works \ {w} : bare[v] = marker[v]
    <2>1. /\ bare \in [Works -> Markers \cup {None}] /\ bare[w] # None
          /\ \A v \in Works \ {w} : bare[v] = marker[v]
      BY <1>3, UpsertTyped
    <2>2. /\ bare[w].result = IF marker[w] = None THEN 0 ELSE marker[w].result
          /\ bare[w].parents = IF marker[w] = None THEN {} ELSE marker[w].parents
      BY <1>3 DEF Upsert, bare
    <2> QED BY <1>2, <2>1, <2>2 DEF Says
  <1> HIDE DEF bare
  <1>5. CASE rearm[w].result # 0
    <2>1. rearm[w].result = round[w]
      BY <1>1, <1>5 DEF Says
    <2>2. Complete(marker, w, round[w]) /\ watched' = watched \ {w}
      BY <1>1, <1>5, <2>1 DEF Rearm
    <2> QED BY <1>0, <1>2, <1>3, <2>2, CompletionDue
  <1>6. CASE rearm[w].result = 0 /\ w \notin Remote
    <2>1. Complete(bare, w, round[w]) /\ watched' = watched \ {w}
      BY <1>1, <1>6 DEF Rearm, ReviveParentForLostSubagentWake, bare
    <2> QED BY <1>0, <1>3, <1>4, <2>1, CompletionDue
  <1>7. CASE rearm[w].result = 0 /\ w \in Remote
    <2>1. marker' = bare /\ watched' = watched \cup {w} /\ UNCHANGED <<queue, batch, phase>>
      BY <1>7 DEF Rearm, RearmCloudAgentWake, bare, completions
    <2>2. rearm'[w] = None /\ \A v \in Works \ {w} : rearm'[v] = rearm[v]
      BY <1>0, <1>3 DEF TypeOK
    <2>3. HistoryOK'
      BY <1>0, <1>3 DEF DueOK, HistoryOK, Dispatched
    <2>4. OwedOK'
      BY <1>0, <1>1, <1>3, <1>4, <2>1, <2>2 DEF DueOK, OwedOK
    <2>5. MarkersOK'
      BY <1>0, <1>3, <1>4, <2>1, <2>2 DEF DueOK, MarkersOK, Says
    <2>6. MemoryOK'
      BY <1>0, <1>1, <1>3, <1>4, <2>1, <2>2 DEF DueOK, MemoryOK
    <2>7. RefsOK'
      BY <1>0, <1>3, <2>1 DEF DueOK, RefsOK, InWorkflow
    <2>8. WorkflowOK'
      BY <1>0, <1>3 DEF DueOK, WorkflowOK
    <2>9. LeavesOK'
      <3>1. \A v \in Works : Untold(v)' => Untold(v)
        BY <1>0, <2>1, <2>2 DEF Untold
      <3> QED BY <1>0, <1>3, <3>1 DEF DueOK, LeavesOK
    <2>10. LateOK'
      <3>1. \A v \in Works : Untold(v)' => Untold(v)
        BY <1>0, <2>1, <2>2 DEF Untold
      <3> QED BY <1>3, <3>1, LateKept
    <2> QED BY <2>3, <2>4, <2>5, <2>6, <2>7, <2>8, <2>9, <2>10 DEF DueOK
  <1> QED BY <1>5, <1>6, <1>7

LEMMA RearmFailsDue == ASSUME WakesInv, NEW w \in Works, RearmFails(w) PROVE DueOK'
  <1>0. TypeOK /\ DueOK /\ rearm[w] # None
    BY DEF WakesInv, TypeInv, RearmFails
  <1>1. /\ Says(w, rearm[w]) /\ w \notin source[w] /\ w \in owed
        /\ \/ marker[w] = rearm[w]
           \/ marker[w] = None /\ rearm[w].result = 0 /\ source[w] = {}
    BY <1>0 DEF DueOK, MarkersOK, HistoryOK, OwedOK
  <1>2. /\ rearm[w].result \in Rounds /\ rearm[w].parents \in SUBSET Works
        /\ marker \in [Works -> Markers \cup {None}]
        /\ rearm'[w] = None /\ \A v \in Works \ {w} : rearm'[v] = rearm[v]
    BY <1>0 DEF TypeOK, Markers, RearmFails
  <1>3. /\ marker' = Upsert(marker, w, rearm[w].result, rearm[w].parents)
        /\ UNCHANGED <<up, round, watched, queue, batch, phase, turn, refs, late, source, owed>>
    BY DEF RearmFails, completions, agent, history
  <1>4. marker'[w] # None /\ \A v \in Works \ {w} : marker'[v] = marker[v]
    BY <1>2, <1>3, UpsertTyped
  <1>5. Says(w, marker'[w])
    <2> DEFINE r == rearm[w].result  p == rearm[w].parents
    <2>1. /\ marker'[w].result = IF r # 0 THEN r
                                 ELSE IF marker[w] = None THEN 0 ELSE marker[w].result
          /\ marker'[w].parents = IF p # {} THEN p \ {w}
                                  ELSE IF marker[w] = None THEN {} ELSE marker[w].parents
      BY <1>2, <1>3 DEF Upsert
    <2> QED BY <1>1, <2>1 DEF Says
  <1>6. HistoryOK' /\ WorkflowOK' /\ RefsOK'
    BY <1>0, <1>3 DEF DueOK, HistoryOK, Dispatched, WorkflowOK, RefsOK, InWorkflow
  <1>7. OwedOK' /\ MarkersOK'
    BY <1>0, <1>1, <1>2, <1>3, <1>4, <1>5 DEF DueOK, OwedOK, MarkersOK, Says
  <1>8. MemoryOK'
    BY <1>0, <1>2, <1>3, <1>4 DEF DueOK, MemoryOK
  <1>9. LeavesOK'
    <2>1. \A v \in Works : Untold(v)' => Untold(v)
      BY <1>0, <1>2, <1>3 DEF Untold
    <2> QED BY <1>0, <1>3, <2>1 DEF DueOK, LeavesOK
  <1>10. LateOK'
    <2>1. \A v \in Works : Untold(v)' => Untold(v)
      BY <1>0, <1>2, <1>3 DEF Untold
    <2> QED BY <1>3, <2>1, LateKept
  <1> QED BY <1>6, <1>7, <1>8, <1>9, <1>10 DEF DueOK

\* The running revival's workflow is closed, and holds no wake yet to be told.
LEMMA RefsClosed ==
  ASSUME WakesInv
  PROVE  /\ refs \subseteq owed \cup DispatchedFor(owed) /\ refs \subseteq Dispatched
         /\ \A u \in refs \cap owed : source[u] \subseteq refs
         /\ \A u \in refs : ~Untold(u)
  <1>0. TypeOK /\ DispatchedOnly /\ DueOK
    BY DEF WakesInv, TypeInv
  <1>1. \A d \in Works : batch[d] # 0 => d \in owed /\ d \in Dispatched
    BY <1>0 DEF DueOK, MemoryOK, OwedOK, DispatchedOnly, Dispatched
  <1>2. \A u \in refs : u \in Works /\ phase = "running" /\ InWorkflow(u)
    BY <1>0 DEF DueOK, RefsOK, TypeOK
  <1>3. refs \subseteq owed \cup DispatchedFor(owed)
    BY <1>1, <1>2 DEF InWorkflow, DispatchedFor
  <1>4. refs \subseteq Dispatched
    BY <1>0, <1>1, <1>2 DEF InWorkflow, DueOK, HistoryOK
  <1>5. ASSUME NEW u \in refs \cap owed, NEW x \in source[u] PROVE x \in refs
    <2>1. x \in Works /\ u \in Works /\ phase = "running"
      BY <1>0, <1>2, <1>5 DEF TypeOK
    <2>2. InWorkflow(x)
      <3>1. CASE batch[u] # 0
        BY <1>5, <2>1, <3>1 DEF InWorkflow
      <3>2. CASE \E d \in Works : batch[d] # 0 /\ u \in source[d]
        <4>1. PICK d \in Works : batch[d] # 0 /\ u \in source[d]
          BY <3>2
        <4>2. x \in source[d]
          BY <1>0, <1>1, <1>5, <4>1 DEF DueOK, WorkflowOK
        <4> QED BY <4>1, <4>2 DEF InWorkflow
      <3> QED BY <1>2, <1>5, <3>1, <3>2 DEF InWorkflow
    <2> QED BY <1>0, <2>1, <2>2 DEF DueOK, RefsOK
  <1>6. ASSUME NEW u \in refs, Untold(u) PROVE FALSE
    <2>1. u \in Works /\ batch[u] = 0
      BY <1>0, <1>2, <1>6 DEF Untold, DueOK, MemoryOK
    <2>2. PICK d \in Works : batch[d] # 0 /\ u \in source[d]
      BY <1>2, <1>6, <2>1 DEF InWorkflow
    <2> QED BY <1>0, <1>1, <1>6, <2>1, <2>2 DEF DueOK, LeavesOK
  <1> QED BY <1>3, <1>4, <1>5, <1>6

LEMMA DispatchDue ==
  ASSUME WakesInv, NEW w \in Works, NEW causes \in Going, Dispatch(w, causes),
         ResumedOnceSettled
  PROVE  DueOK'
  <1>0. TypeOK /\ DispatchedOnly /\ DueOK
    BY DEF WakesInv, TypeInv
  <1>1. /\ round'[w] # round[w] /\ round'[w] # 0
        /\ \A v \in Works \ {w} : round'[v] = round[v]
        /\ source'[w] = causes \ {w} /\ \A v \in Works \ {w} : source'[v] = source[v]
        /\ watched' = watched \cup {w} /\ owed' = owed \cup {w} /\ up
        /\ marker' = Upsert(marker, w, 0, causes)
        /\ UNCHANGED <<up, queue, batch, phase, turn, refs, late, rearm>>
    <2>1. round[w] \in Nat /\ round'[w] = round[w] + 1 /\ \A v \in Works \ {w} : round'[v] = round[v]
      BY <1>0, WorksAssumption DEF Dispatch, TypeOK, Rounds
    <2> QED BY <1>0, <2>1 DEF Dispatch, TypeOK, completions, agent
  <1>2. /\ w \notin owed /\ \A v \in owed : w \notin source[v]
        /\ w \notin DispatchedFor(owed) /\ \A r \in late : w \notin r
    BY <1>1 DEF ResumedOnceSettled, DispatchedFor
  <1>3. /\ marker[w] = None /\ rearm[w] = None /\ w \notin watched
        /\ queue[w] = 0 /\ batch[w] = 0
    BY <1>0, <1>2 DEF DueOK, OwedOK, MemoryOK
  <1>4. /\ w \notin causes /\ causes \in SUBSET Works /\ causes \subseteq Dispatched
        /\ \A u \in causes \cap owed : source[u] \subseteq causes
        /\ \A u \in causes : ~Untold(u)
    <2>1. CASE causes = refs
      BY <1>0, <1>2, <2>1, RefsClosed DEF TypeOK
    <2>2. CASE causes \in late
      BY <1>0, <1>2, <2>2 DEF DueOK, LateOK, TypeOK
    <2> QED BY <2>1, <2>2 DEF Going
  <1>5. source'[w] = causes
    BY <1>1, <1>4
  <1>6. /\ marker'[w] # None /\ marker'[w].result = 0 /\ marker'[w].parents = source'[w]
        /\ \A v \in Works \ {w} : marker'[v] = marker[v]
    <2>0. marker \in [Works -> Markers \cup {None}] /\ 0 \in Rounds /\ causes \in SUBSET Works
      BY <1>0, <1>4, WorksAssumption DEF TypeOK, Rounds
    <2>1. /\ marker'[w] # None /\ \A v \in Works \ {w} : marker'[v] = marker[v]
      BY <1>1, <2>0, UpsertTyped
    <2>2. marker'[w].result = 0 /\ marker'[w].parents = causes \ {w}
      BY <1>1, <1>3, <2>0 DEF Upsert
    <2> QED BY <1>1, <2>1, <2>2
  <1>7. HistoryOK'
    <2>1. Dispatched' = Dispatched \cup {w}
      BY <1>1 DEF Dispatched
    <2>2. IsFiniteSet(Dispatched')
      BY <1>0, <2>1, FS_AddElement DEF DueOK, HistoryOK
    <2>3. owed' \subseteq Dispatched'
      BY <1>0, <1>1, <2>1 DEF DueOK, HistoryOK
    <2>4. \A v \in Works : source'[v] \subseteq Dispatched' \ {v}
      BY <1>0, <1>1, <1>4, <1>5, <2>1 DEF DueOK, HistoryOK
    <2> QED BY <2>2, <2>3, <2>4 DEF HistoryOK
  <1>8. OwedOK'
    BY <1>0, <1>1, <1>6 DEF DueOK, OwedOK
  <1>9. MarkersOK'
    BY <1>0, <1>1, <1>3, <1>6 DEF DueOK, MarkersOK, Says
  <1>10. MemoryOK'
    BY <1>0, <1>1, <1>3, <1>6 DEF DueOK, MemoryOK
  <1>11. RefsOK'
    <2>1. \A u \in Works : InWorkflow(u)' <=> InWorkflow(u)
      BY <1>1, <1>3 DEF InWorkflow
    <2> QED BY <1>0, <1>1, <2>1 DEF DueOK, RefsOK
  <1>12. WorkflowOK'
    <2> SUFFICES ASSUME NEW v \in owed', NEW u \in owed', u \in source'[v]
                 PROVE  source'[u] \subseteq source'[v]
      BY DEF WorkflowOK
    <2>1. u # w /\ u \in owed /\ u \in Works /\ v \in Works
      BY <1>0, <1>1, <1>2, <1>4, <1>5 DEF TypeOK
    <2>2. CASE v = w
      BY <1>1, <1>4, <1>5, <2>1, <2>2
    <2>3. CASE v # w
      BY <1>0, <1>1, <2>1, <2>3 DEF DueOK, WorkflowOK
    <2> QED BY <2>2, <2>3
  <1>13. LeavesOK'
    <2> SUFFICES ASSUME NEW x \in Works, Untold(x)', NEW v \in owed'
                 PROVE  x \notin source'[v]
      BY DEF LeavesOK
    <2>0. x # w => Untold(x)
      BY <1>1 DEF Untold
    <2>1. v \in Works
      BY <1>0, <1>1 DEF TypeOK
    <2>2. CASE v = w
      BY <1>4, <1>5, <2>0, <2>2
    <2>3. CASE v # w
      BY <1>0, <1>1, <1>2, <2>0, <2>1, <2>3 DEF DueOK, LeavesOK
    <2> QED BY <2>2, <2>3
  <1>14. LateOK'
    <2>1. late' = late /\ up' /\ Dispatched \subseteq Dispatched'
      BY <1>1 DEF Dispatched
    <2>2. ASSUME NEW r \in late
          PROVE  /\ r \subseteq Dispatched'
                 /\ \A u \in r \cap owed' : source'[u] \subseteq r
                 /\ \A u \in r : ~Untold(u)'
      <3>1. /\ r \subseteq Dispatched /\ \A u \in r \cap owed : source[u] \subseteq r
            /\ \A u \in r : u \in Works /\ u # w /\ ~Untold(u)
        BY <1>0, <1>2 DEF DueOK, LateOK, TypeOK
      <3>2. \A u \in r : ~Untold(u)'
        BY <1>1, <3>1 DEF Untold
      <3> QED BY <1>1, <2>1, <3>1, <3>2
    <2> QED BY <2>1, <2>2 DEF LateOK
  <1> QED BY <1>7, <1>8, <1>9, <1>10, <1>11, <1>12, <1>13, <1>14 DEF DueOK

LEMMA AbortDue == ASSUME WakesInv, NEW w \in Works, Abort(w) PROVE DueOK'
  <1>0. TypeOK /\ DueOK
    BY DEF WakesInv, TypeInv
  <1>1. /\ watched' = watched \ {w} /\ owed' = owed \ {w} /\ w \in watched
        /\ marker'[w] = None /\ \A v \in Works \ {w} : marker'[v] = marker[v]
        /\ UNCHANGED <<up, round, queue, batch, phase, turn, refs, late, rearm, source>>
    BY <1>0 DEF Abort, TypeOK, completions, agent
  <1>2. rearm[w] = None /\ queue[w] = 0 /\ batch[w] = 0
    BY <1>0, <1>1 DEF DueOK, MemoryOK
  <1>3. HistoryOK' /\ WorkflowOK' /\ RefsOK'
    BY <1>0, <1>1 DEF DueOK, HistoryOK, Dispatched, WorkflowOK, RefsOK, InWorkflow
  <1>4. OwedOK' /\ MarkersOK'
    BY <1>0, <1>1, <1>2 DEF DueOK, OwedOK, MarkersOK, Says
  <1>5. MemoryOK'
    BY <1>0, <1>1, <1>2 DEF DueOK, MemoryOK
  <1>6. LeavesOK'
    BY <1>0, <1>1 DEF DueOK, LeavesOK, Untold
  <1>7. LateOK'
    <2>1. \A v \in Works : Untold(v)' => Untold(v)
      BY <1>1 DEF Untold
    <2> QED BY <1>1, <2>1, LateKept
  <1> QED BY <1>3, <1>4, <1>5, <1>6, <1>7 DEF DueOK

\* The workflow that a revival opens is its batch and what that was dispatched for:
\* the markers need no second look.
LEMMA WorkflowIs ==
  ASSUME WakesInv, NEW u \in Works
  PROVE  u \in Workflow(Holding(batch)) <=> InWorkflow(u)
  <1> DEFINE Closed(T) == \A v \in T \cap Marked : marker[v].parents \subseteq T
             W == {x \in Works : InWorkflow(x)}
  <1>0. TypeOK /\ DueOK
    BY DEF WakesInv, TypeInv
  <1>1. u \in Workflow(Holding(batch)) <=>
          \A T \in SUBSET Works : Holding(batch) \subseteq T /\ Closed(T) => u \in T
    BY DEF Workflow, Smallest
  <1>2. \A v \in Marked : v \in Works /\ v \in owed /\ marker[v].parents = source[v]
    BY <1>0 DEF Marked, DueOK, OwedOK, MarkersOK, Says
  <1>3. \A d \in Holding(batch) : d \in Works /\ batch[d] # 0 /\ d \in Marked
    BY <1>0 DEF Holding, Marked, DueOK, MemoryOK
  <1>4. W \in SUBSET Works /\ Holding(batch) \subseteq W
    BY <1>3 DEF InWorkflow
  <1>5. ASSUME NEW v \in W \cap Marked, NEW x \in source[v] PROVE x \in W
    <2>1. x \in Works
      BY <1>0, <1>2, <1>5 DEF TypeOK
    <2>2. CASE batch[v] # 0
      BY <1>2, <1>5, <2>1, <2>2 DEF InWorkflow
    <2>3. CASE \E d \in Works : batch[d] # 0 /\ v \in source[d]
      <3>1. PICK d \in Works : batch[d] # 0 /\ v \in source[d]
        BY <2>3
      <3>2. d \in owed
        BY <1>2, <1>3, <3>1 DEF Holding
      <3>3. x \in source[d]
        BY <1>0, <1>2, <1>5, <3>1, <3>2 DEF DueOK, WorkflowOK
      <3> QED BY <2>1, <3>1, <3>3 DEF InWorkflow
    <2> QED BY <1>5, <2>2, <2>3 DEF InWorkflow
  <1>6. Closed(W)
    BY <1>2, <1>5
  <1>7. u \in Workflow(Holding(batch)) => InWorkflow(u)
    BY <1>1, <1>4, <1>6
  <1>8. ASSUME InWorkflow(u), NEW T \in SUBSET Works, Holding(batch) \subseteq T, Closed(T)
        PROVE  u \in T
    <2>1. CASE batch[u] # 0
      BY <1>8, <2>1 DEF Holding
    <2>2. CASE \E d \in Works : batch[d] # 0 /\ u \in source[d]
      <3>1. PICK d \in Works : batch[d] # 0 /\ u \in source[d]
        BY <2>2
      <3>2. d \in T \cap Marked
        BY <1>3, <1>8, <3>1 DEF Holding
      <3> QED BY <1>2, <1>8, <3>1, <3>2
    <2> QED BY <1>8, <2>1, <2>2 DEF InWorkflow
  <1> QED BY <1>1, <1>7, <1>8

LEMMA StartRevivalDue == WakesInv /\ StartRevival => DueOK'
  <1> SUFFICES ASSUME WakesInv, StartRevival PROVE DueOK'
    OBVIOUS
  <1>0. TypeOK /\ DueOK
    BY DEF WakesInv, TypeInv
  <1>1. /\ phase' = "running" /\ refs' = Workflow(Holding(batch))
        /\ UNCHANGED <<up, marker, round, watched, queue, batch, late, rearm, source, owed>>
    BY DEF StartRevival, history
  <1>2. RefsOK'
    <2>1. \A u \in Works : u \in refs' <=> InWorkflow(u)
      BY <1>1, WorkflowIs
    <2>2. \A u \in Works : InWorkflow(u)' <=> InWorkflow(u)
      BY <1>1 DEF InWorkflow
    <2> QED BY <1>1, <2>1, <2>2 DEF RefsOK
  <1>3. HistoryOK' /\ WorkflowOK' /\ OwedOK' /\ MarkersOK'
    BY <1>0, <1>1 DEF DueOK, HistoryOK, Dispatched, WorkflowOK, OwedOK, MarkersOK, Says
  <1>4. MemoryOK'
    BY <1>0, <1>1 DEF DueOK, MemoryOK
  <1>5. LeavesOK'
    BY <1>0, <1>1 DEF DueOK, LeavesOK, Untold
  <1>6. LateOK'
    <2>1. \A v \in Works : Untold(v)' => Untold(v)
      BY <1>1 DEF Untold
    <2> QED BY <1>1, <2>1, LateKept
  <1> QED BY <1>2, <1>3, <1>4, <1>5, <1>6 DEF DueOK

\* The loop goes on with what waits: an idle agent, or one with a session to resolve.
LEMMA GoesOnMemory ==
  ASSUME TypeOK, GoesOn
  PROVE  /\ \A v \in Works : queue'[v] = 0 /\ batch'[v] = queue[v]
         /\ phase' # "running"
  <1>1. queue' = NoCompletions /\ batch' = queue /\ phase' # "running"
    BY DEF GoesOn, TakeQueue
  <1> QED BY <1>1 DEF NoCompletions

LEMMA ResolveFailsDue == WakesInv /\ ResolveFails => DueOK'
  <1> SUFFICES ASSUME WakesInv, ResolveFails PROVE DueOK'
    OBVIOUS
  <1>0. TypeOK /\ DueOK /\ GoesOn /\ phase = "resolving"
    BY DEF WakesInv, TypeInv, ResolveFails
  <1>1. /\ \A v \in Works : queue'[v] = 0 /\ batch'[v] = queue[v]
        /\ phase' # "running"
    BY <1>0, GoesOnMemory
  <1>2. UNCHANGED <<up, marker, round, watched, refs, late, rearm, source, owed>>
    BY DEF ResolveFails, agent, history
  <1>3. HistoryOK' /\ WorkflowOK' /\ OwedOK' /\ MarkersOK'
    BY <1>0, <1>2 DEF DueOK, HistoryOK, Dispatched, WorkflowOK, OwedOK, MarkersOK, Says
  <1>4. MemoryOK'
    BY <1>0, <1>1, <1>2 DEF DueOK, MemoryOK
  <1>5. RefsOK'
    BY <1>0, <1>1, <1>2 DEF DueOK, RefsOK
  <1>6. LeavesOK'
    <2>1. \A v \in Works : Untold(v)' => Untold(v)
      BY <1>1, <1>2 DEF Untold
    <2> QED BY <1>0, <1>2, <2>1 DEF DueOK, LeavesOK
  <1>7. LateOK'
    <2>1. \A v \in Works : Untold(v)' => Untold(v)
      BY <1>1, <1>2 DEF Untold
    <2> QED BY <1>2, <2>1, LateKept
  <1> QED BY <1>3, <1>4, <1>5, <1>6, <1>7 DEF DueOK

\* What the code clears step by step is what the agent has been told of, and no more:
\* the batch, and each wake that some of the batch was dispatched for and nothing else
\* that is due was.
LEMMA SettlesIs ==
  ASSUME WakesInv, NEW w \in Works, marker[w] # None
  PROVE  w \in Settles(Holding(batch)) <=> w \in Concluded
  <1> DEFINE D == Holding(batch)
             F == UNION {source[d] : d \in D}
             C == D \cup {a \in F : \A v \in owed \ (D \cup F) : a \notin source[v]}
             Released(x, T) == /\ \E v \in T \cap Marked : Depends(marker, v, x)
                               /\ \A v \in Works \ T : ~Depends(marker, v, x)
             IsSettled(T) == \A x \in Marked : Released(x, T) => x \in T
  <1>0. TypeOK /\ DueOK /\ TypeInv /\ HistoryOK /\ WorkflowOK
    BY DEF WakesInv, TypeInv, DueOK
  <1>1. w \in Settles(D) <=>
          \A T \in SUBSET Works : D \cap Marked \subseteq T /\ IsSettled(T) => w \in T
    BY DEF Settles, Smallest
  <1>2. \A v \in Marked : v \in Works /\ v \in owed /\ marker[v].parents = source[v]
                           /\ marker[v] # None /\ v \notin source[v]
    BY <1>0 DEF Marked, DueOK, OwedOK, MarkersOK, Says, HistoryOK
  <1>3. \A d \in D : d \in Works /\ d \in Marked /\ d \in owed /\ batch[d] = round[d]
    BY <1>0 DEF Holding, Marked, DueOK, MemoryOK, OwedOK
  <1>4. D \subseteq Works /\ F \subseteq Works /\ C \subseteq Works
    BY <1>0, <1>3 DEF TypeOK
  <1>5. Concluded = C
    <2>1. {v \in Holding(batch) : batch[v] = round[v]} = D
      BY <1>3
    <2>2. F \cap watched = {}
      BY <1>0, <1>3, <1>4 DEF DueOK, LeavesOK, Untold
    <2>3. F \ watched = F
      BY <2>2
    <2> HIDE DEF D, F
    <2> QED BY <2>1, <2>3 DEF Concluded, C, F
  <1>6. \A v, x \in Works : Depends(marker, v, x) <=> v \in Marked /\ x \in source[v]
    BY <1>0, <1>2 DEF Depends, Marked
  \* What some of C \cap Marked depends on is in F.
  <1>7. ASSUME NEW v \in C \cap Marked, NEW x \in Marked, x \in source[v] PROVE x \in F
    <2>1. CASE v \in D
      BY <1>7, <2>1
    <2>2. CASE v \in F
      <3>1. PICK d \in D : v \in source[d]
        BY <2>2
      <3>2. source[v] \subseteq source[d]
        BY <1>0, <1>2, <1>3, <1>7, <3>1 DEF WorkflowOK
      <3> QED BY <1>7, <3>1, <3>2
    <2> QED BY <1>7, <2>1, <2>2
  \* C is settled.
  <1>8. ASSUME NEW x \in Marked, Released(x, C) PROVE x \in C
    <2>1. PICK v \in C \cap Marked : Depends(marker, v, x)
      BY <1>8
    <2>2. x \in Works /\ v \in Works /\ x \in source[v] /\ x \in F
      BY <1>2, <1>6, <1>7, <2>1
    <2>3. ASSUME NEW u \in owed \ (D \cup F), x \in source[u] PROVE FALSE
      <3>1. u \in Works /\ u \notin C
        BY <1>0, <2>3 DEF TypeOK
      <3>2. u \in Marked
        BY <1>0, <2>3, <3>1 DEF DueOK, OwedOK, MarkersOK, Marked
      <3> QED BY <1>6, <1>8, <2>2, <2>3, <3>1, <3>2
    <2> QED BY <2>2, <2>3
  <1>9. w \in Settles(D) => w \in C
    <2>1. IsSettled(C)
      BY <1>8
    <2>2. C \in SUBSET Works /\ D \cap Marked \subseteq C
      BY <1>4
    <2> HIDE DEF C, IsSettled
    <2> QED BY <1>1, <2>1, <2>2
  \* Nothing of C that has a marker is left out by a settled set: of what were left
  \* out, one is what no other was dispatched for.
  <1>10. ASSUME NEW T \in SUBSET Works, D \cap Marked \subseteq T, IsSettled(T)
         PROVE  C \cap Marked \subseteq T
    <2> DEFINE L == (C \cap Marked) \ T
    <2> SUFFICES ASSUME L # {} PROVE FALSE
      OBVIOUS
    <2>1. L \in SUBSET owed
      BY <1>2
    <2>2. PICK x \in L : \A y \in L : x \notin source[y]
      BY <1>0, <2>1, LastOfDue
    <2>3. /\ x \in Marked /\ x \in Works /\ x \in F /\ x \notin T
          /\ \A v \in owed \ (D \cup F) : x \notin source[v]
      BY <1>2, <1>3, <1>10, <2>2
    <2>4. PICK d \in D : x \in source[d]
      BY <2>3
    <2>5. d \in T \cap Marked /\ Depends(marker, d, x)
      BY <1>3, <1>6, <1>10, <2>3, <2>4
    <2>6. ASSUME NEW v \in Works \ T, Depends(marker, v, x) PROVE FALSE
      <3>1. v \in Marked /\ x \in source[v] /\ v \in owed /\ v \notin D
        BY <1>2, <1>3, <1>6, <1>10, <2>3, <2>6
      <3>2. v \in F
        BY <2>3, <3>1
      <3>3. ASSUME NEW u \in owed \ (D \cup F), v \in source[u] PROVE FALSE
        <4>1. source[v] \subseteq source[u]
          BY <1>0, <3>1, <3>3 DEF WorkflowOK
        <4> QED BY <2>3, <3>1, <3>3, <4>1
      <3>4. v \in L
        BY <2>6, <3>1, <3>2, <3>3
      <3> QED BY <2>2, <3>1, <3>4
    <2>7. Released(x, T)
      BY <2>5, <2>6
    <2>8. x \in T
      BY <1>10, <2>3, <2>7
    <2> QED BY <2>3, <2>8
  <1>11. w \in C => w \in Settles(D)
    <2>1. w \in Marked
      BY DEF Marked
    <2> HIDE DEF C, D, IsSettled
    <2> QED BY <1>1, <1>10, <2>1
  <1> QED BY <1>5, <1>9, <1>11

\* Nothing is settled of what the agent has yet to be told of.
LEMMA ConcludedNot ==
  ASSUME WakesInv, NEW w \in Works, Untold(w), batch[w] = 0
  PROVE  w \notin Concluded
  <1>0. DueOK
    BY DEF WakesInv
  <1>1. \A d \in Holding(batch) : d \in owed
    BY <1>0 DEF Holding, DueOK, MemoryOK, OwedOK
  <1>2. \A d \in Holding(batch) : w \notin source[d]
    BY <1>0, <1>1 DEF DueOK, LeavesOK
  <1>3. w \notin Holding(batch)
    BY DEF Holding
  <1> QED BY <1>2, <1>3 DEF Concluded

LEMMA RevivalEndsDue ==
  ASSUME WakesInv, NEW completed \in BOOLEAN, RevivalEnds(completed)
  PROVE  DueOK'
  <1>0. TypeOK /\ DueOK /\ GoesOn /\ phase = "running" /\ up
    BY DEF WakesInv, TypeInv, RevivalEnds
  <1>1. /\ \A v \in Works : queue'[v] = 0 /\ batch'[v] = queue[v]
        /\ phase' # "running"
    BY <1>0, GoesOnMemory
  <1>2. /\ UNCHANGED <<up, round, watched, late, rearm, source>> /\ refs' = {}
        /\ owed' = IF completed THEN owed \ Concluded ELSE owed
        /\ \A v \in Works : marker'[v] = IF completed /\ v \in Settles(Holding(batch))
                                         THEN None ELSE marker[v]
    BY DEF RevivalEnds
  <1>3. \A v \in Works :
          /\ marker'[v] # None => marker'[v] = marker[v]
          /\ marker'[v] # None <=> marker[v] # None /\ ~(completed /\ v \in Concluded)
          /\ v \in owed' <=> v \in owed /\ ~(completed /\ v \in Concluded)
    BY <1>2, SettlesIs
  <1>4. \A v \in Works : v \in watched \/ queue[v] # 0 \/ rearm[v] # None
                           => batch[v] = 0 /\ v \notin Concluded
    <2>1. \A v \in Works : v \in watched \/ queue[v] # 0 \/ rearm[v] # None
                             => Untold(v) /\ batch[v] = 0
      BY <1>0 DEF DueOK, MemoryOK, Untold
    <2> QED BY <2>1, ConcludedNot
  <1>5. HistoryOK' /\ WorkflowOK'
    <2>1. owed' \subseteq owed /\ Dispatched' = Dispatched
      BY <1>2 DEF Dispatched
    <2> QED BY <1>0, <1>2, <2>1 DEF DueOK, HistoryOK, WorkflowOK
  <1>6. OwedOK'
    BY <1>0, <1>2, <1>3, <1>4 DEF DueOK, OwedOK
  <1>7. MarkersOK'
    <2>1. \A v \in Works : rearm[v] # None => marker'[v] = marker[v]
      BY <1>3, <1>4
    <2> QED BY <1>0, <1>2, <1>3, <2>1 DEF DueOK, MarkersOK, Says
  <1>8. MemoryOK'
    BY <1>0, <1>1, <1>2, <1>3, <1>4 DEF DueOK, MemoryOK
  <1>9. RefsOK'
    BY <1>1, <1>2 DEF RefsOK
  <1>10. LeavesOK'
    <2>1. \A v \in Works : Untold(v)' => Untold(v)
      BY <1>1, <1>2 DEF Untold
    <2>2. owed' \subseteq owed
      BY <1>2
    <2> QED BY <1>0, <1>2, <2>1, <2>2 DEF DueOK, LeavesOK
  <1>11. LateOK'
    <2>1. \A v \in Works : Untold(v)' => Untold(v)
      BY <1>1, <1>2 DEF Untold
    <2> QED BY <1>2, <2>1, LateKept
  <1> QED BY <1>5, <1>6, <1>7, <1>8, <1>9, <1>10, <1>11 DEF DueOK

\* A run is given up: what it was to settle is as due as before, and what it goes on
\* for is the workflow it had.
LEMMA GivenUpDue == WakesInv /\ GivenUp => DueOK'
  <1> SUFFICES ASSUME WakesInv, GivenUp PROVE DueOK'
    OBVIOUS
  <1>0. TypeOK /\ DueOK /\ up
    BY DEF WakesInv, TypeInv, GivenUp
  <1>1. /\ UNCHANGED <<up, marker, round, watched, rearm, source, owed>>
        /\ refs' = {} /\ late' = late \cup {refs}
    BY DEF GivenUp, history
  <1>2. /\ phase' # "running"
        /\ \A v \in Works : \/ queue'[v] = 0 /\ batch'[v] = queue[v]
                            \/ queue'[v] = queue[v] /\ batch'[v] = batch[v]
        /\ \A v \in Works : Untold(v)' => Untold(v)
    <2>1. CASE phase = "running"
      <3>1. /\ phase' # "running"
            /\ \A v \in Works : queue'[v] = 0 /\ batch'[v] = queue[v]
        BY <1>0, <2>1, GoesOnMemory DEF GivenUp
      <3> QED BY <1>1, <3>1 DEF Untold
    <2>2. CASE phase # "running"
      BY <1>1, <2>2 DEF GivenUp, completions, Untold
    <2> QED BY <2>1, <2>2
  <1>3. HistoryOK' /\ WorkflowOK' /\ OwedOK' /\ MarkersOK'
    BY <1>0, <1>1 DEF DueOK, HistoryOK, Dispatched, WorkflowOK, OwedOK, MarkersOK, Says
  <1>4. MemoryOK'
    BY <1>0, <1>1, <1>2 DEF DueOK, MemoryOK
  <1>5. RefsOK'
    BY <1>1, <1>2 DEF RefsOK
  <1>6. LeavesOK'
    BY <1>0, <1>1, <1>2 DEF DueOK, LeavesOK
  <1>7. LateOK'
    <2>1. Dispatched' = Dispatched
      BY <1>1 DEF Dispatched
    <2>2. ASSUME NEW r \in late'
          PROVE  /\ r \subseteq Dispatched
                 /\ \A u \in r \cap owed : source[u] \subseteq r
                 /\ \A u \in r : u \in Works /\ ~Untold(u)
      <3>1. CASE r = refs
        BY <1>0, <3>1, RefsClosed DEF TypeOK
      <3>2. CASE r \in late
        BY <1>0, <3>2 DEF DueOK, LateOK, TypeOK
      <3> QED BY <1>1, <3>1, <3>2
    <2> QED BY <1>0, <1>1, <1>2, <2>1, <2>2 DEF LateOK
  <1> QED BY <1>3, <1>4, <1>5, <1>6, <1>7 DEF DueOK

LEMMA CrashDue == WakesInv /\ Crash => DueOK'
  <1> SUFFICES ASSUME WakesInv, Crash PROVE DueOK'
    OBVIOUS
  <1>0. TypeOK /\ DueOK
    BY DEF WakesInv, TypeInv
  <1>1. /\ \A v \in Works : queue'[v] = 0 /\ batch'[v] = 0 /\ rearm'[v] = None
        /\ watched' = {} /\ refs' = {} /\ late' = {} /\ phase' = "idle"
        /\ owed' = owed \ ClearedByBoot /\ UNCHANGED <<marker, round, source>>
    BY DEF Crash, NoCompletions
  <1>2. HistoryOK' /\ WorkflowOK'
    <2>1. owed' \subseteq owed /\ Dispatched' = Dispatched
      BY <1>1 DEF Dispatched
    <2> QED BY <1>0, <1>1, <2>1 DEF DueOK, HistoryOK, WorkflowOK
  <1>3. OwedOK'
    BY <1>0, <1>1 DEF DueOK, OwedOK, ClearedByBoot
  <1>4. MarkersOK'
    BY <1>0, <1>1 DEF DueOK, MarkersOK, Says
  <1>5. MemoryOK' /\ RefsOK' /\ LeavesOK' /\ LateOK'
    BY <1>1 DEF MemoryOK, RefsOK, LeavesOK, LateOK, Untold
  <1> QED BY <1>2, <1>3, <1>4, <1>5 DEF DueOK

LEMMA BootDue == WakesInv /\ Boot => DueOK'
  <1> SUFFICES ASSUME WakesInv, Boot PROVE DueOK'
    OBVIOUS
  <1>0. TypeOK /\ DueOK /\ ~up
    BY DEF WakesInv, TypeInv, Boot
  <1> DEFINE Leaf(v) == v \in Marked /\ ~HasDependent(marker, v)
             Bare(v) == Leaf(v) /\ marker[v].result = 0 /\ marker[v].parents = {}
  <1>1. /\ up' = TRUE
        /\ \A v \in Works : /\ rearm'[v] = IF Leaf(v) THEN marker[v] ELSE None
                            /\ marker'[v] = IF Bare(v) THEN None ELSE marker[v]
        /\ UNCHANGED <<round, watched, queue, batch, phase, refs, late, source, owed>>
    BY DEF Boot, completions, agent, history
  <1>2. \A v \in Works : /\ v \notin watched /\ queue[v] = 0 /\ batch[v] = 0
                         /\ rearm[v] = None
    BY <1>0 DEF DueOK, MemoryOK
  <1>3. \A v \in Works : /\ v \in owed <=> marker[v] # None
                         /\ marker[v] # None => Says(v, marker[v])
    BY <1>0, <1>2 DEF DueOK, OwedOK, MarkersOK
  <1>4. ASSUME NEW v \in Works, Leaf(v), NEW u \in owed PROVE v \notin source[u]
    <2>1. u \in Works /\ marker[u] # None /\ marker[u].parents = source[u] /\ u \notin source[u]
      BY <1>0, <1>3 DEF TypeOK, Says, DueOK, HistoryOK
    <2> QED BY <1>4, <2>1 DEF HasDependent, Depends
  <1> HIDE DEF Leaf
  <1>5. HistoryOK' /\ WorkflowOK'
    BY <1>0, <1>1 DEF DueOK, HistoryOK, Dispatched, WorkflowOK
  <1>6. OwedOK'
    <2>1. \A v \in Works : Leaf(v) => marker[v] # None
      BY DEF Leaf, Marked
    <2> QED BY <1>1, <1>3, <2>1 DEF OwedOK
  <1>7. MarkersOK'
    BY <1>1, <1>3 DEF MarkersOK, Says
  <1>8. MemoryOK'
    BY <1>1, <1>2 DEF MemoryOK
  <1>9. RefsOK'
    <2>1. \A u \in Works : InWorkflow(u)' <=> InWorkflow(u)
      BY <1>1 DEF InWorkflow
    <2> QED BY <1>0, <1>1, <2>1 DEF DueOK, RefsOK
  <1>10. LeavesOK'
    <2>1. \A v \in Works : Untold(v)' => Leaf(v)
      BY <1>1, <1>2 DEF Untold
    <2> QED BY <1>1, <1>4, <2>1 DEF LeavesOK
  <1>11. LateOK'
    BY <1>0, <1>1 DEF DueOK, LateOK
  <1> QED BY <1>5, <1>6, <1>7, <1>8, <1>9, <1>10, <1>11 DEF DueOK

\* The steps that touch neither markers nor completions.
LEMMA QuietDue ==
  ASSUME WakesInv,
         \/ Resolve \/ TurnStarts \/ TurnEnds \/ UNCHANGED vars
         \/ \E causes \in late : LateEnds(causes)
  PROVE  DueOK'
  <1>0. TypeOK /\ DueOK
    BY DEF WakesInv, TypeInv
  <1>1. UNCHANGED <<up, marker, round, watched, queue, batch, rearm, source, owed>>
    BY DEF Resolve, TurnStarts, TurnEnds, LateEnds, vars, completions, history
  <1>2. /\ phase' = "running" <=> phase = "running"
        /\ refs' = refs \/ (refs' = {} /\ phase # "running")
        /\ late' \in SUBSET late
    BY <1>0
    DEF Resolve, TurnStarts, TurnEnds, LateEnds, vars, completions, agent, TypeOK
  <1>3. HistoryOK' /\ WorkflowOK' /\ OwedOK' /\ MarkersOK'
    BY <1>0, <1>1 DEF DueOK, HistoryOK, Dispatched, WorkflowOK, OwedOK, MarkersOK, Says
  <1>4. MemoryOK'
    BY <1>0, <1>1 DEF DueOK, MemoryOK
  <1>5. RefsOK'
    <2>1. \A u \in Works : InWorkflow(u)' <=> InWorkflow(u)
      BY <1>1 DEF InWorkflow
    <2> QED BY <1>0, <1>2, <2>1 DEF DueOK, RefsOK
  <1>6. LeavesOK'
    <2>1. \A v \in Works : Untold(v)' <=> Untold(v)
      BY <1>1, <1>2 DEF Untold
    <2> QED BY <1>0, <1>1, <2>1 DEF DueOK, LeavesOK
  <1>7. LateOK'
    <2>1. \A v \in Works : Untold(v)' <=> Untold(v)
      BY <1>1, <1>2 DEF Untold
    <2> QED BY <1>1, <1>2, <2>1, LateKept
  <1> QED BY <1>3, <1>4, <1>5, <1>6, <1>7 DEF DueOK

LEMMA DueInit == Init => WakesInv
  <1> SUFFICES ASSUME Init PROVE DueOK
    BY WakesInit DEF WakesInv
  <1>1. \A w \in Works : /\ marker[w] = None /\ rearm[w] = None /\ round[w] = 0
                         /\ queue[w] = 0 /\ batch[w] = 0 /\ source[w] = {}
    BY DEF Init, NoCompletions
  <1>2. phase = "idle" /\ watched = {} /\ refs = {} /\ late = {} /\ owed = {}
    BY DEF Init
  <1>3. Dispatched = {}
    BY <1>1 DEF Dispatched
  <1>4. HistoryOK
    BY <1>1, <1>2, <1>3, FS_EmptySet DEF HistoryOK
  <1>5. OwedOK /\ MarkersOK /\ MemoryOK
    BY <1>1, <1>2 DEF OwedOK, MarkersOK, MemoryOK
  <1>6. RefsOK /\ WorkflowOK /\ LeavesOK /\ LateOK
    BY <1>1, <1>2 DEF RefsOK, WorkflowOK, LeavesOK, LateOK
  <1> QED BY <1>4, <1>5, <1>6 DEF DueOK

LEMMA DueNext == WakesInv /\ [Next /\ ResumedOnceSettled]_vars => WakesInv'
  <1> SUFFICES ASSUME WakesInv, [Next /\ ResumedOnceSettled]_vars PROVE DueOK'
    BY WakesStep DEF WakesInv
  <1>1. ASSUME NEW w \in Works, NEW causes \in Going, Dispatch(w, causes),
               ResumedOnceSettled
        PROVE  DueOK'
    BY <1>1, DispatchDue
  <1>2. ASSUME NEW w \in Works, Arrive(w) \/ Abort(w) \/ Rearm(w) \/ RearmFails(w) PROVE DueOK'
    BY <1>2, ArriveDue, AbortDue, RearmDue, RearmFailsDue
  <1>3. CASE ResolveFails \/ StartRevival \/ GivenUp \/ Crash \/ Boot
    BY <1>3, ResolveFailsDue, StartRevivalDue, GivenUpDue, CrashDue, BootDue
  <1>4. ASSUME NEW completed \in BOOLEAN, RevivalEnds(completed) PROVE DueOK'
    BY <1>4, RevivalEndsDue
  <1>5. CASE \/ Resolve \/ TurnStarts \/ TurnEnds \/ UNCHANGED vars
             \/ \E causes \in late : LateEnds(causes)
    BY <1>5, QuietDue
  <1> QED BY <1>1, <1>2, <1>3, <1>4, <1>5 DEF Next

\* Works that are dispatched once, each under an id of its own, are such works.
LEMMA OnceIsSettled ==
  ASSUME MaxRounds = 1, WakesInv, Next PROVE ResumedOnceSettled
  <1>0. TypeOK /\ HistoryOK /\ LateOK
    BY DEF WakesInv, TypeInv, DueOK
  <1>1. ASSUME NEW w \in Works, NEW causes \in Going, Dispatch(w, causes)
        PROVE  ResumedOnceSettled
    <2>1. round[w] = 0 /\ \A v \in Works \ {w} : round'[v] = round[v]
      BY <1>0, <1>1 DEF Dispatch, TypeOK, Rounds
    <2>2. w \notin Dispatched
      BY <2>1 DEF Dispatched
    <2>3. /\ w \notin owed /\ \A v \in owed : w \notin source[v]
          /\ \A r \in late : w \notin r
      BY <1>0, <2>2 DEF HistoryOK, LateOK, TypeOK
    <2> QED BY <2>1, <2>3 DEF ResumedOnceSettled, DispatchedFor
  <1>2. ASSUME round' = round PROVE ResumedOnceSettled
    BY <1>2 DEF ResumedOnceSettled
  <1>3. (\E w \in Works, causes \in Going : Dispatch(w, causes)) \/ round' = round
    BY DEF Next, Arrive, Abort, Rearm, RearmFails, Resolve, ResolveFails, StartRevival,
           RevivalEnds, TurnStarts, TurnEnds, GivenUp, LateEnds, Crash, Boot
  <1> QED BY <1>1, <1>2, <1>3

\* So what follows holds of them: of Spec with one round for each work.
THEOREM DispatchedOnce == ASSUME MaxRounds = 1 PROVE Spec => SettledSpec
  <1>1. WakesInv /\ [Next]_vars => [Next /\ ResumedOnceSettled]_vars
    BY OnceIsSettled
  <1>2. WakesInv /\ [Next]_vars => WakesInv'
    BY <1>1, DueNext
  <1> QED BY <1>1, <1>2, DueInit, PTL DEF Spec, SettledSpec

\* The inductive invariant, while works are resumed only once they are settled.
THEOREM WakesInvariant == SettledSpec => []WakesInv
  BY DueInit, DueNext, PTL DEF SettledSpec

\* No wake that is due is lost: through failed revivals, turns of the user and any number
\* of crashes it keeps its marker, but for those in the window of a boot.
THEOREM WakesKept == SettledSpec => []NoWakeForgotten
  <1>1. WakesInv => NoWakeForgotten
    BY DEF WakesInv, TypeInv, TypeOK, DueOK, OwedOK, NoWakeForgotten, ClearedByBoot, Marked
  <1> QED BY <1>1, WakesInvariant, PTL

\* What the agent has been told of has no marker, so that no restart tells it again.
THEOREM WakesSettled == SettledSpec => []SettledIsForgotten
  <1>1. WakesInv => SettledIsForgotten
    BY DEF WakesInv, DueOK, OwedOK, SettledIsForgotten, Marked
  <1> QED BY <1>1, WakesInvariant, PTL

\* A boot at any time leads to every marker, by the last that was dispatched for it.
THEOREM WakesReachable == SettledSpec => []EveryWakeIsReachable
  <1>1. ASSUME WakesInv PROVE EveryWakeIsReachable
    <2> SUFFICES ASSUME NEW w \in Marked
                 PROVE  \E leaf \in Marked : /\ ~HasDependent(marker, leaf)
                                             /\ w = leaf \/ w \in marker[leaf].parents
      BY DEF EveryWakeIsReachable
    <2>0. TypeInv /\ HistoryOK /\ WorkflowOK
      BY <1>1 DEF WakesInv, DueOK
    <2>1. \A v \in Marked : v \in Works /\ v \in owed /\ marker[v].parents = source[v]
      BY <1>1 DEF WakesInv, DueOK, OwedOK, MarkersOK, Says, Marked
    <2> DEFINE S == {v \in Marked : v = w \/ w \in source[v]}
    <2>2. S \in SUBSET owed /\ S # {}
      BY <2>1
    <2>3. PICK x \in S : \A y \in S : x \notin source[y]
      BY <2>0, <2>2, LastOfDue
    <2>4. ASSUME NEW v \in Works, Depends(marker, v, x) PROVE FALSE
      <3>1. v \in Marked /\ x \in source[v] /\ v \in owed /\ x \in owed
        BY <2>1, <2>4 DEF Depends, Marked
      <3>2. w \in source[v]
        <4>1. source[x] \subseteq source[v]
          BY <2>0, <3>1 DEF WorkflowOK
        <4> QED BY <3>1, <4>1
      <3> QED BY <2>3, <3>1, <3>2
    <2> QED BY <2>1, <2>3, <2>4 DEF HasDependent
  <1> QED BY <1>1, WakesInvariant, PTL
=============================================================================
