------------------------- MODULE RunSchedulerProofs -------------------------
(***************************************************************************)
(* Proofs about RunScheduler.                                              *)
(***************************************************************************)
EXTENDS RunScheduler, SequenceLemmas

\* What is left of a lane without repetitions when one position is removed.
LEMMA RemoveAtLane ==
  ASSUME NEW S, NEW q \in Seq(S), Once(q), NEW i \in DOMAIN q
  PROVE  /\ RemoveAt(q, i) \in Seq(S) /\ Once(RemoveAt(q, i))
         /\ \A t : InLane(RemoveAt(q, i), t) <=> InLane(q, t) /\ t # q[i]
  <1> DEFINE r == RemoveAt(q, i)
  <1>0. /\ i \in 1 .. Len(q) /\ Len(q) \in Nat /\ DOMAIN q = 1 .. Len(q)
    OBVIOUS
  <1>1. /\ r \in Seq(S) /\ Len(r) = Len(q) - 1
        /\ \A k \in 1 .. Len(q) - 1 : r[k] = IF k < i THEN q[k] ELSE q[k + 1]
    BY RemoveAtElements
  <1> HIDE DEF r
  <1>2. DOMAIN r = 1 .. Len(q) - 1
    BY <1>1
  <1>3. Once(r)
    <2> SUFFICES ASSUME NEW a \in 1 .. Len(q) - 1, NEW b \in 1 .. Len(q) - 1,
                        r[a] = r[b]
                 PROVE  a = b
      BY <1>2 DEF Once
    <2>1. PICK x \in 1 .. Len(q) : x = (IF a < i THEN a ELSE a + 1) /\ r[a] = q[x]
      BY <1>0, <1>1
    <2>2. PICK y \in 1 .. Len(q) : y = (IF b < i THEN b ELSE b + 1) /\ r[b] = q[y]
      BY <1>0, <1>1
    <2>3. x = y
      BY <2>1, <2>2, <1>0 DEF Once
    <2> QED BY <2>1, <2>2, <2>3, <1>0
  <1>4. ASSUME NEW t, InLane(r, t) PROVE InLane(q, t) /\ t # q[i]
    <2>1. PICK k \in 1 .. Len(q) - 1 : r[k] = t
      BY <1>2, <1>4 DEF InLane
    <2>2. CASE k < i
      BY <2>1, <2>2, <1>0, <1>1 DEF InLane, Once
    <2>3. CASE ~(k < i)
      BY <2>1, <2>3, <1>0, <1>1 DEF InLane, Once
    <2> QED BY <2>2, <2>3
  <1>5. ASSUME NEW t, InLane(q, t), t # q[i] PROVE InLane(r, t)
    <2>1. PICK k \in 1 .. Len(q) : q[k] = t
      BY <1>0, <1>5 DEF InLane
    <2>2. CASE k < i
      BY <2>1, <2>2, <1>0, <1>1, <1>2 DEF InLane
    <2>3. CASE k > i
      <3>1. k - 1 \in 1 .. Len(q) - 1 /\ ~(k - 1 < i) /\ (k - 1) + 1 = k
        BY <1>0, <2>3
      <3> QED BY <3>1, <2>1, <1>1, <1>2 DEF InLane
    <2> QED BY <2>1, <2>2, <2>3, <1>0, <1>5
  <1> QED BY <1>1, <1>3, <1>4, <1>5 DEF r

LEMMA TailLane ==
  ASSUME NEW S, NEW q \in Seq(S), Once(q), q # <<>>
  PROVE  /\ Tail(q) \in Seq(S) /\ Once(Tail(q)) /\ Head(q) \in S /\ InLane(q, Head(q))
         /\ \A t : InLane(Tail(q), t) <=> InLane(q, t) /\ t # Head(q)
  <1>0. Len(q) \in Nat /\ Len(q) > 0 /\ DOMAIN q = 1 .. Len(q) /\ Head(q) = q[1]
    OBVIOUS
  <1>1. /\ Tail(q) \in Seq(S) /\ DOMAIN Tail(q) = 1 .. Len(q) - 1
        /\ \A k \in 1 .. Len(q) - 1 : Tail(q)[k] = q[k + 1]
    BY <1>0
  <1>2. Once(Tail(q))
    BY <1>0, <1>1 DEF Once
  <1>3. Head(q) \in S /\ InLane(q, Head(q))
    BY <1>0 DEF InLane
  <1>4. ASSUME NEW t PROVE InLane(Tail(q), t) <=> InLane(q, t) /\ t # Head(q)
    <2>1. InLane(Tail(q), t) => InLane(q, t) /\ t # Head(q)
      BY <1>0, <1>1 DEF InLane, Once
    <2>2. ASSUME InLane(q, t), t # Head(q) PROVE InLane(Tail(q), t)
      <3>1. PICK k \in 1 .. Len(q) : q[k] = t
        BY <2>2, <1>0 DEF InLane
      <3>2. k - 1 \in 1 .. Len(q) - 1 /\ (k - 1) + 1 = k
        BY <3>1, <2>2, <1>0
      <3> QED BY <3>1, <3>2, <1>1 DEF InLane
    <2> QED BY <2>1, <2>2
  <1> QED BY <1>1, <1>2, <1>3, <1>4

LEMMA AppendLane ==
  ASSUME NEW S, NEW q \in Seq(S), Once(q), NEW e \in S, ~ InLane(q, e)
  PROVE  /\ Append(q, e) \in Seq(S) /\ Once(Append(q, e)) /\ Append(q, e) # <<>>
         /\ \A t : InLane(Append(q, e), t) <=> InLane(q, t) \/ t = e
  <1>0. Len(q) \in Nat /\ DOMAIN q = 1 .. Len(q)
    OBVIOUS
  <1>1. /\ Append(q, e) \in Seq(S) /\ DOMAIN Append(q, e) = 1 .. Len(q) + 1
        /\ \A k \in 1 .. Len(q) : Append(q, e)[k] = q[k]
        /\ Append(q, e)[Len(q) + 1] = e
    BY <1>0
  <1>2. Once(Append(q, e))
    BY <1>0, <1>1 DEF Once, InLane
  <1>3. ASSUME NEW t PROVE InLane(Append(q, e), t) <=> InLane(q, t) \/ t = e
    BY <1>0, <1>1 DEF InLane
  <1> QED BY <1>1, <1>2, <1>3, <1>0

-----------------------------------------------------------------------------
(***************************************************************************)
(* The inductive invariant.  RunsExcludeEachOther needs to know that a     *)
(* task that starts is not an old run (Fresh), which needs the lanes to be *)
(* without repetitions (NoTaskLost).                                       *)
(***************************************************************************)
Waiting(t) ==
  InLane(pendingUser, t) \/ InLane(pendingAgent, t) \/ InLane(pendingBackground, t)
Fresh == \A t \in Tasks : Waiting(t) => t \notin zombies
SafeInv == TypeOK /\ RunsExcludeEachOther /\ NoTaskLost /\ Fresh

\* Pending is what InLane says.
LEMMA PendingIsWaiting == \A t : t \in Pending <=> Waiting(t)
  BY DEF Pending, Waiting, InLane, ToSet

\* Where everything is after pump() has taken the task t.
LEMMA TakeNextLanes ==
  ASSUME TypeOK, NoTaskLost, NEW t \in Tasks, TakeNext(t)
  PROVE  /\ pendingUser' \in Seq(Tasks) /\ Once(pendingUser)'
         /\ pendingAgent' \in Seq(Tasks) /\ Once(pendingAgent)'
         /\ pendingBackground' \in Seq(Tasks) /\ Once(pendingBackground)'
         /\ Waiting(t)
         /\ \A s \in Tasks :
              /\ InLane(pendingUser, s)' <=> InLane(pendingUser, s) /\ s # t
              /\ InLane(pendingAgent, s)' <=> InLane(pendingAgent, s) /\ s # t
              /\ InLane(pendingBackground, s)' <=> InLane(pendingBackground, s) /\ s # t
  <1>0. /\ pendingUser \in Seq(Tasks) /\ Once(pendingUser)
        /\ pendingAgent \in Seq(Tasks) /\ Once(pendingAgent)
        /\ pendingBackground \in Seq(Tasks) /\ Once(pendingBackground)
    BY DEF TypeOK, NoTaskLost
  <1>1. \A s \in Tasks : /\ InLane(pendingUser, s) => Lane[s] = "user"
                         /\ InLane(pendingAgent, s) => Lane[s] = "agent"
                         /\ InLane(pendingBackground, s) => Lane[s] = "background"
    BY DEF NoTaskLost, AtOnePlace
  <1>2. CASE \E i \in DOMAIN pendingUser :
               /\ t = pendingUser[i]
               /\ pendingUser' = RemoveAt(pendingUser, i)
               /\ UNCHANGED <<pendingAgent, pendingBackground>>
    <2>1. PICK i \in DOMAIN pendingUser :
                 /\ t = pendingUser[i]
                 /\ pendingUser' = RemoveAt(pendingUser, i)
                 /\ UNCHANGED <<pendingAgent, pendingBackground>>
      BY <1>2
    <2>2. /\ pendingUser' \in Seq(Tasks) /\ Once(pendingUser')
          /\ \A s : InLane(pendingUser', s) <=> InLane(pendingUser, s) /\ s # t
      BY <2>1, <1>0, RemoveAtLane
    <2>3. InLane(pendingUser, t)
      BY <2>1 DEF InLane
    <2> QED BY <2>1, <2>2, <2>3, <1>0, <1>1 DEF Waiting
  <1>3. CASE /\ pendingAgent # <<>> /\ t = Head(pendingAgent)
             /\ pendingAgent' = Tail(pendingAgent)
             /\ UNCHANGED <<pendingUser, pendingBackground>>
    <2>1. /\ pendingAgent' \in Seq(Tasks) /\ Once(pendingAgent')
          /\ InLane(pendingAgent, t)
          /\ \A s : InLane(pendingAgent', s) <=> InLane(pendingAgent, s) /\ s # t
      BY <1>0, <1>3, TailLane
    <2> QED BY <2>1, <1>0, <1>1, <1>3 DEF Waiting
  <1>4. CASE /\ pendingBackground # <<>> /\ t = Head(pendingBackground)
             /\ pendingBackground' = Tail(pendingBackground)
             /\ UNCHANGED <<pendingUser, pendingAgent>>
    <2>1. /\ pendingBackground' \in Seq(Tasks) /\ Once(pendingBackground')
          /\ InLane(pendingBackground, t)
          /\ \A s : InLane(pendingBackground', s)
                     <=> InLane(pendingBackground, s) /\ s # t
      BY <1>0, <1>4, TailLane
    <2> QED BY <2>1, <1>0, <1>1, <1>4 DEF Waiting
  <1> QED BY <1>2, <1>3, <1>4 DEF TakeNext, TakeNextUser

LEMMA ArmedType ==
  ASSUME NEW users \in Seq(Tasks), NEW ages \in [Tasks -> 0 .. AgeCap], NEW act,
         NEW since \in 0 .. AgeCap, NEW w \in 0 .. WatchdogMs \cup {Off}, NEW g
  PROVE  Armed(users, ages, act, since, w, g) \in 0 .. WatchdogMs \cup {Off}
  <1>1. CASE users = <<>>
    BY <1>1 DEF Armed
  <1>2. CASE users # <<>>
    <2>1. Head(users) \in Tasks
      BY <1>2
    <2>2. WaitedBehindActive(users, ages, since) \in 0 .. AgeCap
      BY <2>1 DEF WaitedBehindActive, Smaller
    <2>3. Larger(0, WatchdogMs - WaitedBehindActive(users, ages, since))
            \in 0 .. WatchdogMs
      BY <2>2, TimingAssumption DEF Larger
    <2> QED BY <2>3 DEF Armed
  <1> QED BY <1>1, <1>2

\* What pump() leaves, whoever called it.
LEMMA PumpIdleLanes ==
  ASSUME TypeOK, NoTaskLost, NEW others \in SUBSET Tasks, PumpIdle(others)
  PROVE  /\ pendingUser' \in Seq(Tasks) /\ Once(pendingUser)'
         /\ pendingAgent' \in Seq(Tasks) /\ Once(pendingAgent)'
         /\ pendingBackground' \in Seq(Tasks) /\ Once(pendingBackground)'
         /\ active' \in Tasks \cup {NoTask} /\ phase' = "running" /\ runAge' = 0
         /\ age' \in [Tasks -> 0 .. AgeCap]
         /\ watchdogTimer' \in 0 .. WatchdogMs \cup {Off}
         /\ graceTimer' = Off /\ escapee' = NoTask
         /\ executing' = others \cup ({active'} \ {NoTask})
         /\ active' # NoTask => Waiting(active')
         /\ \A s \in Tasks :
              /\ InLane(pendingUser, s)' <=> InLane(pendingUser, s) /\ s # active'
              /\ InLane(pendingAgent, s)' <=> InLane(pendingAgent, s) /\ s # active'
              /\ InLane(pendingBackground, s)'
                   <=> InLane(pendingBackground, s) /\ s # active'
  <1>1. CASE \E t \in Tasks : /\ TakeNext(t) /\ StartRun(t)
                              /\ executing' = others \cup {t}
    <2>1. PICK t \in Tasks : /\ TakeNext(t) /\ StartRun(t)
                             /\ executing' = others \cup {t}
      BY <1>1
    <2>2. /\ active' = t /\ phase' = "running" /\ runAge' = 0
          /\ age' = [age EXCEPT ![t] = 0]
          /\ watchdogTimer' = Armed(pendingUser', age', t, 0, Off, Off)
          /\ graceTimer' = Off /\ escapee' = NoTask
      BY <2>1 DEF StartRun
    <2>3. age' \in [Tasks -> 0 .. AgeCap] /\ 0 \in 0 .. AgeCap
      BY <2>2, TimingAssumption DEF TypeOK
    <2>4. pendingUser' \in Seq(Tasks)
      BY <2>1, TakeNextLanes
    <2>5. watchdogTimer' \in 0 .. WatchdogMs \cup {Off}
      <3>1. Off \in 0 .. WatchdogMs \cup {Off}
        OBVIOUS
      <3> QED BY <2>2, <2>3, <2>4, <3>1, ArmedType
    <2>6. t # NoTask
      BY TasksAssumption
    <2> QED BY <2>1, <2>2, <2>3, <2>5, <2>6, TakeNextLanes
  <1>2. CASE /\ active' = NoTask /\ phase' = "running" /\ runAge' = 0
             /\ watchdogTimer' = Off /\ graceTimer' = Off /\ escapee' = NoTask
             /\ executing' = others
             /\ UNCHANGED <<lanes, age>>
    BY <1>2, TasksAssumption DEF TypeOK, NoTaskLost, AtOnePlace, lanes
  <1>3. (\E t \in Tasks : /\ TakeNext(t) /\ StartRun(t)
                          /\ executing' = others \cup {t})
        \/ /\ active' = NoTask /\ phase' = "running" /\ runAge' = 0
           /\ watchdogTimer' = Off /\ graceTimer' = Off /\ escapee' = NoTask
           /\ executing' = others
           /\ UNCHANGED <<lanes, age>>
    BY DEF PumpIdle
  <1> QED BY <1>1, <1>2, <1>3

LEMMA PumpIdleTyped ==
  ASSUME TypeOK, NoTaskLost, NEW others \in SUBSET Tasks, PumpIdle(others)
  PROVE  /\ pendingUser' \in Seq(Tasks) /\ pendingAgent' \in Seq(Tasks)
         /\ pendingBackground' \in Seq(Tasks)
         /\ active' \in Tasks \cup {NoTask} /\ phase' \in {"running", "interrupted"}
         /\ runAge' \in 0 .. AgeCap /\ age' \in [Tasks -> 0 .. AgeCap]
         /\ watchdogTimer' \in 0 .. WatchdogMs \cup {Off}
         /\ graceTimer' \in 0 .. GraceMs \cup {Off}
         /\ escapee' \in Tasks \cup {NoTask}
         /\ executing' \subseteq Tasks
  <1>1. /\ active' \in Tasks \cup {NoTask}
        /\ executing' = others \cup ({active'} \ {NoTask})
    BY PumpIdleLanes
  <1>2. executing' \subseteq Tasks
    BY <1>1
  <1>3. /\ runAge' = 0 /\ phase' = "running" /\ graceTimer' = Off /\ escapee' = NoTask
        /\ age' \in [Tasks -> 0 .. AgeCap]
        /\ watchdogTimer' \in 0 .. WatchdogMs \cup {Off}
        /\ pendingUser' \in Seq(Tasks) /\ pendingAgent' \in Seq(Tasks)
        /\ pendingBackground' \in Seq(Tasks)
    BY PumpIdleLanes
  <1> QED BY <1>1, <1>2, <1>3, TimingAssumption

-----------------------------------------------------------------------------
\* Each step preserves SafeInv.
LEMMA EnqueueSafe ==
  ASSUME SafeInv, NEW t \in Tasks, Enqueue(t) PROVE SafeInv'
  <1>0. /\ ~ Waiting(t) /\ t \notin executing /\ t \notin unsettled
        /\ t \notin zombies /\ t # active /\ t # NoTask
    BY PendingIsWaiting, TasksAssumption
       DEF Enqueue, InUse, SafeInv, TypeOK, RunsExcludeEachOther
  <1>1. /\ pendingUser' \in Seq(Tasks) /\ Once(pendingUser')
        /\ pendingAgent' \in Seq(Tasks) /\ Once(pendingAgent')
        /\ pendingBackground' \in Seq(Tasks) /\ Once(pendingBackground')
        /\ \A s \in Tasks :
             /\ InLane(pendingUser', s)
                  <=> InLane(pendingUser, s) \/ (s = t /\ Lane[t] = "user")
             /\ InLane(pendingAgent', s)
                  <=> InLane(pendingAgent, s) \/ (s = t /\ Lane[t] = "agent")
             /\ InLane(pendingBackground', s)
                  <=> InLane(pendingBackground, s) \/ (s = t /\ Lane[t] = "background")
    <2>0. /\ pendingUser \in Seq(Tasks) /\ Once(pendingUser)
          /\ pendingAgent \in Seq(Tasks) /\ Once(pendingAgent)
          /\ pendingBackground \in Seq(Tasks) /\ Once(pendingBackground)
          /\ ~ InLane(pendingUser, t) /\ ~ InLane(pendingAgent, t)
          /\ ~ InLane(pendingBackground, t)
      BY <1>0 DEF SafeInv, TypeOK, NoTaskLost, Waiting
    <2>1. CASE Lane[t] = "user"
      <3>1. /\ pendingUser' = Append(pendingUser, t)
            /\ UNCHANGED <<pendingAgent, pendingBackground>>
        BY <2>1 DEF Enqueue
      <3> QED BY <2>0, <2>1, <3>1, AppendLane
    <2>2. CASE Lane[t] = "agent"
      <3>1. /\ pendingAgent' = Append(pendingAgent, t)
            /\ UNCHANGED <<pendingUser, pendingBackground>>
        BY <2>2 DEF Enqueue
      <3> QED BY <2>0, <2>2, <3>1, AppendLane
    <2>3. CASE Lane[t] = "background"
      <3>1. /\ pendingBackground' = Append(pendingBackground, t)
            /\ UNCHANGED <<pendingUser, pendingAgent>>
        BY <2>3 DEF Enqueue
      <3> QED BY <2>0, <2>3, <3>1, AppendLane
    <2> QED BY <2>1, <2>2, <2>3, TasksAssumption DEF Lanes
  <1>2. /\ unsettled' = unsettled \cup {t}
        /\ age' = [age EXCEPT ![t] = 0]
        /\ watchdogTimer' =
             Armed(pendingUser', age', active, runAge, watchdogTimer, graceTimer)
        /\ pumps' = pumps + 1 /\ pumps < MaxPumps
        /\ UNCHANGED <<active, phase, runAge, graceTimer, escapee, executing, zombies,
                       disposed, draining, awaitedRuns, awaitedTasks, drainCovers>>
    BY DEF Enqueue, run, drain
  <1>3. TypeOK'
    <2>1. age' \in [Tasks -> 0 .. AgeCap]
      BY <1>2, TimingAssumption DEF SafeInv, TypeOK
    <2>2. watchdogTimer' \in 0 .. WatchdogMs \cup {Off}
      BY <1>1, <1>2, <2>1, ArmedType DEF SafeInv, TypeOK
    <2>3. pumps' \in 0 .. MaxPumps
      BY <1>2, TimingAssumption DEF SafeInv, TypeOK
    <2> QED BY <1>1, <1>2, <2>1, <2>2, <2>3 DEF SafeInv, TypeOK
  <1>4. RunsExcludeEachOther'
    BY <1>2 DEF SafeInv, RunsExcludeEachOther
  <1>5. NoTaskLost'
    <2> SUFFICES ASSUME NEW s \in Tasks PROVE AtOnePlace(s)'
      BY <1>1 DEF NoTaskLost, AtOnePlace
    <2>1. AtOnePlace(s)
      BY DEF SafeInv, NoTaskLost, AtOnePlace
    <2>2. CASE s = t
      <3>1. /\ InLane(pendingUser, s)' <=> Lane[s] = "user"
            /\ InLane(pendingAgent, s)' <=> Lane[s] = "agent"
            /\ InLane(pendingBackground, s)' <=> Lane[s] = "background"
        BY <1>0, <1>1, <2>2 DEF Waiting
      <3>2. s \in unsettled' /\ s \notin executing'
        BY <1>0, <1>2, <2>2
      <3>3. Lane[s] \in {"user", "agent", "background"}
        BY TasksAssumption DEF Lanes
      <3> QED BY <3>1, <3>2, <3>3 DEF AtOnePlace
    <2>3. CASE s # t
      BY <1>1, <1>2, <2>1, <2>3 DEF AtOnePlace
    <2> QED BY <2>2, <2>3
  <1>6. Fresh'
    BY <1>0, <1>1, <1>2 DEF SafeInv, Fresh, Waiting
  <1> QED BY <1>3, <1>4, <1>5, <1>6 DEF SafeInv

\* pump() on an idle queue, called by a step that leaves unsettledNow of the
\* callers waiting and makes zombiesNow the zombies.
LEMMA PumpIdleSafe ==
  ASSUME TypeOK, NoTaskLost, Fresh,
         NEW others \in SUBSET executing, PumpIdle(others),
         others \ zombies' = {}, zombies' \in SUBSET Tasks,
         \A s \in Tasks : s \in zombies' => ~ Waiting(s),
         \A s \in Tasks : s \in unsettled' <=> Waiting(s)
  PROVE  RunsExcludeEachOther' /\ NoTaskLost' /\ Fresh'
  <1>1. others \in SUBSET Tasks
    BY DEF TypeOK
  <1>2. /\ Once(pendingUser)' /\ Once(pendingAgent)' /\ Once(pendingBackground)'
        /\ active' \in Tasks \cup {NoTask}
        /\ executing' = others \cup ({active'} \ {NoTask})
        /\ active' # NoTask => Waiting(active')
        /\ \A s \in Tasks :
             /\ InLane(pendingUser, s)' <=> InLane(pendingUser, s) /\ s # active'
             /\ InLane(pendingAgent, s)' <=> InLane(pendingAgent, s) /\ s # active'
             /\ InLane(pendingBackground, s)'
                  <=> InLane(pendingBackground, s) /\ s # active'
    BY <1>1, PumpIdleLanes
  <1>3. active' # NoTask => active' \notin zombies'
    BY <1>2
  <1>4. RunsExcludeEachOther'
    BY <1>2, <1>3, TasksAssumption DEF RunsExcludeEachOther
  <1>5. NoTaskLost'
    <2> SUFFICES ASSUME NEW s \in Tasks PROVE AtOnePlace(s)'
      BY <1>2 DEF NoTaskLost
    <2>1. AtOnePlace(s)
      BY DEF NoTaskLost
    <2>2. CASE s = active'
      <3>1. /\ ~ InLane(pendingUser, s)' /\ ~ InLane(pendingAgent, s)'
            /\ ~ InLane(pendingBackground, s)'
        BY <1>2, <2>2
      <3>2. s \in unsettled'
        BY <1>2, <2>2, TasksAssumption
      <3> QED BY <2>2, <3>1, <3>2 DEF AtOnePlace
    <2>3. CASE s # active'
      BY <1>2, <2>1, <2>3 DEF AtOnePlace, Waiting
    <2> QED BY <2>2, <2>3
  <1>6. Fresh'
    BY <1>2 DEF Fresh, Waiting
  <1> QED BY <1>4, <1>5, <1>6

LEMMA PumpSafe ==
  ASSUME SafeInv, Pump PROVE SafeInv'
  <1>0. /\ pumps' \in 0 .. MaxPumps
        /\ UNCHANGED <<unsettled, zombies, disposed, draining, awaitedRuns,
                       awaitedTasks, drainCovers>>
    BY TimingAssumption DEF Pump, SafeInv, TypeOK, drain
  <1>1. CASE UNCHANGED <<lanes, run, age, timers, executing>>
    BY <1>0, <1>1 DEF SafeInv, TypeOK, RunsExcludeEachOther, NoTaskLost, AtOnePlace,
       Fresh, Waiting, lanes, run, timers
  <1>2. CASE active = NoTask /\ PumpIdle(executing)
    <2>1. executing \ zombies' = {}
      BY <1>0, <1>2 DEF SafeInv, RunsExcludeEachOther
    <2>2. \A s \in Tasks : s \in unsettled' <=> Waiting(s)
      BY <1>0, <1>2, TasksAssumption DEF SafeInv, NoTaskLost, AtOnePlace, Waiting
    <2>3. zombies' \in SUBSET Tasks /\ \A s \in Tasks : s \in zombies' => ~ Waiting(s)
      BY <1>0 DEF SafeInv, Fresh, TypeOK
    <2>4. RunsExcludeEachOther' /\ NoTaskLost' /\ Fresh'
      BY <1>2, <2>1, <2>2, <2>3, PumpIdleSafe DEF SafeInv
    <2>5. executing \in SUBSET Tasks
      BY DEF SafeInv, TypeOK
    <2>6. TypeOK'
      BY <1>0, <1>2, <2>5, PumpIdleTyped DEF SafeInv, TypeOK
    <2> QED BY <2>4, <2>6 DEF SafeInv
  <1> QED BY <1>1, <1>2 DEF Pump, PumpRefuses

LEMMA RunSettlesSafe ==
  ASSUME SafeInv, NEW t \in Tasks, RunSettles(t) PROVE SafeInv'
  <1>0. /\ t \in executing
        /\ unsettled' = unsettled \ {t}
        /\ awaitedRuns' = awaitedRuns \ {t} /\ awaitedTasks' = awaitedTasks \ {t}
        /\ drainCovers' = drainCovers \ {t}
        /\ UNCHANGED <<zombies, pumps, disposed, draining>>
    BY DEF RunSettles, IsActive
  <1>t. /\ unsettled' \subseteq Tasks /\ awaitedRuns' \subseteq Tasks
        /\ awaitedTasks' \subseteq Tasks /\ drainCovers' \subseteq Tasks
        /\ zombies' \subseteq Tasks /\ pumps' \in 0 .. MaxPumps
        /\ disposed' \in BOOLEAN /\ draining' \in BOOLEAN
    BY <1>0 DEF SafeInv, TypeOK
  <1>1. CASE active # t
    <2>1. executing' = executing \ {t} /\ UNCHANGED <<lanes, run, age, timers>>
      BY <1>1 DEF RunSettles, IsActive
    <2>2. TypeOK'
      BY <1>t, <2>1 DEF SafeInv, TypeOK, lanes, run, timers
    <2>3. RunsExcludeEachOther'
      BY <1>0, <1>1, <2>1 DEF SafeInv, RunsExcludeEachOther, run
    <2>4. ASSUME NEW s \in Tasks PROVE AtOnePlace(s)'
      <3>1. AtOnePlace(s) /\ AtOnePlace(t)
        BY DEF SafeInv, NoTaskLost
      <3>2. t \notin unsettled
        BY <1>0, <1>1, <3>1 DEF AtOnePlace
      <3> QED BY <1>0, <2>1, <3>1, <3>2 DEF AtOnePlace, lanes, run
    <2>5. NoTaskLost' /\ Fresh'
      BY <1>0, <2>1, <2>4 DEF SafeInv, NoTaskLost, Fresh, Waiting, lanes
    <2> QED BY <2>2, <2>3, <2>5 DEF SafeInv
  <1>2. CASE active = t
    <2>1. PumpIdle(executing \ {t})
      BY <1>2 DEF RunSettles, IsActive
    <2>2. (executing \ {t}) \ zombies' = {} /\ executing \ {t} \in SUBSET executing
      BY <1>0, <1>2 DEF SafeInv, RunsExcludeEachOther
    <2>3. ASSUME NEW s \in Tasks PROVE s \in unsettled' <=> Waiting(s)
      BY <1>0, <1>2 DEF SafeInv, NoTaskLost, AtOnePlace, Waiting
    <2>4. zombies' \in SUBSET Tasks /\ \A s \in Tasks : s \in zombies' => ~ Waiting(s)
      BY <1>0 DEF SafeInv, Fresh, TypeOK
    <2>5. RunsExcludeEachOther' /\ NoTaskLost' /\ Fresh'
      BY <2>1, <2>2, <2>3, <2>4, PumpIdleSafe DEF SafeInv
    <2>6. executing \ {t} \in SUBSET Tasks
      BY DEF SafeInv, TypeOK
    <2>7. TypeOK'
      BY <1>t, <2>1, <2>6, PumpIdleTyped DEF SafeInv, TypeOK
    <2> QED BY <2>5, <2>7 DEF SafeInv
  <1> QED BY <1>1, <1>2

LEMMA GraceExpiresSafe ==
  ASSUME SafeInv, GraceExpires PROVE SafeInv'
  <1>0. UNCHANGED <<pumps, disposed, draining, awaitedRuns, drainCovers>>
    BY DEF GraceExpires
  <1>1. CASE /\ graceTimer' = Off /\ escapee' = NoTask
             /\ UNCHANGED <<lanes, run, age, watchdogTimer, executing, unsettled,
                            zombies, awaitedTasks>>
    BY <1>0, <1>1 DEF SafeInv, TypeOK, RunsExcludeEachOther, NoTaskLost, AtOnePlace,
       Fresh, Waiting, lanes, run
  <1>2. CASE /\ active # NoTask
             /\ unsettled' = unsettled \ {active}
             /\ zombies' = zombies \cup {active}
             /\ awaitedTasks' = awaitedTasks \ {active}
             /\ PumpIdle(executing)
    <2>0. active \in Tasks /\ active \in executing
      BY <1>2 DEF SafeInv, TypeOK, RunsExcludeEachOther
    <2>1. executing \ zombies' = {}
      BY <1>2 DEF SafeInv, RunsExcludeEachOther
    <2>2. ASSUME NEW s \in Tasks PROVE s \in unsettled' <=> Waiting(s)
      BY <1>2, <2>0 DEF SafeInv, NoTaskLost, AtOnePlace, Waiting
    <2>3. zombies' \in SUBSET Tasks /\ \A s \in Tasks : s \in zombies' => ~ Waiting(s)
      BY <1>2, <2>0 DEF SafeInv, Fresh, TypeOK, NoTaskLost, AtOnePlace, Waiting
    <2>4. RunsExcludeEachOther' /\ NoTaskLost' /\ Fresh'
      BY <1>2, <2>1, <2>2, <2>3, PumpIdleSafe DEF SafeInv
    <2>5. executing \in SUBSET Tasks
      BY DEF SafeInv, TypeOK
    <2>6. TypeOK'
      BY <1>0, <1>2, <2>5, <2>3, PumpIdleTyped DEF SafeInv, TypeOK
    <2> QED BY <2>4, <2>6 DEF SafeInv
  <1> QED BY <1>1, <1>2 DEF GraceExpires

\* The steps that only read the lanes and the runs.
LEMMA OthersSafe ==
  ASSUME SafeInv,
         \/ \E t \in Tasks : ZombieForgotten(t)
         \/ WatchdogFires \/ Drain \/ DrainReturns \/ Dispose \/ Tick
         \/ UNCHANGED vars
  PROVE  SafeInv'
  <1>1. ASSUME UNCHANGED <<lanes, active, executing, unsettled>>,
               zombies' \subseteq zombies,
               zombies \cap executing \subseteq zombies'
        PROVE  RunsExcludeEachOther' /\ NoTaskLost' /\ Fresh'
    <2>1. /\ pendingUser' = pendingUser /\ pendingAgent' = pendingAgent
          /\ pendingBackground' = pendingBackground
          /\ active' = active /\ executing' = executing /\ unsettled' = unsettled
      BY <1>1 DEF lanes
    <2>2. RunsExcludeEachOther'
      BY <1>1, <2>1 DEF SafeInv, RunsExcludeEachOther
    <2>3. NoTaskLost'
      BY <2>1 DEF SafeInv, NoTaskLost, AtOnePlace
    <2>4. Fresh'
      BY <1>1, <2>1 DEF SafeInv, Fresh, Waiting
    <2> QED BY <2>2, <2>3, <2>4
  <1>3. CASE \E t \in Tasks : ZombieForgotten(t)
    <2>1. TypeOK'
      BY <1>3 DEF ZombieForgotten, SafeInv, TypeOK, lanes, run, timers, drain
    <2>2. /\ UNCHANGED <<lanes, active, executing, unsettled>>
          /\ zombies' \subseteq zombies /\ zombies \cap executing \subseteq zombies'
      BY <1>3 DEF ZombieForgotten, run
    <2> QED BY <1>1, <2>1, <2>2 DEF SafeInv
  <1>4. CASE WatchdogFires
    <2>1. watchdogTimer' \in 0 .. WatchdogMs \cup {Off}
      <3>1. Armed(pendingUser, age, active, runAge, Off, graceTimer)
              \in 0 .. WatchdogMs \cup {Off}
        BY ArmedType DEF SafeInv, TypeOK
      <3> QED BY <1>4, <3>1 DEF WatchdogFires
    <2>2. /\ graceTimer' \in 0 .. GraceMs \cup {Off} /\ escapee' \in Tasks \cup {NoTask}
          /\ phase' \in {"running", "interrupted"}
      BY <1>4, TimingAssumption DEF WatchdogFires, SafeInv, TypeOK
    <2>3. UNCHANGED <<lanes, active, runAge, age, executing, unsettled, zombies, pumps,
                     disposed, drain>>
      BY <1>4 DEF WatchdogFires
    <2>4. TypeOK'
      BY <2>1, <2>2, <2>3 DEF SafeInv, TypeOK, lanes, drain
    <2> QED BY <1>1, <2>3, <2>4 DEF SafeInv
  <1>5. CASE Drain
    <2>1. Pending \subseteq Tasks
      BY DEF Pending, ToSet, SafeInv, TypeOK
    <2>2. TypeOK'
      BY <1>5, <2>1 DEF Drain, SnapshotRuns, SafeInv, TypeOK, lanes, run, timers
    <2>3. UNCHANGED <<lanes, active, executing, unsettled, zombies>>
      BY <1>5 DEF Drain, run
    <2> QED BY <1>1, <2>2, <2>3 DEF SafeInv
  <1>6. CASE DrainReturns
    <2>1. TypeOK'
      BY <1>6 DEF DrainReturns, SafeInv, TypeOK, lanes, run, timers
    <2>2. UNCHANGED <<lanes, active, executing, unsettled, zombies>>
      BY <1>6 DEF DrainReturns, run
    <2> QED BY <1>1, <2>1, <2>2 DEF SafeInv
  <1>7. CASE Dispose
    <2>1. TypeOK'
      BY <1>7 DEF Dispose, SafeInv, TypeOK, lanes, run, drain
    <2>2. UNCHANGED <<lanes, active, executing, unsettled, zombies>>
      BY <1>7 DEF Dispose, run
    <2> QED BY <1>1, <2>1, <2>2 DEF SafeInv
  <1>8. CASE Tick
    <2>1. age' \in [Tasks -> 0 .. AgeCap]
      <3>1. ASSUME NEW t \in Tasks PROVE Smaller(AgeCap, age[t] + 1) \in 0 .. AgeCap
        BY TimingAssumption DEF Smaller, SafeInv, TypeOK
      <3> QED BY <1>8, <3>1, TimingAssumption DEF Tick
    <2>2. runAge' \in 0 .. AgeCap
      BY <1>8, TimingAssumption DEF Tick, Smaller, SafeInv, TypeOK
    <2>3. /\ watchdogTimer' \in 0 .. WatchdogMs \cup {Off}
          /\ graceTimer' \in 0 .. GraceMs \cup {Off}
      BY <1>8, TimingAssumption DEF Tick, Elapsed, Larger, Off, SafeInv, TypeOK
    <2>4. UNCHANGED <<lanes, active, phase, escapee, executing, unsettled, zombies, pumps,
                     disposed, drain>>
      BY <1>8 DEF Tick
    <2>5. TypeOK'
      BY <2>1, <2>2, <2>3, <2>4 DEF SafeInv, TypeOK, lanes, drain
    <2> QED BY <1>1, <2>4, <2>5 DEF SafeInv
  <1>9. CASE UNCHANGED vars
    <2>1. TypeOK'
      BY <1>9 DEF vars, SafeInv, TypeOK, lanes, run, timers, drain
    <2>2. UNCHANGED <<lanes, active, executing, unsettled, zombies>>
      BY <1>9 DEF vars, run
    <2> QED BY <1>1, <2>1, <2>2 DEF SafeInv
  <1> QED BY <1>3, <1>4, <1>5, <1>6, <1>7, <1>8, <1>9

-----------------------------------------------------------------------------
LEMMA InitSafe == Init => SafeInv
  <1> SUFFICES ASSUME Init PROVE SafeInv
    OBVIOUS
  <1>1. TypeOK
    <2>1. <<>> \in Seq(Tasks)
      OBVIOUS
    <2>2. 0 \in 0 .. AgeCap /\ 0 \in 0 .. MaxPumps /\ [t \in Tasks |-> 0] \in [Tasks -> 0 .. AgeCap]
      BY TimingAssumption
    <2> QED BY <2>1, <2>2 DEF Init, TypeOK
  <1>2. RunsExcludeEachOther /\ NoTaskLost /\ Fresh
    BY TasksAssumption
       DEF Init, RunsExcludeEachOther, NoTaskLost, AtOnePlace, Fresh, Waiting, Once, InLane
  <1> QED BY <1>1, <1>2 DEF SafeInv

LEMMA StepSafe == SafeInv /\ [Next]_vars => SafeInv'
  BY EnqueueSafe, RunSettlesSafe, PumpSafe, GraceExpiresSafe, OthersSafe DEF Next

\* Every reachable state has its type, whatever the tasks and the timing.
THEOREM TypeCorrect == Spec => []TypeOK
  <1>1. SafeInv => TypeOK
    BY DEF SafeInv
  <1> QED BY InitSafe, StepSafe, <1>1, PTL DEF Spec

\* The runs of an agent exclude each other: what executes beside the active run
\* is a run the watchdog gave up on (queue.active and queue.zombies).
THEOREM Exclusion == Spec => []RunsExcludeEachOther
  <1>1. SafeInv => RunsExcludeEachOther
    BY DEF SafeInv
  <1> QED BY InitSafe, StepSafe, <1>1, PTL DEF Spec

\* enqueue() never loses a task nor runs one twice: the callers that wait are
\* those of the tasks in a lane and of the active run.
THEOREM NoneLost == Spec => []NoTaskLost
  <1>1. SafeInv => NoTaskLost
    BY DEF SafeInv
  <1> QED BY InitSafe, StepSafe, <1>1, PTL DEF Spec

-----------------------------------------------------------------------------
(***************************************************************************)
(* The two timers watch over a user who waits, no wake-up is lost, an      *)
(* escape is earned, drain and late settlements are what they should be,   *)
(* tasks keep their order, and the scheduler implements ExclusiveRuns.     *)
(***************************************************************************)
\* A watched user has waited, behind this run, for the watchdog's period and for
\* what has gone by of the grace period.
GraceIsEarned ==
  graceTimer # Off =>
    Smaller(age[Head(pendingUser)], runAge) + graceTimer >= WatchdogMs + GraceMs

\* What drain() covers, it awaits.
DrainAwaits == drainCovers \subseteq awaitedRuns

PromiseInv ==
  SafeInv /\ NoLostWakeup /\ WaitersAreWatched /\ GraceIsEarned /\ DrainAwaits

-----------------------------------------------------------------------------
\* Armed() leaves an armed watchdog exactly when there is something to watch.
LEMMA ArmedWatches ==
  ASSUME NEW users \in Seq(Tasks), NEW ages \in [Tasks -> 0 .. AgeCap], NEW act,
         NEW since \in 0 .. AgeCap
  PROVE  Armed(users, ages, act, since, Off, Off) # Off
           <=> users # <<>> /\ act # NoTask /\ ~disposed
  <1>1. CASE users = <<>>
    BY <1>1 DEF Armed
  <1>2. CASE users # <<>>
    <2>1. Head(users) \in Tasks
      BY <1>2
    <2>2. WaitedBehindActive(users, ages, since) \in 0 .. AgeCap
      BY <2>1 DEF WaitedBehindActive, Smaller
    <2>3. Larger(0, WatchdogMs - WaitedBehindActive(users, ages, since)) # Off
      BY <2>2, TimingAssumption DEF Larger, Off
    <2> QED BY <1>2, <2>3 DEF Armed
  <1> QED BY <1>1, <1>2

\* What pump() leaves of the timers and of the wake-up, whoever called it.
LEMMA PumpIdleWatches ==
  ASSUME TypeOK, NoTaskLost, NEW others \in SUBSET Tasks, PumpIdle(others), disposed' = disposed
  PROVE  /\ NoLostWakeup' /\ WaitersAreWatched' /\ GraceIsEarned'
         /\ graceTimer' = Off
  <1>1. CASE \E t \in Tasks : ~disposed /\ TakeNext(t) /\ StartRun(t)
    <2>1. PICK t \in Tasks : ~disposed /\ TakeNext(t) /\ StartRun(t)
      BY <1>1
    <2>2. /\ active' = t /\ age' = [age EXCEPT ![t] = 0]
          /\ watchdogTimer' = Armed(pendingUser', age', t, 0, Off, Off)
          /\ graceTimer' = Off /\ t # NoTask
      BY <2>1, TasksAssumption DEF StartRun
    <2>3. pendingUser' \in Seq(Tasks)
      BY <2>1, TakeNextLanes
    <2>4. age' \in [Tasks -> 0 .. AgeCap] /\ 0 \in 0 .. AgeCap
      BY <2>2, TimingAssumption DEF TypeOK
    <2>5. watchdogTimer' # Off <=> pendingUser' # <<>>
      BY <2>1, <2>2, <2>3, <2>4, ArmedWatches
    <2> QED BY <2>1, <2>2, <2>5 DEF NoLostWakeup, WaitersAreWatched, GraceIsEarned
  <1>2. CASE /\ disposed \/ Pending = {}
             /\ active' = NoTask /\ watchdogTimer' = Off /\ graceTimer' = Off
             /\ UNCHANGED lanes
    <2>1. Pending' = Pending
      BY <1>2 DEF Pending, lanes
    <2> QED BY <1>2, <2>1 DEF NoLostWakeup, WaitersAreWatched, GraceIsEarned
  <1> QED BY <1>1, <1>2 DEF PumpIdle

LEMMA SomeoneWaits ==
  ASSUME PromiseInv, graceTimer # Off
  PROVE  /\ ~disposed /\ active # NoTask /\ pendingUser # <<>> /\ watchdogTimer = Off
         /\ escapee = active /\ Head(pendingUser) \in Tasks /\ InLane(pendingUser, Head(pendingUser))
  <1>1. /\ ~disposed /\ active # NoTask /\ pendingUser # <<>> /\ watchdogTimer = Off
        /\ escapee = active
    BY DEF PromiseInv, WaitersAreWatched
  <1>2. pendingUser \in Seq(Tasks) /\ Len(pendingUser) > 0 /\ Head(pendingUser) = pendingUser[1]
    BY <1>1 DEF PromiseInv, SafeInv, TypeOK
  <1> QED BY <1>1, <1>2 DEF InLane

\* A step that changes nothing the timers look at.
LEMMA NothingWatched ==
  ASSUME PromiseInv,
         UNCHANGED <<lanes, active, phase, runAge, age, timers, pumps, disposed>>
  PROVE  NoLostWakeup' /\ WaitersAreWatched' /\ GraceIsEarned'
  <1>1. /\ UNCHANGED <<pendingUser, pendingAgent, pendingBackground>>
        /\ UNCHANGED <<watchdogTimer, graceTimer, escapee>>
    BY DEF lanes, timers
  <1>2. Pending' = Pending
    BY <1>1 DEF Pending
  <1> QED BY <1>1, <1>2 DEF PromiseInv, NoLostWakeup, WaitersAreWatched, GraceIsEarned

LEMMA EnqueueWatches ==
  ASSUME PromiseInv, NEW t \in Tasks, Enqueue(t)
  PROVE  NoLostWakeup' /\ WaitersAreWatched' /\ GraceIsEarned'
  <1>0. /\ pendingUser \in Seq(Tasks) /\ age \in [Tasks -> 0 .. AgeCap] /\ runAge \in 0 .. AgeCap
        /\ pumps \in Nat /\ ~InLane(pendingUser, t)
    BY PendingIsWaiting DEF PromiseInv, SafeInv, TypeOK, Enqueue, InUse, Waiting
  <1>1. /\ pendingUser' \in {pendingUser, Append(pendingUser, t)}
        /\ age' = [age EXCEPT ![t] = 0] /\ pumps' = pumps + 1
        /\ watchdogTimer' = Armed(pendingUser', age', active, runAge, watchdogTimer, graceTimer)
        /\ UNCHANGED <<active, phase, runAge, graceTimer, escapee, disposed>>
    BY DEF Enqueue, run
  <1>2. pendingUser' \in Seq(Tasks) /\ age' \in [Tasks -> 0 .. AgeCap]
        /\ (pendingUser # <<>> => pendingUser' # <<>> /\ Head(pendingUser') = Head(pendingUser))
    <2>1. 0 \in 0 .. AgeCap
      BY TimingAssumption
    <2>2. Append(pendingUser, t) \in Seq(Tasks) /\ Append(pendingUser, t) # <<>>
          /\ (pendingUser # <<>> => Head(Append(pendingUser, t)) = Head(pendingUser))
      BY <1>0
    <2>3. age' \in [Tasks -> 0 .. AgeCap]
      BY <1>0, <1>1, <2>1
    <2> QED BY <1>0, <1>1, <2>2, <2>3
  <1>a. Armed(pendingUser', age', active, runAge, Off, Off) # Off
          <=> pendingUser' # <<>> /\ active # NoTask /\ ~disposed
    BY <1>0, <1>2, ArmedWatches
  <1>3. WaitersAreWatched'
    <2>1. CASE watchdogTimer = Off /\ graceTimer = Off
      <3>1. watchdogTimer' # Off <=> pendingUser' # <<>> /\ active # NoTask /\ ~disposed
        BY <1>1, <1>a, <2>1
      <3> QED BY <1>1, <2>1, <3>1 DEF WaitersAreWatched
    <2>2. CASE watchdogTimer # Off \/ graceTimer # Off
      <3>1. watchdogTimer' = watchdogTimer
        BY <1>1, <2>2 DEF Armed
      <3> QED BY <1>1, <1>2, <2>2, <3>1 DEF PromiseInv, WaitersAreWatched
    <2> QED BY <2>1, <2>2
  <1>4. GraceIsEarned'
    <2> SUFFICES ASSUME graceTimer' # Off
                 PROVE  Smaller(age'[Head(pendingUser')], runAge') + graceTimer' >= WatchdogMs + GraceMs
      BY DEF GraceIsEarned
    <2>1. Head(pendingUser) \in Tasks /\ Head(pendingUser) # t /\ Head(pendingUser') = Head(pendingUser)
      BY <1>0, <1>1, <1>2, SomeoneWaits
    <2>2. age'[Head(pendingUser')] = age[Head(pendingUser)]
      BY <1>0, <1>1, <2>1
    <2> QED BY <1>1, <2>2 DEF PromiseInv, GraceIsEarned
  <1>5. NoLostWakeup'
    BY <1>0, <1>1 DEF NoLostWakeup
  <1> QED BY <1>3, <1>4, <1>5

LEMMA WatchdogWatches ==
  ASSUME PromiseInv, WatchdogFires
  PROVE  NoLostWakeup' /\ WaitersAreWatched' /\ GraceIsEarned'
  <1>0. /\ pendingUser \in Seq(Tasks) /\ age \in [Tasks -> 0 .. AgeCap] /\ runAge \in 0 .. AgeCap
        /\ ~disposed /\ active # NoTask /\ pendingUser # <<>> /\ graceTimer = Off
    BY DEF PromiseInv, SafeInv, TypeOK, WaitersAreWatched, WatchdogFires
  <1>1. UNCHANGED <<pendingUser, pendingAgent, pendingBackground, active, runAge, age, pumps, disposed>>
    BY DEF WatchdogFires, lanes
  <1>2. Pending' = Pending
    BY <1>1 DEF Pending
  <1>3. NoLostWakeup'
    BY <1>1, <1>2 DEF PromiseInv, NoLostWakeup
  <1>4. CASE /\ watchdogTimer' = Armed(pendingUser, age, active, runAge, Off, graceTimer)
             /\ UNCHANGED <<phase, graceTimer, escapee>>
    <2>1. watchdogTimer' # Off /\ graceTimer' = Off
      BY <1>0, <1>4, ArmedWatches
    <2> QED BY <1>0, <1>1, <1>3, <2>1 DEF WaitersAreWatched, GraceIsEarned
  <1>5. CASE /\ WaitedBehindActive(pendingUser, age, runAge) >= WatchdogMs
             /\ watchdogTimer' = Off /\ phase' = "interrupted"
             /\ graceTimer' = GraceMs /\ escapee' = active
    <2>1. graceTimer' # Off
      BY <1>5, TimingAssumption DEF Off
    <2>2. Head(pendingUser) \in Tasks
      BY <1>0
    <2>3. Smaller(age[Head(pendingUser)], runAge) \in Nat
      BY <1>0, <2>2 DEF Smaller
    <2>4. Smaller(age[Head(pendingUser)], runAge) + GraceMs >= WatchdogMs + GraceMs
      BY <1>5, <2>3, TimingAssumption DEF WaitedBehindActive
    <2> QED BY <1>0, <1>1, <1>3, <1>5, <2>1, <2>4 DEF WaitersAreWatched, GraceIsEarned
  <1> QED BY <1>0, <1>4, <1>5 DEF WatchdogFires

LEMMA TickWatches ==
  ASSUME PromiseInv, Tick
  PROVE  NoLostWakeup' /\ WaitersAreWatched' /\ GraceIsEarned'
  <1>0. /\ watchdogTimer \in 0 .. WatchdogMs \cup {Off} /\ graceTimer \in 0 .. GraceMs \cup {Off}
        /\ age \in [Tasks -> 0 .. AgeCap] /\ runAge \in 0 .. AgeCap
    BY DEF PromiseInv, SafeInv, TypeOK
  <1>1. UNCHANGED <<pendingUser, pendingAgent, pendingBackground, active, phase, escapee, pumps, disposed>>
    BY DEF Tick, lanes
  <1>2. Pending' = Pending
    BY <1>1 DEF Pending
  <1>3. (watchdogTimer' # Off <=> watchdogTimer # Off) /\ (graceTimer' # Off <=> graceTimer # Off)
    BY <1>0, TimingAssumption DEF Tick, Elapsed, Larger, Off
  <1>4. NoLostWakeup' /\ WaitersAreWatched'
    BY <1>1, <1>2, <1>3 DEF PromiseInv, NoLostWakeup, WaitersAreWatched
  <1>5. GraceIsEarned'
    <2> SUFFICES ASSUME graceTimer # Off
                 PROVE  Smaller(age'[Head(pendingUser)], runAge') + graceTimer' >= WatchdogMs + GraceMs
      BY <1>1, <1>3 DEF GraceIsEarned
    <2> DEFINE h == Head(pendingUser)
    <2>1. h \in Tasks /\ h \in ToSet(pendingUser) /\ active # NoTask
      BY SomeoneWaits DEF ToSet, InLane
    <2>2. age'[h] = Smaller(AgeCap, age[h] + 1) /\ runAge' = Smaller(AgeCap, runAge + 1)
      BY <2>1 DEF Tick
    <2>3. graceTimer' = Larger(0, graceTimer - 1) /\ graceTimer \in 0 .. GraceMs
      BY <1>0 DEF Tick, Elapsed
    <2>4. Smaller(age[h], runAge) + graceTimer >= WatchdogMs + GraceMs
      BY DEF PromiseInv, GraceIsEarned
    <2>5. age[h] \in Nat /\ runAge \in Nat
      BY <1>0, <2>1
    <2> HIDE DEF h
    <2>6. Smaller(age'[h], runAge') + graceTimer' >= WatchdogMs + GraceMs
      BY <2>2, <2>3, <2>4, <2>5, TimingAssumption DEF Smaller, Larger
    <2> QED BY <2>6 DEF h
  <1> QED BY <1>4, <1>5

LEMMA RunsWatched ==
  ASSUME PromiseInv, Pump \/ GraceExpires \/ \E t \in Tasks : RunSettles(t)
  PROVE  NoLostWakeup' /\ WaitersAreWatched' /\ GraceIsEarned'
  <1>0. /\ TypeOK /\ NoTaskLost /\ executing \in SUBSET Tasks
        /\ \A t \in Tasks : executing \ {t} \in SUBSET Tasks
    BY DEF PromiseInv, SafeInv, TypeOK
  <1>1. CASE Pump
    <2>1. CASE PumpRefuses
      <3>1. UNCHANGED <<lanes, active, phase, runAge, age, timers, disposed>>
        BY <1>1, <2>1 DEF Pump, run
      <3>2. /\ UNCHANGED <<pendingUser, pendingAgent, pendingBackground>>
            /\ UNCHANGED <<watchdogTimer, graceTimer, escapee>>
        BY <3>1 DEF lanes, timers
      <3> QED BY <2>1, <3>1, <3>2
              DEF PumpRefuses, PromiseInv, NoLostWakeup, WaitersAreWatched, GraceIsEarned
    <2>2. CASE ~PumpRefuses
      <3>1. PumpIdle(executing) /\ disposed' = disposed
        BY <1>1, <2>2 DEF Pump
      <3> QED BY <1>0, <3>1, PumpIdleWatches
    <2> QED BY <2>1, <2>2
  <1>2. CASE GraceExpires
    <2>1. graceTimer # Off /\ disposed' = disposed
      BY <1>2 DEF GraceExpires
    <2>2. PumpIdle(executing)
      BY <1>2, <2>1, SomeoneWaits DEF GraceExpires
    <2> QED BY <1>0, <2>1, <2>2, PumpIdleWatches
  <1>3. CASE \E t \in Tasks : RunSettles(t)
    <2>1. PICK t \in Tasks : RunSettles(t)
      BY <1>3
    <2>2. CASE active = t
      <3>1. PumpIdle(executing \ {t}) /\ disposed' = disposed
        BY <2>1, <2>2 DEF RunSettles, IsActive
      <3> QED BY <1>0, <3>1, PumpIdleWatches
    <2>3. CASE active # t
      <3>1. UNCHANGED <<lanes, active, phase, runAge, age, timers, pumps, disposed>>
        BY <2>1, <2>3 DEF RunSettles, IsActive, run
      <3> QED BY <3>1, NothingWatched
    <2> QED BY <2>2, <2>3
  <1> QED BY <1>1, <1>2, <1>3

LEMMA WatchesStep ==
  ASSUME PromiseInv, [Next]_vars
  PROVE  NoLostWakeup' /\ WaitersAreWatched' /\ GraceIsEarned'
  <1>1. CASE (\E t \in Tasks : ZombieForgotten(t)) \/ Drain \/ DrainReturns \/ UNCHANGED vars
    <2>1. UNCHANGED <<lanes, active, phase, runAge, age, timers, pumps, disposed>>
      BY <1>1 DEF ZombieForgotten, Drain, DrainReturns, vars, run
    <2> QED BY <2>1, NothingWatched
  <1>2. CASE Dispose
    BY <1>2 DEF Dispose, NoLostWakeup, WaitersAreWatched, GraceIsEarned
  <1> QED BY <1>1, <1>2, EnqueueWatches, WatchdogWatches, TickWatches, RunsWatched DEF Next

LEMMA DrainStep ==
  ASSUME PromiseInv, [Next]_vars
  PROVE  DrainAwaits'
  <1>1. CASE Drain
    BY <1>1 DEF Drain, SnapshotRuns, DrainAwaits, PromiseInv, SafeInv, RunsExcludeEachOther
  <1>2. CASE \E t \in Tasks : RunSettles(t)
    BY <1>2 DEF RunSettles, DrainAwaits, PromiseInv
  <1>3. CASE DrainReturns
    BY <1>3 DEF DrainReturns, DrainAwaits
  <1>4. CASE UNCHANGED <<awaitedRuns, drainCovers>>
    BY <1>4 DEF DrainAwaits, PromiseInv
  <1> QED BY <1>1, <1>2, <1>3, <1>4
          DEF Next, Enqueue, ZombieForgotten, Pump, WatchdogFires, GraceExpires, Dispose, Tick,
              vars, drain

LEMMA PromiseStep == PromiseInv /\ [Next]_vars => PromiseInv'
  BY StepSafe, WatchesStep, DrainStep DEF PromiseInv

LEMMA PromiseAlways == Spec => []PromiseInv
  <1>1. Init => NoLostWakeup /\ WaitersAreWatched /\ GraceIsEarned /\ DrainAwaits
    BY DEF Init, NoLostWakeup, WaitersAreWatched, GraceIsEarned, DrainAwaits, Pending, ToSet
  <1> QED BY <1>1, InitSafe, PromiseStep, PTL DEF Spec, PromiseInv

\* Tasks wait in an idle queue only while a microtask that pumps it is on its way.
THEOREM WakeupsKept == Spec => []NoLostWakeup
  BY PromiseAlways, PTL DEF PromiseInv

\* armWatchdog and its callers keep exactly one timer armed while a user waits
\* behind a run, and none otherwise.
THEOREM UsersWatched == Spec => []WaitersAreWatched
  BY PromiseAlways, PTL DEF PromiseInv

-----------------------------------------------------------------------------
\* drain() has waited for every run that was executing when it was called.
THEOREM DrainSound == Spec => DrainIsSound
  <1>1. PromiseInv /\ [Next]_vars => [draining /\ ~draining' => drainCovers \cap executing = {}]_vars
    <2> SUFFICES ASSUME PromiseInv, [Next]_vars, draining, ~draining'
                 PROVE  drainCovers \cap executing = {}
      OBVIOUS
    <2>1. awaitedRuns \cap executing = {}
      BY DEF Next, Enqueue, RunSettles, ZombieForgotten, Pump, WatchdogFires, GraceExpires, Drain,
             DrainReturns, Dispose, Tick, vars, drain
    <2> QED BY <2>1 DEF PromiseInv, DrainAwaits
  <1> QED BY <1>1, PromiseAlways, PTL DEF Spec, DrainIsSound

\* A run becomes a zombie (escapeWedgedRun) only after a user has waited behind it
\* for both periods, less the slack of the timer.
THEOREM EscapeEarned == Spec => EscapeIsEarned
  <1>1. PromiseInv /\ [Next]_vars =>
          [\A t \in Tasks : t \in zombies' \ zombies =>
             /\ t = active /\ pendingUser # <<>>
             /\ Smaller(age[Head(pendingUser)], runAge) >= WatchdogMs + GraceMs - TimerSlack]_vars
    <2> SUFFICES ASSUME PromiseInv, [Next]_vars, NEW t \in Tasks, t \in zombies', t \notin zombies
                 PROVE  /\ t = active /\ pendingUser # <<>>
                        /\ Smaller(age[Head(pendingUser)], runAge)
                             >= WatchdogMs + GraceMs - TimerSlack
      OBVIOUS
    <2>1. GraceExpires /\ t = active
      BY DEF Next, Enqueue, RunSettles, ZombieForgotten, Pump, WatchdogFires, GraceExpires, Drain,
             DrainReturns, Dispose, Tick, vars
    <2>2. graceTimer # Off /\ graceTimer <= TimerSlack
      BY <2>1 DEF GraceExpires
    <2>3. /\ pendingUser # <<>> /\ Head(pendingUser) \in Tasks
          /\ Smaller(age[Head(pendingUser)], runAge) + graceTimer >= WatchdogMs + GraceMs
      BY <2>2, SomeoneWaits DEF PromiseInv, GraceIsEarned
    <2>4. graceTimer \in Nat /\ Smaller(age[Head(pendingUser)], runAge) \in Nat
      BY <2>2, <2>3 DEF PromiseInv, SafeInv, TypeOK, Smaller
    <2> QED BY <2>1, <2>2, <2>3, <2>4, TimingAssumption
  <1> QED BY <1>1, PromiseAlways, PTL DEF Spec, EscapeIsEarned

\* PumpIdle ends no run.
LEMMA PumpIdleExecuting ==
  ASSUME NEW others, PumpIdle(others) PROVE others \subseteq executing'
  BY DEF PumpIdle

\* A run that was escaped settles without a trace (late_settle in onTaskSettled).
THEOREM LateSettlesSilent == Spec => LateSettleIsSilent
  <1>1. PromiseInv /\ [Next]_vars =>
          [\A t \in zombies : t \in executing \ executing' => UNCHANGED <<lanes, run, timers>>]_vars
    <2> SUFFICES ASSUME PromiseInv, [Next]_vars, NEW t \in zombies, t \in executing, t \notin executing'
                 PROVE  UNCHANGED <<lanes, run, timers>>
      OBVIOUS
    <2>1. CASE \E u \in Tasks : RunSettles(u)
      <3>1. PICK u \in Tasks : RunSettles(u)
        BY <2>1
      <3>2. active # t
        BY DEF PromiseInv, SafeInv, RunsExcludeEachOther
      <3>3. CASE active = u
        BY <3>1, <3>2, <3>3, PumpIdleExecuting DEF RunSettles, IsActive
      <3>4. CASE active # u
        BY <3>1, <3>4 DEF RunSettles, IsActive
      <3> QED BY <3>3, <3>4
    <2>2. CASE Pump \/ GraceExpires
      BY <2>2, PumpIdleExecuting DEF Pump, GraceExpires
    <2>3. CASE executing' = executing
      BY <2>3
    <2> QED BY <2>1, <2>2, <2>3
            DEF Next, Enqueue, ZombieForgotten, WatchdogFires, Drain, DrainReturns, Dispose, Tick, vars
  <1> QED BY <1>1, PromiseAlways, PTL DEF Spec, LateSettleIsSilent

-----------------------------------------------------------------------------
\* The order of a lane.
Before(q, s, t) == \E i, j \in DOMAIN q : i < j /\ q[i] = s /\ q[j] = t

LEMMA AheadIsBefore ==
  \A s, t : Ahead(s, t) <=>
    Before(pendingUser, s, t) \/ Before(pendingAgent, s, t) \/ Before(pendingBackground, s, t)
  BY DEF Ahead, Before

LEMMA AheadNext ==
  \A s, t : Ahead(s, t)' <=>
    Before(pendingUser', s, t) \/ Before(pendingAgent', s, t) \/ Before(pendingBackground', s, t)
  BY DEF Ahead, Before

LEMMA RemoveAtBefore ==
  ASSUME NEW S, NEW q \in Seq(S), NEW i \in DOMAIN q, NEW s, NEW t, Before(q, s, t),
         s # q[i], t # q[i]
  PROVE  Before(RemoveAt(q, i), s, t)
  <1> DEFINE r == RemoveAt(q, i)
  <1>0. /\ i \in 1 .. Len(q) /\ Len(q) \in Nat /\ DOMAIN q = 1 .. Len(q)
    OBVIOUS
  <1>1. /\ r \in Seq(S) /\ Len(r) = Len(q) - 1
        /\ \A k \in 1 .. Len(q) - 1 : r[k] = IF k < i THEN q[k] ELSE q[k + 1]
    BY RemoveAtElements
  <1> HIDE DEF r
  <1>2. DOMAIN r = 1 .. Len(q) - 1
    BY <1>1
  <1>3. PICK a, b \in 1 .. Len(q) : a < b /\ q[a] = s /\ q[b] = t
    BY <1>0 DEF Before
  <1>4. PICK x \in 1 .. Len(q) - 1 : x = (IF a < i THEN a ELSE a - 1) /\ r[x] = s
    <2>1. CASE a < i
      BY <1>0, <1>1, <1>3, <2>1
    <2>2. CASE a > i
      <3>1. a - 1 \in 1 .. Len(q) - 1 /\ ~(a - 1 < i) /\ (a - 1) + 1 = a
        BY <1>0, <2>2
      <3> QED BY <1>1, <1>3, <2>2, <3>1
    <2> QED BY <1>0, <1>3, <2>1, <2>2
  <1>5. PICK y \in 1 .. Len(q) - 1 : y = (IF b < i THEN b ELSE b - 1) /\ r[y] = t
    <2>1. CASE b < i
      BY <1>0, <1>1, <1>3, <2>1
    <2>2. CASE b > i
      <3>1. b - 1 \in 1 .. Len(q) - 1 /\ ~(b - 1 < i) /\ (b - 1) + 1 = b
        BY <1>0, <2>2
      <3> QED BY <1>1, <1>3, <2>2, <3>1
    <2> QED BY <1>0, <1>3, <2>1, <2>2
  <1>6. a # i /\ b # i
    BY <1>3
  <1>7. x < y
    BY <1>0, <1>3, <1>4, <1>5, <1>6
  <1>8. Before(r, s, t)
    BY <1>2, <1>4, <1>5, <1>7 DEF Before
  <1> QED BY <1>8 DEF r

LEMMA TailBefore ==
  ASSUME NEW S, NEW q \in Seq(S), q # <<>>, NEW s, NEW t, Before(q, s, t), s # Head(q)
  PROVE  Before(Tail(q), s, t)
  <1>0. /\ Len(q) \in Nat /\ DOMAIN q = 1 .. Len(q) /\ Head(q) = q[1]
        /\ DOMAIN Tail(q) = 1 .. Len(q) - 1
        /\ \A k \in 1 .. Len(q) - 1 : Tail(q)[k] = q[k + 1]
    OBVIOUS
  <1>1. PICK a, b \in 1 .. Len(q) : a < b /\ q[a] = s /\ q[b] = t
    BY <1>0 DEF Before
  <1>2. a - 1 \in 1 .. Len(q) - 1 /\ b - 1 \in 1 .. Len(q) - 1 /\ a - 1 < b - 1
    BY <1>0, <1>1
  <1>3. Tail(q)[a - 1] = s /\ Tail(q)[b - 1] = t
    BY <1>0, <1>1, <1>2
  <1> QED BY <1>0, <1>2, <1>3 DEF Before

LEMMA AppendBefore ==
  ASSUME NEW S, NEW q \in Seq(S), NEW e \in S, NEW s, NEW t, Before(q, s, t)
  PROVE  Before(Append(q, e), s, t)
  <1>0. /\ Len(q) \in Nat /\ DOMAIN q = 1 .. Len(q)
        /\ DOMAIN Append(q, e) = 1 .. Len(q) + 1
        /\ \A k \in 1 .. Len(q) : Append(q, e)[k] = q[k]
    OBVIOUS
  <1> QED BY <1>0 DEF Before

LEMMA TakeNextOrder ==
  ASSUME SafeInv, NEW r \in Tasks, TakeNext(r), NEW s \in Tasks, NEW t \in Tasks,
         Ahead(s, t), SameKind(s, t), s # r
  PROVE  Ahead(s, t)'
  <1>0. /\ pendingUser \in Seq(Tasks) /\ Once(pendingUser)
        /\ pendingAgent \in Seq(Tasks) /\ pendingBackground \in Seq(Tasks)
    BY DEF SafeInv, TypeOK, NoTaskLost
  <1>1. Before(pendingUser, s, t) \/ Before(pendingAgent, s, t) \/ Before(pendingBackground, s, t)
    BY AheadIsBefore
  <1>2. CASE TakeNextUser(r) /\ UNCHANGED <<pendingAgent, pendingBackground>>
    <2>1. PICK i \in DOMAIN pendingUser :
                 /\ IsNextUser(pendingUser, i) /\ r = pendingUser[i]
                 /\ pendingUser' = RemoveAt(pendingUser, i)
      BY <1>2 DEF TakeNextUser
    <2>2. CASE Before(pendingUser, s, t)
      <3>1. PICK a, b \in DOMAIN pendingUser : a < b /\ pendingUser[a] = s /\ pendingUser[b] = t
        BY <2>2 DEF Before
      <3>2. DOMAIN pendingUser = 1 .. Len(pendingUser) /\ Len(pendingUser) \in Nat
        BY <1>0
      <3>3. t # r
        <4> SUFFICES ASSUME t = r PROVE FALSE
          OBVIOUS
        <4>1. b = i
          BY <1>0, <2>1, <3>1 DEF Once
        <4>2. s \in GroupMember
          BY <2>1, <3>1, <3>2, <4>1 DEF IsNextUser
        <4>3. pendingUser[i] \in GroupMember
          BY <2>1, <4>2 DEF SameKind
        <4> QED BY <2>1, <3>1, <3>2, <4>1, <4>3 DEF IsNextUser
      <3>4. Before(pendingUser', s, t)
        BY <1>0, <2>1, <2>2, <3>3, RemoveAtBefore
      <3> QED BY <3>4, AheadNext
    <2> QED BY <1>1, <1>2, <2>2, AheadNext
  <1>3. CASE /\ pendingAgent # <<>> /\ r = Head(pendingAgent)
             /\ pendingAgent' = Tail(pendingAgent) /\ UNCHANGED <<pendingUser, pendingBackground>>
    <2>1. Before(pendingAgent, s, t) => Before(pendingAgent', s, t)
      BY <1>0, <1>3, TailBefore
    <2> QED BY <1>1, <1>3, <2>1, AheadNext
  <1>4. CASE /\ pendingBackground # <<>> /\ r = Head(pendingBackground)
             /\ pendingBackground' = Tail(pendingBackground)
             /\ UNCHANGED <<pendingUser, pendingAgent>>
    <2>1. Before(pendingBackground, s, t) => Before(pendingBackground', s, t)
      BY <1>0, <1>4, TailBefore
    <2> QED BY <1>1, <1>4, <2>1, AheadNext
  <1> QED BY <1>2, <1>3, <1>4 DEF TakeNext

LEMMA PendingNext ==
  \A t : t \in Pending' <=>
    InLane(pendingUser, t)' \/ InLane(pendingAgent, t)' \/ InLane(pendingBackground, t)'
  BY DEF Pending, InLane, ToSet

\* A step of pump() on an idle queue keeps the order.
LEMMA PumpIdleOrder ==
  ASSUME SafeInv, NEW others, PumpIdle(others), NEW s \in Tasks, NEW t \in Tasks,
         Ahead(s, t), SameKind(s, t)
  PROVE  Ahead(s, t)' \/ s \notin Pending'
  <1>1. CASE \E r \in Tasks : TakeNext(r)
    <2>1. PICK r \in Tasks : TakeNext(r)
      BY <1>1
    <2>2. CASE s = r
      <3>1. ~InLane(pendingUser, s)' /\ ~InLane(pendingAgent, s)' /\ ~InLane(pendingBackground, s)'
        BY <2>1, <2>2, TakeNextLanes DEF SafeInv
      <3> QED BY <3>1, PendingNext
    <2> QED BY <2>1, <2>2, TakeNextOrder
  <1>2. CASE UNCHANGED lanes
    BY <1>2, AheadIsBefore, AheadNext DEF lanes
  <1> QED BY <1>1, <1>2 DEF PumpIdle

\* Tasks of one lane keep their order, up to direct prompts that overtake the
\* turns of group members (takeNextUserTask).
THEOREM OrderKept == Spec => OrderIsKept
  <1>1. PromiseInv /\ [Next]_vars =>
          [\A s, t \in Tasks :
             Ahead(s, t) /\ SameKind(s, t) => Ahead(s, t)' \/ s \notin Pending']_vars
    <2> SUFFICES ASSUME PromiseInv, [Next]_vars, NEW s \in Tasks, NEW t \in Tasks,
                        Ahead(s, t), SameKind(s, t)
                 PROVE  Ahead(s, t)' \/ s \notin Pending'
      OBVIOUS
    <2>0. SafeInv
      BY DEF PromiseInv
    <2>1. CASE \E others : PumpIdle(others)
      BY <2>0, <2>1, PumpIdleOrder
    <2>2. CASE UNCHANGED lanes
      BY <2>2, AheadIsBefore, AheadNext DEF lanes
    <2>3. CASE \E r \in Tasks : Enqueue(r)
      <3>1. PICK r \in Tasks : Enqueue(r)
        BY <2>3
      <3>2. /\ pendingUser \in Seq(Tasks) /\ pendingAgent \in Seq(Tasks)
            /\ pendingBackground \in Seq(Tasks)
        BY <2>0 DEF SafeInv, TypeOK
      <3>3. /\ pendingUser' \in {pendingUser, Append(pendingUser, r)}
            /\ pendingAgent' \in {pendingAgent, Append(pendingAgent, r)}
            /\ pendingBackground' \in {pendingBackground, Append(pendingBackground, r)}
        BY <3>1 DEF Enqueue
      <3>4. /\ Before(pendingUser, s, t) => Before(pendingUser', s, t)
            /\ Before(pendingAgent, s, t) => Before(pendingAgent', s, t)
            /\ Before(pendingBackground, s, t) => Before(pendingBackground', s, t)
        BY <3>2, <3>3, AppendBefore
      <3> QED BY <3>4, AheadIsBefore, AheadNext
    <2>4. (\E others : PumpIdle(others)) \/ UNCHANGED lanes \/ \E r \in Tasks : Enqueue(r)
      BY DEF Next, RunSettles, ZombieForgotten, Pump, WatchdogFires, GraceExpires, Drain,
             DrainReturns, Dispose, Tick, vars
    <2> QED BY <2>1, <2>2, <2>3, <2>4
  <1> QED BY <1>1, PromiseAlways, PTL DEF Spec, OrderIsKept

-----------------------------------------------------------------------------
(* The scheduler implements ExclusiveRuns. *)

LEMMA Ranks ==
  ASSUME NEW t \in Tasks
  PROVE  /\ Lane[t] = "user" => RankOf(t) = IF t \in GroupMember THEN 1 ELSE 0
         /\ Lane[t] = "agent" => RankOf(t) = 2
         /\ Lane[t] = "background" => RankOf(t) = 3
         /\ RankOf(t) \in 0 .. 3
         /\ Lane[t] \in {"user", "agent", "background"}
  BY TasksAssumption DEF RankOf, Lanes

\* pump() starts a task of the lowest rank that waits.
LEMMA NextIsUrgent ==
  ASSUME SafeInv, NEW t \in Tasks, TakeNext(t)
  PROVE  t \in Pending /\ \A s \in Pending : RankOf(t) <= RankOf(s)
  <1>0. /\ pendingUser \in Seq(Tasks) /\ pendingAgent \in Seq(Tasks)
        /\ pendingBackground \in Seq(Tasks)
        /\ \A s \in Tasks : /\ InLane(pendingUser, s) => Lane[s] = "user"
                            /\ InLane(pendingAgent, s) => Lane[s] = "agent"
                            /\ InLane(pendingBackground, s) => Lane[s] = "background"
    BY DEF SafeInv, TypeOK, NoTaskLost, AtOnePlace
  <1>1. t \in Pending
    BY TakeNextLanes, PendingIsWaiting DEF SafeInv
  <1>2. ASSUME NEW s \in Pending PROVE RankOf(t) <= RankOf(s)
    <2>0. s \in Tasks /\ Waiting(s)
      BY <1>0, PendingIsWaiting DEF Waiting, InLane
    <2>e. ~InLane(<<>>, s)
      BY DEF InLane
    <2>1. CASE TakeNextUser(t)
      <3>1. PICK i \in DOMAIN pendingUser : IsNextUser(pendingUser, i) /\ t = pendingUser[i]
        BY <2>1 DEF TakeNextUser
      <3>2. Lane[t] = "user"
        BY <1>0, <3>1 DEF InLane
      <3>3. CASE Lane[s] # "user"
        BY <2>0, <3>2, <3>3, Ranks
      <3>4. CASE Lane[s] = "user"
        <4>1. InLane(pendingUser, s)
          BY <1>0, <2>0, <3>4 DEF Waiting
        <4>2. s \in ToSet(pendingUser)
          BY <4>1 DEF InLane, ToSet
        <4>3. t \in GroupMember => s \in GroupMember
          BY <3>1, <4>2 DEF IsNextUser
        <4> QED BY <2>0, <3>2, <3>4, <4>3, Ranks
      <3> QED BY <3>3, <3>4
    <2>2. CASE pendingUser = <<>> /\ pendingAgent # <<>> /\ t = Head(pendingAgent)
      <3>1. InLane(pendingAgent, t)
        <4>1. Len(pendingAgent) > 0 /\ Head(pendingAgent) = pendingAgent[1] /\ 1 \in DOMAIN pendingAgent
          BY <1>0, <2>2
        <4> QED BY <2>2, <4>1 DEF InLane
      <3>2. Lane[t] = "agent" /\ Lane[s] \in {"agent", "background"}
        BY <1>0, <2>0, <2>2, <2>e, <3>1 DEF Waiting
      <3> QED BY <2>0, <3>2, Ranks
    <2>3. CASE pendingUser = <<>> /\ pendingAgent = <<>> /\ pendingBackground # <<>>
               /\ t = Head(pendingBackground)
      <3>1. Lane[s] = "background"
        BY <1>0, <2>0, <2>3, <2>e DEF Waiting
      <3> QED BY <2>0, <3>1, Ranks
    <2> QED BY <2>1, <2>2, <2>3 DEF TakeNext
  <1> QED BY <1>1, <1>2

\* What pump() on an idle queue means to the promise.
LEMMA HandsOver ==
  ASSUME SafeInv, NEW others \in SUBSET executing, PumpIdle(others)
  PROVE  /\ Promise!HandOver
         /\ ~disposed /\ Pending # {} => active' # NoTask
         /\ active' # NoTask => active' \in Tasks /\ Waiting(active')
         /\ executing' = others \cup ({active'} \ {NoTask})
  <1>0. others \in SUBSET Tasks /\ TypeOK /\ NoTaskLost
    BY DEF SafeInv, TypeOK
  <1>1. CASE \E t \in Tasks : /\ ~disposed /\ TakeNext(t) /\ StartRun(t)
                              /\ executing' = others \cup {t}
    <2>1. PICK t \in Tasks : /\ ~disposed /\ TakeNext(t) /\ StartRun(t)
                             /\ executing' = others \cup {t}
      BY <1>1
    <2>2. active' = t /\ t # NoTask
      BY <2>1, TasksAssumption DEF StartRun
    <2>3. t \in Pending /\ \A s \in Pending : RankOf(t) <= RankOf(s)
      BY <2>1, NextIsUrgent
    <2>4. Pending' = Pending \ {t}
      <3>1. \A s \in Tasks : /\ InLane(pendingUser, s)' <=> InLane(pendingUser, s) /\ s # t
                             /\ InLane(pendingAgent, s)' <=> InLane(pendingAgent, s) /\ s # t
                             /\ InLane(pendingBackground, s)'
                                  <=> InLane(pendingBackground, s) /\ s # t
        BY <1>0, <2>1, TakeNextLanes
      <3>2. pendingUser' \in Seq(Tasks) /\ pendingAgent' \in Seq(Tasks)
            /\ pendingBackground' \in Seq(Tasks)
        BY <1>0, <2>1, TakeNextLanes
      <3>3. Pending \subseteq Tasks /\ Pending' \subseteq Tasks
        BY <1>0, <3>2 DEF TypeOK, Pending, ToSet
      <3> QED BY <3>1, <3>3, PendingIsWaiting, PendingNext DEF Waiting
    <2>5. Pending \subseteq Tasks
      BY <1>0 DEF TypeOK, Pending, ToSet
    <2>6. t \in Promise!Urgent
      BY <2>3, <2>5 DEF Promise!Urgent
    <2>7. Promise!HandOver
      BY <2>1, <2>2, <2>4, <2>6 DEF Promise!HandOver
    <2> QED BY <2>1, <2>2, <2>3, <2>7, PendingIsWaiting
  <1>2. CASE /\ disposed \/ Pending = {}
             /\ active' = NoTask /\ executing' = others /\ UNCHANGED lanes
    <2>1. Pending' = Pending
      BY <1>2 DEF Pending, lanes
    <2>2. Promise!HandOver
      BY <1>2, <2>1 DEF Promise!HandOver
    <2> QED BY <1>2, <2>2
  <1> QED BY <1>1, <1>2 DEF PumpIdle

LEMMA Implements == PromiseInv /\ [Next]_vars => [Promise!Next]_Promise!vars
  <1> SUFFICES ASSUME PromiseInv, [Next]_vars PROVE Promise!Next \/ UNCHANGED Promise!vars
    OBVIOUS
  <1>0. /\ SafeInv /\ RunsExcludeEachOther /\ Fresh
        /\ executing \subseteq Tasks /\ zombies \subseteq Tasks
    BY DEF PromiseInv, SafeInv, TypeOK
  <1>s. ASSUME UNCHANGED <<lanes, active, disposed>>, (zombies \cap executing)' = zombies \cap executing
        PROVE  UNCHANGED Promise!vars
    BY <1>s DEF Promise!vars, Pending, lanes
  <1>1. CASE \E t \in Tasks : Enqueue(t)
    <2>1. PICK t \in Tasks : Enqueue(t)
      BY <1>1
    <2>2. t \notin Pending \cup (zombies \cap executing) \cup {active}
      BY <1>0, <2>1, TasksAssumption DEF Enqueue, InUse, RunsExcludeEachOther
    <2>3. Pending' = Pending \cup {t}
      <3>1. /\ pendingUser \in Seq(Tasks) /\ pendingAgent \in Seq(Tasks)
            /\ pendingBackground \in Seq(Tasks)
        BY <1>0 DEF SafeInv, TypeOK
      <3>2. \A q \in Seq(Tasks) : ToSet(Append(q, t)) = ToSet(q) \cup {t}
        <4> SUFFICES ASSUME NEW q \in Seq(Tasks) PROVE ToSet(Append(q, t)) = ToSet(q) \cup {t}
          OBVIOUS
        <4>1. /\ Len(q) \in Nat /\ DOMAIN q = 1 .. Len(q) /\ DOMAIN Append(q, t) = 1 .. Len(q) + 1
              /\ \A k \in 1 .. Len(q) : Append(q, t)[k] = q[k]
              /\ Append(q, t)[Len(q) + 1] = t
          OBVIOUS
        <4> QED BY <4>1 DEF ToSet
      <3>3. \/ pendingUser' = Append(pendingUser, t) /\ UNCHANGED <<pendingAgent, pendingBackground>>
            \/ pendingAgent' = Append(pendingAgent, t) /\ UNCHANGED <<pendingUser, pendingBackground>>
            \/ pendingBackground' = Append(pendingBackground, t) /\ UNCHANGED <<pendingUser, pendingAgent>>
        BY <2>1 DEF Enqueue
      <3> QED BY <3>1, <3>2, <3>3 DEF Pending
    <2>4. UNCHANGED <<active, zombies, executing, disposed>>
      BY <2>1 DEF Enqueue, run
    <2>5. Promise!Submit(t)
      BY <2>2, <2>3, <2>4 DEF Promise!Submit
    <2> QED BY <2>5 DEF Promise!Next
  <1>2. CASE Pump
    <2>1. CASE PumpRefuses
      BY <1>2, <1>s, <2>1 DEF Pump, run
    <2>2. CASE ~PumpRefuses
      <3>1. active = NoTask /\ PumpIdle(executing) /\ UNCHANGED <<zombies, disposed>>
        BY <1>2, <2>2 DEF Pump, PumpRefuses
      <3>2. /\ Promise!HandOver /\ executing' = executing \cup ({active'} \ {NoTask})
            /\ active' # NoTask => active' \in Tasks /\ Waiting(active')
        BY <1>0, <3>1, HandsOver
      <3>3. (zombies \cap executing)' = zombies \cap executing
        BY <1>0, <3>1, <3>2 DEF Fresh
      <3>4. Promise!Begin
        BY <3>1, <3>2, <3>3 DEF Promise!Begin
      <3> QED BY <3>4 DEF Promise!Next
    <2> QED BY <2>1, <2>2
  <1>3. CASE \E t \in Tasks : RunSettles(t)
    <2>1. PICK t \in Tasks : RunSettles(t)
      BY <1>3
    <2>2. t \in executing /\ UNCHANGED <<zombies, disposed>>
      BY <2>1 DEF RunSettles
    <2>3. CASE active = t
      <3>1. PumpIdle(executing \ {t}) /\ executing \ {t} \in SUBSET executing
        BY <2>1, <2>3 DEF RunSettles, IsActive
      <3>2. /\ Promise!HandOver /\ executing' = (executing \ {t}) \cup ({active'} \ {NoTask})
            /\ active' # NoTask => active' \in Tasks /\ Waiting(active')
        BY <1>0, <3>1, HandsOver
      <3>3. (zombies \cap executing)' = zombies \cap executing
        BY <1>0, <2>2, <2>3, <3>2 DEF Fresh, RunsExcludeEachOther
      <3>4. active # NoTask
        BY <1>0, <2>2, <2>3, TasksAssumption
      <3>5. Promise!Finish
        BY <2>2, <3>2, <3>3, <3>4 DEF Promise!Finish
      <3> QED BY <3>5 DEF Promise!Next
    <2>4. CASE active # t
      <3>1. executing' = executing \ {t} /\ UNCHANGED <<lanes, active>>
        BY <2>1, <2>4 DEF RunSettles, IsActive, run
      <3>2. t \in zombies \cap executing
        BY <1>0, <2>2, <2>4 DEF RunsExcludeEachOther
      <3>3. Pending' = Pending
        BY <3>1 DEF Pending, lanes
      <3>4. (zombies \cap executing)' = (zombies \cap executing) \ {t}
        BY <2>2, <3>1
      <3>5. Promise!FinishLate(t)
        BY <2>2, <3>1, <3>2, <3>3, <3>4 DEF Promise!FinishLate
      <3> QED BY <3>5 DEF Promise!Next
    <2> QED BY <2>3, <2>4
  <1>4. CASE GraceExpires
    <2>1. graceTimer # Off /\ disposed' = disposed
      BY <1>4 DEF GraceExpires
    <2>2. /\ ~disposed /\ active # NoTask /\ escapee = active
          /\ Head(pendingUser) \in Tasks /\ InLane(pendingUser, Head(pendingUser))
      BY <2>1, SomeoneWaits
    <2>3. PumpIdle(executing) /\ zombies' = zombies \cup {active}
      BY <1>4, <2>2 DEF GraceExpires
    <2>4. /\ Promise!HandOver /\ executing' = executing \cup ({active'} \ {NoTask})
          /\ active' # NoTask => active' \in Tasks /\ Waiting(active')
          /\ ~disposed /\ Pending # {} => active' # NoTask
      BY <1>0, <2>3, HandsOver
    <2>5. Head(pendingUser) \in Pending /\ RankOf(Head(pendingUser)) <= 1
      <3>1. Lane[Head(pendingUser)] = "user"
        BY <1>0, <2>2 DEF SafeInv, NoTaskLost, AtOnePlace
      <3> QED BY <2>2, <3>1, Ranks, PendingIsWaiting DEF Waiting
    <2>6. active' # NoTask
      BY <2>2, <2>4, <2>5
    <2>7. active \in executing /\ active \in Tasks
      BY <1>0, <2>2 DEF RunsExcludeEachOther
    <2>8. active' # active /\ active' \notin zombies
      BY <1>0, <2>4, <2>6, <2>7 DEF SafeInv, NoTaskLost, AtOnePlace, Waiting, Fresh
    <2>9. (zombies \cap executing)' = (zombies \cap executing) \cup {active}
      BY <2>3, <2>4, <2>7, <2>8
    <2>10. \E t \in Pending : [u \in Tasks |-> RankOf(u)][t] <= 1
      BY <2>2, <2>5
    <2>11. Promise!Abandon
      BY <2>1, <2>2, <2>4, <2>6, <2>9, <2>10 DEF Promise!Abandon
    <2> QED BY <2>11 DEF Promise!Next
  <1>5. CASE \E t \in Tasks : ZombieForgotten(t)
    <2>1. UNCHANGED <<lanes, active, disposed>> /\ (zombies \cap executing)' = zombies \cap executing
      BY <1>5 DEF ZombieForgotten, run
    <2> QED BY <1>s, <2>1
  <1>6. CASE Dispose
    <2>1. Pending' = Pending
      BY <1>6 DEF Dispose, Pending, lanes
    <2>2. Promise!Close
      BY <1>6, <2>1 DEF Dispose, run, Promise!Close
    <2> QED BY <2>2 DEF Promise!Next
  <1>7. CASE WatchdogFires \/ Drain \/ DrainReturns \/ Tick \/ UNCHANGED vars
    <2>1. UNCHANGED <<lanes, active, disposed, zombies, executing>>
      BY <1>7 DEF WatchdogFires, Drain, DrainReturns, Tick, vars, run
    <2> QED BY <1>s, <2>1
  <1> QED BY <1>1, <1>2, <1>3, <1>4, <1>5, <1>6, <1>7 DEF Next

\* The lanes, timers and microtasks of the queue implement what enqueueExclusiveRun
\* promises: one run at a time, the most urgent first, and none given up on but for
\* a user who waits.
THEOREM PromiseKept == Spec => KeepsPromise
  <1>1. Init => Promise!Init
    BY DEF Init, Promise!Init, Pending, ToSet
  <1>2. PromiseInv /\ [Next]_vars => [Promise!Next]_Promise!vars
    BY Implements
  <1> QED BY <1>1, <1>2, PromiseAlways, PTL DEF Spec, KeepsPromise, Promise!Spec
=============================================================================
