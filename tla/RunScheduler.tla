---------------------------- MODULE RunScheduler ----------------------------
(***************************************************************************)
(* SandRunScheduler (host/extensions/transcript/run-scheduler.ts): the     *)
(* queue that lets one run of an agent execute at a time.  The module is   *)
(* the queue of one agent; the queues of two agents share nothing but the  *)
(* disposed flag.                                                          *)
(*                                                                         *)
(* A member of Tasks is one RunTask object and, once started, its          *)
(* ActiveRun.  The code tells runs apart by generation, a counter no two   *)
(* runs share; here the identity of the task does, and a task is enqueued  *)
(* again (a new object of the program) only when nothing refers to the old *)
(* one any more (InUse), so that behaviours go on for ever.                *)
(*                                                                         *)
(* Time is counted in units.  The code reads Date.now(); what it compares  *)
(* are differences, so the model keeps the age of each waiting user task   *)
(* and of the active run, capped at AgeCap, and the time left on each      *)
(* timer.  Timers do not run on the clock Date.now() reads: one may fire   *)
(* TimerSlack units early by that clock, and any time late.                *)
(***************************************************************************)
EXTENDS Integers, Sequences, SequencesExt

CONSTANTS
  Tasks,         \* RunTask objects
  Lane,          \* lane of each task: "user", "agent" or "background"
  GroupMember,   \* the tasks whose source is "group-member"
  NoTask,        \* null
  WatchdogMs,    \* options.watchdogMs, in units of time
  GraceMs,       \* options.watchdogGraceMs
  TimerSlack,    \* how early a timer may fire
  AgeCap,        \* ages beyond it are not told apart
  MaxPumps       \* bound on pump microtasks waiting to run

Lanes == {"user", "agent", "background"}
Off == -1        \* a timer that is not armed

ASSUME TasksAssumption ==
  /\ Lane \in [Tasks -> Lanes]
  /\ GroupMember \subseteq Tasks
  /\ NoTask \notin Tasks
ASSUME TimingAssumption ==
  /\ WatchdogMs \in Nat \ {0} /\ GraceMs \in Nat \ {0}
  /\ TimerSlack \in Nat /\ AgeCap \in Nat /\ MaxPumps \in Nat \ {0}
  /\ AgeCap >= WatchdogMs + GraceMs

VARIABLES
  pendingUser, pendingAgent, pendingBackground,
  active,         \* queue.active, its phase and how long it has run
  phase,
  runAge,
  age,            \* how long each task of pendingUser has been enqueued
  watchdogTimer,  \* time left on the timer, or Off
  graceTimer,
  escapee,        \* the run the callback of the grace timer closes over
  executing,      \* the runs whose task() promise has not settled
  unsettled,      \* the tasks whose enqueue() promise has not settled
  zombies,
  pumps,          \* microtasks queued by enqueue() that will call pump()
  disposed,
  draining,       \* a call of drain() is waiting, and for what
  awaitedRuns,
  awaitedTasks,
  drainCovers     \* history: the runs that were executing when drain was called

lanes == <<pendingUser, pendingAgent, pendingBackground>>
timers == <<watchdogTimer, graceTimer, escapee>>
run == <<active, phase, runAge>>
drain == <<draining, awaitedRuns, awaitedTasks, drainCovers>>
vars == <<lanes, run, age, timers, executing, unsettled, zombies, pumps,
          disposed, drain>>

-----------------------------------------------------------------------------
Pending == ToSet(pendingUser) \cup ToSet(pendingAgent) \cup ToSet(pendingBackground)
InUse == Pending \cup executing \cup unsettled \cup zombies
           \cup {escapee} \cup awaitedRuns \cup awaitedTasks

Smaller(a, b) == IF a < b THEN a ELSE b
Larger(a, b) == IF a < b THEN b ELSE a

\* How long the head of the user lane has waited behind the active run; the
\* mutant forgets the run's own start.
WaitedSinceEnqueued(users, ages, sinceStart) == ages[Head(users)]
WaitedBehindActive(users, ages, sinceStart) == Smaller(ages[Head(users)], sinceStart)

\* armWatchdog() on a queue whose timers are w and g: the watchdog it leaves.
Armed(users, ages, act, sinceStart, w, g) ==
  IF w # Off \/ g # Off \/ users = <<>> \/ act = NoTask \/ disposed
  THEN w
  ELSE Larger(0, WatchdogMs - WaitedBehindActive(users, ages, sinceStart))

\* takeNextUserTask: the first task that is not a group member's, else the first.
TakesFirst(users, i) == i = 1 /\ i \in DOMAIN users                \* mutant
TakesAnyDirect(users, i) ==                                          \* mutant
  i \in DOMAIN users /\ (users[i] \in GroupMember => ToSet(users) \subseteq GroupMember)
IsNextUser(users, i) ==
  /\ i \in DOMAIN users
  /\ \A j \in 1 .. (i - 1) : users[j] \in GroupMember
  /\ users[i] \in GroupMember => i = 1 /\ ToSet(users) \subseteq GroupMember

RunsPreferredTakesFirst(t) ==                                        \* mutant
  \E i \in DOMAIN pendingUser :
    /\ IsNextUser(pendingUser, i)
    /\ t = pendingUser[i]
    /\ pendingUser' = Tail(pendingUser)
TakeNextUser(t) ==
  \E i \in DOMAIN pendingUser :
    /\ IsNextUser(pendingUser, i)
    /\ t = pendingUser[i]
    /\ pendingUser' = RemoveAt(pendingUser, i)

\* The choice pump() makes: t leaves its lane.
TakeNext(t) ==
  \/ TakeNextUser(t) /\ UNCHANGED <<pendingAgent, pendingBackground>>
  \/ /\ pendingUser = <<>> /\ pendingAgent # <<>>
     /\ t = Head(pendingAgent)
     /\ pendingAgent' = Tail(pendingAgent)
     /\ UNCHANGED <<pendingUser, pendingBackground>>
  \/ /\ pendingUser = <<>> /\ pendingAgent = <<>> /\ pendingBackground # <<>>
     /\ t = Head(pendingBackground)
     /\ pendingBackground' = Tail(pendingBackground)
     /\ UNCHANGED <<pendingUser, pendingAgent>>

\* The run pump() starts: both timers are disarmed, then the watchdog is armed
\* if a user still waits.  A task() that throws at once is a run that settles.
StartRunUnwatched(t) ==                                              \* mutant
  /\ active' = t /\ phase' = "running" /\ runAge' = 0
  /\ age' = [age EXCEPT ![t] = 0]
  /\ watchdogTimer' = Off /\ graceTimer' = Off /\ escapee' = NoTask
StartRun(t) ==
  /\ active' = t /\ phase' = "running" /\ runAge' = 0
  /\ age' = [age EXCEPT ![t] = 0]
  /\ watchdogTimer' = Armed(pendingUser', age', t, 0, Off, Off)
  /\ graceTimer' = Off /\ escapee' = NoTask

\* pump() once the queue has no active run, others being the runs of the past
\* that still execute.
PumpIdle(others) ==
  \/ \E t \in Tasks :
       /\ ~disposed
       /\ TakeNext(t)
       /\ StartRun(t)
       /\ executing' = others \cup {t}
  \/ /\ disposed \/ Pending = {}
     /\ active' = NoTask /\ phase' = "running" /\ runAge' = 0
     /\ watchdogTimer' = Off /\ graceTimer' = Off /\ escapee' = NoTask
     /\ executing' = others
     /\ UNCHANGED <<lanes, age>>

-----------------------------------------------------------------------------
\* Timer callbacks are macrotasks: they wait until no microtask is left.
MicrotasksDone == pumps = 0

Enqueue(t) ==
  /\ t \notin InUse
  /\ pumps < MaxPumps
  /\ CASE Lane[t] = "user" -> /\ pendingUser' = Append(pendingUser, t)
                              /\ UNCHANGED <<pendingAgent, pendingBackground>>
       [] Lane[t] = "agent" -> /\ pendingAgent' = Append(pendingAgent, t)
                               /\ UNCHANGED <<pendingUser, pendingBackground>>
       [] OTHER -> /\ pendingBackground' = Append(pendingBackground, t)
                   /\ UNCHANGED <<pendingUser, pendingAgent>>
  /\ unsettled' = unsettled \cup {t}
  /\ age' = [age EXCEPT ![t] = 0]
  /\ watchdogTimer' =
       Armed(pendingUser', age', active, runAge, watchdogTimer, graceTimer)
  /\ pumps' = pumps + 1
  /\ UNCHANGED <<run, graceTimer, escapee, executing, zombies, disposed, drain>>

\* The microtask queued by enqueue(): pump(), which returns at once when the
\* scheduler is disposed or a run is active.
PumpsUnlessDisposed == disposed                                      \* mutant
PumpRefuses == disposed \/ active # NoTask
Pump ==
  /\ pumps > 0
  /\ pumps' = pumps - 1
  /\ IF PumpRefuses
     THEN UNCHANGED <<lanes, run, age, timers, executing>>
     ELSE PumpIdle(executing)
  /\ UNCHANGED <<unsettled, zombies, disposed, drain>>

\* onTaskSettled, then markSettled: the promise of task() settled either way.
RunSettlesUnpumped(t) ==                                             \* mutant
  /\ t \in executing
  /\ unsettled' = unsettled \ {t} /\ executing' = executing \ {t}
  /\ IF active = t
     THEN /\ active' = NoTask /\ phase' = "running" /\ runAge' = 0
          /\ watchdogTimer' = Off /\ graceTimer' = Off /\ escapee' = NoTask
     ELSE UNCHANGED <<run, timers>>
  /\ awaitedRuns' = awaitedRuns \ {t} /\ awaitedTasks' = awaitedTasks \ {t}
  /\ drainCovers' = drainCovers \ {t}
  /\ UNCHANGED <<lanes, age, zombies, pumps, disposed, draining>>
IsActive(t) == active = t
RunSettles(t) ==
  /\ t \in executing
  /\ unsettled' = unsettled \ {t}
  /\ IF IsActive(t)
     THEN PumpIdle(executing \ {t})
     ELSE /\ executing' = executing \ {t}     \* late_settle
          /\ UNCHANGED <<lanes, run, age, timers>>
  /\ awaitedRuns' = awaitedRuns \ {t}
  /\ awaitedTasks' = awaitedTasks \ {t}
  /\ drainCovers' = drainCovers \ {t}
  /\ UNCHANGED <<zombies, pumps, disposed, draining>>

\* The reaction escapeWedgedRun() put on the settled promise of the run.
ZombieForgotten(t) ==
  /\ t \in zombies \ executing
  /\ zombies' = zombies \ {t}
  /\ UNCHANGED <<lanes, run, age, timers, executing, unsettled, pumps, disposed,
                 drain>>

\* onWatchdogFired: re-armed when the clock says that it is too early, else the
\* wedged run is interrupted and given the grace period.
WatchdogFires ==
  /\ MicrotasksDone
  /\ watchdogTimer # Off /\ watchdogTimer <= TimerSlack
  /\ IF disposed \/ active = NoTask \/ pendingUser = <<>>
     THEN watchdogTimer' = Off /\ UNCHANGED <<phase, graceTimer, escapee>>
     ELSE \/ /\ WaitedBehindActive(pendingUser, age, runAge) < WatchdogMs
             /\ watchdogTimer' =
                  Armed(pendingUser, age, active, runAge, Off, graceTimer)
             /\ UNCHANGED <<phase, graceTimer, escapee>>
          \/ /\ WaitedBehindActive(pendingUser, age, runAge) >= WatchdogMs
             /\ watchdogTimer' = Off
             /\ phase' = "interrupted"
             /\ graceTimer' = GraceMs /\ escapee' = active
  /\ UNCHANGED <<lanes, active, runAge, age, executing, unsettled, zombies, pumps,
                 disposed, drain>>

\* escapeWedgedRun: the caller of the wedged run is told that it is over, the
\* run becomes a zombie and the next task starts beside it.
GraceExpires ==
  /\ MicrotasksDone
  /\ graceTimer # Off /\ graceTimer <= TimerSlack
  /\ IF disposed \/ active = NoTask \/ active # escapee
     THEN /\ graceTimer' = Off /\ escapee' = NoTask
          /\ UNCHANGED <<lanes, run, age, watchdogTimer, executing, unsettled,
                         zombies, awaitedTasks>>
     ELSE /\ unsettled' = unsettled \ {active}
          /\ zombies' = zombies \cup {active}
          /\ awaitedTasks' = awaitedTasks \ {active}
          /\ PumpIdle(executing)
  /\ UNCHANGED <<pumps, disposed, draining, awaitedRuns, drainCovers>>

\* drain(): allSettled over the active run, the zombies and the pending tasks.
NullInSnapshot == {active} \cup zombies                              \* mutant
ZombiesForgotten == {active} \ {NoTask}                              \* mutant
SnapshotRuns == ({active} \ {NoTask}) \cup zombies
Drain ==
  /\ ~draining
  /\ draining' = TRUE
  /\ awaitedRuns' = SnapshotRuns
  /\ awaitedTasks' = Pending
  /\ drainCovers' = executing
  /\ UNCHANGED <<lanes, run, age, timers, executing, unsettled, zombies, pumps,
                 disposed>>

DrainReturns ==
  /\ draining
  /\ awaitedRuns \cap executing = {} /\ awaitedTasks = {}
  /\ draining' = FALSE
  /\ awaitedRuns' = {} /\ drainCovers' = {}
  /\ UNCHANGED <<lanes, run, age, timers, executing, unsettled, zombies, pumps,
                 disposed, awaitedTasks>>

\* dispose(): every timer is disarmed; runs in flight are left to themselves.
Dispose ==
  /\ ~disposed
  /\ disposed' = TRUE
  /\ watchdogTimer' = Off /\ graceTimer' = Off /\ escapee' = NoTask
  /\ UNCHANGED <<lanes, run, age, executing, unsettled, zombies, pumps, drain>>

\* A unit of time passes; a timer that is due may wait for the event loop.
Elapsed(left) == IF left = Off THEN Off ELSE Larger(0, left - 1)
Tick ==
  /\ MicrotasksDone
  /\ age' = [t \in Tasks |-> IF t \in ToSet(pendingUser)
                             THEN Smaller(AgeCap, age[t] + 1) ELSE 0]
  /\ runAge' = IF active = NoTask THEN 0 ELSE Smaller(AgeCap, runAge + 1)
  /\ watchdogTimer' = Elapsed(watchdogTimer)
  /\ graceTimer' = Elapsed(graceTimer)
  /\ UNCHANGED <<lanes, active, phase, escapee, executing, unsettled, zombies, pumps,
                 disposed, drain>>

-----------------------------------------------------------------------------
Init ==
  /\ pendingUser = <<>> /\ pendingAgent = <<>> /\ pendingBackground = <<>>
  /\ active = NoTask /\ phase = "running" /\ runAge = 0
  /\ age = [t \in Tasks |-> 0]
  /\ watchdogTimer = Off /\ graceTimer = Off /\ escapee = NoTask
  /\ executing = {} /\ unsettled = {} /\ zombies = {}
  /\ pumps = 0 /\ disposed = FALSE
  /\ draining = FALSE /\ awaitedRuns = {} /\ awaitedTasks = {} /\ drainCovers = {}

Next ==
  \/ \E t \in Tasks : Enqueue(t) \/ RunSettles(t) \/ ZombieForgotten(t)
  \/ Pump \/ WatchdogFires \/ GraceExpires
  \/ Drain \/ DrainReturns \/ Dispose \/ Tick

Spec == Init /\ [][Next]_vars

\* The event loop runs queued microtasks and comes back to due timers for ever,
\* since enqueue() is called from handlers that are macrotasks themselves.
\* Nothing is assumed of the runs: any of them may never settle.
EventLoop ==
  /\ WF_vars(Pump) /\ SF_vars(Tick)
  /\ SF_vars(WatchdogFires) /\ SF_vars(GraceExpires)

FairSpec == Spec /\ EventLoop

-----------------------------------------------------------------------------
(* Type invariant. *)
TypeOK ==
  /\ pendingUser \in Seq(Tasks) /\ pendingAgent \in Seq(Tasks)
  /\ pendingBackground \in Seq(Tasks)
  /\ active \in Tasks \cup {NoTask} /\ phase \in {"running", "interrupted"}
  /\ runAge \in 0 .. AgeCap /\ age \in [Tasks -> 0 .. AgeCap]
  /\ watchdogTimer \in 0 .. WatchdogMs \cup {Off}
  /\ graceTimer \in 0 .. GraceMs \cup {Off}
  /\ escapee \in Tasks \cup {NoTask}
  /\ executing \subseteq Tasks /\ unsettled \subseteq Tasks
  /\ zombies \subseteq Tasks
  /\ pumps \in 0 .. MaxPumps /\ disposed \in BOOLEAN /\ draining \in BOOLEAN
  /\ awaitedRuns \subseteq Tasks /\ awaitedTasks \subseteq Tasks
  /\ drainCovers \subseteq Tasks

\* Runs of one agent exclude each other: whatever executes beside the active
\* run is a run the watchdog has given up on, even when that run comes back
\* while later runs start and settle.
RunsExcludeEachOther ==
  /\ executing \ zombies = {active} \ {NoTask}
  /\ active \notin zombies

\* No accepted task is lost or run twice: as long as its caller waits, a task is
\* at exactly one place, in its lane or as the active run, and a task whose
\* caller has been answered is at none.
InLane(q, t) == \E i \in DOMAIN q : q[i] = t
Once(q) == \A i, j \in DOMAIN q : q[i] = q[j] => i = j
AtOnePlace(t) ==
  /\ t \in unsettled <=> InLane(pendingUser, t) \/ InLane(pendingAgent, t)
                        \/ InLane(pendingBackground, t) \/ active = t
  /\ InLane(pendingUser, t) => Lane[t] = "user"
  /\ InLane(pendingAgent, t) => Lane[t] = "agent"
  /\ InLane(pendingBackground, t) => Lane[t] = "background"
  /\ t \in executing => ~ InLane(pendingUser, t) /\ ~ InLane(pendingAgent, t)
                        /\ ~ InLane(pendingBackground, t)
NoTaskLost ==
  /\ Once(pendingUser) /\ Once(pendingAgent) /\ Once(pendingBackground)
  /\ \A t \in Tasks : AtOnePlace(t)

\* No wake-up is lost: tasks wait in an idle queue only while a pump() is on its
\* way, however enqueues, settlements and timers interleave with it.
NoLostWakeup ==
  ~disposed /\ active = NoTask /\ Pending # {} => pumps > 0

\* A user who waits behind a run is watched over: exactly one of the two timers
\* is armed while a user task waits behind an active run, none otherwise, and
\* the run the grace timer would abandon is the one that is active.
WaitersAreWatched ==
  LET watching == ~disposed /\ active # NoTask /\ pendingUser # <<>>
  IN  /\ watching <=> (watchdogTimer # Off) # (graceTimer # Off)
      /\ ~ (watchdogTimer # Off /\ graceTimer # Off)
      /\ graceTimer # Off => escapee = active /\ phase = "interrupted"

\* When drain() returns no run that was executing when it was called executes
\* any more, though runs are escaped, settle late and make way for others in
\* between.
DrainIsSound ==
  [][draining /\ ~draining' => drainCovers \cap executing = {}]_vars

\* The watchdog is patient: a run becomes a zombie only if a user has waited
\* behind it for the whole watchdog and grace periods.
EscapeIsEarned ==
  [][\A t \in Tasks : t \in zombies' \ zombies =>
       /\ t = active /\ pendingUser # <<>>
       /\ Smaller(age[Head(pendingUser)], runAge)
            >= WatchdogMs + GraceMs - TimerSlack]_vars

\* Tasks of one lane keep their order, up to direct prompts overtaking the
\* turns of group members: a task never leaves its lane before one of the same
\* kind that was enqueued earlier.
Ahead(s, t) ==
  \E q \in {pendingUser, pendingAgent, pendingBackground} :
    \E i, j \in DOMAIN q : i < j /\ q[i] = s /\ q[j] = t
SameKind(s, t) == Lane[s] = Lane[t] /\ (s \in GroupMember <=> t \in GroupMember)
OrderIsKept ==
  [][\A s, t \in Tasks :
       Ahead(s, t) /\ SameKind(s, t) => Ahead(s, t)' \/ s \notin Pending']_vars

\* A late settlement is invisible: when a run that was escaped settles, neither
\* the active run nor the lanes nor the timers change.
LateSettleIsSilent ==
  [][\A t \in zombies : t \in executing \ executing' =>
       UNCHANGED <<lanes, run, timers>>]_vars

\* A direct prompt of the user starts, whatever the runs before it do: none of
\* them is assumed to settle, and others may keep arriving.
DirectPrompts == {t \in Tasks : Lane[t] = "user" /\ t \notin GroupMember}
DirectPromptsStart ==
  \A t \in DirectPrompts : t \in Pending ~> t \in executing \/ disposed

\* A call of drain() returns once prompts stop arriving, if runs settle sooner or
\* later.  (While prompts arrive it may wait for ever for a group member's turn
\* or a wake they overtake.)
Arrives == \E t \in Tasks : Enqueue(t)
RunsSettle == \A t \in Tasks : WF_vars(RunSettles(t)) /\ WF_vars(DrainReturns)
DrainReturnsOnceQuiet ==
  RunsSettle /\ <>[][~Arrives]_vars => (draining ~> ~draining \/ disposed)

\* The scheduler implements the promise of exclusive runs.
RankOf(t) == CASE Lane[t] = "user" -> IF t \in GroupMember THEN 1 ELSE 0
               [] Lane[t] = "agent" -> 2
               [] OTHER -> 3
Promise == INSTANCE ExclusiveRuns WITH
             Rank <- [t \in Tasks |-> RankOf(t)],
             waiting <- Pending, current <- active,
             abandoned <- zombies \cap executing, closed <- disposed
KeepsPromise == Promise!Spec
=============================================================================
