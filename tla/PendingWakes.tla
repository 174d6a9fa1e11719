---------------------------- MODULE PendingWakes ----------------------------
(***************************************************************************)
(* The wakes of one agent: background works it dispatches (subagents that  *)
(* live in the host's process, cloud agents that outlive it), the durable  *)
(* marker of each (sand-pending-wake-store.ts), the revival that hands a   *)
(* completion back to the agent (completion-revivals.ts), the workflow by  *)
(* which a wake settles the wakes it descends from                         *)
(* (pending-wake-workflow.ts) and what a boot makes of the markers it      *)
(* finds (pending-wake-rearm.ts).                                          *)
(*                                                                         *)
(* A run that the scheduler gives up (run-scheduler.ts) ends for the loop  *)
(* of the revivals, which settles nothing; what it was goes on, beside     *)
(* later ones, and may still dispatch work.                                *)
(*                                                                         *)
(* The agent is neither stopped nor deleted, may execute, and writes of    *)
(* the store succeed.  A result is told apart by the round of its work:    *)
(* a work dispatched again (Task's resume, a reply to a cloud agent) keeps *)
(* its id and enters its next round.                                       *)
(***************************************************************************)
EXTENDS Integers, FiniteSets

CONSTANTS
  Works,         \* ids of background works
  Remote,        \* those that are cloud agents
  None,          \* no marker
  MaxRounds,     \* bound on the dispatches of a work
  MaxLate,       \* bound on the workflows of runs given up that still go on
  MaxCrashes     \* bound on the crashes of a behaviour

ASSUME WorksAssumption ==
  /\ Remote \subseteq Works
  /\ MaxRounds \in Nat \ {0} /\ {MaxLate, MaxCrashes} \subseteq Nat

Rounds == 0 .. MaxRounds                       \* 0: not dispatched, no result
Markers == [result : Rounds, parents : SUBSET Works]
ASSUME NoneAssumption == None \notin Markers

VARIABLES
  up,            \* the host process runs
  marker,        \* durable: the pending wake of each work, or None
  round,         \* how often each work was dispatched
  watched,       \* works that run and whose end will reach the host
  queue,         \* pendingSubagentCompletions: the round whose result waits
  batch,         \* the completions the current revival hands over
  phase,         \* of the revival; "idle": revivingSubagentAgentIds lacks the agent
  turn,          \* a turn of the user runs
  refs,          \* the references of the running revival's workflow
  late,          \* the workflows of the runs given up that still go on
  rearm,         \* the marker a boot is rearming for each work, or None
  crashes,
  source,        \* history: the wakes each work was dispatched for
  owed           \* history: the dispatched works whose wake is still due

completions == <<queue, batch, phase>>
agent == <<turn, refs, late>>
history == <<source, owed>>
vars == <<up, marker, round, watched, completions, agent, rearm, crashes, history>>

NoCompletions == [w \in Works |-> 0]
Holding(f) == {w \in Works : f[w] # 0}
Marked == {w \in Works : marker[w] # None}
Depends(markers, v, w) ==
  v # w /\ markers[v] # None /\ w \in markers[v].parents
HasDependent(markers, w) == \E v \in Works : Depends(markers, v, w)

-----------------------------------------------------------------------------
\* upsertPendingWakeMarker: what a marker without a result or without parents
\* says of either is kept from the one it replaces; a work is no parent of itself.
Upsert(markers, w, result, parents) ==
  LET others == parents \ {w}
      old == IF markers[w] = None THEN [result |-> 0, parents |-> {}]
                                  ELSE markers[w]
  IN [markers EXCEPT ![w] =
       [result |-> IF result = 0 THEN old.result ELSE result,
        parents |-> IF parents = {} THEN old.parents ELSE others]]

\* The smallest set of works that holds S and is Closed.
Smallest(S, Closed(_)) ==
  {w \in Works : \A T \in SUBSET Works : S \subseteq T /\ Closed(T) => w \in T}

WorkflowOfSources(sources) == sources                                \* mutant
\* withPendingWakeWorkflow: the sources and all that their markers name.
Workflow(sources) ==
  LET NamesOnlyItself(T) == \A v \in T \cap Marked : marker[v].parents \subseteq T
  IN Smallest(sources, NamesOnlyItself)

SettlesAncestors(sources) ==                                         \* mutant
  sources \cup UNION {marker[v].parents : v \in sources \cap Marked}
SettlesOnly(sources) == sources                                      \* mutant
\* clearSettledWorkflow of each source: it goes, and with it every ancestor that
\* no remaining marker depends on.
Settles(sources) ==
  LET Released(w, T) == /\ \E v \in T \cap Marked : Depends(marker, v, w)
                        /\ \A v \in Works \ T : ~Depends(marker, v, w)
      IsSettled(T) == \A w \in Marked : Released(w, T) => w \in T
  IN Smallest(sources \cap Marked, IsSettled)

\* What is settled by right: the wakes handed over in their last round, and what
\* these were dispatched for, unless that has other work outstanding.
Concluded ==
  LET done == {w \in Holding(batch) : batch[w] = round[w]}
      for == (UNION {source[w] : w \in done}) \ watched
  IN done \cup {a \in for : \A v \in owed \ (done \cup for) : a \notin source[v]}

-----------------------------------------------------------------------------
\* persistPendingWake at the dispatch of w, by a tool call of a run of the agent: of
\* the one that holds the queue, or of one that was given up.
Going == late \cup (IF turn \/ phase = "running" THEN {refs} ELSE {})
Dispatch(w, causes) ==
  /\ up /\ causes \in Going
  /\ w \notin watched /\ round[w] < MaxRounds
  /\ round' = [round EXCEPT ![w] = @ + 1]
  /\ watched' = watched \cup {w}
  /\ marker' = Upsert(marker, w, 0, causes)
  /\ source' = [source EXCEPT ![w] = causes \ {w}]
  /\ owed' = owed \cup {w}
  /\ UNCHANGED <<up, completions, agent, rearm, crashes>>

\* The loop of reviveForSubagentCompletions takes what waits, or ends.
TakeQueue(waiting) ==
  /\ queue' = NoCompletions
  /\ batch' = waiting
  /\ phase' = IF Holding(waiting) = {} THEN "idle" ELSE "resolving"
EndsLoop == batch' = NoCompletions /\ phase' = "idle" /\ UNCHANGED queue  \* mutant
GoesOn == TakeQueue(queue)

\* handleBackgroundSubagentCompletion: a completion of a work that already waits
\* is dropped; another is saved, queued, and taken at once by an idle loop.
Complete(markers, w, result) ==
  IF queue[w] # 0 THEN marker' = markers /\ UNCHANGED completions
  ELSE LET waiting == [queue EXCEPT ![w] = result]
       IN /\ marker' = Upsert(markers, w, result, {})
          /\ IF phase = "idle" THEN TakeQueue(waiting)
             ELSE queue' = waiting /\ UNCHANGED <<batch, phase>>

\* The work ends, with a result or an error.
Arrive(w) ==
  /\ up /\ w \in watched
  /\ watched' = watched \ {w}
  /\ Complete(marker, w, round[w])
  /\ UNCHANGED <<up, round, agent, rearm, crashes, history>>

\* abortSubagent: the marker is disarmed and the end of the run reports nothing.
Abort(w) ==
  /\ up /\ w \in watched \ Remote
  /\ watched' = watched \ {w}
  /\ marker' = [marker EXCEPT ![w] = None]
  /\ owed' = owed \ {w}
  /\ UNCHANGED <<up, round, completions, agent, rearm, crashes, source>>

-----------------------------------------------------------------------------
\* runSubagentRevival: the session resolves and a background run is queued, or
\* the completions are dropped from memory and the loop goes on.
Resolve ==
  /\ up /\ phase = "resolving"
  /\ phase' = "queued"
  /\ UNCHANGED <<up, marker, round, watched, queue, batch, agent, rearm,
                 crashes, history>>
ResolveFails ==
  /\ up /\ phase = "resolving"
  /\ GoesOn
  /\ UNCHANGED <<up, marker, round, watched, agent, rearm, crashes, history>>
StartRevival ==
  /\ up /\ phase = "queued" /\ ~turn
  /\ phase' = "running"
  /\ refs' = Workflow(Holding(batch))
  /\ UNCHANGED <<up, marker, round, watched, queue, batch, turn, late, rearm,
                 crashes, history>>

\* The revival ends.  Only a task that was completed settles its wakes: one that
\* was superseded, handed off, waits for the user or failed keeps its markers.
RevivalEnds(completed) ==
  /\ up /\ phase = "running"
  /\ marker' = [w \in Works |-> IF completed /\ w \in Settles(Holding(batch))
                                THEN None ELSE marker[w]]
  /\ owed' = IF completed THEN owed \ Concluded ELSE owed
  /\ refs' = {}
  /\ GoesOn
  /\ UNCHANGED <<up, round, watched, turn, late, rearm, crashes, source>>

\* A turn of the user does not open a workflow.  (The code lets it inherit that of
\* the call that pumped the run queue, which is left out here.)
TurnStarts ==
  /\ up /\ ~turn /\ phase # "running"
  /\ turn' = TRUE
  /\ refs' = {}
  /\ UNCHANGED <<up, marker, round, watched, completions, late, rearm, crashes,
                 history>>
TurnEnds ==
  /\ up /\ turn
  /\ turn' = FALSE /\ refs' = {}
  /\ UNCHANGED <<up, marker, round, watched, completions, late, rearm, crashes,
                 history>>

\* escapeWedgedRun, of a revival or of a turn: what awaits the run sees it end with
\* nothing delivered, and what it does from then on settles nothing.
GivenUp ==
  /\ up /\ (turn \/ phase = "running")
  /\ late' = late \cup {refs} /\ Cardinality(late') <= MaxLate
  /\ turn' = FALSE /\ refs' = {}
  /\ IF phase = "running" THEN GoesOn ELSE UNCHANGED completions
  /\ UNCHANGED <<up, marker, round, watched, rearm, crashes, history>>
LateEnds(causes) ==
  /\ up /\ causes \in late
  /\ late' = late \ {causes}
  /\ UNCHANGED <<up, marker, round, watched, completions, turn, refs, rearm,
                 crashes, history>>

-----------------------------------------------------------------------------
\* A boot clears the marker of a wake without result or parents before the wake
\* is armed again: a crash in between loses it.
ClearedByBoot == {w \in Works : rearm[w] # None /\ marker[w] = None}

Crash ==
  /\ up /\ crashes < MaxCrashes
  /\ up' = FALSE
  /\ crashes' = crashes + 1
  /\ watched' = {}
  /\ queue' = NoCompletions /\ batch' = NoCompletions /\ phase' = "idle"
  /\ turn' = FALSE /\ refs' = {} /\ late' = {}
  /\ rearm' = [w \in Works |-> None]
  /\ owed' = owed \ ClearedByBoot
  /\ UNCHANGED <<marker, round, source>>

\* rearmPendingWakes: a wake that another descends from is left to that one.
Boot ==
  LET leaves == {w \in Marked : ~HasDependent(marker, w)}
      bare == {w \in leaves : marker[w].result = 0 /\ marker[w].parents = {}}
  IN /\ ~up
     /\ up' = TRUE
     /\ rearm' = [w \in Works |-> IF w \in leaves THEN marker[w] ELSE None]
     /\ marker' = [w \in Works |-> IF w \in bare THEN None ELSE marker[w]]
     /\ UNCHANGED <<round, watched, completions, agent, crashes, history>>

\* rearmPendingWake, once the session is resolved.  A stored result is handed
\* over; a cloud agent is watched again; a subagent, which died with the host, is
\* reported as interrupted.
RearmCloudAgentWake(w) ==
  /\ marker' = Upsert(marker, w, 0, {})
  /\ watched' = watched \cup {w}
  /\ UNCHANGED completions
ReviveParentForLostSubagentWake(w) ==
  /\ Complete(Upsert(marker, w, 0, {}), w, round[w])
  /\ UNCHANGED watched
Rearm(w) ==
  /\ up /\ rearm[w] # None
  /\ rearm' = [rearm EXCEPT ![w] = None]
  /\ IF rearm[w].result # 0
     THEN Complete(marker, w, rearm[w].result) /\ UNCHANGED watched
     ELSE IF w \in Remote THEN RearmCloudAgentWake(w)
     ELSE ReviveParentForLostSubagentWake(w)
  /\ UNCHANGED <<up, round, agent, crashes, history>>
\* The session is unavailable: the marker is put back for the next boot.
RearmFails(w) ==
  /\ up /\ rearm[w] # None
  /\ rearm' = [rearm EXCEPT ![w] = None]
  /\ marker' = Upsert(marker, w, rearm[w].result, rearm[w].parents)
  /\ UNCHANGED <<up, round, watched, completions, agent, crashes, history>>

-----------------------------------------------------------------------------
Init ==
  /\ up = TRUE
  /\ marker = [w \in Works |-> None]
  /\ round = NoCompletions
  /\ watched = {}
  /\ queue = NoCompletions /\ batch = NoCompletions /\ phase = "idle"
  /\ turn = FALSE /\ refs = {} /\ late = {}
  /\ rearm = [w \in Works |-> None]
  /\ crashes = 0
  /\ source = [w \in Works |-> {}]
  /\ owed = {}

Next ==
  \/ \E w \in Works : \/ \E causes \in Going : Dispatch(w, causes)
                      \/ Arrive(w) \/ Abort(w) \/ Rearm(w) \/ RearmFails(w)
  \/ Resolve \/ ResolveFails \/ StartRevival
  \/ \E completed \in BOOLEAN : RevivalEnds(completed)
  \/ TurnStarts \/ TurnEnds
  \/ GivenUp \/ \E causes \in late : LateEnds(causes)
  \/ Crash \/ Boot

Spec == Init /\ [][Next]_vars

\* A work is dispatched again, under its id, only once its earlier wake was settled,
\* no wake of what was dispatched for it is due and no run given up goes on for it.
\* The code does not see to it (the run wakes_resumed): Spec is without, SettledSpec
\* with it.
DispatchedFor(S) == UNION {source[w] : w \in S}
ResumedOnceSettled ==
  \A w \in Works :
    round'[w] # round[w] => w \notin owed \cup DispatchedFor(owed) \cup UNION late
SettledSpec == Init /\ [][Next /\ ResumedOnceSettled]_vars

\* Sessions resolve or fail, runs end, and the queue of the user is empty from
\* time to time, when the background lane has its turn.
Fairness ==
  /\ WF_vars(Resolve \/ ResolveFails)
  /\ SF_vars(StartRevival)
  /\ WF_vars(\E completed \in BOOLEAN : RevivalEnds(completed))
  /\ WF_vars(TurnEnds)
FairSpec == SettledSpec /\ Fairness

-----------------------------------------------------------------------------
\* The types, and what the single flight of revivals means: completions are in
\* flight exactly while a revival is, none waits for an idle loop
\* (reviveForSubagentCompletions), and one run of the agent holds the queue.
TypeOK ==
  /\ up \in BOOLEAN /\ turn \in BOOLEAN
  /\ marker \in [Works -> Markers \cup {None}]
  /\ rearm \in [Works -> Markers \cup {None}]
  /\ round \in [Works -> Rounds]
  /\ queue \in [Works -> Rounds] /\ batch \in [Works -> Rounds]
  /\ watched \subseteq Works /\ owed \subseteq Works /\ refs \subseteq Works
  /\ source \in [Works -> SUBSET Works] /\ late \subseteq SUBSET Works
  /\ crashes \in 0 .. MaxCrashes
  /\ phase \in {"idle", "resolving", "queued", "running"}
  /\ phase # "idle" <=> Holding(batch) # {}
  /\ phase = "idle" => Holding(queue) = {}
  /\ ~(turn /\ phase = "running")

\* Every dispatched work whose wake is due, across interruptions of the revival
\* and crashes, has a durable marker, so that a restart can tell the agent of it;
\* only the wakes a boot has cleared and not armed yet are without.
NoWakeForgotten == owed \ ClearedByBoot \subseteq Marked

\* A wake that was handed over in a completed task, itself or by the last of its
\* descendants, is off the disk: no restart delivers it a second time
\* (clearSettledWorkflow).
SettledIsForgotten == Marked \subseteq owed

\* Whenever the host were to die and boot, each marker is armed again or belongs
\* to the workflow of one that is: "a source waiting on a child/reply is resumed
\* through that dependent's result" (rearmPendingWakes).
EveryWakeIsReachable ==
  \A w \in Marked : \E leaf \in Marked :
    /\ ~HasDependent(marker, leaf)
    /\ w = leaf \/ w \in marker[leaf].parents

\* A completion that waits is handed to a revival unless the host dies first.
QueuedIsTaken ==
  \A w \in Works : queue[w] # 0 ~> (batch[w] # 0 \/ ~up)
=============================================================================
