-------------------------- MODULE AutomationFires --------------------------
(***************************************************************************)
(* The fires the backend delivers to one automation, from the poll to the  *)
(* run and back to the acknowledgement: SandAutomationFireConsumer         *)
(* (host/extensions/automations/), the batches of AutomationEventFires and *)
(* fireAutomation of AutomationRunPath (host/extensions/transcript/), with *)
(* the history of runs that FileAutomationStore keeps on disk.             *)
(*                                                                         *)
(* A fire is for a slot of a schedule or for an event.  What the consumer  *)
(* compares with the automation before it runs a fire (enabled, revision,  *)
(* time of the last run, kind of event) may be in favour or not: Refuse.   *)
(* When the consumer polls is left to chance: the gates on time and on     *)
(* notifications only put a poll off.                                      *)
(***************************************************************************)
EXTENDS Integers, FiniteSets, SequencesExt

CONSTANTS
  Slots, Events,   \* the fires of each kind
  History,         \* runs the store keeps (AUTOMATION_MAX_RUN_HISTORY, 20)
  MaxWake,         \* events in one wake (MAX_EVENTS_IN_AUTOMATION_WAKE, 25)
  MaxQueued,       \* events that wait (MAX_QUEUED_EVENT_FIRES_PER_AUTOMATION, 500)
  MaxTroubles      \* bounds faults, deaths of the host, stops and runs by hand

Fires == Slots \cup Events
Manual == "manual"      \* stands for the fresh id of each run by hand

ASSUME FiresAssumption ==
  Slots \cap Events = {} /\ Manual \notin Fires
ASSUME BoundsAssumption ==
  MaxTroubles \in Nat /\ {History, MaxWake, MaxQueued} \subseteq Nat \ {0}

Kinds == {"slot", "event"}
Statuses == {"succeeded", "failed"}
Stages == {"idle", "resolving", "enqueued", "running", "settling"}
Outcomes == {"none", "ok", "error", "interrupted"}
Idle == [stage |-> "idle", fires |-> <<>>, stale |-> FALSE, recorded |-> FALSE,
         outcome |-> "none"]

NoPoll == [phase |-> "idle", returned |-> {}]

VARIABLES
  backend,       \* external: what it has of each fire
  acked,         \* external: the fires acknowledged to it
  runs,          \* durable, runs.json: newest first
  userStopped,   \* durable: the user has stopped the agent
  states,        \* the consumer's Map: "none" stands for no entry
  poll,          \* the tick under way
  calls,         \* the reports of completions under way
  listing,       \* the deliveries that look the automation up
  items,         \* the batch of events that waits
  debounce,      \* its timer is armed
  run,           \* fireAutomation, by kind: slots or by hand, and events
  zombies,       \* runs the scheduler gave up on: their fires
  stopped,       \* the consumer is stopped
  troubles,      \* how many there were
  ranOk,         \* history: the fires of runs that ended well,
  absorbed,      \* those of a record that a run without them took over or ended,
  givenUp        \* and those of runs that the scheduler gave up on

external == <<backend, acked>>
durable == <<runs, userStopped>>
consumer == <<states, poll, calls, listing>>
wakes == <<items, debounce, run, zombies>>
history == <<ranOk, absorbed, givenUp>>
vars == <<external, durable, consumer, wakes, stopped, troubles, history>>

-----------------------------------------------------------------------------
Trouble == troubles < MaxTroubles /\ troubles' = troubles + 1
NoTrouble == UNCHANGED troubles

\* The id under which a wake is recorded: the first fire of its batch.
IdOf(fires) == IF fires = <<>> THEN Manual ELSE Head(fires)
RunsOf(id) == {i \in DOMAIN runs : id # Manual /\ runs[i].id = id}

\* existing(): what the newest record that covers the fire says of it.
Covering(f) == {i \in DOMAIN runs : runs[i].id = f \/ f \in runs[i].also}
ExistingNever(f) == "none"                                           \* mutant
Existing(f) ==
  IF Covering(f) = {} THEN "none"
  ELSE LET status == runs[Min(Covering(f))].status
       IN  CASE status = "ok" -> "succeeded"
             [] status = "error" -> "failed"
             [] OTHER -> "none"

\* completionOfOutcome
StatusOfAny(outcome) == IF outcome = "error" THEN "failed" ELSE "succeeded"  \* mutant
StatusOf(outcome) == IF outcome = "ok" THEN "succeeded" ELSE "failed"

\* The end of deliver for a set of fires: the entry, and the report that follows.
Report(f, by, status) == [fire |-> f, by |-> by, status |-> status, at |-> "sent"]
Completes(F, status) ==
  /\ states' = [f \in Fires |-> IF f \in F THEN status ELSE states[f]]
  /\ calls' = calls \cup {Report(f, "deliver", status) : f \in F}
Forgets(F) ==
  /\ states' = [f \in Fires |-> IF f \in F THEN "none" ELSE states[f]]
  /\ UNCHANGED calls

-----------------------------------------------------------------------------
\* tick(), up to the answer to its request: the backend acknowledges what the
\* consumer counts as reported, and returns any of the others (a fire whose time has
\* not come is one that it does not return yet).
ToAck == {f \in Fires : states[f] = "reported"}
Polls(returned) ==
  /\ ~stopped /\ poll.phase = "idle"
  /\ acked' = acked \cup ToAck
  /\ returned \subseteq Fires \ acked'
  /\ poll' = [phase |-> "answered", returned |-> returned]
  /\ UNCHANGED <<backend, durable, states, calls, listing, wakes, stopped, troubles,
                 history>>
PollFails ==
  /\ poll.phase = "answered" /\ Trouble
  /\ poll' = NoPoll
  /\ UNCHANGED <<external, durable, states, calls, listing, wakes, stopped, history>>

\* Its answer is there: what was reported and does not come back is forgotten,
\* what is new is delivered, what is completed is to be reported again.
NewAgain(f) == states[f] # "reported"                                \* mutant
New(f) == states[f] = "none"
PollReturns ==
  /\ poll.phase = "answered"
  /\ LET new == {f \in poll.returned : New(f)}
     IN  /\ states' = [f \in Fires |->
                         IF f \in new THEN "running"
                         ELSE IF states[f] = "reported" /\ f \notin poll.returned
                              THEN "none"
                              ELSE states[f]]
         /\ listing' = listing \cup new
  /\ poll' = [phase |-> "reporting", returned |-> {}]
  /\ UNCHANGED <<external, durable, calls, wakes, stopped, troubles, history>>

\* The loop over the entries awaits the report of each that is completed.  (One
\* that the loop has passed by then is reported by the next tick in the code.)
Completed(f) == states[f] \in Statuses
TickWaits == \E c \in calls : c.by = "tick"
TickVisits(f) ==
  /\ poll.phase = "reporting" /\ ~TickWaits /\ Completed(f)
  /\ calls' = calls \cup {Report(f, "tick", states[f])}
  /\ UNCHANGED <<external, durable, states, poll, listing, wakes, stopped, troubles,
                 history>>
TickEnds ==
  /\ poll.phase = "reporting" /\ ~TickWaits
  /\ \A f \in Fires : ~Completed(f)
  /\ poll' = NoPoll
  /\ UNCHANGED <<external, durable, states, calls, listing, wakes, stopped, troubles,
                 history>>

\* reportCompletion: the backend takes the first answer for a fire and refuses
\* another (409); the consumer counts both as reported.  An error leaves the
\* entry completed.
CallReaches(c) ==
  /\ c \in calls /\ c.at = "sent"
  /\ calls' = (calls \ {c}) \cup {[c EXCEPT !.at = "reached"]}
  /\ backend' = IF backend[c.fire] = "owed"
                THEN [backend EXCEPT ![c.fire] = c.status] ELSE backend
  /\ UNCHANGED <<acked, durable, states, poll, listing, wakes, stopped, troubles, history>>
CallReturns(c) ==
  /\ c \in calls /\ c.at = "reached"
  /\ calls' = calls \ {c}
  /\ states' = [states EXCEPT ![c.fire] = "reported"]
  /\ UNCHANGED <<external, durable, poll, listing, wakes, stopped, troubles, history>>
ReportedAnyway(f) == [states EXCEPT ![f] = "reported"]               \* mutant
AfterError(f) == states
CallFails(c) ==
  /\ c \in calls /\ Trouble
  /\ calls' = calls \ {c}
  /\ states' = AfterError(c.fire)
  /\ UNCHANGED <<external, durable, poll, listing, wakes, stopped, history>>

-----------------------------------------------------------------------------
\* deliver(), once the automations are listed.
Delivering(f) == f \in listing /\ listing' = listing \ {f}
ConsumerStopped(f) ==
  /\ Delivering(f) /\ stopped /\ Forgets({f})
  /\ UNCHANGED <<external, durable, poll, wakes, stopped, troubles, history>>
ListingFails(f) ==
  /\ Delivering(f) /\ Trouble /\ Forgets({f})
  /\ UNCHANGED <<external, durable, poll, wakes, stopped, history>>
RanBefore(f) ==
  /\ Delivering(f) /\ ~stopped /\ Existing(f) # "none"
  /\ Completes({f}, Existing(f))
  /\ UNCHANGED <<external, durable, poll, wakes, stopped, troubles, history>>

\* It is missing, disabled or changed, or the event does not match it.
Refuse(f) ==
  /\ Delivering(f) /\ ~stopped /\ Existing(f) = "none"
  /\ Completes({f}, "failed")
  /\ UNCHANGED <<external, durable, poll, wakes, stopped, troubles, history>>
\* A slot goes to fireAutomation at once, which declines it while the agent is
\* stopped or the automation runs for another slot or by hand.
Wake(fires, stage) == [Idle EXCEPT !.stage = stage, !.fires = fires]
Declines(kind) == userStopped \/ run[kind].stage # "idle"
FireSlot(f) ==
  /\ f \in Slots
  /\ Delivering(f) /\ ~stopped /\ Existing(f) = "none"
  /\ IF Declines("slot")
     THEN Forgets({f}) /\ UNCHANGED run
     ELSE /\ run' = [run EXCEPT !["slot"] = Wake(<<f>>, "resolving")]
          /\ UNCHANGED <<states, calls>>
  /\ UNCHANGED <<external, durable, poll, items, debounce, zombies, stopped, troubles,
                 history>>

\* An event joins the batch; the oldest leaves one that is too long.
Armed == debounce \/ run["event"].stage = "idle"
EnqueueEvent(f) ==
  /\ f \in Events
  /\ Delivering(f) /\ ~stopped /\ Existing(f) = "none"
  /\ LET batch == Append(items, f)
     IN  IF Len(batch) > MaxQueued
         THEN items' = Tail(batch) /\ Completes({Head(batch)}, "failed")
         ELSE items' = batch /\ UNCHANGED <<states, calls>>
  /\ debounce' = Armed
  /\ UNCHANGED <<external, durable, poll, run, zombies, stopped, troubles, history>>

\* The timer: flushEventBatch takes what one wake may hold.
Flush ==
  /\ debounce /\ items # <<>> /\ run["event"].stage = "idle"
  /\ debounce' = FALSE
  /\ LET n == Min({MaxWake, Len(items)})
     IN  /\ items' = SubSeq(items, n + 1, Len(items))
         /\ run' = [run EXCEPT !["event"] =
                      Wake(SubSeq(items, 1, n),
                           IF userStopped THEN "settling" ELSE "resolving")]
  /\ UNCHANGED <<external, durable, consumer, zombies, stopped, troubles, history>>

\* runAgentAutomationNow
FireByHand ==
  /\ ~userStopped /\ run["slot"].stage = "idle" /\ Trouble
  /\ run' = [run EXCEPT !["slot"] = Wake(<<>>, "resolving")]
  /\ UNCHANGED <<external, durable, consumer, items, debounce, zombies, stopped,
                 history>>

-----------------------------------------------------------------------------
\* fireAutomation, from one await to the next.
Ends(k, outcome) == run' = [run EXCEPT ![k].stage = "settling", ![k].outcome = outcome]

\* The session does not resolve, the spend guard has the automation paused, or
\* something throws.
GoesNoFurther(k) ==
  /\ run[k].stage = "resolving" /\ Trouble
  /\ Ends(k, "none")
  /\ UNCHANGED <<external, durable, consumer, items, debounce, zombies, stopped,
                 history>>
\* A stop is looked for once the session is there, and again after the spend guard
\* and recordAutomationRun, which only saves the time.  Else the run is queued.
Resolves(k) ==
  /\ run[k].stage = "resolving"
  /\ IF run[k].stale THEN Ends(k, "interrupted")
                     ELSE run' = [run EXCEPT ![k].stage = "enqueued"]
  /\ UNCHANGED <<external, runs, userStopped, consumer, items, debounce, zombies,
                 stopped, troubles, history>>

\* beginRun: a record of that id is taken over as it is.
NewRecord(fires) == [id |-> IdOf(fires),
                     also |-> IF fires = <<>> THEN {} ELSE ToSet(Tail(fires)),
                     status |-> "running"]
KeptAll(records) == records                                           \* mutant
Kept(records) == SubSeq(records, 1, Min({History, Len(records)}))
WithRecord(fires) ==
  IF RunsOf(IdOf(fires)) # {} THEN runs ELSE Kept(<<NewRecord(fires)>> \o runs)
AbsorbedBy(fires) ==
  UNION {runs[i].also \ ToSet(fires) : i \in RunsOf(IdOf(fires))}

\* The queue of runs starts it; one at a time, but for what it has given up on.
Starts(k) ==
  /\ run[k].stage = "enqueued" /\ \A j \in Kinds : run[j].stage # "running"
  /\ IF run[k].stale
     THEN Ends(k, "interrupted") /\ UNCHANGED <<runs, absorbed>> /\ NoTrouble
     ELSE \/ /\ runs' = WithRecord(run[k].fires)
             /\ absorbed' = absorbed \cup AbsorbedBy(run[k].fires)
             /\ run' = [run EXCEPT ![k].stage = "running", ![k].recorded = TRUE]
             /\ NoTrouble
          \/ /\ Trouble
             /\ run' = [run EXCEPT ![k].stage = "running"]
             /\ UNCHANGED <<runs, absorbed>>
  /\ UNCHANGED <<external, userStopped, consumer, items, debounce, zombies,
                 stopped, ranOk, givenUp>>

\* finishRun, which finds the record by its id, if it is still there, and swallows
\* a failed write.  Runs by hand are not looked up again.
Finished(id, status) ==
  [i \in DOMAIN runs |-> IF i \in RunsOf(id) THEN [runs[i] EXCEPT !.status = status]
                                             ELSE runs[i]]
Finishes(w, status) ==
  \/ /\ w.recorded /\ NoTrouble
     /\ runs' = Finished(IdOf(w.fires), status)
  \/ /\ w.recorded => Trouble
     /\ ~w.recorded => NoTrouble
     /\ UNCHANGED runs

\* How the run ends: done, unfinished (or stopped), put off by an upgrade, failed; and
\* what its record is to say.  Something may throw once the record has its end: before
\* the task is through, which makes an error of the outcome, or as it is left, and
\* then the callers hear of no outcome.  The record may then have either end, or none.
Agree(outcome, status) == outcome # "none" /\ (outcome = "ok") = (status = "ok")
Throws(w, outcome, status) ==
  /\ outcome \in {"none", "error"} /\ Trouble
  /\ \/ UNCHANGED runs
     \/ w.recorded /\ runs' = Finished(IdOf(w.fires), status)
RunEnds(k, outcome, status) ==
  /\ run[k].stage = "running"
  /\ status = "ok" => ~run[k].stale
  /\ IF Agree(outcome, status) THEN Finishes(run[k], status)
                               ELSE Throws(run[k], outcome, status)
  /\ ranOk' = IF status = "ok" THEN ranOk \cup ToSet(run[k].fires) ELSE ranOk
  /\ run' = [run EXCEPT ![k].stage = "settling", ![k].outcome = outcome]
  /\ UNCHANGED <<external, userStopped, consumer, items, debounce, zombies,
                 stopped, absorbed, givenUp>>

\* The scheduler gives up on the run: enqueueExclusiveRun returns, and the outcome
\* is still the one the task began with.  The run may end later, and finish a record
\* that another wake has made under its id since.
GivenUp(k) ==
  /\ run[k].stage = "running" /\ Trouble
  /\ zombies' = zombies \cup {[fires |-> run[k].fires, recorded |-> run[k].recorded]}
  /\ givenUp' = givenUp \cup ToSet(run[k].fires)
  /\ Ends(k, "error")
  /\ UNCHANGED <<external, durable, consumer, items, debounce, stopped, ranOk, absorbed>>
ZombieEnds(z, status) ==
  /\ z \in zombies /\ zombies' = zombies \ {z}
  /\ Finishes(z, status)
  /\ ranOk' = IF status = "ok" THEN ranOk \cup ToSet(z.fires) ELSE ranOk
  /\ absorbed' = absorbed \cup AbsorbedBy(z.fires)
  /\ UNCHANGED <<external, userStopped, consumer, items, debounce, run,
                 stopped, givenUp>>

\* fireAutomation returns, the callers go on, and the batch is looked at again.
Rearmed == items # <<>>
Settles(k) ==
  /\ run[k].stage = "settling"
  /\ IF run[k].outcome = "none"
     THEN Forgets(ToSet(run[k].fires))
     ELSE Completes(ToSet(run[k].fires), StatusOf(run[k].outcome))
  /\ run' = [run EXCEPT ![k] = Idle]
  /\ debounce' = IF k = "event" THEN Rearmed ELSE debounce
  /\ UNCHANGED <<external, durable, poll, listing, items, zombies, stopped, troubles,
                 history>>

-----------------------------------------------------------------------------
\* suspendWakes and resumeWakes, before and after an upgrade that was put off.
Suspends ==
  /\ ~stopped /\ Trouble
  /\ stopped' = TRUE
  /\ UNCHANGED <<external, durable, consumer, wakes, history>>
ResumesWakes ==
  /\ stopped /\ stopped' = FALSE
  /\ UNCHANGED <<external, durable, consumer, wakes, troubles, history>>

\* The user stops the agent: what is under way has seen a stop, whatever follows.
UserStops ==
  /\ ~userStopped /\ Trouble
  /\ userStopped' = TRUE
  /\ run' = [k \in Kinds |-> [run[k] EXCEPT !.stale = run[k].stage # "idle"]]
  /\ UNCHANGED <<external, runs, consumer, items, debounce, zombies, stopped,
                 history>>
UserResumes ==
  /\ userStopped /\ userStopped' = FALSE
  /\ UNCHANGED <<external, runs, consumer, wakes, stopped, troubles, history>>

\* The host dies and comes back.
Crash ==
  /\ Trouble
  /\ states' = [f \in Fires |-> "none"] /\ poll' = NoPoll
  /\ calls' = {} /\ listing' = {} /\ items' = <<>> /\ debounce' = FALSE
  /\ run' = [k \in Kinds |-> Idle] /\ zombies' = {} /\ stopped' = FALSE
  /\ UNCHANGED <<external, durable, history>>

Init ==
  /\ backend = [f \in Fires |-> "owed"] /\ acked = {}
  /\ runs = <<>> /\ userStopped = FALSE
  /\ states = [f \in Fires |-> "none"] /\ poll = NoPoll
  /\ calls = {} /\ listing = {} /\ items = <<>> /\ debounce = FALSE
  /\ run = [k \in Kinds |-> Idle] /\ zombies = {} /\ stopped = FALSE
  /\ troubles = 0
  /\ ranOk = {} /\ absorbed = {} /\ givenUp = {}

AnyTick ==
  \/ \E returned \in SUBSET Fires : Polls(returned)
  \/ PollFails \/ PollReturns \/ TickEnds
  \/ \E f \in Fires : TickVisits(f)
  \/ \E c \in calls : CallReaches(c) \/ CallReturns(c) \/ CallFails(c)
AnyDelivery ==
  \E f \in Fires : \/ ConsumerStopped(f) \/ ListingFails(f) \/ RanBefore(f)
                   \/ Refuse(f) \/ FireSlot(f) \/ EnqueueEvent(f)
AnyRun ==
  \/ Flush \/ FireByHand
  \/ \E k \in Kinds : \/ GoesNoFurther(k) \/ Resolves(k) \/ Starts(k)
                      \/ GivenUp(k) \/ Settles(k)
                      \/ \E outcome \in Outcomes, status \in {"ok", "error"} :
                           RunEnds(k, outcome, status)
  \/ \E z \in zombies, status \in {"ok", "error"} : ZombieEnds(z, status)
AnyStop == Suspends \/ ResumesWakes \/ UserStops \/ UserResumes \/ Crash
Next == AnyTick \/ AnyDelivery \/ AnyRun \/ AnyStop
Spec == Init /\ [][Next]_vars

\* Awaits come back, the queue starts what waits in it, runs end, timers fire, the
\* consumer polls while it is not stopped; the backend returns a fire it polled for
\* again and again; an upgrade is put off, or replaces the process, and the user
\* resumes the agent.  What fails is not fair.
Returns(f) == \E returned \in SUBSET Fires : f \in returned /\ Polls(returned)
Delivered(f) == \/ ConsumerStopped(f) \/ RanBefore(f) \/ Refuse(f)
                \/ FireSlot(f) \/ EnqueueEvent(f)
RunGoesOn(k) ==
  \/ Resolves(k) \/ Starts(k) \/ Settles(k)
  \/ \E outcome \in Outcomes, status \in {"ok", "error"} : RunEnds(k, outcome, status)
Fairness ==
  /\ WF_vars((\E returned \in SUBSET Fires : Polls(returned)) \/ PollReturns \/ TickEnds)
  /\ WF_vars(\E f \in Fires : TickVisits(f))
  /\ WF_vars(\E c \in calls : CallReaches(c) \/ CallReturns(c))
  /\ \A f \in Fires : SF_vars(Returns(f)) /\ WF_vars(Delivered(f))
  /\ WF_vars(Flush) /\ \A k \in Kinds : SF_vars(RunGoesOn(k))
  /\ WF_vars(ResumesWakes) /\ WF_vars(UserResumes)
LiveSpec == Spec /\ Fairness

-----------------------------------------------------------------------------
Reports == [fire : Fires, by : {"deliver", "tick"}, status : Statuses,
            at : {"sent", "reached"}]
PollStates == [phase : {"idle", "answered", "reporting"}, returned : SUBSET Fires]
StoredRuns == [id : Fires \cup {Manual}, also : SUBSET Fires,
               status : {"running", "ok", "error"}]
RunStates == [stage : Stages, fires : Seq(Fires), stale : BOOLEAN, recorded : BOOLEAN,
              outcome : Outcomes]
Zombies == [fires : Seq(Fires), recorded : BOOLEAN]
TypeOK ==
  /\ backend \in [Fires -> {"owed"} \cup Statuses] /\ acked \subseteq Fires
  /\ runs \in Seq(StoredRuns) /\ Len(runs) <= History
  /\ userStopped \in BOOLEAN
  /\ states \in [Fires -> {"none", "running", "reported"} \cup Statuses]
  /\ poll \in PollStates /\ calls \subseteq Reports /\ listing \subseteq Fires
  /\ items \in Seq(Events) /\ Len(items) <= MaxQueued /\ debounce \in BOOLEAN
  /\ run \in [Kinds -> RunStates] /\ zombies \subseteq Zombies
  /\ stopped \in BOOLEAN /\ troubles \in Nat
  /\ ranOk \subseteq Fires /\ absorbed \subseteq Fires /\ givenUp \subseteq Fires

\* An entry of the Map says "running" exactly while the fire has one delivery under
\* way: it is being looked up, waits in the batch or is in a run, and in one of these
\* only.  A fire that the backend returns early would otherwise run twice at once,
\* and one whose promise nobody resolves would be neither run nor answered.
Places(f) ==
  Cardinality({i \in DOMAIN items : items[i] = f})
    + Cardinality({k \in Kinds : f \in ToSet(run[k].fires)})
    + (IF f \in listing THEN 1 ELSE 0)
\* What waits in the batch has a timer, or a wake under way that looks again.
UnderWayOnce ==
  /\ \A f \in Fires : Places(f) = IF states[f] = "running" THEN 1 ELSE 0
  /\ items # <<>> => debounce \/ run["event"].stage # "idle"

\* What the backend counts as succeeded was in a run that ended well.  Fires of an
\* absorbed record are the exception: the host died with them in a batch, and the
\* first of that batch, run again alone, finishes the record that names them all; a
\* run the scheduler gave up on may finish such a record, too, when it ends late.
SucceededWasRun ==
  \A f \in Fires : backend[f] = "succeeded" => f \in ranOk \cup absorbed

\* No fire begins to run while the newest record that covers it has an end: neither a
\* crash, nor a lost report, nor a late answer repeats what the store knows to be
\* done, though the store is asked long before the run begins.  (An older record that
\* ended does not count: a newer one, of a wake the host died in, hides it.)  What an
\* absorbed record says of a fire is not about it, and a run the scheduler has given
\* up on may end, and be recorded, while a second delivery of its fires is on its way.
Begins(f) == \E k \in Kinds : /\ f \in ToSet(run[k].fires)
                              /\ run[k].stage = "enqueued" /\ run'[k].stage = "running"
KnownDone(f) == Covering(f) # {} /\ runs[Min(Covering(f))].status # "running"
NoKnownRunRepeats ==
  [][\A f \in Fires \ (absorbed \cup givenUp) : Begins(f) => ~KnownDone(f)]_vars

\* Each fire is answered in the end, whatever is refused, forgotten, given up on or
\* lost in between.  The consumer forgets what it has reported, the backend what was
\* acknowledged: neither may happen to a fire without an answer.
EveryFireIsAnswered == \A f \in Fires : backend[f] = "owed" ~> backend[f] \in Statuses
=============================================================================
