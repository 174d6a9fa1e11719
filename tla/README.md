# Verification of the Grok Bot host

Grok Bot is a desktop application whose agents live in a *host*: a Node process
that keeps each agent's transcript and database, serialises the runs of its
model, hands it prompts, completions and messages, and must come back from
crashes, upgrades and stops without losing or repeating work. This directory
holds TLA+ models of the protocols that make the host correct, the TLC
configurations that check them, and TLAPS proofs.

Paths below are relative to `src/source/`; `transcript/` is short for
`host/extensions/transcript/`.

## 1. The system

### Parts and how they interact

    desktop shell -- coordinator -- gateway --+
    (electron-main)  (node-agent-   (HTTP,SSE)|
                      coordinator)            v
       user's prompt --> send pipeline --> acceptance ledger   (durable)
                             |        \--> ack obligations     (durable) <-+
                             v                                             |
     wakes, agent    --> run lifecycle --> run scheduler --> turn runtime -+
     messages, fires         ^                                   |
        ^                    |                                   v
        |             upgrade resume (durable)             runner and tools
        |             user stop      (durable)                   |
        +---- pending wakes (durable) <---- background work <----+

One event loop runs all of the host. Concurrency is what happens between two
awaits: handlers of the gateway, settled promises, microtasks and timers
interleave there. Several stores are files rewritten as a whole; the process
may die between any two writes.

| part | state | operations | what makes it correct |
|---|---|---|---|
| Run scheduler (`transcript/run-scheduler.ts`) | three lanes, the active run, zombies, two timers | enqueue, pump, settle, watchdog, escape, drain, dispose | one run at a time; no task lost or run twice; a wedged run cannot keep a user waiting for ever; drain means quiet |
| Acceptance ledger (`transcript/prompt-acceptance-ledger.ts`) | records of nonces, gaps in the history, degraded marker; file and marker file | lookup, recordPending, markAccepted, markRejected, clear, load, persist | a retry of an accepted prompt is never run again unless the ledger says it may have forgotten |
| Send pipeline (`transcript/send-pipeline.ts`, `send-turn-dispatch.ts`) | sends in flight by nonce, pinned sessions | sendPrompt, sendPromptOnce, dispatchUserTurn | an accepted prompt has a durable obligation; failures let the client retry |
| Ack obligations (`transcript/ack-obligations.ts`, `sand-ack-obligation-store.ts`) | one obligation per agent (durable), live tokens, a timer | record, fulfil, redrive, give up, clear | an unanswered prompt is redriven, a cancelled or answered one is not |
| Run lifecycle (`transcript/run-lifecycle.ts`) | runs per session | begin, end, enqueueExclusiveRun | the last run of a session arms what is owed |
| User stop (`transcript/agent-user-stop.ts`) | stopped agents, generations, intents (durable), async scopes | stop, prompt that resumes | what was under way at a stop never acts again |
| Pending wakes (`transcript/sand-pending-wake-store.ts`, `pending-wake-rearm.ts`, `pending-wake-workflow.ts`, `completion-revivals.ts`, `host/runner/subagent-runtime.ts`) | markers (durable), queued completions, the revival under way | dispatch, arrive, abort, revive, settle, rearm at boot | the agent is told of every background work, once it is settled never again |
| Upgrade resume (`transcript/upgrade-recreate-resume.ts`) | quiescing, markers (durable), attempts | quiesce, resume, resumeAfterRecreate | interrupted turns are resumed once |
| Agent messages (`transcript/agent-to-agent-messaging.ts`, `background-wakes.ts`) | messages queued per agent (durable) | send, display, defer, redrive | each message is shown once, in order |
| Turn runtime (`transcript/turn-runtime.ts`, `host/runner/turn-open-work.ts`) | the turn's epoch and outcome | run, ensure a reply, settle | a turn ends with an answer or says why not |
| Automations (`host/extensions/automations/`, `transcript/automation-*.ts`) | local anchors, delivered fires, runs | tick, poll, deliver, complete | one run per slot and fire |
| Blob store (`host/agent-isolation/conversation-blob-db.ts`, `conversation-blob-store.ts`, `host/storage/sqlite-recovery.ts`) | database, log, quarantines, replacements, markers: all files | open, quarantine, salvage, install, resume, adopt | recovery survives a crash at each step; no readable row is lost unnamed |
| Worker pool (`host/agent-isolation/agent-worker-pool.ts`) | workers by path, retain counts | ensure, retain, evict, sweep, close | one writer per database |
| Supervision (`host/host-lock.ts`, `node-agent-coordinator/`) | lock file; connection attempts; daemon identity | acquire, connect, invalidate, adopt, replace, heal | one host, one daemon; no stale connection |
| Sessions, box store sync, groups, mirror, credentials, gateway | see PROJECT.json | | |

### Where it is hard

- **Two ways to start a run.** `enqueue` pumps in a microtask; settlements and
  timers pump at once. Nothing but the check of `active` keeps two runs apart.
- **Runs that never settle.** The watchdog gives up on them, yet they may come
  back later and act, settle, answer in the name of a newer prompt, dispatch work,
  or put messages back in a queue that no loop takes any more.
- **State read before an await.** A redrive resolves a session while the user
  stops and resumes the agent; a send admitted before a stop reaches its records
  after it.
- **Several files, no transaction.** The ledger and the obligations are written
  one after the other; the wakes' markers outlive the queue in memory.
- **Swallowed errors.** Stores log a failed write and go on.
- **Renames and copies.** A recovery is a dozen file operations on a database, its
  log, a quarantine, a replacement and a marker; a crash between any two leaves
  the next opening to guess from the names what was done.
- **Preempted, deferred, redriven.** A wake of agent messages is aborted by users
  and by priority messages, goes back behind or before newer ones, and shares its
  durable marker with a stop that may fail to clear it.
- **Identity reused.** A subagent that is resumed keeps its id, and with it the
  marker of its earlier run.

`PROJECT.json` lists each hazard at its line, with the properties that would
catch it going wrong, or the reason why none does.

## 2. The modules

| module | models | extends or uses |
|---|---|---|
| `RunScheduler` | the scheduler's queue of one agent, in time | `SequencesExt` |
| `ExclusiveRuns` | the abstract promise of the scheduler | |
| `SequenceLemmas` | induction over numbers and sequences, as sets; what removal from a sequence returns | `SequencesExt` |
| `RunSchedulerProofs` | every safety property of it; it implements `ExclusiveRuns` | `RunScheduler`, `SequenceLemmas` |
| `PromptAcceptanceLedger` | the ledger and its two files | `SequencesExt` |
| `LedgerProofs` | its types and every property of it | `PromptAcceptanceLedger`, `SequenceLemmas` |
| `AckObligations` | composition: send pipeline, obligations, run count, stop, quiesce, crashes | |
| `AckObligationsProofs` | its types and every safety property | `AckObligations` |
| `PendingWakes` | background works and their durable markers, across boots | |
| `PendingWakesProofs` | every safety property of it | `PendingWakes`, `SequenceLemmas` |
| `AgentMessages` | messages between agents: durable inbox, wakes, preemption, stop, restart | `SequencesExt` |
| `AgentMessagesProofs` | every property of it | `AgentMessages`, `SequenceLemmas` |
| `AutomationFires` | the fires of an automation, from the backend's poll to the acknowledgement | `SequencesExt` |
| `AutomationFiresProofs` | every safety property of it | `AutomationFires`, `SequenceLemmas` |
| `BlobRecovery` | an agent's blob database: opening, recovery, adoption, its log | |
| `BlobRecoveryProofs` | every safety property of it | `BlobRecovery` |
| `MC...` | the instances TLC checks | each its module |

Each action is one stretch of the program between two awaits (or one callback
of a timer), with every state change that stretch makes. Logging, telemetry,
roster updates and wording are left out.

### RunScheduler (`transcript/run-scheduler.ts`)

A task of the model is a `RunTask` and the `ActiveRun` it becomes. The lanes are
sequences; `active`, `phase` and `zombies` are those of the code; `executing` and
`unsettled` say whether the promises of `task()` and of `enqueue()` have settled;
`pumps` counts the microtasks that `enqueue` has queued. `Enqueue`, `Pump`,
`RunSettles` (`onTaskSettled`), `WatchdogFires`, `GraceExpires`
(`escapeWedgedRun`), `Drain`, `DrainReturns`, `Dispose` and `Tick` are the
actions; `ZombieForgotten` is the reaction an escape leaves on the run's promise.
Generations are left out: they tell runs apart, which the identity of a task does
as long as a task is enqueued again only after everything has forgotten it.

Time is counted in units. What the code computes from `Date.now()` are ages,
capped where they stop being told apart; timers may fire `TimerSlack` units early
by that clock (they run on another one) and any time late. Timer callbacks wait
until no microtask is left.

`ExclusiveRuns` forgets lanes, timers and microtasks: tasks wait, one is current,
the most urgent goes first, and a current task is abandoned only while a user
waits. `RunScheduler` refines it with *waiting* as the union of the lanes and
*abandoned* as the zombies that still execute (`KeepsPromise`).

### PromptAcceptanceLedger (`transcript/prompt-acceptance-ledger.ts`)

`records`, `gaps`, `degradedSince` and `markerMayExist` are the fields of the class;
`file` and `marker` are the disk. `Persist` succeeds or fails, and after a failure the
marker may be written or not; `Load` reads what is there, `Damage` stands for what
parsing may refuse (one record at a time, or the gaps), `LoadUnreadable` for a read that
throws (and which, as every load does, writes the file when the marker exists). The
history variables say what was really done with each nonce and when, and whether a fault
left no trace at all (`untraced`): a crash of a ledger whose file *and* marker could not
be written, or a file that exists and could not be read. Nothing on disk can tell these
from a first start, so the promises are stated up to them.

### AckObligations (`transcript/`: six files)

The composition from a prompt to its answer. `pipe` is where each send is in
`sendPromptOnce`; `run` is where its run, or that of a redrive, is in the queue
(that of `RunScheduler` with order and timing left out); `obligation` is the
durable count of redrives; `tokens` the runs that may fulfil it; `timer` is armed
in an AsyncLocalStorage scope or outside any. A stop makes every scope of the
agent stale: `stale` holds the calls that run in one. A run that executes at the stop
is only interrupted, and may still show a message: that it settles nothing then is
due to the stop's clearing of the tokens (`TokensCleared`) and to nothing else. One
that starts after the stop in such a scope is refused by its runner (`barred`: it
holds the queue and shows nothing). Between the ledger's record
and the obligation's the code is synchronous (`pipe = "recording"`): no action but
`Crash` can come between. `fate` is history: what became of each prompt.

### PendingWakes (`transcript/`, `host/runner/subagent-runtime.ts`)

A work is a subagent (dies with the host) or a cloud agent (does not). `marker`
is the durable wake: a result once there is one, and the *parents*, the wakes in
whose revival it was dispatched. `queue`, `batch` and `phase` are the loop of
`reviveForSubagentCompletions`; `refs` is the workflow of the running revival.
`Settles` is the fixpoint the code computes by iterating `clearSettledWorkflow`:
a handed-over wake is cleared, then its ancestors, unless another marker depends
on them. `Boot` arms the markers that have no dependent, one at a time
(`Rearm`, `RearmFails`); markers with neither result nor parents are cleared
first, and the code has a window there that the properties name (`ClearedByBoot`).
`GivenUp` is the scheduler's escape of a wedged revival or turn: for the loop the
revival has ended uncompleted, and nothing is settled; what was given up stays in
`late`, beside turns and later revivals, and may dispatch works under its workflow
until it returns (`LateEnds`).
`source` and `owed` are history: for what each work was dispatched, and which
wakes the agent has still to be told of (`Concluded` says, from history alone,
when one is not). An id may be dispatched again. `SettledSpec` is the model in which
that happens only once the earlier wake is settled, nothing that was dispatched
for it is due, and no run given up still goes on for it; the code does not see to
that, and `Spec` is without it.

### AgentMessages (`transcript/agent-to-agent-messaging.ts`, `agent-user-stop.ts`)

`inbox` is the durable wake of each message, `pending` is `pendingAgentInbound`,
`batch` what the loop of `reviveForAgentInbound` took and `at` where it is in it.
`phase` is the await the loop is in: `Resolve` a session, `AppendEntry` to the
transcript, `MarkDisplayed` on disk, `StartRun` behind the scheduler; a run
`Completes`, `Waits` for work of its own, `Aborts` (preempted by a user or a peer,
or stopped) or fails (`RunFails`), and the tail of each says what is settled,
deferred, redriven or left to the next process. `Send` saves before it queues and
warns the sender when it could not. `Stop` makes the batch stale and clears
memory and disk, the latter if the write succeeds; `Resume` is the prompt that ends
a stop. `Restart` keeps what is on disk, and `Rearm` redelivers it. `LoopThrows`
is an entry that cannot be appended, or an intent that cannot be saved as the run is
enqueued: the loop ends and leaves the queue to the next call of it. `fate` is
history: what each sender was told and what became of the message.

The scheduler may give up on a wedged run (`GivenUp`): what the loop awaits is
resolved, and it takes the next batch or ends, while the callback goes on in
`zombies` with the rest of its batch and what it will find of stops and of users
(`stale`, `superseded`). It may complete its message and go on to the next
(`LateCompletes`), wait (`LateWaits`), abort (`LateAborts`) or fail (`LateFails`), with
the writes and the requeueing of any run, beside the loop and beside the runs of the
next batch; it shares the agent's flag of preemption with them and with the agent's
other wakes (`OtherWake`). Nothing calls the loop for what it puts back: `givenBack`
is history and names those messages. They may wait without a loop, until something
else is sent to the agent, or come behind newer ones; the properties about loops and
order except them by name, and nothing else but the failed write of `LoopThrows`.

Resuming clears the inbox once more (`agent-user-stop.ts`), successfully or not:
both outcomes are in the model whatever the budget of failed writes.

### AutomationFires (`host/extensions/automations/`, `transcript/automation-*.ts`, `host/automations/`)

One automation with its fires: slots of its schedule, and events. `backend` and
`acked` are the other side, which returns any fires it has no acknowledgement of,
at any poll. `states` is the consumer's Map, `poll` the tick, `calls` the reports of
completions, which reach the backend (`CallReaches`), come back (`CallReturns`) or
fail, before or after they reached it (`CallFails`). A delivery is in `listing` until
the automations are listed; then it is refused (`Refuse`: disabled, changed,
covered, no match), found in the history (`RanBefore`), dropped (`ConsumerStopped`,
`ListingFails`), or goes to `fireAutomation`: a slot at once (`FireSlot`), an event
through the batch (`EnqueueEvent`, `Flush`) and its timer (`debounce`). `run` is
`fireAutomation` from await to await (`Resolves`, `Starts`, `RunEnds`,
`GoesNoFurther`), one for slots and runs by hand, one for batches of events;
`Settles` is its return to the callers. Something may throw after the record of the
run was finished (`Throws`): inside the task, which makes an error of the outcome
while the record keeps its end if the second write fails, or as the task is left, and
then the callers hear of no outcome at all. `GivenUp` and `ZombieEnds` are what the
scheduler's escape means here. `runs` is `runs.json`, to which `beginRun` adds
and `finishRun` writes, if the writes succeed. The user's stop makes what is under
way `stale`; an upgrade that is put off suspends the consumer (`Suspends`).
`ranOk`, `absorbed` and `givenUp` are history.

A fire whose time has not come is one the backend does not return yet. What an
error of reporting (409 or 404) says is that the backend has an answer, so both
outcomes of `CallReturns` are one.

Two windows are named by the properties. *Absorbed*: the host dies in a wake of
several events; the first, redelivered alone, takes over the record that names them
all (`automation-store.ts:85`), and its end answers for the others, which were in no
run that ended; a run given up on may finish such a record, too, when it ends late.
*Given up*: a run that the watchdog abandoned may end, and be
recorded, while another delivery of its fire is past the look at the history. What the
history knows of a fire is what the newest record that covers it says, as `existing`
reads it: the record of a wake that the host died in hides an older one that ended.

### BlobRecovery (`host/agent-isolation/`, `host/storage/sqlite-recovery.ts`)

`disk` and `wal` are the main file and the log at each path: the database, the
quarantine of each time stamp, and the replacements. A file is sound, corrupt or
torn (the part an interrupted copy leaves), and its rows are what reading it
returns. `pc` is the next file operation of the worker, `job` its local
variables; one action is one operation. `markers` are the `.intent` and `.pending`
files, stamp 0 being the recovery in place. `Open`, `Probe...`, `Recover`, the
quarantine (`MoveMain`, `MoveLog`; `CopyMain`, `CopyEnds`, `CopyFails`, `CopyLog`,
`DropSource`), `Mark`, `Finish...` (the cases in which a recovery is resumed),
`Rebuild`, `SalvageRow`, `SalvageEnds`, `Checkpoint`, `RemoveOld`, `Install`,
`Settle`; then `Adopt` and `MarkAdopted` for the legacy blobs, and `Write`.
Removing a main file and its sidecars is one step: what is left after the first
half is removed by the next opening all the same. SQLite folds a log into its main
file when a connection closes; the model does so for the open database, in one step,
and leaves the log of a corrupt database that was probed, and of a quarantine whose
rows were salvaged, where it was: file and log hold the same rows together either
way. A fold that is cut short and loses its log at the next opening is one of the
corruptions `Rot` stands for.

`Crash` is the death of the worker, and any exception of this code ends the
worker. `Rot` makes a closed file corrupt and leaves any part of its rows readable.
`owed` is history: what was written and has a readable copy that the next
opening would look at. `lost` is history too: the rows that the code gives up, in
four windows, and nowhere else.

- `sidecar`: an I/O error on opening is answered by removing the log.
- `log`: the log is not moved with its main file (a crash or a failing rename).
- `skipped`: a row that cannot be inserted is passed over.
- `torn`: the worker dies while it *copies* the corrupt database, or between a
  failed copy and the renaming of the marker. The next opening finds the database
  corrupt and the quarantine there, takes the part for the whole, deletes the
  database (`conversation-blob-db.ts:361`) and salvages the part. Marking the copy
  as finished, or copying to a temporary name, would close this window.

## 3. What is checked

| run | asks | bounds |
|---|---|---|
| `scheduler` | exclusion, no lost task, order, the watchdog's patience, drain, refinement of `ExclusiveRuns` | 4 tasks: two direct prompts, a group turn, a wake; watchdog and grace 2 units, slack 1; 2 pumps |
| `scheduler_live` | every direct prompt starts though no run is assumed to settle; if runs settle and prompts stop arriving, drain returns | 4 tasks, with an agent message; 1 unit each |
| `ledger` | a recorded prompt is never "not-found"; whatever is wrong lies in a declared gap | 2 nonces, 1 record, 1 window, 2 times |
| `acks` | only what is owed is redriven; every accepted prompt is accounted for when a write fails, and no run of before a stop or an escape answers for it | 2 prompts, 2 redrives; a failing write, a stop, a quiesce, a crash |
| `acks_live` | an obligation is watched, and settled in the end | no stop; a crash |
| `acks_stale` | *violated*: the same with a stop | 2 prompts, 1 redrive |
| `wakes` | no wake lost, none told twice, all reachable at a boot, none left queued | 3 works, one a cloud agent, each dispatched once and again once it is settled; 1 run given up that goes on; 2 crashes |
| `wakes_resumed` | *violated*: a work dispatched again at any time | 2 works, 2 rounds |
| `messages` | an accepted message is kept until handled or cancelled; cancelled stays dead; none handled or shown twice, overtaken, stranded, left without a loop, or redriven for ever, but for what a run given up puts back | 3 messages; a failing write, a stop, and a restart or a run given up; a redelivery looks at 1 entry |
| `fires` | no fire is under way twice, or left there; none is reported as succeeded without its run, or run again when its end is known | 2 events, waking together or apart; 1 trouble (a fault, a stop, a death) |
| `fires_live` | every fire is answered in the end | a slot; 3 troubles, runs by hand among them |
| `blobs` | an open database lacks no readable row but those of the four windows; legacy blobs are all there; quarantines and sound databases are not overwritten; a recovery ends | 2 blobs, one of them legacy too; a corruption, 2 transient errors, 2 crashes |

Why the bounds are enough. *Scheduler*: a task is enqueued again once it is forgotten,
so four tasks give behaviours without end; two prompts of one kind are needed for order,
three ranks for priority, a run to wedge and one to follow it; two units of time with
one of slack make an early timer, a late one and a re-armed one differ. *Ledger*: one
nonce more than it has records evicts; one window makes the second degraded period
merge; its theorems hold for any numbers. *Obligations*: two prompts are what coalesces,
one preempts the other; two redrives overlap; one stop and one crash may fall at any
step. *Wakes*: three works make a chain and a fork of dispatches, a second round an id
used again; one run that goes on dispatches beside a turn or a revival; the second crash
hits a boot that is still arming what the first left. *Messages*: of three, one runs,
one was deferred and one cuts in; with a look-back of one entry the third pushes the
first out of sight; the properties are about one stop and one restart with what comes
between. With a run given up, three are the one it is at, the one it puts back and the
one the loop has meanwhile. A behaviour has a restart or a run given up, since a restart
forgets those. Two messages meet a stop, a failing write and either of these together;
three meet a stop, a failing write or a restart, the first two of these also beside a
run given up (`Bounded` in the MC module: the theorems hold without). *Fires*: two
events are a wake with a fire that its record only names; a history of one run forgets
the first when the second begins; one fire alone is followed through three troubles,
which is a lost report, a stop and a death in any order. *Blobs*: the second crash hits
a recovery that resumes another; the second transient error turns a retry into a
recovery of a sound database, which with the corruption makes two recoveries; one row
tells kept from lost, the other kept from adopted.

Each property has a mutant in PROJECT.json: a small change to the modelled code,
of the kind a careless edit would make, that breaks it under the same run.

### Fairness, and why the code justifies it

- *Scheduler* (`EventLoop`): microtasks run (WF `Pump`), and timers that are due
  run again and again between macrotasks (SF `WatchdogFires`, `GraceExpires`,
  `Tick`): `enqueue` is called from macrotasks, so no chain of microtasks keeps
  timers out. Nothing is assumed of runs, except in the
  premise of `DrainReturnsOnceQuiet` (`RunsSettle`).
- *Obligations*: awaits come back with success or failure, queued runs start and
  settle, armed timers fire, a host that went down is started again. New prompts
  are not assumed; a client that sends for ever puts the redrive off for ever,
  hence the premise of `OwedIsSettled`.
- *Wakes*: a session resolves or fails to, runs end (completed or not). The start
  of a revival has SF: a user's turns may go on for ever, but the background lane
  gets its turn each time the user's lane is empty, which the model sees as the
  revival being enabled again and again.

- *Fires*: awaits come back, the scheduler starts and ends runs (SF: a stop or the
  other kind of run may come first), timers fire, the consumer polls while it is
  not stopped. The backend returns a fire it has no answer for again and again (SF,
  the one assumption about it), an upgrade is put off or replaces the process, the user
  resumes the agent. Troubles are not fair, and bounded.

- *Blobs*: the worker's code runs on, and some request opens the agent's store
  again after a crash. Adoption, writes and closing are not assumed.

### Findings

Each is a run that TLC is expected to find violated.

1. **A stale send leaves a newer prompt without a redrive** (`acks_stale`,
   `transcript/ack-obligations.ts:146`). A send admitted before a stop releases
   the session last, in its stale scope; `armAckRedriveTimer` takes that for a
   stopped agent and does not arm the timer for the prompt the user has sent
   since. The next run of the agent, or a restart, repairs it.
2. **A resumed subagent shares the marker of its earlier run** (`wakes_resumed`,
   `transcript/completion-revivals.ts:185`). Resumed before the earlier completion
   is delivered, it loses its marker when that delivery settles it; a crash then
   leaves the new run unreported. With the same reuse the markers of two wakes can
   come to name each other (the revival of B, dispatched for A, resumes A), and every
   boot skips both (`transcript/pending-wake-rearm.ts:142`): under the bounds of this
   run `EveryWakeIsReachable` fails too.

The scheduler's escape of a message run deserves a remark. The comment at
`transcript/agent-to-agent-messaging.ts:333-335` has the unstarted tail queued "so a
wait on its child cannot strand later accepted messages until restart". After the
escape (`run-scheduler.ts:361`) the loop has ended; the callback then waits, queues the
tail (`:337`) and returns, and nothing takes it until another message is sent to the
agent or the host restarts. `NoneStranded` names that case (`givenBack`), and without
the name it fails.

Drain does, too: it awaits every pending task, and
in a queue that stays busy with direct prompts a group turn is never reached, so
the promise is conditional (`DrainReturnsOnceQuiet`). So do the two windows of the
fires that section 2 names, and its torn copy, which the repository's audit contradicts
(`docs/testing/legacy-grok-2026-08-25/grok-bot-ledger-gap-audit-2026-08-25.md:864-865`:
a corrupt database is rebuilt with the blobs that can be saved, and an interrupted
recovery is found and finished): `NothingElseIsLost` names that window, and without
the name it fails.

## 4. What is proved

For every set of tasks, every timing and every bound:

- `TypeCorrect`, `Exclusion`, `NoneLost`, `WakeupsKept`, `UsersWatched`, `DrainSound`,
  `EscapeEarned`, `LateSettlesSilent`, `OrderKept`, `PromiseKept`
  (`RunSchedulerProofs`): `Spec => []TypeOK`, `[]RunsExcludeEachOther`, `[]NoTaskLost`,
  `[]NoLostWakeup`, `[]WaitersAreWatched`, `DrainIsSound`, `EscapeIsEarned`,
  `LateSettleIsSilent`, `OrderIsKept`, `KeepsPromise`. (`NoLostWakeup`,
  `WaitersAreWatched` and `LateSettleIsSilent`, like `TokensAreLive` and
  `EvictionSparesSendsInFlight` below, are proved for all instances and no run repeats
  them.) With these every safety property of the scheduler is proved, and that it
  implements `ExclusiveRuns`.
- `LedgerTypeCorrect`, `GapsAreHonest`, `NotFoundTrusted`, `SendsSpared`
  (`LedgerProofs`): `Spec => []TypeOK`, `[]GapsCoverWhatIsWrong`, `[]NotFoundIsTrue`,
  `EvictionSparesSendsInFlight`: every property of the ledger.
- `TypeCorrect`, `TokensLive`, `PromptsAccounted`, `RedrivesEarned`, `OwedWatched`
  (`AckObligationsProofs`): `Spec => []TypeOK`, `[]TokensAreLive`, `[]AcceptedIsOwed`,
  `[]ObligationIsEarned`, and, where nobody stops or quiesces and no write fails,
  `[]OwedIsWatched`.
- `WakesTypeCorrect` (`PendingWakesProofs`): `Spec => []TypeOK`, which includes that one
  run of the agent holds the queue (those given up go on beside it). `WakesKept`,
  `WakesSettled`, `WakesReachable`: `SettledSpec => []NoWakeForgotten`,
  `[]SettledIsForgotten`, `[]EveryWakeIsReachable`; `DispatchedOnce`: with `MaxRounds =
  1`, `Spec => SettledSpec`.
- `MessageTypes`, `MessageKept`, `StopIsFinal`, `MessageHandledOnce`,
  `MessageShownOnce`, `MessageOrder`, `MessageNotStranded`, `LoopProgress`
  (`AgentMessagesProofs`): `Spec => []TypeOK`, `[]AcceptedIsKept`,
  `[]CancelledStaysDead`, `[]HandledOnce`, `[]ShownOnce`, `[]SendOrder`,
  `[]NoneStranded`, `RunsMakeProgress`, with any number of runs given up: every
  property of the messages.
- `FiresTypes`, `FireUnderWayOnce`, `FireSucceededWasRun`, `FireRunsOnce`
  (`AutomationFiresProofs`): `Spec => []TypeOK`, `[]UnderWayOnce`, `[]SucceededWasRun`,
  `NoKnownRunRepeats`: every safety property of the fires.
- `BlobTypeCorrect`, `OpenedIsWhole`, `GoodIsKept`, `AdoptedHoldsLegacy`
  (`BlobRecoveryProofs`): `Spec => []TypeOK`, `[]NothingElseIsLost`, `GoodFilesAreKept`,
  `[]AdoptedIsWhole`: every safety property of the blob store.

Assumptions: those the modules state for their constants (`TasksAssumption`,
`TimingAssumption`; `BoundsAssumption` of the ledger; `CallsAssumption`;
`WorksAssumption`, `NoneAssumption`; the `BoundsAssumption` of the messages; those of the
fires; `RowsAssumption`, `BoundsAssumption` of the blob store), which TLC
evaluates on every run.

*Scheduler.* Exclusion is not inductive by itself: a pump that starts a task must
know that the task is not executing already, as a zombie or as the active run. The
invariant is `SafeInv`: types, exclusion, `NoTaskLost` (a caller waits exactly
while its task is once in its lane or active) and `Fresh` (a task that waits in a
lane is no zombie). `Enqueue`'s guard (a new object) establishes `Fresh`, an escape
keeps it because the run it gives up on has left its lane, and `RemoveAt` from the
middle of a lane keeps `Once`; lemmas say what the lanes are after each operation,
and then each action has one step per conjunct.

`PromiseInv` adds to it the wakeups, the watch over users, `GraceIsEarned` (while the
grace timer is armed, what the first user in the lane has waited and what is left on the
timer add up to both periods) and `DrainAwaits` (what a drain covers, it still awaits).
`GraceIsEarned` is what makes an escape earned: the action that escapes tests only the
timer. It also gives the refinement its only hard step, the one abandonment: `waiting`
is the union of the lanes, `abandoned` the zombies that execute, and the lemma on the
head of the lanes shows that what the pump takes has the smallest rank of those that
wait. Order is proved from what each operation does to the sequences: a removal from the
middle keeps the order of the rest.

*Obligations.* Types come first and by themselves, and with them that a token belongs to
a run that is queued or holds the queue and did not execute at a stop (`TokensAreLive`);
`OwedInv` is then `AcceptedIsOwed` and `ObligationIsEarned` with two facts neither
implies: `CancelledOwesNot` (what is owed was neither stopped nor sent before the last
stop) and `PipeOK` (what the pipeline has recorded has a fate, and what it has not yet
is not in the ledger). `OwedIsWatched` fails with a stop (that is the finding below the
runs), so its theorem assumes `Untroubled`, the setting of the run `acks_live`, and
keeps the crashes: `WatchInv` says that a run or a send of the session, a resolving
redrive or the timer is there whenever something is owed (and that a call in a stale
scope, which would arm nothing, does not exist).

*Ledger.* `GapsCoverWhatIsWrong` speaks of a process that runs; a crash and the next
`Load` need to know what the disk admits. `OnDisk` says that what the file has wrong
lies in its own gaps, or the file is damaged, or the marker or the window still open
in memory began before the change ended. A crash exchanges the open window for the
marker, which is of no later than it (`MarkerKnown`) or was never written
(`untraced`); a load turns the marker into a window and damage into a reset, which
reach all that was done since because nothing is of a time to come (`Clock`); an
eviction moves the horizon past the record it drops, which is no older than the first
recording of its nonce (`Dated`). Lemmas say that each operation on gaps admits what
was admitted before and what it adds, the merged last window included, and one lemma
(`PersistKeeps`) carries `persist`, saved or not, for every action that calls it.

*Wakes.* `phase # "idle"` exactly while a batch is in flight holds because
`TakeQueue` sets both, and because nothing is queued while the loop is idle. It
needs `DispatchedOnly`: a work that runs, is marked or is being rearmed was
dispatched, so that a queued result, being its round, is told from no result.

The other three speak of what history says is due (`owed`), and the code knows only
markers that name their parents. `WakesInv` relates the two: what is due has a marker or
is being rearmed, and nothing else has (`OwedOK`); the parents of a marker are what its
work was dispatched for (`MarkersOK`); and a cause of a cause is a cause (`WorkflowOK`),
in the workflows of runs given up, too (`LateOK`). So the workflow a revival opens is
its batch with its causes, found in one step (`WorkflowIs`), and the fixpoint of
`clearSettledWorkflow` is exactly what history calls concluded, for workflows of any
depth (`SettlesIs`): of the wakes a smaller settled set left out, one that none of the
others was dispatched for (`LastOfDue`, by the number of its causes) would have been
released. `LeavesOK`, that nothing due was dispatched for a wake the agent has yet to be
told of, keeps a running work, a queued completion and a marker that is being rearmed
out of it. That is what fails when a work is resumed too early, hence `SettledSpec`: the
finding says what happens without it, the theorem that nothing else is needed.

*Messages.* Of each message `MessageInv` says where it may be: in memory once
(`MemoryOK`), on disk once (`DiskOK`); a stop leaves none accepted (`StopOK`); what it
cancelled is only in a batch that unwinds, with a run given up that is told of the stop,
or in a file it could not clear, and then the stop is saved (`DeadOK`); what a run given
up has is with no other, and older than what is still to be gone through (`LateOK`);
what is still to be shown is not in the transcript, but for a torn write (`ShowOK`).
None of the properties is inductive alone: that a cancelled message is not rearmed needs
that its file outlives the stop only with the saved stop, that none is shown twice needs
to know what the batch has still to show. First come the queues: what partition, merge,
redrive and the rest of a batch make of a queue's messages, its order and its work.
Every tail of a run goes on with a queue made of what was in memory, so that one lemma
(`LoopGoesOn`) carries completions, waits, aborts and failures, and one (`LateGoesOn`)
the ends of runs given up; `LoopProgress` is then arithmetic on the work of the queues.

*Fires.* A delivery moves its fire from one place to the next and leaves by completing
or forgetting it (`PlacesOK`). The only other step that changes an entry of the Map is the
return of a report, which must not find the entry running again: it does not, because a
fire that was forgotten is delivered again only if it was not acknowledged, and the
consumer forgets what it has reported only after a poll that acknowledged it
(`CallsOK`). So the fires of two wakes are disjoint, and a record that one of them
finishes says nothing new of the other's fires but for those of an absorbed record
(`RecordsOK`); what the history did not know of a fire when it was delivered, it does not
know when the fire begins (`FreshOK`). `EarnedOK` follows a success from the run's end
through the record, the entry and the report to the backend.

*Blob store.* `NothingElseIsLost` speaks of the open database only, and most steps
of a recovery happen while there is none. The invariant therefore says what the
*next* opening would find if the worker died now (`Recoverable`): without a marker,
the database; with one, whichever of the quarantine, the database and the
replacement `finishConversationBlobRecovery` would take, in its own order of
tests. Each of them holds every owed row but those given up, the ones a crash at
this very step gives up included (`Kept`). It needs `PathsOK`, what the worker's
place in the code says of the marker and of its paths, and `FilesOK`, what it says
of the files: a quarantine begins with no file in its way, a rebuild with no
database or one in place that is corrupt, a complete replacement has nothing in its
log that its main file does not repeat. The last is why the retry of
`getHealthOnDisk` may drop the replacement's log: had it the version only in
the log, it would no longer count as complete. One lemma per action derives what
the step changes and then the four parts; `FillingKeeps` and `OpenedKeeps` carry
the steps that only fill the replacement or only use the open database.
The proofs of the last two add that a sound database is quarantined only after an error
(`Unharmed`) and that the mark of adoption is set nowhere but in the database
(`AdoptionInv`).

*Induction.* The library's induction theorems take an operator and cannot be applied
here. `SequenceLemmas` has them as statements about sets: a set that holds 0 and
the successor of each number it holds has every number (`NaturalsReached`), and the same
for sequences (`SequencesReached`). The recursive functions of the messages
(`Those`) are proved about with them.

Only model-checked: the liveness properties (`DirectPromptsStart`,
`DrainReturnsOnceQuiet`, `OwedIsSettled`, `QueuedIsTaken`, `EveryFireIsAnswered`,
`RecoveryEnds`), which need fairness and ENABLED; the two runs that
are violated.

## 5. What is not modelled

PROJECT.json names every part with its reason. In the modelled parts: attachments, echo
entries and group sends of the pipeline; shells and agent messages among the wakes,
pruning of markers by age, failing writes of their store, and the wake's workflow that a
user's turn inherits when a past wake's call pumps the queue; messages of groups and
shared rooms, and the run of a message that an upgrade quiesces (its tail at
`agent-to-agent-messaging.ts:332` queues the rest without asking for a stop); the local
clock of automations, events of the local relay (which have no id), the sync of their
definitions to the cloud and their editing, the wording of completions; garbage
collection, vacuum and the retirement of the legacy database in the blob store, and two
workers on one database; the retirement of sessions in the run lifecycle; the save of
stops. The digest of a prompt's input is taken to match. Providers, tools, the renderer,
vendored packages and protocol buffers are outside.

What some properties do not say:

- `DrainIsSound` is about the runs that executed when drain was called. A task that
  only waited then, starts later and is given up is not covered: the drain returns
  without it, as `run-scheduler.ts:121` has it.
- `GapsCoverWhatIsWrong` ends at what the ledger answers. `admitSend` asks for the
  gaps only of a nonce it does not know: when a record whose clearing was not saved
  comes back after a crash, the retry of its send is dropped as a duplicate, whatever
  the gaps admit (`prompt-acceptance-ledger.ts:302`).
- `EveryFireIsAnswered` is checked for a slot; the safety run has the batch and its
  timer, and no run has the liveness of a batch.
- `NothingElseIsLost` stops asking for a row once one of its windows has exposed it,
  although the database may in the end be kept.
- `RecoveryEnds` is about errors that go away.

## 6. Plan

In this order; each with an MC instance, properties aimed at the hazards listed
for it, and proofs where the state is flat enough.

1. `PendingWakes`, extended by the workflow a user's turn may inherit.
2. `UserStop` and `UpgradeResume`: stop guards; markers and their single-flight
   attempts across restarts. Abstract specification: work of before a stop never
   acts after it.
3. `TurnSettlement`: the outcome `AckObligations` takes as a choice.
4. `AgentWorkerPool` and `HostLock`: one writer per database and one host per
   directory, against eviction, crashes and races on files.
5. `LocalCron`, the local clock beside `AutomationFires`, then `AutomationSpendGuard`.
6. `LocalExecSupervisor`, `GatewayAttempts`; later sessions, box store sync,
   groups, credentials.

Hazards of the parts not modelled that PROJECT.json has no room to list: an upgrade
marker that joins an older attempt (`upgrade-recreate-resume.ts:117`), or is cleared by
an attempt that ends late (`upgrade-recreate-resume.ts:224`); two processes that find
the same dead holder of the lock, the slower of which removes the lock of the faster
(`host-lock.ts:20`); a spend guard
that decides outside its mutation queue (`automation-spend-guard-runtime.ts:105`); an
evicted worker that still closes while a new one opens its database
(`agent-worker-pool.ts:520`); a
successor daemon, a late exit and a pause in any order
(`node-agent-coordinator/local-exec/supervisor.ts:291`); in modelled parts, windows
the code accepts: the time of an automation's run saved before the run, so that a
fire redelivered after a death in between may be refused as covered
(`automation-run-path.ts:180`), and `run-scheduler.ts:361`,
`prompt-acceptance-ledger.ts:343`, `prompt-acceptance-ledger.ts:407`,
`ack-obligations.ts:97`, `upgrade-recreate-resume.ts:316`,
`pending-wake-rearm.ts:163`, `completion-revivals.ts:215`,
`pending-wake-workflow.ts:25`.

Proofs to come: that the composition implements an abstract promise (a prompt is
answered, owed or named), and that the wakes of `PendingWakes` implement an
exactly-once delivery up to the window of a boot.
