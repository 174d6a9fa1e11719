--------------------------- MODULE AckObligations ---------------------------
(***************************************************************************)
(* From a prompt of the user to its visible answer, across crashes: the    *)
(* send pipeline (send-pipeline.ts, send-turn-dispatch.ts), the obligation *)
(* to acknowledge it and the redrives of an unfulfilled one                *)
(* (ack-obligations.ts, sand-ack-obligation-store.ts), the count of the    *)
(* session's runs (run-lifecycle.ts) and the user's stop                   *)
(* (agent-user-stop.ts), all of host/extensions/transcript/.               *)
(*                                                                         *)
(* The module is one agent that is no group and is not deleted.  A member  *)
(* of Prompts is a send with a client nonce, tried again by its client     *)
(* until the ledger has it; a member of Redrives is a call of              *)
(* redriveAckObligation.  The run queue is that of RunScheduler with order *)
(* and timing left out: one run at a time, prompts before redrives, and a  *)
(* wedged run escaped when a prompt waits.                                 *)
(*                                                                         *)
(* Each call runs in the AsyncLocalStorage scope it started in.  A stop    *)
(* makes every scope of the agent stale for good; the code tells by the    *)
(* agent's generation, the model by the set of the stale calls.            *)
(***************************************************************************)
EXTENDS Integers, FiniteSets

CONSTANTS
  Prompts,
  Redrives,      \* bound on the calls of redriveAckObligation in progress
  MaxRedrives,   \* MAX_ACK_REDRIVES
  None,          \* no obligation
  MaxFailures,   \* bounds on the failed writes of the obligations' file and
  MaxStops,      \* on the stops, quiesces and crashes of a behaviour
  MaxQuiesces,
  MaxCrashes

ASSUME CallsAssumption ==
  /\ Prompts \cap Redrives = {}
  /\ MaxRedrives \in Nat \ {0} /\ None \notin Nat
  /\ {MaxFailures, MaxStops, MaxQuiesces, MaxCrashes} \subseteq Nat

Calls == Prompts \cup Redrives

VARIABLES
  up,            \* the host process runs
  ledger,        \* durable: the status of each nonce, or "none"
  obligation,    \* durable: redriveAttempts of the agent's obligation, or None
  stopped,       \* durable: the user has stopped the agent
  pipe,          \* how far sendPrompt is with each prompt
  run,           \* the queued run of each call
  resolving,     \* the redrives that await resolveBackgroundSession
  tokens,        \* ackRunTokens: the calls whose token is live
  timer,         \* the redrive timer: "off", or where it was armed
  stale,         \* calls that started before the last stop
  unscoped,      \* redrives that run outside any scope, since the boot
  quiescing,     \* quiescingForUpgrade
  failures,      \* history: failed writes of the obligations' file
  stops, quiesces, crashes,
  fate           \* history: what has become of each prompt

store == <<obligation, failures>>
durable == <<ledger, store, stopped>>
scopes == <<stale, unscoped>>
bounds == <<stops, quiesces, crashes>>
vars == <<up, durable, pipe, run, resolving, tokens, timer, scopes, quiescing,
          bounds, fate>>

-----------------------------------------------------------------------------
\* isAgentUserStopped and captureAgentStopGuard, in the scope of c.
IsStopped(c) == stopped \/ (c \in stale /\ c \notin unscoped)
WasStopped(c) == stopped \/ c \in stale

\* The runs the session counts: sends that pinned it, and queued or started runs.
Pinned(p) == p \in {"pinned", "recording", "recorded", "waiting"}
SessionIdle(pipes, runs) ==
  /\ \A p \in Prompts : ~Pinned(pipes[p])
  /\ \A c \in Calls : runs[c] = "none"

\* armAckRedriveTimer, called in the scope of c on an agent that owes.
ArmedBy(c, owes, left) ==
  IF IsStopped(c) \/ quiescing \/ ~owes THEN left
  ELSE IF c \in unscoped THEN "unscoped" ELSE "scoped"
\* endSessionRun by c: the last run of the session arms the timer.
AfterRun(c, pipes, runs, owes, left) ==
  IF SessionIdle(pipes, runs) THEN ArmedBy(c, owes, left) ELSE left

Becomes(from, to) ==
  [p \in Prompts |-> IF fate[p] = from THEN to ELSE fate[p]]
Owing(p) == [fate EXCEPT ![p] = IF obligation' = None THEN "unsaved" ELSE "owed"]

\* store.clear and upsert: an error of the write is swallowed.  (One that would
\* have changed nothing is not counted.)
Write(value) ==
  \/ obligation' = value /\ failures' = failures
  \/ /\ failures < MaxFailures /\ value # obligation
     /\ failures' = failures + 1 /\ obligation' = obligation
Clear == Write(None)
Upsert(attempts) == Write(attempts)

\* recordAckObligationSend by p: a send during an obligation coalesces with it.
RecordSendUnguarded(p) ==                                            \* mutant
  /\ Upsert(IF obligation = None THEN 0 ELSE obligation)
  /\ fate' = IF IsStopped(p) THEN [fate EXCEPT ![p] = "cancelled"] ELSE Owing(p)
RecordSend(p) ==
  IF IsStopped(p)
  THEN UNCHANGED store /\ fate' = [fate EXCEPT ![p] = "cancelled"]
  ELSE /\ Upsert(IF obligation = None THEN 0 ELSE obligation)
       /\ fate' = Owing(p)

-----------------------------------------------------------------------------
\* A step from the ledger's record to the obligation's is synchronous: nothing
\* but the end of the process comes between them.
Quiet == up /\ \A p \in Prompts : pipe[p] # "recording"

\* clearCancelledRecovery takes the tokens of the runs that a stop cancels.
TokensKept == tokens                                                 \* mutant
TokensCleared == {}

\* sendPrompt: a nonce that is in flight or has a record is a duplicate and does
\* nothing.  A prompt to a stopped agent first clears again what the stop
\* cancelled, and is refused if that, or the end of the stop, cannot be saved.
Admit(p) ==
  /\ Quiet
  /\ pipe[p] = "idle" /\ ledger[p] = "none"
  /\ IF stopped THEN Clear /\ timer' = "off" /\ tokens' = TokensCleared
                ELSE UNCHANGED <<store, timer, tokens>>
  /\ \/ /\ stopped
        /\ UNCHANGED <<pipe, stopped, stale>>
     \/ /\ stopped => obligation' = None
        /\ pipe' = [pipe EXCEPT ![p] = "admitted"]
        /\ stopped' = FALSE
        /\ stale' = stale \ {p}
  /\ UNCHANGED <<up, ledger, run, resolving, unscoped, quiescing, bounds, fate>>

\* pinMemberSessionForGroupTurn
Pin(p) ==
  /\ Quiet /\ pipe[p] = "admitted"
  /\ pipe' = [pipe EXCEPT ![p] = "pinned"]
  /\ UNCHANGED <<up, durable, run, resolving, tokens, timer, scopes, quiescing,
                 bounds, fate>>

\* The echo is in the transcript: recordPending, then recordAckObligationSend.
RecordPending(p) ==
  /\ Quiet /\ pipe[p] = "pinned"
  /\ pipe' = [pipe EXCEPT ![p] = "recording"]
  /\ ledger' = [ledger EXCEPT ![p] = "pending"]
  /\ UNCHANGED <<up, store, stopped, run, resolving, tokens, timer, scopes,
                 quiescing, bounds, fate>>
RecordObligation(p) ==
  /\ up /\ pipe[p] = "recording"
  /\ pipe' = [pipe EXCEPT ![p] = "recorded"]
  /\ timer' = IF IsStopped(p) THEN timer ELSE "off"
  /\ RecordSend(p)
  /\ UNCHANGED <<up, ledger, stopped, run, resolving, tokens, scopes, quiescing,
                 bounds>>

\* An await of sendPromptOnce throws: the guard records the obligation again if
\* it is gone, the session is released, and clearUnlessAccepted lets the client
\* try again.
GuardOwes(p) == pipe[p] = "recorded" /\ obligation = None
SendFails(p) ==
  /\ Quiet /\ pipe[p] \in {"admitted", "pinned", "recorded"}
  /\ pipe' = [pipe EXCEPT ![p] = "idle"]
  /\ ledger' = [ledger EXCEPT ![p] = "none"]
  /\ IF GuardOwes(p) THEN RecordSend(p) ELSE UNCHANGED <<store, fate>>
  /\ LET left == IF GuardOwes(p) /\ ~IsStopped(p) THEN "off" ELSE timer
     IN  timer' = IF pipe[p] = "admitted" THEN left
                  ELSE AfterRun(p, pipe', run, obligation' # None, left)
  /\ UNCHANGED <<up, stopped, run, resolving, tokens, scopes, quiescing, bounds>>

\* dispatchUserTurn; the caller awaits the turn or is answered at once.
Dispatch(p, awaitTurn) ==
  /\ Quiet /\ pipe[p] = "recorded"
  /\ pipe' = [pipe EXCEPT ![p] = IF awaitTurn THEN "waiting" ELSE "idle"]
  /\ timer' = "off"
  /\ IF obligation = None THEN RecordSend(p) ELSE UNCHANGED <<store, fate>>
  /\ tokens' = tokens \cup {p}
  /\ run' = [run EXCEPT ![p] = "queued"]
  /\ ledger' = [ledger EXCEPT ![p] = "accepted"]
  /\ UNCHANGED <<up, stopped, resolving, scopes, quiescing, bounds>>

-----------------------------------------------------------------------------
Ended(c) ==
  /\ run' = [run EXCEPT ![c] = "none"]
  /\ tokens' = tokens \ {c}
  /\ pipe' = IF c \in Prompts /\ pipe[c] = "waiting"
             THEN [pipe EXCEPT ![c] = "idle"] ELSE pipe
  /\ timer' = AfterRun(c, pipe', run', obligation # None, timer)

\* The scheduler starts the next run; a redrive finds nothing owed and ends.  The
\* runner of a call that is stale by then refuses to execute: the run is barred.
HoldsQueue(c) == run[c] \in {"running", "barred"}
StartRun(c) ==
  /\ Quiet /\ run[c] = "queued"
  /\ \A d \in Calls : ~HoldsQueue(d)
  /\ c \in Redrives => \A p \in Prompts : run[p] # "queued"
  /\ IF c \in Redrives /\ obligation = None
     THEN Ended(c)
     ELSE /\ run' = [run EXCEPT ![c] = IF c \in stale THEN "barred" ELSE "running"]
          /\ UNCHANGED <<tokens, pipe, timer>>
  /\ UNCHANGED <<up, durable, resolving, scopes, quiescing, bounds, fate>>

\* A run shows the user a message: fulfillAckObligation.  One that executed at a
\* stop is only interrupted, and may still do so.  (For the history only a run that
\* holds the queue and that no stop came upon answers.)
FulfilsUnchecked(c) == TRUE                                          \* mutant
Fulfils(c) == c \in tokens
Answer(c) ==
  /\ Quiet /\ run[c] \in {"running", "escaped"}
  /\ Fulfils(c) /\ obligation # None
  /\ Clear
  /\ timer' = "off"
  /\ fate' = IF run[c] = "running" /\ c \notin stale
             THEN Becomes("owed", "answered") ELSE fate
  /\ UNCHANGED <<up, ledger, stopped, pipe, run, resolving, tokens, scopes,
                 quiescing, bounds>>

\* The run's promise settles, answered or not: the finally of runTurn or of the
\* redrive, then that of the send which awaits it.
Settle(c) ==
  /\ Quiet /\ (HoldsQueue(c) \/ run[c] = "escaped")
  /\ Ended(c)
  /\ UNCHANGED <<up, durable, resolving, scopes, quiescing, bounds, fate>>

\* escapeWedgedRun: the run goes on without its token.
TokensAfterEscape(c) == tokens \ {c}
Escape(c) ==
  /\ Quiet /\ HoldsQueue(c)
  /\ \E p \in Prompts : run[p] = "queued"
  /\ run' = [run EXCEPT ![c] = "escaped"]
  /\ tokens' = TokensAfterEscape(c)
  /\ pipe' = IF c \in Prompts /\ pipe[c] = "waiting"
             THEN [pipe EXCEPT ![c] = "idle"] ELSE pipe
  /\ UNCHANGED <<up, durable, resolving, timer, scopes, quiescing, bounds, fate>>

-----------------------------------------------------------------------------
Free(r) == run[r] = "none" /\ r \notin resolving

\* redriveAckObligation, called by the timer.  The attempt is counted before the
\* session is resolved; past the last attempt the prompts are given up.
RedriveStartsUncounted(r) == Upsert(obligation)                      \* mutant
RedriveStarts(r) == Upsert(obligation + 1)
GivesUpLate == obligation > MaxRedrives                              \* mutant
GivesUp == obligation >= MaxRedrives
TimerFires(r) ==
  /\ Quiet /\ timer # "off" /\ Free(r)
  /\ timer' = "off"
  /\ \/ /\ stopped \/ quiescing \/ obligation = None
        /\ UNCHANGED <<store, resolving, scopes, fate>>
     \/ /\ ~(stopped \/ quiescing \/ obligation = None) /\ GivesUp
        /\ Clear
        /\ fate' = Becomes("owed", "lost")
        /\ UNCHANGED <<resolving, scopes>>
     \/ /\ ~(stopped \/ quiescing \/ obligation = None) /\ ~GivesUp
        /\ RedriveStarts(r)
        /\ resolving' = resolving \cup {r}
        /\ stale' = stale \ {r}
        /\ unscoped' = IF timer = "unscoped" THEN unscoped \cup {r}
                                             ELSE unscoped \ {r}
        /\ UNCHANGED fate
  /\ UNCHANGED <<up, ledger, stopped, pipe, run, tokens, quiescing, bounds>>

\* The session is there: the redrive is queued in the background lane, unless
\* the agent was stopped meanwhile.  Queued work is bound to a scope.
RedriveAllowed(r) == ~WasStopped(r)
Resolve(r) ==
  /\ Quiet /\ r \in resolving
  /\ resolving' = resolving \ {r}
  /\ IF RedriveAllowed(r)
     THEN /\ run' = [run EXCEPT ![r] = "queued"]
          /\ tokens' = tokens \cup {r}
          /\ unscoped' = unscoped \ {r}
     ELSE UNCHANGED <<run, tokens, unscoped>>
  /\ UNCHANGED <<up, durable, pipe, timer, stale, quiescing, bounds, fate>>

ResolveFails(r) ==
  /\ Quiet /\ r \in resolving
  /\ resolving' = resolving \ {r}
  /\ timer' = ArmedBy(r, obligation # None, timer)
  /\ UNCHANGED <<up, durable, pipe, run, tokens, scopes, quiescing, bounds, fate>>

-----------------------------------------------------------------------------
\* interruptTranscriptAgent, whose save of the stop succeeds: with the first
\* stop every scope is stale, and clearCancelledRecovery forgets what was owed.
Stop ==
  /\ Quiet /\ stops < MaxStops
  /\ stops' = stops + 1
  /\ stopped' = TRUE
  /\ stale' = IF stopped THEN stale ELSE Calls
  /\ Clear /\ timer' = "off" /\ tokens' = TokensCleared
  /\ fate' = Becomes("owed", "cancelled")
  /\ UNCHANGED <<up, ledger, pipe, run, resolving, unscoped, quiescing, quiesces,
                 crashes>>

\* quiesceForUpgrade, and resumeAfterRecreate when the process is still there.
Quiesce ==
  /\ Quiet /\ ~quiescing /\ quiesces < MaxQuiesces
  /\ quiesces' = quiesces + 1
  /\ quiescing' = TRUE
  /\ UNCHANGED <<up, durable, pipe, run, resolving, tokens, timer, scopes, stops,
                 crashes, fate>>
ResumeAfterRecreate ==
  /\ Quiet /\ quiescing
  /\ quiescing' = FALSE
  /\ UNCHANGED <<up, durable, pipe, run, resolving, tokens, timer, scopes, bounds,
                 fate>>

Crash ==
  /\ up /\ crashes < MaxCrashes
  /\ crashes' = crashes + 1
  /\ up' = FALSE
  /\ fate' = [p \in Prompts |-> IF pipe[p] = "recording" /\ fate[p] # "owed"
                               THEN "torn" ELSE fate[p]]
  /\ pipe' = [p \in Prompts |-> "idle"]
  /\ run' = [c \in Calls |-> "none"]
  /\ resolving' = {} /\ tokens' = {} /\ timer' = "off"
  /\ stale' = {} /\ unscoped' = {} /\ quiescing' = FALSE
  /\ UNCHANGED <<durable, stops, quiesces>>

\* The next process calls redriveUnfulfilledAckObligations.
BootUnarmed == UNCHANGED timer                                       \* mutant
BootArms ==
  timer' = IF obligation = None \/ stopped THEN "off" ELSE "unscoped"
Boot ==
  /\ ~up
  /\ up' = TRUE
  /\ BootArms
  /\ UNCHANGED <<durable, pipe, run, resolving, tokens, scopes, quiescing, bounds,
                 fate>>

-----------------------------------------------------------------------------
Init ==
  /\ up = TRUE
  /\ ledger = [p \in Prompts |-> "none"]
  /\ obligation = None /\ failures = 0
  /\ stopped = FALSE
  /\ pipe = [p \in Prompts |-> "idle"]
  /\ run = [c \in Calls |-> "none"]
  /\ resolving = {} /\ tokens = {} /\ timer = "off"
  /\ stale = {} /\ unscoped = {} /\ quiescing = FALSE
  /\ stops = 0 /\ quiesces = 0 /\ crashes = 0
  /\ fate = [p \in Prompts |-> "none"]

Send(p) ==
  \/ Pin(p) \/ RecordPending(p) \/ RecordObligation(p) \/ SendFails(p)
  \/ \E awaitTurn \in BOOLEAN : Dispatch(p, awaitTurn)
Redrive(r) == TimerFires(r) \/ Resolve(r) \/ ResolveFails(r)

Next ==
  \/ \E p \in Prompts : Admit(p) \/ Send(p)
  \/ \E c \in Calls : StartRun(c) \/ Answer(c) \/ Settle(c) \/ Escape(c)
  \/ \E r \in Redrives : Redrive(r)
  \/ Stop \/ Quiesce \/ ResumeAfterRecreate \/ Crash \/ Boot

Spec == Init /\ [][Next]_vars

\* Awaits come back, timers fire, runs settle (with an answer or without one)
\* and a host that went down is started again.
Fairness ==
  /\ WF_vars(Boot)
  /\ \A p \in Prompts : WF_vars(Send(p))
  /\ \A c \in Calls : WF_vars(StartRun(c)) /\ WF_vars(Settle(c))
  /\ WF_vars(\E r \in Redrives : TimerFires(r))
  /\ \A r \in Redrives : WF_vars(Resolve(r) \/ ResolveFails(r))
FairSpec == Spec /\ Fairness

-----------------------------------------------------------------------------
Fates == {"none", "owed", "answered", "cancelled", "lost", "unsaved", "torn"}

TypeOK ==
  /\ up \in BOOLEAN /\ stopped \in BOOLEAN /\ quiescing \in BOOLEAN
  /\ ledger \in [Prompts -> {"none", "pending", "accepted"}]
  /\ obligation \in 0 .. MaxRedrives \cup {None}
  /\ pipe \in [Prompts -> {"idle", "admitted", "pinned", "recording", "recorded",
                           "waiting"}]
  /\ run \in [Calls -> {"none", "queued", "running", "barred", "escaped"}]
  /\ resolving \subseteq Redrives /\ tokens \subseteq Calls
  /\ timer \in {"off", "scoped", "unscoped"}
  /\ stale \subseteq Calls /\ unscoped \subseteq Redrives
  /\ {failures, stops, quiesces, crashes} \subseteq Nat
  /\ fate \in [Prompts -> Fates]

\* A prompt whose retries the ledger swallows is accounted for: still in the
\* pipeline, or owed by an obligation on disk, or answered, cancelled by a stop,
\* given up after the last redrive, or lost to a fault the code swallows (its
\* obligation could not be written, or the process died between the two files).
AcceptedIsOwed ==
  \A p \in Prompts :
    /\ fate[p] = "owed" => obligation # None
    /\ ledger[p] # "none" /\ pipe[p] = "idle" => fate[p] # "none"

\* Conversely the agent is redriven only for a prompt sent since the last stop
\* that nobody has answered: work that a stop cancelled cannot owe again, and an
\* answer settles every prompt that was owed when it came.  (Once a write of the
\* obligations has failed, an older one may be on disk.)
ObligationIsEarned ==
  failures = 0 /\ obligation # None => \E p \in Prompts : fate[p] = "owed"

\* Only a run that holds the queue, or is still to get it, can settle the obligation:
\* a token does not outlive the run or its escape, and one that executed at a stop
\* does not carry its token over it.
TokensAreLive ==
  \A c \in tokens :
    /\ run[c] = "queued" \/ HoldsQueue(c)
    /\ run[c] = "running" => c \notin stale

\* While the host runs and the agent is neither stopped nor quiescing, an owed
\* answer has something under way that leads to it or to a redrive.  It holds of
\* an agent that is never stopped; a send that outlives a stop breaks it.
OwedIsWatched ==
  up /\ obligation # None /\ ~stopped /\ ~quiescing =>
    \/ timer # "off" \/ resolving # {}
    \/ ~SessionIdle(pipe, run)
    \/ \E p \in Prompts : pipe[p] = "admitted"

\* Unless the clients send for ever (each send puts the redrive off), an
\* obligation does not stay: it is answered, given up or cancelled.
OwedIsSettled ==
  <>[][\A p \in Prompts : ~Admit(p)]_vars =>
    (obligation # None ~> obligation = None)
=============================================================================
