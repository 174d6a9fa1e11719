--------------------------- MODULE AgentMessages ---------------------------
(***************************************************************************)
(* The messages other agents send to one agent: saved as a pending wake    *)
(* before they are queued, shown in the transcript once, handed to the     *)
(* agent in wakes it may be preempted from, settled only after a wake that *)
(* completed, and delivered again by the next process                      *)
(* (agent-to-agent-messaging.ts, the agent-message part of                 *)
(* pending-wake-rearm.ts, sand-pending-wake-store.ts, and the user's stop  *)
(* of agent-user-stop.ts, all of host/extensions/transcript/).             *)
(*                                                                         *)
(* Messages are numbered as they are sent.  The agent is no group and no   *)
(* remote room and is not deleted; it dispatches no background work from   *)
(* these wakes (PendingWakes has the workflows that would link), and no    *)
(* upgrade quiesces its runs.  The scheduler may give up on a run of these *)
(* wakes (run-scheduler.ts), whose callback then goes on beside the loop;  *)
(* of the agent's other wakes only that they share the flag of preemption. *)
(***************************************************************************)
EXTENDS Integers, FiniteSets, SequencesExt

CONSTANTS
  MaxSends,      \* bounds on the messages,
  MaxFailures,   \* on the failed writes,
  MaxStops,      \* on the calls of interruptAgent,
  MaxEscapes,    \* on the runs that the scheduler gives up
  MaxRestarts,   \* and on the ends of the host process
  Window         \* how many last entries a redelivery looks at (80)

ASSUME BoundsAssumption ==
  {MaxSends, MaxFailures, MaxStops, MaxEscapes, MaxRestarts, Window} \subseteq Nat

Messages == 1 .. MaxSends

\* What is in memory of a message: AgentInboundMessage.  A marker is what is on
\* disk of it.
Items == [msg : Messages, priority : BOOLEAN, displayed : BOOLEAN, redriven : BOOLEAN]
Markers == [msg : Messages, priority : BOOLEAN, displayed : BOOLEAN]

\* A run that was given up: the items it has not settled, the first of which is
\* running, and what it finds of stops and of users once that one returns.
Zombies == [rest : Seq(Items), stale : BOOLEAN, superseded : BOOLEAN]

VARIABLES
  inbox,         \* durable: the Markers of the agent's messages
  transcript,    \* durable: the entries of agent messages
  stopFile,      \* durable: the saved stop
  stopped,       \* the stop in memory
  pending,       \* pendingAgentInbound: a sequence of Items
  phase,         \* where the loop of reviveForAgentInbound is
  batch,         \* the Items it took
  at,            \* the item of the batch it is at
  stale,         \* wasStopped() of the batch: a stop came since it was taken
  superseded,    \* a user's turn came since the run of that item began
  preempted,     \* the agent is in dmPreemptedWakeAgentIds
  zombies,       \* the runs given up that go on
  rearming,      \* the markers the boot is rearming
  sends, failures, stops, escapes, restarts,
  fate,          \* history: what became of each message
  waited,        \* history: messages whose run in this process ended waiting
  torn,          \* history: shown, but not saved as shown, at a restart
  disturbed,     \* history: in this process a run, a session or the loop failed,
                 \* or an abort set work aside
  givenBack      \* history: messages that a zombie of this process put back

durable == <<inbox, transcript, stopFile>>
loop == <<phase, batch, at, stale, superseded>>
bounds == <<sends, failures, stops, escapes, restarts>>
history == <<fate, waited, torn, disturbed, givenBack>>
vars == <<durable, stopped, pending, loop, preempted, zombies, rearming, bounds,
          history>>

-----------------------------------------------------------------------------
MsgsOf(s) == {s[i].msg : i \in DOMAIN s}

\* Those of s that are in S, in their order: SelectSeq for a set, which the prover
\* can reason about.
Those(s, S) ==
  LET f[n \in 0 .. Len(s)] ==
        IF n = 0 THEN <<>>
        ELSE IF s[n] \in S THEN Append(f[n - 1], s[n]) ELSE f[n - 1]
  IN  f[Len(s)]
Priority == {x \in Items : x.priority}
Redriven == {x \in Items : x.redriven}
PriorityOf(s) == Those(s, Priority)
OrdinaryOf(s) == Those(s, Items \ Priority)

\* prioritizeAgentInbound
Prioritized(s) == PriorityOf(s) \o OrdinaryOf(s)
\* mergeAgentInboundQueue: what was deferred is older than what is queued.
MergedBehind(queued, deferred) ==                                    \* mutant
  PriorityOf(queued) \o PriorityOf(deferred) \o OrdinaryOf(queued)
    \o OrdinaryOf(deferred)
Merged(queued, deferred) ==
  PriorityOf(queued) \o PriorityOf(deferred) \o OrdinaryOf(deferred)
    \o OrdinaryOf(queued)
\* What a run puts back in the queue.
PutBack(items) == IF items = <<>> THEN pending ELSE Merged(pending, items)

Shown(x) == [x EXCEPT !.displayed = TRUE]
AllShown(s) == [i \in DOMAIN s |-> Shown(s[i])]
\* The redrive of a preempted batch: each message gets one in this process.
RedrivableAlways(s) == AllShown(s)                                   \* mutant
Redrivable(s) ==
  LET first == AllShown(Those(s, Items \ Redriven))
  IN  [i \in DOMAIN first |-> [first[i] EXCEPT !.redriven = TRUE]]

\* upsertPendingWakeMarker.  The file has an order, but each marker is rearmed in
\* its own time.
Without(S, m) == {x \in S : x.msg # m}
Marker(x) == [msg |-> x.msg, priority |-> x.priority, displayed |-> x.displayed]
Upsert(S, x) == Without(S, x.msg) \cup {Marker(x)}

\* One write of the file of wakes.  The store swallows the error.
WritesInbox(new) ==
  \/ inbox' = new /\ failures' = failures
  \/ /\ failures < MaxFailures /\ new # inbox
     /\ failures' = failures + 1 /\ inbox' = inbox

\* reviveForAgentInbound goes on with what is queued, or ends.
FromWhere(queue) == at' = at                                         \* mutant
FromTheFirst(queue) == at' = 1
Continue(queue) ==
  /\ pending' = <<>> /\ FromTheFirst(queue) /\ stale' = FALSE /\ superseded' = FALSE
  /\ IF queue = <<>> \/ stopped
     THEN phase' = "idle" /\ batch' = <<>>
     ELSE phase' = "resolving" /\ batch' = Prioritized(queue)
\* Its call after something was queued; one loop at a time.
ReviveNone(queue) == pending' = queue /\ UNCHANGED loop              \* mutant
Revive(queue) ==
  IF phase = "idle" THEN Continue(queue)
                    ELSE pending' = queue /\ UNCHANGED loop

\* Entries and marks of a batch are written without an await between them.
Quiet == phase \notin {"appending", "marking"}

-----------------------------------------------------------------------------
\* sendToAgent, from the answer of listAgents on; the acknowledgement of a
\* message that could not be saved says so.  A priority message interrupts the
\* run under way, if it is at a point where there is something to interrupt.
RunsSomething == phase = "running" \/ zombies # {}
Send(priority, hits) ==
  /\ Quiet /\ ~stopped /\ sends < MaxSends
  /\ LET x == [msg |-> sends + 1, priority |-> priority, displayed |-> FALSE,
               redriven |-> FALSE]
     IN  /\ sends' = x.msg
         /\ WritesInbox(Upsert(inbox, x))
         /\ fate' = [fate EXCEPT ![x.msg] =
                       IF inbox' = inbox THEN "warned" ELSE "accepted"]
         /\ Revive(IF priority THEN <<x>> \o pending ELSE Append(pending, x))
  /\ hits => priority /\ RunsSomething
  /\ preempted' = (hits \/ preempted)
  /\ UNCHANGED <<transcript, stopFile, stopped, zombies, rearming, stops, escapes,
                 restarts, waited, torn, disturbed, givenBack>>

\* The session resolves, or fails to; a batch of before a stop goes no further.
Outdated == stale \/ stopped
Resolve ==
  /\ phase = "resolving"
  /\ IF Outdated
     THEN Continue(pending)
     ELSE phase' = "appending" /\ UNCHANGED <<pending, batch, at, stale, superseded>>
  /\ UNCHANGED <<durable, stopped, preempted, zombies, rearming, bounds, history>>
ResolveFails ==
  /\ phase = "resolving"
  /\ Continue(pending)
  /\ disturbed' = TRUE
  /\ UNCHANGED <<durable, stopped, preempted, zombies, rearming, bounds, fate, waited,
                 torn, givenBack>>

\* appendAgentInboundEntries: not what was displayed before, nor what is among
\* the last entries already.
Recent(m) == \E i \in DOMAIN transcript :
                i > Len(transcript) - Window /\ transcript[i] = m
AppendsAny(x) == ~Recent(x.msg)                                      \* mutant
Appends(x) == ~x.displayed /\ ~Recent(x.msg)
AppendEntry ==
  /\ phase = "appending"
  /\ transcript' = IF Appends(batch[at]) THEN Append(transcript, batch[at].msg)
                                         ELSE transcript
  /\ IF at < Len(batch) THEN at' = at + 1 /\ phase' = phase
                        ELSE at' = 1 /\ phase' = "marking"
  /\ UNCHANGED <<inbox, stopFile, stopped, pending, batch, stale, superseded,
                 preempted, zombies, rearming, bounds, history>>

\* persistInboundMarker of each message just shown, then the run is enqueued.
MarkDisplayed ==
  /\ phase = "marking"
  /\ IF batch[at].displayed THEN UNCHANGED <<inbox, failures>>
                            ELSE WritesInbox(Upsert(inbox, Shown(batch[at])))
  /\ IF at < Len(batch) THEN at' = at + 1 /\ phase' = phase
                        ELSE at' = 1 /\ phase' = "queued"
  /\ UNCHANGED <<transcript, stopFile, stopped, pending, batch, stale, superseded,
                 preempted, zombies, rearming, sends, stops, escapes, restarts, history>>

StartRun ==
  /\ phase = "queued"
  /\ IF Outdated
     THEN Continue(pending) /\ UNCHANGED preempted
     ELSE phase' = "running" /\ preempted' = FALSE
          /\ UNCHANGED <<pending, batch, at, stale, superseded>>
  /\ UNCHANGED <<durable, stopped, zombies, rearming, bounds, history>>

\* An entry cannot be appended, or the user's intent not saved as the run is
\* enqueued: the loop throws, and leaves what is queued to the next call of it.
LoopThrows ==
  /\ phase \in {"appending", "queued"} /\ failures < MaxFailures
  /\ failures' = failures + 1
  /\ phase' = "idle" /\ batch' = <<>> /\ at' = 1 /\ stale' = FALSE /\ superseded' = FALSE
  /\ disturbed' = TRUE
  /\ UNCHANGED <<durable, stopped, pending, preempted, zombies, rearming, sends, stops,
                 escapes, restarts, fate, waited, torn, givenBack>>

-----------------------------------------------------------------------------
Rest(i) == SubSeq(batch, i, Len(batch))

\* runBackgroundTask returns.  It is current unless a stop or a user's turn came.
IsCurrent == ~stale /\ ~stopped /\ ~superseded

\* The message is settled; the next one follows, unless a priority message is
\* queued: then the others wait behind it.
SettlesBatch(m) == WritesInbox({x \in inbox : x.msg \notin MsgsOf(batch)})  \* mutant
Settles(m) == WritesInbox(Without(inbox, m))
UnreachedAndLast == AllShown(Rest(at))                               \* mutant
Unreached == AllShown(Rest(at + 1))
Completes ==
  /\ phase = "running" /\ IsCurrent
  /\ Settles(batch[at].msg)
  /\ fate' = [fate EXCEPT ![batch[at].msg] = "handled"]
  /\ preempted' = FALSE
  /\ IF at < Len(batch) /\ PriorityOf(pending) = <<>>
     THEN at' = at + 1 /\ UNCHANGED <<pending, phase, batch, stale, superseded>>
     ELSE Continue(PutBack(Unreached))
  /\ UNCHANGED <<transcript, stopFile, stopped, zombies, rearming, sends, stops,
                 escapes, restarts, waited, torn, disturbed, givenBack>>

\* The task waits (for the user, a child or an approval): it stays on disk, and
\* what it did not reach stays queued.
KeptNone == <<>>                                                     \* mutant
KeptInMemory == Unreached
Waits ==
  /\ phase = "running" /\ IsCurrent
  /\ waited' = waited \cup {batch[at].msg}
  /\ preempted' = FALSE
  /\ Continue(PutBack(KeptInMemory))
  /\ UNCHANGED <<durable, stopped, zombies, rearming, bounds, fate, torn, disturbed,
                 givenBack>>

\* Interrupted: the batch is redriven if a user's turn or a peer preempted it;
\* otherwise, and past its redrive, only the next process delivers it.
Aborts ==
  /\ phase = "running"
  /\ LET redriven == IF ~preempted \/ stale \/ stopped THEN <<>>
                     ELSE Redrivable(Rest(at))
     IN  /\ Continue(PutBack(redriven))
         /\ disturbed' = (disturbed \/ Len(redriven) < Len(Rest(at)))
  /\ preempted' = FALSE
  /\ UNCHANGED <<durable, stopped, zombies, rearming, bounds, fate, waited, torn,
                 givenBack>>

\* The run throws.
RunFails ==
  /\ phase = "running"
  /\ Continue(pending)
  /\ disturbed' = TRUE
  /\ UNCHANGED <<durable, stopped, preempted, zombies, rearming, bounds, fate, waited,
                 torn, givenBack>>

\* A turn of the user supersedes what runs, and interrupts it if it can; a wake of
\* another kind clears the flag.
Superseded(z) == [z EXCEPT !.superseded = TRUE]
UserTurn(hits) ==
  /\ Quiet /\ ~stopped /\ RunsSomething
  /\ superseded' = (phase = "running")
  /\ zombies' = {Superseded(z) : z \in zombies}
  /\ preempted' = (hits \/ preempted)
  /\ UNCHANGED <<durable, stopped, pending, phase, batch, at, stale, rearming, bounds,
                 history>>
OtherWake ==
  /\ Quiet /\ zombies # {} /\ phase # "running"
  /\ preempted /\ preempted' = FALSE
  /\ UNCHANGED <<durable, stopped, pending, loop, zombies, rearming, bounds, history>>

-----------------------------------------------------------------------------
\* escapeWedgedRun: a user's prompt has waited too long behind the run.  What the
\* loop awaits is resolved, and it goes on without the callback.
GivenUp ==
  /\ phase = "running" /\ escapes < MaxEscapes
  /\ escapes' = escapes + 1
  /\ zombies' = zombies \cup
                  {[rest |-> Rest(at), stale |-> stale, superseded |-> superseded]}
  /\ Continue(pending)
  /\ UNCHANGED <<durable, stopped, preempted, rearming, sends, failures, stops,
                 restarts, history>>

\* The callback comes to its end: what it puts back has no loop of its own.
LateEnd(z, kept) ==
  /\ zombies' = zombies \ {z}
  /\ pending' = PutBack(kept)
  /\ givenBack' = givenBack \cup MsgsOf(kept)

UnreachedLateAndLast(z) == AllShown(z.rest)                          \* mutant
UnreachedLate(z) == AllShown(Tail(z.rest))
IsCurrentLate(z) == ~z.stale /\ ~stopped /\ ~z.superseded
LateCompletes(z) ==
  /\ Quiet /\ IsCurrentLate(z)
  /\ Settles(z.rest[1].msg)
  /\ fate' = [fate EXCEPT ![z.rest[1].msg] = "handled"]
  /\ preempted' = FALSE
  /\ IF Len(z.rest) > 1 /\ PriorityOf(pending) = <<>>
     THEN /\ zombies' = (zombies \ {z}) \cup {[z EXCEPT !.rest = Tail(z.rest)]}
          /\ UNCHANGED <<pending, givenBack>>
     ELSE LateEnd(z, UnreachedLate(z))
  /\ UNCHANGED <<transcript, stopFile, stopped, loop, rearming, sends, stops, escapes,
                 restarts, waited, torn, disturbed>>
LateWaits(z) ==
  /\ Quiet /\ IsCurrentLate(z)
  /\ waited' = waited \cup {z.rest[1].msg}
  /\ preempted' = FALSE
  /\ LateEnd(z, UnreachedLate(z))
  /\ UNCHANGED <<durable, stopped, loop, rearming, bounds, fate, torn, disturbed>>
LateAborts(z) ==
  /\ Quiet
  /\ LET redriven == IF ~preempted \/ z.stale \/ stopped THEN <<>>
                     ELSE Redrivable(z.rest)
     IN  /\ LateEnd(z, redriven)
         /\ disturbed' = (disturbed \/ Len(redriven) < Len(z.rest))
  /\ preempted' = FALSE
  /\ UNCHANGED <<durable, stopped, loop, rearming, bounds, fate, waited, torn>>
LateFails(z) ==
  /\ Quiet
  /\ LateEnd(z, <<>>)
  /\ disturbed' = TRUE
  /\ UNCHANGED <<durable, stopped, loop, preempted, rearming, bounds, fate, waited, torn>>

-----------------------------------------------------------------------------
Becomes(to) ==
  [m \in Messages |-> IF fate[m] \in {"unsent", "handled"} THEN fate[m] ELSE to]

\* What captureStopGuard says of a run of before the stop.
StillGoingOn(z) == z                                                 \* mutant
Outlived(z) == [z EXCEPT !.stale = TRUE]

\* interruptTranscriptAgent: the stop is saved or its caller is told that it was
\* not, and clearCancelledRecovery forgets what is queued.
Stop(saved) ==
  /\ Quiet /\ stops < MaxStops
  /\ stops' = stops + 1
  /\ stopped' = TRUE /\ stopFile' = (saved \/ stopFile)
  /\ stale' = (phase # "idle")
  /\ zombies' = {Outlived(z) : z \in zombies}
  /\ WritesInbox({})
  /\ pending' = <<>> /\ preempted' = FALSE /\ rearming' = {}
  /\ fate' = Becomes(IF saved THEN "cancelled" ELSE "unsure")
  /\ UNCHANGED <<transcript, phase, batch, at, superseded, sends, escapes, restarts,
                 waited, torn, disturbed, givenBack>>

\* runExplicitTranscriptPrompt: the agent is resumed once nothing of before the
\* stop is left on disk and the end of the stop is saved.  There is something to
\* clear only if the stop's own write failed: a failure here is not counted.
ResumesAnyway == TRUE                                                \* mutant
MayResume == inbox' = {}
Resume ==
  /\ Quiet /\ stopped
  /\ inbox' \in {inbox, {}}
  /\ \/ UNCHANGED <<stopped, stopFile>>
     \/ MayResume /\ stopped' = FALSE /\ stopFile' = FALSE
  /\ pending' = <<>> /\ preempted' = FALSE
  /\ UNCHANGED <<transcript, loop, zombies, rearming, bounds, history>>

\* The process dies; the next one calls rearmPendingWakes, which clears the markers
\* of a stopped agent one by one.
Restart ==
  /\ restarts < MaxRestarts
  /\ restarts' = restarts + 1
  /\ stopped' = stopFile
  /\ IF stopFile
     THEN /\ rearming' = {}
          /\ \E kept \in SUBSET inbox :
               /\ failures' = failures + Cardinality(kept)
               /\ failures' <= MaxFailures
               /\ inbox' = kept
     ELSE rearming' = inbox /\ UNCHANGED <<inbox, failures>>
  /\ torn' = torn \cup {m \in ToSet(transcript) :
                          \E x \in inbox : x.msg = m /\ ~x.displayed}
  /\ pending' = <<>> /\ phase' = "idle" /\ batch' = <<>> /\ at' = 1
  /\ stale' = FALSE /\ superseded' = FALSE /\ preempted' = FALSE /\ zombies' = {}
  /\ waited' = {} /\ disturbed' = FALSE /\ givenBack' = {}
  /\ UNCHANGED <<transcript, stopFile, sends, stops, escapes, fate>>

\* rearmPendingWake of one marker: its session resolves (redeliverAgentMessageWake)
\* or does not, and the marker is written again.
Rearm(x) ==
  /\ Quiet /\ x \in rearming
  /\ rearming' = rearming \ {x}
  /\ Revive(Append(pending, [msg |-> x.msg, priority |-> x.priority,
                             displayed |-> x.displayed, redriven |-> FALSE]))
  /\ UNCHANGED <<durable, stopped, preempted, zombies, bounds, history>>
RearmFails(x) ==
  /\ Quiet /\ x \in rearming
  /\ rearming' = rearming \ {x}
  /\ WritesInbox(Upsert(inbox, x))
  /\ disturbed' = TRUE
  /\ UNCHANGED <<transcript, stopFile, stopped, pending, loop, preempted, zombies, sends,
                 stops, escapes, restarts, fate, waited, torn, givenBack>>

-----------------------------------------------------------------------------
Init ==
  /\ inbox = {} /\ transcript = <<>> /\ stopFile = FALSE /\ stopped = FALSE
  /\ pending = <<>> /\ phase = "idle" /\ batch = <<>> /\ at = 1
  /\ stale = FALSE /\ superseded = FALSE /\ preempted = FALSE /\ zombies = {}
  /\ rearming = {}
  /\ sends = 0 /\ failures = 0 /\ stops = 0 /\ escapes = 0 /\ restarts = 0
  /\ fate = [m \in Messages |-> "unsent"]
  /\ waited = {} /\ torn = {} /\ disturbed = FALSE /\ givenBack = {}

Deliver ==
  \/ Resolve \/ ResolveFails \/ AppendEntry \/ MarkDisplayed \/ StartRun \/ LoopThrows
  \/ Completes \/ Waits \/ Aborts \/ RunFails \/ GivenUp
Late(z) == LateCompletes(z) \/ LateWaits(z) \/ LateAborts(z) \/ LateFails(z)

Next ==
  \/ \E priority, hits \in BOOLEAN : Send(priority, hits)
  \/ Deliver \/ OtherWake \/ \E hits \in BOOLEAN : UserTurn(hits)
  \/ \E z \in zombies : Late(z)
  \/ \E saved \in BOOLEAN : Stop(saved)
  \/ Resume \/ Restart
  \/ \E x \in rearming : Rearm(x) \/ RearmFails(x)

Spec == Init /\ [][Next]_vars

-----------------------------------------------------------------------------
Fates == {"unsent", "accepted", "warned", "handled", "cancelled", "unsure"}

TypeOK ==
  /\ inbox \subseteq Markers /\ transcript \in Seq(Messages)
  /\ stopFile \in BOOLEAN /\ stopped \in BOOLEAN
  /\ pending \in Seq(Items) /\ batch \in Seq(Items)
  /\ stale \in BOOLEAN /\ superseded \in BOOLEAN
  /\ phase \in {"idle", "resolving", "appending", "marking", "queued", "running"}
  /\ IF phase = "idle" THEN batch = <<>> ELSE at \in DOMAIN batch
  /\ preempted \in BOOLEAN /\ zombies \subseteq Zombies
  /\ rearming \subseteq Markers
  /\ {sends, failures, stops, escapes, restarts} \subseteq Nat
  /\ fate \in [Messages -> Fates]
  /\ waited \subseteq Messages /\ torn \subseteq Messages /\ disturbed \in BOOLEAN
  /\ givenBack \subseteq Messages

\* What this process still has of the messages: what its loop will go through, in
\* that order, what the runs given up are at, and what is being rearmed.
Backlog == (IF phase = "running" THEN Rest(at) ELSE batch) \o pending
InZombies == UNION {MsgsOf(z.rest) : z \in zombies}
Saved == {x.msg : x \in inbox}
Rearming(m) == \E x \in rearming : x.msg = m
InMemory == MsgsOf(Backlog) \cup InZombies \cup {x.msg : x \in rearming}

\* A message whose sender was told that it is safe stays on disk until a wake has
\* completed it or a stop has cancelled it, whatever fails, whenever the host dies
\* and however late a run ends.
AcceptedIsKept ==
  \A m \in Messages : fate[m] = "accepted" => m \in Saved

\* A stop that was saved is final: no message of before it is ever shown, queued or
\* rearmed, not by a loop that was under way, nor by a run given up before it, nor
\* after a restart, nor when the file of wakes could not be cleared; only a batch
\* taken before may still unwind.
CancelledStaysDead ==
  \A m \in Messages : fate[m] = "cancelled" =>
    /\ m \notin MsgsOf(pending) /\ ~Rearming(m)
    /\ m \in MsgsOf(batch) => stale /\ Quiet
    /\ \A z \in zombies : m \in MsgsOf(z.rest) => z.stale

\* A message that was handled is not handed to the agent again, by the loop or by a
\* run given up, unless the write that settles it failed.
HandledOnce ==
  failures = 0 =>
    \A m \in Messages : fate[m] = "handled" => m \notin InMemory \cup Saved

\* A message is shown twice only if the host died between its entry and the mark
\* that it was shown, and more than Window entries lie between the two.
ShownOnce ==
  \A i, j \in DOMAIN transcript :
    i < j /\ transcript[i] = transcript[j] =>
      transcript[i] \in torn /\ j - i > Window

\* Without restarts, ordinary messages are gone through in the order they were
\* sent, however often priority messages and users cut in: only those that a run
\* given up puts back may come behind newer ones.
SendOrder ==
  restarts = 0 =>
    LET s == OrdinaryOf(Backlog)
    IN  \A i, j \in DOMAIN s :
          i < j => s[i].msg < s[j].msg \/ s[j].msg \in givenBack

\* No message is stranded until a restart.  Unless a run, a session, the loop or a
\* second preemption failed them, accepted messages are not left to the next process:
\* only one that waits itself is, not those behind it.  And what is queued has a loop
\* that will take it, whenever it came: but for what a run given up puts back, and
\* what a failed write left when it ended the loop.  (The comment at
\* agent-to-agent-messaging.ts:333-335 knows no such exception.)
AcceptedIsHeld ==
  ~disturbed =>
    \A m \in Messages : fate[m] = "accepted" => m \in InMemory \cup waited
QueuedHasLoop ==
  failures = 0 /\ phase = "idle" => MsgsOf(pending) \subseteq givenBack
NoneStranded == AcceptedIsHeld /\ QueuedHasLoop

\* However often users and peers preempt it, the loop comes to an end: every run
\* that returns leaves this process less to do, counting a message and its redrive,
\* and one given up never puts back as much as it had.
Work(s) == 2 * Len(s) - Len(Those(s, Redriven))
RunsMakeProgress ==
  [][/\ phase = "running" /\ <<phase, at>>' # <<phase, at>> =>
          Work(Backlog') < Work(Backlog)
     /\ \A z \in zombies \ zombies' : Work(Backlog') < Work(Backlog) + Work(z.rest)]_vars
=============================================================================
