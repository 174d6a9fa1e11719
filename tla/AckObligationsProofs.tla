----------------------- MODULE AckObligationsProofs -----------------------
(***************************************************************************)
(* Proofs about AckObligations: for any prompts, any number of redrives,   *)
(* stops, crashes and failed writes, a token is that of a live run, every  *)
(* prompt the ledger swallows is accounted for, and nothing is redriven    *)
(* that a stop has cancelled.                                              *)
(***************************************************************************)
EXTENDS AckObligations, TLAPS

\* What a stop cancelled does not owe: neither while the agent is stopped nor when
\* a send of before the stop goes on.
CancelledOwesNot == \A p \in Prompts : fate[p] = "owed" => ~stopped /\ p \notin stale

\* What the pipeline knows of a prompt.
PipeOK ==
  \A p \in Prompts :
    /\ pipe[p] \in {"admitted", "pinned"} => ledger[p] = "none"
    /\ pipe[p] \in {"recorded", "waiting"} => fate[p] # "none"

OwedInv == AcceptedIsOwed /\ ObligationIsEarned /\ CancelledOwesNot /\ PipeOK

Attempts == 0 .. MaxRedrives \cup {None}
Timers == {"off", "scoped", "unscoped"}
Stages == {"idle", "admitted", "pinned", "recording", "recorded", "waiting"}
RunStates == {"none", "queued", "running", "barred", "escaped"}

-----------------------------------------------------------------------------
\* What the helpers give back.
LEMMA ArmedFacts ==
  ASSUME NEW c, NEW owes, NEW left \in Timers
  PROVE  ArmedBy(c, owes, left) \in Timers
  BY DEF ArmedBy, Timers

LEMMA AfterRunFacts ==
  ASSUME NEW c, NEW pipes, NEW runs, NEW owes, NEW left \in Timers
  PROVE  AfterRun(c, pipes, runs, owes, left) \in Timers
  BY ArmedFacts DEF AfterRun

LEMMA WriteFacts ==
  ASSUME TypeOK, NEW value \in Attempts, Write(value)
  PROVE  /\ obligation' \in {value, obligation} /\ obligation' \in Attempts
         /\ failures' \in Nat /\ (failures' = 0 => failures = 0 /\ obligation' = value)
  BY DEF Write, TypeOK, Attempts

LEMMA BecomesFacts ==
  ASSUME TypeOK, NEW to \in Fates \ {"owed", "none"}, fate' = Becomes("owed", to)
  PROVE  /\ fate' \in [Prompts -> Fates]
         /\ \A p \in Prompts : fate'[p] # "owed" /\ (fate[p] # "none" => fate'[p] # "none")
  BY DEF TypeOK, Becomes

LEMMA RecordSendFacts ==
  ASSUME TypeOK, NEW p \in Prompts, RecordSend(p)
  PROVE  /\ obligation' \in Attempts /\ failures' \in Nat /\ fate' \in [Prompts -> Fates]
         /\ \A q \in Prompts \ {p} : fate'[q] = fate[q]
         /\ fate'[p] # "none"
         /\ fate'[p] = "owed" => obligation' # None /\ ~stopped /\ p \notin stale
         /\ obligation # None => obligation' # None
         /\ failures' = 0 => failures = 0
         /\ \/ obligation' = obligation /\ (stopped \/ p \in stale)
            \/ obligation' # None => fate'[p] = "owed"
  <1>0. obligation \in Attempts /\ fate \in [Prompts -> Fates] /\ failures \in Nat
        /\ p \notin unscoped /\ None \notin 0 .. MaxRedrives /\ 0 \in 0 .. MaxRedrives
    BY CallsAssumption DEF TypeOK, Attempts
  <1>1. CASE IsStopped(p)
    <2>1. obligation' = obligation /\ failures' = failures
          /\ fate' = [fate EXCEPT ![p] = "cancelled"] /\ (stopped \/ p \in stale)
      BY <1>1 DEF RecordSend, store, IsStopped
    <2> QED BY <1>0, <2>1 DEF Fates
  <1>2. CASE ~IsStopped(p)
    <2> DEFINE value == IF obligation = None THEN 0 ELSE obligation
    <2>1. Write(value) /\ fate' = Owing(p)
      BY <1>2 DEF RecordSend, Upsert
    <2>2. value \in Attempts /\ value # None
      BY <1>0 DEF Attempts
    <2>3. /\ obligation' \in {value, obligation} /\ obligation' \in Attempts
          /\ failures' \in Nat /\ (failures' = 0 => failures = 0 /\ obligation' = value)
      <3> HIDE DEF value
      <3> QED BY <2>1, <2>2, WriteFacts
    <2>4. fate' = [fate EXCEPT ![p] = IF obligation' = None THEN "unsaved" ELSE "owed"]
      BY <2>1 DEF Owing
    <2>5. ~stopped /\ p \notin stale
      BY <1>0, <1>2 DEF IsStopped
    <2> QED BY <1>0, <2>3, <2>4, <2>5 DEF Fates
  <1> QED BY <1>1, <1>2

-----------------------------------------------------------------------------
\* The types.
LEMMA EndedTypes ==
  ASSUME TypeOK, NEW c \in Calls, Ended(c)
  PROVE  /\ pipe' \in [Prompts -> Stages] /\ run' \in [Calls -> RunStates]
         /\ tokens' \subseteq Calls /\ timer' \in Timers
  <1>1. pipe' \in [Prompts -> Stages] /\ run' \in [Calls -> RunStates] /\ tokens' \subseteq Calls
    BY DEF Ended, TypeOK, Stages, RunStates
  <1>2. timer' \in Timers
    BY AfterRunFacts DEF Ended, TypeOK, Timers
  <1> QED BY <1>1, <1>2

LEMMA SendTypes ==
  ASSUME TypeOK, NEW p \in Prompts, Admit(p) \/ Send(p)
  PROVE  TypeOK'
  <1>0. None \in Attempts /\ p \in Calls
    BY DEF Attempts, Calls
  <1>1. CASE Admit(p)
    <2>1. obligation' \in Attempts /\ failures' \in Nat /\ timer' \in Timers /\ tokens' \subseteq Calls
      BY <1>0, <1>1, WriteFacts DEF Admit, TokensCleared, Clear, store, TypeOK, Attempts, Timers
    <2>2. pipe' \in [Prompts -> Stages] /\ stopped' \in BOOLEAN /\ stale' \subseteq Calls
      BY <1>1 DEF Admit, TypeOK, Stages
    <2> QED BY <1>1, <2>1, <2>2 DEF Admit, TypeOK, bounds, Attempts, Timers, Stages
  <1>2. CASE Pin(p) \/ RecordPending(p)
    <2>1. pipe' \in [Prompts -> Stages] /\ ledger' \in [Prompts -> {"none", "pending", "accepted"}]
      BY <1>2 DEF Pin, RecordPending, durable, TypeOK, Stages
    <2> QED BY <1>2, <2>1 DEF Pin, RecordPending, TypeOK, durable, store, scopes, bounds, Stages
  <1>3. CASE RecordObligation(p)
    <2>1. obligation' \in Attempts /\ failures' \in Nat /\ fate' \in [Prompts -> Fates]
      BY <1>3, RecordSendFacts DEF RecordObligation
    <2>2. pipe' \in [Prompts -> Stages] /\ timer' \in Timers
      BY <1>3 DEF RecordObligation, TypeOK, Stages, Timers
    <2> QED BY <1>3, <2>1, <2>2 DEF RecordObligation, TypeOK, scopes, bounds, Attempts, Stages, Timers
  <1>4. CASE SendFails(p)
    <2>1. obligation' \in Attempts /\ failures' \in Nat /\ fate' \in [Prompts -> Fates]
      BY <1>4, RecordSendFacts DEF SendFails, store, TypeOK, Attempts
    <2>2. pipe' \in [Prompts -> Stages] /\ ledger' \in [Prompts -> {"none", "pending", "accepted"}]
      BY <1>4 DEF SendFails, TypeOK, Stages
    <2>3. timer' \in Timers
      BY <1>4, AfterRunFacts DEF SendFails, TypeOK, Timers
    <2> QED BY <1>4, <2>1, <2>2, <2>3 DEF SendFails, TypeOK, scopes, bounds, Attempts, Stages, Timers
  <1>5. CASE \E awaitTurn \in BOOLEAN : Dispatch(p, awaitTurn)
    <2>1. PICK awaitTurn \in BOOLEAN : Dispatch(p, awaitTurn)
      BY <1>5
    <2>2. obligation' \in Attempts /\ failures' \in Nat /\ fate' \in [Prompts -> Fates]
      BY <2>1, RecordSendFacts DEF Dispatch, store, TypeOK, Attempts
    <2>3. /\ pipe' \in [Prompts -> Stages] /\ ledger' \in [Prompts -> {"none", "pending", "accepted"}]
          /\ run' \in [Calls -> RunStates] /\ tokens' \subseteq Calls /\ timer' = "off"
      BY <1>0, <2>1 DEF Dispatch, TypeOK, Stages, RunStates
    <2> QED BY <2>1, <2>2, <2>3 DEF Dispatch, TypeOK, scopes, bounds, Attempts, Stages, RunStates
  <1> QED BY <1>1, <1>2, <1>3, <1>4, <1>5 DEF Send

LEMMA RunTypes ==
  ASSUME TypeOK, NEW c \in Calls, StartRun(c) \/ Answer(c) \/ Settle(c) \/ Escape(c)
  PROVE  TypeOK'
  <1>1. CASE StartRun(c)
    <2>1. /\ pipe' \in [Prompts -> Stages] /\ run' \in [Calls -> RunStates]
          /\ tokens' \subseteq Calls /\ timer' \in Timers
      BY <1>1, EndedTypes DEF StartRun, TypeOK, Stages, RunStates, Timers
    <2> QED BY <1>1, <2>1 DEF StartRun, TypeOK, durable, store, scopes, bounds, Stages, RunStates, Timers
  <1>2. CASE Answer(c)
    <2>1. obligation' \in Attempts /\ failures' \in Nat
      BY <1>2, WriteFacts DEF Answer, Clear, Attempts
    <2>2. fate' \in [Prompts -> Fates]
      BY <1>2 DEF Answer, Becomes, TypeOK, Fates
    <2> QED BY <1>2, <2>1, <2>2 DEF Answer, TypeOK, scopes, bounds, Attempts
  <1>3. CASE Settle(c)
    <2>1. /\ pipe' \in [Prompts -> Stages] /\ run' \in [Calls -> RunStates]
          /\ tokens' \subseteq Calls /\ timer' \in Timers
      BY <1>3, EndedTypes DEF Settle
    <2> QED BY <1>3, <2>1 DEF Settle, TypeOK, durable, store, scopes, bounds, Stages, RunStates, Timers
  <1>4. CASE Escape(c)
    <2>1. pipe' \in [Prompts -> Stages] /\ run' \in [Calls -> RunStates] /\ tokens' \subseteq Calls
      BY <1>4 DEF Escape, TokensAfterEscape, TypeOK, Stages, RunStates
    <2> QED BY <1>4, <2>1 DEF Escape, TypeOK, durable, store, scopes, bounds, Stages, RunStates
  <1> QED BY <1>1, <1>2, <1>3, <1>4

LEMMA RedriveTypes ==
  ASSUME TypeOK, NEW r \in Redrives, Redrive(r)
  PROVE  TypeOK'
  <1>0. None \in Attempts /\ r \in Calls
    BY DEF Attempts, Calls
  <1>1. CASE TimerFires(r)
    <2>1. /\ obligation' \in Attempts /\ failures' \in Nat /\ fate' \in [Prompts -> Fates]
          /\ resolving' \subseteq Redrives /\ stale' \subseteq Calls /\ unscoped' \subseteq Redrives
      <3>1. CASE UNCHANGED <<store, resolving, scopes, fate>>
        BY <3>1 DEF store, scopes, TypeOK, Attempts
      <3>2. CASE Clear /\ fate' = Becomes("owed", "lost") /\ UNCHANGED <<resolving, scopes>>
        <4>1. obligation' \in Attempts /\ failures' \in Nat
          BY <1>0, <3>2, WriteFacts DEF Clear
        <4>2. fate' \in [Prompts -> Fates]
          BY <3>2, BecomesFacts DEF Fates
        <4> QED BY <3>2, <4>1, <4>2 DEF scopes, TypeOK
      <3>3. CASE /\ obligation # None /\ ~GivesUp /\ RedriveStarts(r)
                 /\ resolving' = resolving \cup {r} /\ stale' = stale \ {r} /\ fate' = fate
                 /\ unscoped' = IF timer = "unscoped" THEN unscoped \cup {r} ELSE unscoped \ {r}
        <4>1. obligation + 1 \in Attempts
          BY <3>3, CallsAssumption DEF TypeOK, Attempts, GivesUp
        <4>2. obligation' \in Attempts /\ failures' \in Nat
          BY <3>3, <4>1, WriteFacts DEF RedriveStarts, Upsert
        <4> QED BY <3>3, <4>2 DEF TypeOK
      <3> QED BY <1>1, <3>1, <3>2, <3>3 DEF TimerFires
    <2> QED BY <1>1, <2>1 DEF TimerFires, TypeOK, bounds, Attempts
  <1>2. CASE Resolve(r)
    <2>1. /\ run' \in [Calls -> RunStates] /\ tokens' \subseteq Calls
          /\ unscoped' \subseteq Redrives /\ resolving' \subseteq Redrives
      BY <1>0, <1>2 DEF Resolve, TypeOK, RunStates
    <2> QED BY <1>2, <2>1 DEF Resolve, TypeOK, durable, store, bounds, RunStates
  <1>3. CASE ResolveFails(r)
    <2>1. timer' \in Timers /\ resolving' \subseteq Redrives
      BY <1>3, ArmedFacts DEF ResolveFails, TypeOK, Timers
    <2> QED BY <1>3, <2>1 DEF ResolveFails, TypeOK, durable, store, scopes, bounds, Timers
  <1> QED BY <1>1, <1>2, <1>3 DEF Redrive

LEMMA HostTypes ==
  ASSUME TypeOK, Stop \/ Quiesce \/ ResumeAfterRecreate \/ Crash \/ Boot
  PROVE  TypeOK'
  <1>1. CASE Stop
    <2>1. obligation' \in Attempts /\ failures' \in Nat /\ fate' \in [Prompts -> Fates]
      BY <1>1, WriteFacts, BecomesFacts DEF Stop, Clear, Attempts, Fates
    <2> QED BY <1>1, <2>1 DEF Stop, TokensCleared, TypeOK, Attempts
  <1>2. CASE Quiesce \/ ResumeAfterRecreate
    <2>1. quiesces' \in {quiesces, quiesces + 1} /\ quiescing' \in {TRUE, FALSE}
          /\ stops' = stops /\ crashes' = crashes
      BY <1>2 DEF Quiesce, ResumeAfterRecreate, bounds
    <2>2. UNCHANGED <<up, durable, pipe, run, resolving, tokens, timer, scopes, fate>>
      BY <1>2 DEF Quiesce, ResumeAfterRecreate
    <2>3. UNCHANGED <<up, ledger, obligation, failures, stopped, pipe, run, resolving, tokens, timer,
                      stale, unscoped, fate>>
      BY <2>2 DEF durable, store, scopes
    <2>4. {failures, stops, quiesces, crashes}' \subseteq Nat
      BY <2>1, <2>3 DEF TypeOK
    <2>5. quiescing' \in BOOLEAN
      BY <2>1, Zenon
    <2> QED BY <2>3, <2>4, <2>5 DEF TypeOK
  <1>3. CASE Crash
    <2>1. /\ fate' \in [Prompts -> Fates] /\ pipe' \in [Prompts -> Stages]
          /\ run' \in [Calls -> RunStates]
      BY <1>3 DEF Crash, TypeOK, Fates, Stages, RunStates
    <2>2. /\ up' = FALSE /\ quiescing' = FALSE /\ timer' = "off"
          /\ resolving' = {} /\ tokens' = {} /\ stale' = {} /\ unscoped' = {}
          /\ crashes' = crashes + 1
          /\ UNCHANGED <<ledger, obligation, failures, stopped, stops, quiesces>>
      BY <1>3 DEF Crash, durable, store
    <2>3. {failures, stops, quiesces, crashes}' \subseteq Nat
      BY <2>2 DEF TypeOK
    <2> QED BY <2>1, <2>2, <2>3 DEF TypeOK, Stages, RunStates
  <1>4. CASE Boot
    BY <1>4 DEF Boot, BootArms, TypeOK, durable, store, scopes, bounds
  <1> QED BY <1>1, <1>2, <1>3, <1>4

LEMMA TypeStep == TypeOK /\ [Next]_vars => TypeOK'
  <1> SUFFICES ASSUME TypeOK, [Next]_vars PROVE TypeOK'
    OBVIOUS
  <1>1. CASE UNCHANGED vars
    <2>1. UNCHANGED <<up, ledger, obligation, failures, stopped, pipe, run, resolving, tokens, timer,
                      stale, unscoped, quiescing, stops, quiesces, crashes, fate>>
      BY <1>1 DEF vars, durable, store, scopes, bounds
    <2> QED BY <2>1 DEF TypeOK
  <1> QED BY <1>1, SendTypes, RunTypes, RedriveTypes, HostTypes DEF Next

\* The variables keep their types: no obligation is redriven more than
\* MaxRedrives times (redriveAckObligation's bound), whatever fails and crashes.
THEOREM TypeCorrect == Spec => []TypeOK
  <1>1. Init => TypeOK
    <2> SUFFICES ASSUME Init PROVE TypeOK
      OBVIOUS
    <2>1. {failures, stops, quiesces, crashes} \subseteq Nat /\ obligation \in 0 .. MaxRedrives \cup {None}
      BY DEF Init
    <2>2. pipe \in [Prompts -> Stages] /\ run \in [Calls -> RunStates] /\ fate \in [Prompts -> Fates]
      BY DEF Init, Stages, RunStates, Fates
    <2> QED BY <2>1, <2>2 DEF Init, TypeOK, Stages, RunStates
  <1> QED BY <1>1, TypeStep, PTL DEF Spec

-----------------------------------------------------------------------------
\* A token ends with its run.
LEMMA TokensStep == TypeOK /\ TokensAreLive /\ [Next]_vars => TokensAreLive'
  <1> SUFFICES ASSUME TypeOK, TokensAreLive, [Next]_vars PROVE TokensAreLive'
    OBVIOUS
  <1>0. run \in [Calls -> RunStates] /\ tokens \subseteq Calls
        /\ Prompts \subseteq Calls /\ Redrives \subseteq Calls
    BY DEF TypeOK, RunStates, Calls
  <1>a. ASSUME NEW c \in Calls, Ended(c), stale' = stale PROVE TokensAreLive'
    <2>1. tokens' = tokens \ {c} /\ \A d \in Calls \ {c} : run'[d] = run[d]
      BY <1>0, <1>a DEF Ended
    <2> QED BY <1>0, <1>a, <2>1 DEF TokensAreLive, HoldsQueue
  <1>b. ASSUME tokens' = tokens \/ tokens' = {}, run' = run, stale' \subseteq stale
        PROVE  TokensAreLive'
    BY <1>b DEF TokensAreLive, HoldsQueue
  <1>c. ASSUME tokens' = {} PROVE TokensAreLive'
    BY <1>c DEF TokensAreLive
  <1>1. CASE \E p \in Prompts : Admit(p) \/ Send(p)
    <2>1. PICK p \in Prompts : Admit(p) \/ Send(p)
      BY <1>1
    <2>2. CASE \E awaitTurn \in BOOLEAN : Dispatch(p, awaitTurn)
      <3>1. tokens' = tokens \cup {p} /\ run' = [run EXCEPT ![p] = "queued"] /\ stale' = stale
        BY <2>2 DEF Dispatch, scopes
      <3>2. run'[p] = "queued" /\ \A d \in Calls \ {p} : run'[d] = run[d]
        BY <1>0, <3>1
      <3> QED BY <1>0, <3>1, <3>2 DEF TokensAreLive, HoldsQueue
    <2>3. CASE ~ \E awaitTurn \in BOOLEAN : Dispatch(p, awaitTurn)
      <3>1. (tokens' = tokens \/ tokens' = {}) /\ run' = run /\ stale' \subseteq stale
        BY <2>1, <2>3 DEF Send, Admit, TokensCleared, Pin, RecordPending, RecordObligation, SendFails,
                          scopes
      <3> QED BY <3>1, <1>b
    <2> QED BY <2>2, <2>3
  <1>2. CASE \E c \in Calls : StartRun(c) \/ Answer(c) \/ Settle(c) \/ Escape(c)
    <2>1. PICK c \in Calls : StartRun(c) \/ Answer(c) \/ Settle(c) \/ Escape(c)
      BY <1>2
    <2>s. stale' = stale
      BY <2>1 DEF StartRun, Answer, Settle, Escape, scopes
    <2>2. CASE Ended(c)
      BY <1>a, <2>s, <2>2
    <2>3. CASE StartRun(c) /\ ~Ended(c)
      <3>1. /\ run' = [run EXCEPT ![c] = IF c \in stale THEN "barred" ELSE "running"]
            /\ tokens' = tokens
        BY <2>3 DEF StartRun
      <3>2. /\ run'[c] = "barred" \/ (run'[c] = "running" /\ c \notin stale)
            /\ \A d \in Calls \ {c} : run'[d] = run[d]
        BY <1>0, <3>1
      <3> QED BY <1>0, <2>s, <3>1, <3>2 DEF TokensAreLive, HoldsQueue
    <2>4. CASE Answer(c)
      BY <1>b, <2>s, <2>4 DEF Answer
    <2>5. CASE Settle(c)
      BY <1>a, <2>s, <2>5 DEF Settle
    <2>6. CASE Escape(c)
      <3>1. tokens' = tokens \ {c} /\ \A d \in Calls \ {c} : run'[d] = run[d]
        BY <1>0, <2>6 DEF Escape, TokensAfterEscape
      <3> QED BY <1>0, <2>s, <3>1 DEF TokensAreLive, HoldsQueue
    <2> QED BY <2>1, <2>2, <2>3, <2>4, <2>5, <2>6
  <1>3. CASE \E r \in Redrives : Redrive(r)
    <2>1. PICK r \in Redrives : Redrive(r)
      BY <1>3
    <2>2. CASE Resolve(r) /\ RedriveAllowed(r)
      <3>1. tokens' = tokens \cup {r} /\ run' = [run EXCEPT ![r] = "queued"] /\ stale' = stale
        BY <2>2 DEF Resolve
      <3>2. run'[r] = "queued" /\ \A d \in Calls \ {r} : run'[d] = run[d]
        BY <1>0, <3>1
      <3> QED BY <1>0, <3>1, <3>2 DEF TokensAreLive, HoldsQueue
    <2>3. CASE ~(Resolve(r) /\ RedriveAllowed(r))
      <3>1. tokens' = tokens /\ run' = run /\ stale' \subseteq stale
        BY <2>1, <2>3 DEF Redrive, TimerFires, Resolve, ResolveFails, scopes
      <3> QED BY <3>1, <1>b
    <2> QED BY <2>2, <2>3
  <1>4. CASE Quiesce \/ ResumeAfterRecreate \/ Boot \/ UNCHANGED vars
    <2>1. tokens' = tokens /\ run' = run /\ stale' = stale
      BY <1>4 DEF Quiesce, ResumeAfterRecreate, Boot, vars, scopes
    <2> QED BY <2>1, <1>b
  <1>5. CASE Stop \/ Crash
    BY <1>5, <1>c DEF Stop, TokensCleared, Crash
  <1> QED BY <1>1, <1>2, <1>3, <1>4, <1>5 DEF Next

\* Only a run that holds the queue, or is still to get it, and that did not execute
\* at a stop can settle the obligation (fulfillAckObligation): escapeWedgedRun, the
\* end of the run, the stop and the crash each take the token away.
THEOREM TokensLive == Spec => []TokensAreLive
  <1>1. Init => TokensAreLive
    BY DEF Init, TokensAreLive
  <1> QED BY <1>1, TokensStep, TypeCorrect, PTL DEF Spec

-----------------------------------------------------------------------------
\* A step that changes neither what the ledger and the prompts' fates say nor
\* whether the agent owes, and that moves no prompt past its record.
LEMMA OwedUntouched ==
  ASSUME OwedInv, UNCHANGED <<ledger, fate, stopped>>,
         \A p \in Prompts : \/ pipe'[p] = pipe[p]
                            \/ pipe[p] = "waiting" /\ pipe'[p] = "idle"
                            \/ pipe[p] = "admitted" /\ pipe'[p] = "pinned",
         \A p \in Prompts : p \in stale' => p \in stale,
         obligation' = None <=> obligation = None, failures' = 0 => failures = 0
  PROVE  OwedInv'
  <1>1. AcceptedIsOwed'
    BY DEF OwedInv, AcceptedIsOwed, PipeOK
  <1>2. ObligationIsEarned'
    BY DEF OwedInv, ObligationIsEarned
  <1>3. CancelledOwesNot' /\ PipeOK'
    BY DEF OwedInv, CancelledOwesNot, PipeOK
  <1> QED BY <1>1, <1>2, <1>3 DEF OwedInv

\* A step after which no prompt is owed.
LEMMA OwedNoMore ==
  ASSUME OwedInv, UNCHANGED <<ledger, pipe>>,
         \A p \in Prompts : fate'[p] # "owed" /\ (fate[p] # "none" => fate'[p] # "none"),
         failures' = 0 => obligation' = None
  PROVE  OwedInv'
  BY DEF OwedInv, AcceptedIsOwed, ObligationIsEarned, CancelledOwesNot, PipeOK

\* A step of p that may have recorded what it owes, as RecordSend does.
LEMMA OwedRecorded ==
  ASSUME OwedInv, NEW p \in Prompts, RecordSend(p), TypeOK, UNCHANGED <<stopped, stale>>,
         \A q \in Prompts \ {p} : pipe'[q] = pipe[q] /\ ledger'[q] = ledger[q],
         pipe'[p] \notin {"admitted", "pinned"}
  PROVE  OwedInv'
  <1>0. /\ \A q \in Prompts \ {p} : fate'[q] = fate[q]
        /\ fate'[p] # "none"
        /\ fate'[p] = "owed" => obligation' # None /\ ~stopped /\ p \notin stale
        /\ obligation # None => obligation' # None
        /\ failures' = 0 => failures = 0
        /\ \/ obligation' = obligation /\ (stopped \/ p \in stale)
           \/ obligation' # None => fate'[p] = "owed"
    BY RecordSendFacts
  <1>1. AcceptedIsOwed'
    BY <1>0 DEF OwedInv, AcceptedIsOwed
  <1>2. ObligationIsEarned'
    <2> SUFFICES ASSUME failures' = 0, obligation' # None
                 PROVE  \E q \in Prompts : fate'[q] = "owed"
      BY DEF ObligationIsEarned
    <2>1. CASE fate'[p] = "owed"
      BY <2>1
    <2>2. CASE fate'[p] # "owed"
      <3>1. obligation # None /\ failures = 0 /\ fate[p] # "owed"
        BY <1>0, <2>2 DEF OwedInv, CancelledOwesNot
      <3>2. PICK q \in Prompts : fate[q] = "owed"
        BY <3>1 DEF OwedInv, ObligationIsEarned
      <3> QED BY <1>0, <3>1, <3>2
    <2> QED BY <2>1, <2>2
  <1>3. CancelledOwesNot' /\ PipeOK'
    BY <1>0 DEF OwedInv, CancelledOwesNot, PipeOK
  <1> QED BY <1>1, <1>2, <1>3 DEF OwedInv

LEMMA SendOwes ==
  ASSUME TypeOK, OwedInv, NEW p \in Prompts, Admit(p) \/ Send(p)
  PROVE  OwedInv'
  <1>0. pipe \in [Prompts -> Stages] /\ ledger \in [Prompts -> {"none", "pending", "accepted"}]
    BY DEF TypeOK, Stages
  <1>1. CASE Admit(p)
    <2>1. /\ \A q \in Prompts \ {p} : pipe'[q] = pipe[q]
          /\ pipe'[p] \in {pipe[p], "admitted"} /\ pipe[p] = "idle" /\ ledger[p] = "none"
          /\ ledger' = ledger /\ fate' = fate
          /\ stopped' => stopped
          /\ \A q \in Prompts : q \in stale' => q \in stale
      BY <1>0, <1>1 DEF Admit
    <2>2. \/ obligation' = obligation /\ failures' = failures
          \/ stopped /\ (failures' = 0 => obligation' = None)
      <3>1. CASE stopped
        <4>1. None \in Attempts /\ Write(None)
          BY <1>1, <3>1 DEF Attempts, Admit, Clear
        <4> QED BY <3>1, <4>1, WriteFacts
      <3>2. CASE ~stopped
        BY <1>1, <3>2 DEF Admit, store
      <3> QED BY <3>1, <3>2
    <2>3. stopped => \A q \in Prompts : fate[q] # "owed"
      BY DEF OwedInv, CancelledOwesNot
    <2>4. AcceptedIsOwed'
      BY <2>1, <2>2, <2>3 DEF OwedInv, AcceptedIsOwed
    <2>5. ObligationIsEarned'
      BY <2>1, <2>2 DEF OwedInv, ObligationIsEarned
    <2>6. CancelledOwesNot' /\ PipeOK'
      BY <2>1, <2>3 DEF OwedInv, CancelledOwesNot, PipeOK
    <2> QED BY <2>4, <2>5, <2>6 DEF OwedInv
  <1>2. CASE Pin(p)
    BY <1>0, <1>2, OwedUntouched DEF Pin, durable, store, scopes
  <1>3. CASE RecordPending(p)
    <2>1. /\ \A q \in Prompts \ {p} : pipe'[q] = pipe[q] /\ ledger'[q] = ledger[q]
          /\ pipe'[p] = "recording"
          /\ UNCHANGED <<obligation, failures, stopped, stale, fate>>
      BY <1>0, <1>3 DEF RecordPending, store, scopes
    <2>2. AcceptedIsOwed' /\ ObligationIsEarned'
      BY <2>1 DEF OwedInv, AcceptedIsOwed, ObligationIsEarned
    <2>3. CancelledOwesNot' /\ PipeOK'
      BY <2>1 DEF OwedInv, CancelledOwesNot, PipeOK
    <2> QED BY <2>2, <2>3 DEF OwedInv
  <1>4. CASE RecordObligation(p)
    <2>1. /\ \A q \in Prompts \ {p} : pipe'[q] = pipe[q] /\ ledger'[q] = ledger[q]
          /\ pipe'[p] = "recorded" /\ RecordSend(p) /\ UNCHANGED <<stopped, stale>>
      BY <1>0, <1>4 DEF RecordObligation, scopes
    <2> QED BY <2>1, OwedRecorded
  <1>5. CASE SendFails(p)
    <2>1. /\ \A q \in Prompts \ {p} : pipe'[q] = pipe[q] /\ ledger'[q] = ledger[q]
          /\ pipe'[p] = "idle" /\ ledger'[p] = "none" /\ UNCHANGED <<stopped, stale>>
      BY <1>0, <1>5 DEF SendFails, scopes
    <2>2. CASE RecordSend(p)
      BY <2>1, <2>2, OwedRecorded
    <2>3. CASE UNCHANGED <<store, fate>>
      <3>1. UNCHANGED <<obligation, failures, fate>>
        BY <2>3 DEF store
      <3> QED BY <2>1, <3>1
              DEF OwedInv, AcceptedIsOwed, ObligationIsEarned, CancelledOwesNot, PipeOK
    <2> QED BY <1>5, <2>2, <2>3 DEF SendFails
  <1>6. CASE \E awaitTurn \in BOOLEAN : Dispatch(p, awaitTurn)
    <2>0. PICK awaitTurn \in BOOLEAN : Dispatch(p, awaitTurn)
      BY <1>6
    <2>1. /\ \A q \in Prompts \ {p} : pipe'[q] = pipe[q] /\ ledger'[q] = ledger[q]
          /\ pipe[p] = "recorded" /\ pipe'[p] \in {"waiting", "idle"}
          /\ UNCHANGED <<stopped, stale>>
      BY <1>0, <2>0 DEF Dispatch, scopes
    <2>2. CASE RecordSend(p)
      BY <2>1, <2>2, OwedRecorded
    <2>3. CASE UNCHANGED <<store, fate>>
      <3>1. UNCHANGED <<obligation, failures, fate>> /\ fate[p] # "none"
        BY <2>1, <2>3 DEF store, OwedInv, PipeOK
      <3>2. AcceptedIsOwed' /\ ObligationIsEarned'
        BY <2>1, <3>1 DEF OwedInv, AcceptedIsOwed, ObligationIsEarned
      <3>3. CancelledOwesNot' /\ PipeOK'
        BY <2>1, <3>1 DEF OwedInv, CancelledOwesNot, PipeOK
      <3> QED BY <3>2, <3>3 DEF OwedInv
    <2> QED BY <2>0, <2>2, <2>3 DEF Dispatch
  <1> QED BY <1>1, <1>2, <1>3, <1>4, <1>5, <1>6 DEF Send

LEMMA RunOwes ==
  ASSUME TypeOK, TokensAreLive, OwedInv,
         NEW c \in Calls, StartRun(c) \/ Answer(c) \/ Settle(c) \/ Escape(c)
  PROVE  OwedInv'
  <1>0. pipe \in [Prompts -> Stages] /\ fate \in [Prompts -> Fates]
    BY DEF TypeOK, Stages
  <1>1. CASE StartRun(c) \/ Settle(c) \/ Escape(c)
    <2>1. UNCHANGED <<ledger, fate, stopped, obligation, failures, stale>>
      BY <1>1 DEF StartRun, Settle, Escape, durable, store, scopes
    <2>2. \A p \in Prompts : \/ pipe'[p] = pipe[p]
                             \/ pipe[p] = "waiting" /\ pipe'[p] = "idle"
      BY <1>0, <1>1 DEF StartRun, Settle, Escape, Ended
    <2> QED BY <2>1, <2>2, OwedUntouched
  <1>2. CASE Answer(c)
    <2>1. run[c] = "running" /\ c \notin stale /\ Write(None) /\ None \in Attempts
      BY <1>2 DEF Answer, Fulfils, TokensAreLive, HoldsQueue, Clear, Attempts
    <2>2. fate' = Becomes("owed", "answered") /\ UNCHANGED <<ledger, pipe>>
      BY <1>2, <2>1 DEF Answer
    <2>3. failures' = 0 => obligation' = None
      BY <2>1, WriteFacts
    <2>4. \A p \in Prompts : fate'[p] # "owed" /\ (fate[p] # "none" => fate'[p] # "none")
      BY <2>2, BecomesFacts DEF Fates
    <2> QED BY <2>2, <2>3, <2>4, OwedNoMore
  <1> QED BY <1>1, <1>2

LEMMA RedriveOwes ==
  ASSUME TypeOK, OwedInv, NEW r \in Redrives, Redrive(r)
  PROVE  OwedInv'
  <1>0. r \notin Prompts /\ None \in Attempts
    BY CallsAssumption DEF Attempts
  <1>1. CASE TimerFires(r)
    <2>0. UNCHANGED <<ledger, stopped, pipe>>
      BY <1>1 DEF TimerFires
    <2>1. CASE UNCHANGED <<store, resolving, scopes, fate>>
      BY <2>0, <2>1, OwedUntouched DEF store, scopes
    <2>2. CASE Clear /\ fate' = Becomes("owed", "lost") /\ UNCHANGED <<resolving, scopes>>
      <3>1. failures' = 0 => obligation' = None
        BY <1>0, <2>2, WriteFacts DEF Clear
      <3>2. \A p \in Prompts : fate'[p] # "owed" /\ (fate[p] # "none" => fate'[p] # "none")
        BY <2>2, BecomesFacts DEF Fates
      <3> QED BY <2>0, <3>1, <3>2, OwedNoMore
    <2>3. CASE /\ obligation # None /\ ~GivesUp /\ RedriveStarts(r)
               /\ stale' = stale \ {r} /\ fate' = fate
      <3>1. obligation + 1 \in Attempts /\ obligation + 1 # None
        BY <2>3, CallsAssumption DEF TypeOK, Attempts, GivesUp
      <3>2. obligation' # None /\ (failures' = 0 => failures = 0)
        BY <2>3, <3>1, WriteFacts DEF RedriveStarts, Upsert
      <3> QED BY <2>0, <2>3, <3>2, OwedUntouched
    <2> QED BY <1>1, <2>1, <2>2, <2>3 DEF TimerFires
  <1>2. CASE Resolve(r) \/ ResolveFails(r)
    BY <1>2, OwedUntouched DEF Resolve, ResolveFails, durable, store, scopes
  <1> QED BY <1>1, <1>2 DEF Redrive

LEMMA HostOwes ==
  ASSUME TypeOK, OwedInv, Stop \/ Quiesce \/ ResumeAfterRecreate \/ Crash \/ Boot \/ UNCHANGED vars
  PROVE  OwedInv'
  <1>1. CASE Stop
    <2>1. failures' = 0 => obligation' = None
      <3>1. None \in Attempts /\ Write(None)
        BY <1>1 DEF Attempts, Stop, Clear
      <3> QED BY <3>1, WriteFacts
    <2>2. \A p \in Prompts : fate'[p] # "owed" /\ (fate[p] # "none" => fate'[p] # "none")
      BY <1>1, BecomesFacts DEF Stop, Fates
    <2> QED BY <1>1, <2>1, <2>2, OwedNoMore DEF Stop
  <1>2. CASE Quiesce \/ ResumeAfterRecreate \/ Boot \/ UNCHANGED vars
    BY <1>2, OwedUntouched DEF Quiesce, ResumeAfterRecreate, Boot, vars, durable, store, scopes
  <1>3. CASE Crash
    <2>1. /\ UNCHANGED <<ledger, obligation, failures, stopped>> /\ stale' = {}
          /\ \A p \in Prompts : pipe'[p] = "idle"
          /\ \A p \in Prompts : /\ fate'[p] = "owed" <=> fate[p] = "owed"
                                /\ fate[p] # "none" => fate'[p] # "none"
                                /\ pipe[p] = "recording" => fate'[p] # "none"
      BY <1>3 DEF Crash, durable, store
    <2>2. \A p \in Prompts : ledger[p] # "none" => fate'[p] # "none"
      BY <2>1 DEF OwedInv, AcceptedIsOwed, PipeOK, TypeOK
    <2>3. AcceptedIsOwed'
      BY <2>1, <2>2 DEF OwedInv, AcceptedIsOwed
    <2>4. ObligationIsEarned' /\ CancelledOwesNot' /\ PipeOK'
      BY <2>1 DEF OwedInv, ObligationIsEarned, CancelledOwesNot, PipeOK
    <2> QED BY <2>3, <2>4 DEF OwedInv
  <1> QED BY <1>1, <1>2, <1>3

LEMMA OwedStep == TypeOK /\ TokensAreLive /\ OwedInv /\ [Next]_vars => OwedInv'
  BY SendOwes, RunOwes, RedriveOwes, HostOwes DEF Next

LEMMA OwedAlways == Spec => []OwedInv
  <1>1. Init => OwedInv
    BY DEF Init, OwedInv, AcceptedIsOwed, ObligationIsEarned, CancelledOwesNot, PipeOK
  <1> QED BY <1>1, OwedStep, TypeCorrect, TokensLive, PTL DEF Spec

\* A prompt whose retries the ledger swallows is in the pipeline, owed on disk,
\* answered, cancelled, given up, or lost to one of the two faults the code
\* swallows (recordPending and recordAckObligationSend are two writes).
THEOREM PromptsAccounted == Spec => []AcceptedIsOwed
  BY OwedAlways, PTL DEF OwedInv

\* While no write fails, an obligation on disk stands for a prompt that was sent
\* since the last stop and that no run has answered.
THEOREM RedrivesEarned == Spec => []ObligationIsEarned
  BY OwedAlways, PTL DEF OwedInv

-----------------------------------------------------------------------------
\* An agent that is never stopped, in a host that does not quiesce and whose
\* writes succeed.  (A stop does refute OwedIsWatched: MCAckObligationsStale.cfg.)
Untroubled == MaxStops = 0 /\ MaxQuiesces = 0 /\ MaxFailures = 0
Calm == ~stopped /\ ~quiescing /\ stale = {}

\* OwedIsWatched without the help of a send that is not there yet: one that fails
\* before its pin arms no timer.
Watched ==
  up /\ obligation # None =>
    timer # "off" \/ resolving # {} \/ ~SessionIdle(pipe, run)
WatchInv == Calm /\ Watched

LEMMA CalmArms ==
  ASSUME Calm, NEW c, NEW left
  PROVE  ArmedBy(c, TRUE, left) # "off"
  BY DEF Calm, ArmedBy, IsStopped

LEMMA CalmAfterRun ==
  ASSUME Calm, NEW c, NEW pipes, NEW runs, NEW left
  PROVE  AfterRun(c, pipes, runs, TRUE, left) # "off" \/ ~SessionIdle(pipes, runs)
  BY CalmArms DEF AfterRun

LEMMA CalmStep ==
  ASSUME Untroubled, TypeOK, Calm, [Next]_vars
  PROVE  Calm'
  <1>0. ~Stop /\ ~Quiesce /\ ~ResumeAfterRecreate
    BY DEF Untroubled, Calm, TypeOK, Stop, Quiesce, ResumeAfterRecreate
  <1>1. CASE \E p \in Prompts : Admit(p) \/ Send(p)
    BY <1>1 DEF Calm, Admit, Send, Pin, RecordPending, RecordObligation, SendFails, Dispatch,
                durable, scopes
  <1>2. CASE \E c \in Calls : StartRun(c) \/ Answer(c) \/ Settle(c) \/ Escape(c)
    BY <1>2 DEF Calm, StartRun, Answer, Settle, Escape, durable, scopes
  <1>3. CASE \E r \in Redrives : Redrive(r)
    BY <1>3 DEF Calm, Redrive, TimerFires, Resolve, ResolveFails, durable, scopes
  <1>4. CASE Crash \/ Boot \/ UNCHANGED vars
    BY <1>4 DEF Calm, Crash, Boot, vars, durable, scopes
  <1> QED BY <1>0, <1>1, <1>2, <1>3, <1>4 DEF Next

LEMMA SendWatched ==
  ASSUME TypeOK, WatchInv, NEW p \in Prompts, Admit(p) \/ Send(p)
  PROVE  Watched'
  <1>0. pipe \in [Prompts -> Stages] /\ run \in [Calls -> RunStates] /\ p \in Calls
    BY DEF TypeOK, Stages, RunStates, Calls
  <1>a. ASSUME NEW from \in {"idle", "admitted"}, pipe[p] = from,
               pipe' \in {pipe, [pipe EXCEPT ![p] = "idle"], [pipe EXCEPT ![p] = "admitted"]},
               UNCHANGED <<up, obligation, timer, resolving, run>>
        PROVE  Watched'
    <2>1. SessionIdle(pipe', run') => SessionIdle(pipe, run)
      BY <1>0, <1>a DEF SessionIdle, Pinned
    <2> QED BY <1>a, <2>1 DEF WatchInv, Watched
  <1>b. ASSUME Pinned(pipe'[p]) \/ run'[p] # "none" PROVE Watched'
    BY <1>0, <1>b DEF Watched, SessionIdle
  <1>1. CASE Admit(p)
    BY <1>1, <1>a DEF WatchInv, Calm, Admit, store
  <1>2. CASE Pin(p) \/ RecordPending(p) \/ RecordObligation(p)
    <2>1. pipe'[p] \in {"pinned", "recording", "recorded"}
      BY <1>0, <1>2 DEF Pin, RecordPending, RecordObligation
    <2> QED BY <1>b, <2>1 DEF Pinned
  <1>3. CASE SendFails(p)
    <2>1. CASE pipe[p] = "admitted"
      BY <1>3, <1>a, <2>1 DEF SendFails, GuardOwes, store
    <2>2. CASE pipe[p] # "admitted"
      <3>1. PICK left : timer' = AfterRun(p, pipe', run', obligation' # None, left)
        BY <1>3, <2>2 DEF SendFails
      <3>2. (obligation' # None) = TRUE \/ obligation' = None
        OBVIOUS
      <3>3. obligation' # None => timer' # "off" \/ ~SessionIdle(pipe', run')
        BY <3>1, <3>2, CalmAfterRun DEF WatchInv
      <3> QED BY <3>3 DEF Watched
    <2> QED BY <2>1, <2>2
  <1>4. CASE \E awaitTurn \in BOOLEAN : Dispatch(p, awaitTurn)
    <2>1. run'[p] = "queued"
      BY <1>0, <1>4 DEF Dispatch
    <2> QED BY <1>b, <2>1
  <1> QED BY <1>1, <1>2, <1>3, <1>4 DEF Send

LEMMA RunWatched ==
  ASSUME TypeOK, WatchInv, NEW c \in Calls, StartRun(c) \/ Answer(c) \/ Settle(c) \/ Escape(c)
  PROVE  Watched'
  <1>0. run \in [Calls -> RunStates]
    BY DEF TypeOK, RunStates
  <1>1. CASE Ended(c) /\ obligation' = obligation
    <2>1. timer' = AfterRun(c, pipe', run', obligation' # None, timer)
      BY <1>1 DEF Ended
    <2>2. (obligation' # None) = TRUE \/ obligation' = None
      OBVIOUS
    <2>3. obligation' # None => timer' # "off" \/ ~SessionIdle(pipe', run')
      BY <2>1, <2>2, CalmAfterRun DEF WatchInv
    <2> QED BY <2>3 DEF Watched
  <1>2. CASE run'[c] # "none"
    BY <1>2 DEF Watched, SessionIdle
  <1>3. (Ended(c) /\ obligation' = obligation) \/ run'[c] # "none"
    BY <1>0 DEF StartRun, Answer, Settle, Escape, durable, store
  <1> QED BY <1>1, <1>2, <1>3

LEMMA RedriveWatched ==
  ASSUME Untroubled, TypeOK, WatchInv, NEW r \in Redrives, Redrive(r)
  PROVE  Watched'
  <1>1. CASE TimerFires(r)
    <2>1. CASE obligation = None
      BY <1>1, <2>1 DEF TimerFires, store, Watched
    <2>2. CASE obligation # None /\ GivesUp
      <3>1. Clear
        BY <1>1, <2>2 DEF TimerFires, WatchInv, Calm
      <3>2. obligation' = None
        BY <3>1 DEF Untroubled, TypeOK, Clear, Write
      <3> QED BY <3>2 DEF Watched
    <2>3. CASE obligation # None /\ ~GivesUp
      <3>1. r \in resolving'
        BY <1>1, <2>3 DEF TimerFires, WatchInv, Calm
      <3> QED BY <3>1 DEF Watched
    <2> QED BY <2>1, <2>2, <2>3
  <1>2. CASE Resolve(r)
    <2>1. run'[r] = "queued" /\ r \in Calls
      BY <1>2 DEF Resolve, RedriveAllowed, WasStopped, WatchInv, Calm, TypeOK, Calls
    <2> QED BY <2>1 DEF Watched, SessionIdle
  <1>3. CASE ResolveFails(r)
    <2>1. timer' = ArmedBy(r, obligation # None, timer) /\ obligation' = obligation
      BY <1>3 DEF ResolveFails, durable, store
    <2>2. (obligation # None) = TRUE \/ obligation = None
      OBVIOUS
    <2>3. obligation' # None => timer' # "off"
      BY <2>1, <2>2, CalmArms DEF WatchInv
    <2> QED BY <2>3 DEF Watched
  <1> QED BY <1>1, <1>2, <1>3 DEF Redrive

LEMMA WatchStep ==
  ASSUME Untroubled, TypeOK, WatchInv, [Next]_vars
  PROVE  WatchInv'
  <1>0. ~Stop /\ ~Quiesce /\ ~ResumeAfterRecreate
    BY DEF Untroubled, WatchInv, Calm, TypeOK, Stop, Quiesce, ResumeAfterRecreate
  <1>1. ASSUME Crash PROVE Watched'
    BY <1>1 DEF Crash, Watched
  <1>2. ASSUME Boot PROVE Watched'
    BY <1>2 DEF Boot, BootArms, durable, store, WatchInv, Calm, Watched
  <1>3. ASSUME UNCHANGED vars PROVE Watched'
    BY <1>3 DEF vars, durable, store, WatchInv, Watched
  <1>4. Watched'
    BY <1>0, <1>1, <1>2, <1>3, SendWatched, RunWatched, RedriveWatched DEF Next
  <1> QED BY <1>4, CalmStep DEF WatchInv

\* An agent that nobody stops never waits for ever for what it owes: whatever its
\* host's crashes and its sends' failures, a run, a send, a redrive or the timer
\* (armAckRedriveTimer, called by endSessionRun and at the boot) is under way.
THEOREM OwedWatched == ASSUME Untroubled PROVE Spec => []OwedIsWatched
  <1>1. Init => WatchInv
    BY DEF Init, WatchInv, Calm, Watched
  <1>2. TypeOK /\ WatchInv /\ [Next]_vars => WatchInv'
    BY WatchStep
  <1>3. WatchInv => OwedIsWatched
    BY DEF WatchInv, Watched, OwedIsWatched
  <1> QED BY <1>1, <1>2, <1>3, TypeCorrect, PTL DEF Spec
=============================================================================
