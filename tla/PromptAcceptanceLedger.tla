----------------------- MODULE PromptAcceptanceLedger -----------------------
(***************************************************************************)
(* PromptAcceptanceLedger (host/extensions/transcript/                     *)
(* prompt-acceptance-ledger.ts): which client nonces the host has seen, so *)
(* that a prompt sent again after a lost answer is not run twice.  The     *)
(* ledger is a file, rewritten as a whole at every change; a change that   *)
(* cannot be saved leaves the ledger degraded, with a marker file beside   *)
(* it.  What the ledger may have forgotten is kept as gaps in its history, *)
(* and a nonce it does not know is "not-found" only while it has none.     *)
(*                                                                         *)
(* The digest of the input is left out: a nonce is sent again with the     *)
(* same input, and a mismatch throws before anything changes.  The clock   *)
(* never runs backwards.                                                   *)
(***************************************************************************)
EXTENDS Integers, Sequences, SequencesExt

CONSTANTS
  Nonces,              \* account slot and client nonce of a send
  MaxRecords,          \* MAX_RECORDS
  MaxDegradedWindows,  \* MAX_DEGRADED_WINDOWS
  Outcomes,            \* the statuses that complete a pending record
  MaxTime              \* bound on the clock

ASSUME BoundsAssumption ==
  /\ MaxRecords \in Nat \ {0} /\ MaxDegradedWindows \in Nat \ {0}
  /\ MaxTime \in Nat /\ Outcomes \subseteq {"accepted", "rejected"}

NoTime == -1           \* null
Statuses == {"pending"} \cup Outcomes

VARIABLES
  now,
  loaded,              \* the file has been read by this process
  records,             \* the Map of the records, in the order of insertion
  gaps,
  degradedSince,
  markerMayExist,
  file,                \* what the file holds, and whether parsing it finds damage
  marker,              \* sinceMs of the marker file, or NoTime
  truth,               \* history: the last status each nonce was given, or "none"
  recordedAt,          \*   when it was first recorded,
  changed,             \*   and when the call that gave the status began and ended
  untraced             \* history: a fault has left no trace on disk

memory == <<loaded, records, gaps, degradedSince, markerMayExist>>
history == <<truth, recordedAt, changed>>
vars == <<now, memory, file, marker, history, untraced>>

-----------------------------------------------------------------------------
NoGaps == [horizon |-> NoTime, windows |-> <<>>, reset |-> NoTime]
Latest(a, b) == IF a < b THEN b ELSE a
Earliest(a, b) == IF a < b THEN a ELSE b

WithEvictionHorizon(g, at) == [g EXCEPT !.horizon = Latest(@, at)]
WithCorruptReset(g, at) == [g EXCEPT !.reset = Latest(@, at)]
WithDegradedWindowReplaced(g, w) ==                                  \* mutant
  IF Len(g.windows) < MaxDegradedWindows
  THEN [g EXCEPT !.windows = Append(@, w)]
  ELSE [g EXCEPT !.windows = Append(Front(@), w)]
WithDegradedWindow(g, w) ==
  IF Len(g.windows) < MaxDegradedWindows
  THEN [g EXCEPT !.windows = Append(@, w)]
  ELSE LET last == Last(g.windows)
           merged == [from |-> Earliest(last.from, w.from),
                      to |-> Latest(last.to, w.to)]
       IN  [g EXCEPT !.windows = Append(Front(@), merged)]

NoncesOf(recs) == {recs[i].nonce : i \in DOMAIN recs}
PlaceOf(recs, n) == CHOOSE i \in DOMAIN recs : recs[i].nonce = n
StatusIn(recs, n) ==
  IF n \in NoncesOf(recs) THEN recs[PlaceOf(recs, n)].status ELSE "none"
StatusOf(n) == StatusIn(records, n)
Without(recs, n) == RemoveAt(recs, PlaceOf(recs, n))
WithStatus(recs, n, s) == [recs EXCEPT ![PlaceOf(recs, n)].status = s]

\* lookup() on a loaded ledger, and the answer admitSend() gives from it.
Lookup(n) ==
  IF n \in NoncesOf(records) THEN "found"
  ELSE IF gaps # NoGaps \/ degradedSince # NoTime THEN "unknown-durability"
  ELSE "not-found"

\* evictPastCap: the oldest record that is completed, else the oldest.
Completed(recs) == {i \in DOMAIN recs : recs[i].status # "pending"}
Victim(recs) ==
  IF Completed(recs) = {} THEN 1
  ELSE CHOOSE i \in Completed(recs) : \A j \in Completed(recs) : i <= j
EvictsNone(recs) == recs                                             \* mutant
Evicted(recs) == IF Len(recs) <= MaxRecords THEN recs ELSE RemoveAt(recs, Victim(recs))
GapsUnchangedByEviction(recs, g) == g                                \* mutant
EvictionGaps(recs, g) ==
  IF Len(recs) <= MaxRecords THEN g
  ELSE WithEvictionHorizon(g, recs[Victim(recs)].at)

-----------------------------------------------------------------------------
\* persist() at time t of a ledger that holds recs and g, degraded since the
\* time given.  The file is replaced by a rename, so a write that fails leaves
\* it as it was; the marker may fail to be written or removed as well.
Folded(g, since, t) ==
  IF since = NoTime THEN g ELSE WithDegradedWindow(g, [from |-> since, to |-> t])
Saved(recs, g, since, mayExist, t) ==
  /\ records' = recs
  /\ gaps' = Folded(g, since, t)
  /\ file' = [records |-> recs, gaps |-> Folded(g, since, t), damaged |-> FALSE]
  /\ degradedSince' = NoTime
  /\ \/ marker' = NoTime /\ markerMayExist' = FALSE /\ mayExist
     \/ marker' = marker /\ markerMayExist' = mayExist
NotSaved(recs, g, since, mayExist, t) ==
  /\ records' = recs /\ gaps' = g /\ file' = file
  /\ degradedSince' = IF since = NoTime THEN t ELSE since
  /\ \/ ~mayExist /\ marker' = degradedSince' /\ markerMayExist' = TRUE
     \/ marker' = marker /\ markerMayExist' = mayExist
Persist(recs, g, t) ==
  \/ Saved(recs, g, degradedSince, markerMayExist, t)
  \/ NotSaved(recs, g, degradedSince, markerMayExist, t)

\* A call reads the clock when it begins and again in persist().
Later == {now, Earliest(now + 1, MaxTime)}
GivesStatus(n, s, t) ==
  /\ truth' = [truth EXCEPT ![n] = s]
  /\ changed' = [changed EXCEPT ![n] = [from |-> now, to |-> t]]

\* recordPending for a nonce without a record; with one it changes nothing.
RecordPending(n) ==
  /\ loaded /\ n \notin NoncesOf(records)
  /\ LET recs == Append(records, [nonce |-> n, status |-> "pending", at |-> now])
     IN  \E t \in Later :
           /\ now' = t
           /\ Persist(Evicted(recs), EvictionGaps(recs, gaps), t)
           /\ GivesStatus(n, "pending", t)
           /\ recordedAt' = [recordedAt EXCEPT ![n] = IF @ = NoTime THEN now ELSE @]
  /\ UNCHANGED <<loaded, untraced>>

\* markAccepted and markRejected: only a pending record is completed.
MarkCompleted(n, s) ==
  /\ loaded /\ StatusOf(n) = "pending" /\ s \in Outcomes
  /\ \E t \in Later :
       /\ now' = t
       /\ Persist(WithStatus(records, n, s), gaps, t)
       /\ GivesStatus(n, s, t)
  /\ UNCHANGED <<loaded, recordedAt, untraced>>

\* clearUnlessAccepted: the send failed, the client may try again.
ClearUnlessAccepted(n) ==
  /\ loaded /\ StatusOf(n) \in {"pending", "rejected"}
  /\ \E t \in Later :
       /\ now' = t
       /\ Persist(Without(records, n), gaps, t)
       /\ GivesStatus(n, "none", t)
  /\ UNCHANGED <<loaded, recordedAt, untraced>>

Dispose ==
  /\ loaded
  /\ \E t \in Later : now' = t /\ Persist(records, gaps, t)
  /\ UNCHANGED <<loaded, history, untraced>>

\* load(), on the first use in a process.  An error reading the file is taken
\* for a ledger that does not exist yet.
ParsedGaps ==
  IF file.damaged THEN WithCorruptReset(file.gaps, now) ELSE file.gaps
WithMarker(g) ==
  IF marker = NoTime THEN g
  ELSE WithDegradedWindow(g, [from |-> marker, to |-> now])
NeedsPersist(damaged) == damaged \/ marker # NoTime
LoadsAs(recs, g, damaged) ==
  /\ ~loaded /\ loaded' = TRUE
  /\ \E t \in Later :
       /\ now' = t
       /\ IF NeedsPersist(damaged)
          THEN \/ Saved(recs, WithMarker(g), NoTime, marker # NoTime, t)
               \/ NotSaved(recs, WithMarker(g), NoTime, marker # NoTime, t)
          ELSE /\ records' = recs /\ gaps' = g
               /\ degradedSince' = NoTime /\ markerMayExist' = FALSE
               /\ UNCHANGED <<file, marker>>
  /\ UNCHANGED history

Load ==
  /\ LoadsAs(file.records, ParsedGaps, file.damaged)
  /\ UNCHANGED untraced
LoadUnreadable ==
  /\ file.records # <<>> \/ file.gaps # NoGaps \/ file.damaged
  /\ LoadsAs(<<>>, NoGaps, FALSE)
  /\ untraced' = TRUE

-----------------------------------------------------------------------------
\* The process ends without warning.  A change that is neither in the file nor
\* announced by the marker is gone without a trace.
Crash ==
  /\ loaded
  /\ loaded' = FALSE
  /\ records' = <<>> /\ gaps' = NoGaps
  /\ degradedSince' = NoTime /\ markerMayExist' = FALSE
  /\ untraced' = (untraced \/ (degradedSince # NoTime /\ marker = NoTime))
  /\ UNCHANGED <<now, file, marker, history>>

\* Records that coerceAcceptanceRecord refuses are dropped (here one by one); gaps
\* that coerceGaps refuses are.  A file that is no JSON at all loses everything.
Damage ==
  /\ ~loaded
  /\ \/ \E i \in DOMAIN file.records :
          file' = [file EXCEPT !.records = RemoveAt(@, i), !.damaged = TRUE]
     \/ \E g \in {file.gaps, NoGaps} : file' = [file EXCEPT !.gaps = g, !.damaged = TRUE]
  /\ UNCHANGED <<now, memory, marker, history, untraced>>

Tick ==
  /\ now < MaxTime
  /\ now' = now + 1
  /\ UNCHANGED <<memory, file, marker, history, untraced>>

Init ==
  /\ now = 0
  /\ loaded = FALSE /\ records = <<>> /\ gaps = NoGaps
  /\ degradedSince = NoTime /\ markerMayExist = FALSE
  /\ file = [records |-> <<>>, gaps |-> NoGaps, damaged |-> FALSE]
  /\ marker = NoTime
  /\ truth = [n \in Nonces |-> "none"]
  /\ recordedAt = [n \in Nonces |-> NoTime]
  /\ changed = [n \in Nonces |-> [from |-> NoTime, to |-> NoTime]]
  /\ untraced = FALSE

Next ==
  \/ \E n \in Nonces :
       \/ RecordPending(n) \/ ClearUnlessAccepted(n)
       \/ \E s \in Outcomes : MarkCompleted(n, s)
  \/ Dispose \/ Load \/ LoadUnreadable \/ Crash \/ Damage \/ Tick

Spec == Init /\ [][Next]_vars

-----------------------------------------------------------------------------
Times == 0 .. MaxTime
Record == [nonce : Nonces, status : Statuses, at : Times]
IsGaps(g) ==
  /\ g.horizon \in Times \cup {NoTime} /\ g.reset \in Times \cup {NoTime}
  /\ Len(g.windows) <= MaxDegradedWindows
  /\ \A i \in DOMAIN g.windows : g.windows[i] \in [from : Times, to : Times]
IsLedger(recs, g) ==
  /\ Len(recs) <= MaxRecords
  /\ \A i \in DOMAIN recs : recs[i] \in Record
  /\ \A i, j \in DOMAIN recs : recs[i].nonce = recs[j].nonce => i = j
  /\ IsGaps(g)

\* The ledger in memory and the one on disk never outgrow MAX_RECORDS nor hold a
\* nonce twice (evictPastCap, recordPending); times are times of the clock.
TypeOK ==
  /\ now \in Times
  /\ loaded \in BOOLEAN /\ markerMayExist \in BOOLEAN /\ untraced \in BOOLEAN
  /\ IsLedger(records, gaps) /\ IsLedger(file.records, file.gaps)
  /\ degradedSince \in Times \cup {NoTime} /\ marker \in Times \cup {NoTime}

\* Some gap covers what was done with n: it was evicted, or a degraded window
\* touches the time from its first recording to its last change, or damage was
\* found since.
Covered(n) ==
  \/ gaps.horizon >= recordedAt[n]
  \/ \E i \in DOMAIN gaps.windows :
       /\ gaps.windows[i].from <= changed[n].to
       /\ gaps.windows[i].to >= recordedAt[n]
  \/ degradedSince # NoTime /\ degradedSince <= changed[n].to
  \/ gaps.reset >= changed[n].from

\* Whatever the ledger has wrong about a nonce, for whatever crashes, failed
\* writes, evictions and damage, lies in a gap it declares (historyGaps): a
\* forgotten prompt is never reported as "not-found", and a status that an
\* unsaved change left behind is inside a degraded window.
GapsCoverWhatIsWrong ==
  loaded /\ ~untraced => \A n \in Nonces : StatusOf(n) # truth[n] => Covered(n)

\* A nonce that was recorded, and whose send was not undone, is answered
\* "not-found" only when the ledger file or the marker could not be used at all.
NotFoundIsTrue ==
  loaded /\ ~untraced =>
    \A n \in Nonces : Lookup(n) = "not-found" => truth[n] = "none"

\* In one process an admitted nonce stays admitted: the record of a completed
\* send leaves the ledger only past the cap, and a send in flight loses its
\* record only when every other record is in flight too.
EvictionSparesSendsInFlight ==
  [][\A n \in Nonces :
       loaded /\ loaded' /\ StatusOf(n) = "pending" /\ StatusOf(n)' = "none"
         => truth'[n] = "none" \/ Completed(records) = {}]_vars
=============================================================================
