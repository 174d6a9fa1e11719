---------------------------- MODULE BlobRecovery ----------------------------
(***************************************************************************)
(* The blob database of an agent (host/agent-isolation/conversation-blob-  *)
(* db.ts, host/storage/sqlite-recovery.ts) and its recovery when opening   *)
(* finds it corrupt: the database is moved, copied or left where it is,    *)
(* its readable rows are salvaged into a replacement, and the replacement  *)
(* is renamed into place.  A marker file tells the next opening that a     *)
(* recovery was under way.  Every file operation is a step, and the worker *)
(* may die between any two; an exception ends the worker and is a crash    *)
(* here.                                                                   *)
(*                                                                         *)
(* A database is a main file and a write-ahead log.  Its rows are those    *)
(* that reading it returns.  One worker opens it at a time, and a          *)
(* quarantined file does not decay.                                        *)
(*                                                                         *)
(* When a connection closes, SQLite folds the log into the main file, in   *)
(* one step here.  (What a fold cut short may leave, with its log dropped  *)
(* at the next opening, is a file that rots.)  A corrupt database that was *)
(* only probed, and one whose rows were salvaged, keep their logs here:    *)
(* file and log hold the same rows together either way.                    *)
(***************************************************************************)
EXTENDS Integers

CONSTANTS
  Rows,            \* the blobs
  LegacyRows,      \* those the agent's legacy database holds
  MaxRecoveries,   \* bound on the time stamps of recoveries,
  MaxRots,         \*   on the times a file becomes corrupt,
  MaxFaults,       \*   on the errors of the storage that go away,
  MaxCrashes       \*   and on the crashes

ASSUME RowsAssumption == LegacyRows \subseteq Rows
ASSUME BoundsAssumption ==
  /\ {MaxRecoveries, MaxRots, MaxFaults, MaxCrashes} \subseteq Nat
  /\ MaxRecoveries >= MaxRots + MaxFaults

Stamps == 1 .. MaxRecoveries
Db == <<"db", 0>>
Quarantines == {"quarantine"} \X Stamps
Replacements == {"replacement", "second"} \X (0 .. MaxRecoveries)
Paths == {Db} \cup Quarantines \cup Replacements

\* `${path}.replacement`
Replacement(path) == <<IF path[1] = "replacement" THEN "second" ELSE "replacement", path[2]>>

Unstarted == 0     \* CONVERSATION_BLOB_MIGRATION_UNSTARTED
Adopted == 1       \* CONVERSATION_BLOB_ADOPTION_COMPLETE
RebuiltIsAdopted == 1    \* mutant
Rebuilt == 2       \* CONVERSATION_BLOB_RECOVERY_REBUILT

\* A torn file is what an interrupted copy leaves.
File == [rows: SUBSET Rows, state: {"none", "sound", "corrupt", "torn"}, version: 0 .. 2]
NoFile == [rows |-> {}, state |-> "none", version |-> Unstarted]
EmptyFile == [NoFile EXCEPT !.state = "sound"]
Log == [rows: SUBSET Rows, version: 0 .. 2]    \* version 0: the log does not set it
NoLog == [rows |-> {}, version |-> Unstarted]

\* A marker with stamp 0 is `${db}.pending`, of a recovery in place.
Marker == [stamp: 0 .. MaxRecoveries, kind: {"intent", "pending"}]
Source(m) == IF m.stamp = 0 THEN Db ELSE <<"quarantine", m.stamp>>

VARIABLES
  disk,        \* the main file at each path
  wal,         \* the write-ahead log beside it
  markers,
  pc,          \* what the worker does next
  job,         \* quarantinePath, replacementPath, and what the attempt was told
  rots, faults, crashes,
  owed,        \* history: rows written whose bytes were readable since
  lost         \* history: rows given up, by the window that allowed it

storage == <<disk, wal, markers>>
bounds == <<rots, faults, crashes>>
history == <<owed, lost>>
vars == <<storage, pc, job, bounds, history>>

Windows == {"sidecar", "log", "torn", "skipped"}
Idle == [source |-> Db, target |-> Replacement(Db), resumed |-> FALSE, retried |-> FALSE]

-----------------------------------------------------------------------------
Exists(p) == disk[p].state # "none"
Content(p) == IF Exists(p) THEN disk[p].rows \cup wal[p].rows ELSE {}
Version(p) == IF wal[p].version # Unstarted THEN wal[p].version ELSE disk[p].version
Checkpointed(p) == [disk[p] EXCEPT !.rows = Content(p), !.version = Version(p)]
OnlyInLog(p) == wal[p].rows \ disk[p].rows

\* removeSqliteDb, of each path in ps.
Remove(ps) ==
  /\ disk' = [p \in Paths |-> IF p \in ps THEN NoFile ELSE disk[p]]
  /\ wal' = [p \in Paths |-> IF p \in ps THEN NoLog ELSE wal[p]]

Lose(window, rows) == lost' = [lost EXCEPT ![window] = @ \cup rows]

\* removeSqliteSidecars, after an error that may go away.
DropSidecars(p) ==
  /\ faults < MaxFaults /\ faults' = faults + 1
  /\ wal' = [wal EXCEPT ![p] = NoLog]

NewestMarker == CHOOSE m \in markers : \A n \in markers : n.stamp <= m.stamp
ActiveReplacement == IF markers = {} THEN {} ELSE {Replacement(Source(NewestMarker))}

Init ==
  /\ disk = [p \in Paths |-> NoFile] /\ wal = [p \in Paths |-> NoLog]
  /\ markers = {} /\ pc = "closed" /\ job = Idle
  /\ rots = 0 /\ faults = 0 /\ crashes = 0
  /\ owed = {} /\ lost = [w \in Windows |-> {}]

-----------------------------------------------------------------------------
(* Opening the database.                                                   *)

\* openConversationBlobDb: findPendingRecovery keeps the newest marker and the
\* replacement it may have left.
Open ==
  /\ pc = "closed"
  /\ Remove(Replacements \ (ActiveReplacement \cup {<<"second", 0>>}))
  /\ IF markers = {}
     THEN pc' = "probe" /\ job' = Idle /\ UNCHANGED markers
     ELSE LET source == Source(NewestMarker) IN
          /\ pc' = "finish"
          /\ job' = [Idle EXCEPT !.source = source, !.target = Replacement(source),
                                 !.resumed = TRUE]
          /\ markers' = {NewestMarker}
  /\ UNCHANGED <<bounds, history>>

ProbeHealthy ==
  /\ pc = "probe" /\ disk[Db].state \in {"none", "sound"}
  /\ pc' = "adopt"
  /\ IF Exists(Db) THEN UNCHANGED <<disk, wal>>
     ELSE /\ disk' = [disk EXCEPT ![Db] = EmptyFile]
          /\ wal' = [wal EXCEPT ![Db] = NoLog]
  /\ UNCHANGED <<markers, job, bounds, history>>

\* The time stamps of two recoveries differ.
FreshStamp(s) ==
  /\ ~Exists(<<"quarantine", s>>)
  /\ \A r \in Stamps : r < s => Exists(<<"quarantine", r>>)

\* recoverConversationBlobDb: the intent is written first.
Recover ==
  \E s \in Stamps :
    /\ FreshStamp(s)
    /\ markers' = markers \cup {[stamp |-> s, kind |-> "intent"]}
    /\ job' = [Idle EXCEPT !.source = <<"quarantine", s>>, !.target = <<"replacement", s>>]
    /\ pc' = "quarantine"

ProbeCorrupt ==
  /\ pc = "probe" /\ disk[Db].state = "corrupt"
  /\ Recover
  /\ UNCHANGED <<disk, wal, bounds, history>>

\* An I/O error is retried without the sidecars; another one starts a recovery.
ProbeFails ==
  /\ pc = "probe" /\ Exists(Db)
  /\ DropSidecars(Db)
  /\ Lose("sidecar", OnlyInLog(Db))
  /\ IF job.retried THEN Recover
     ELSE job' = [job EXCEPT !.retried = TRUE] /\ UNCHANGED <<markers, pc>>
  /\ UNCHANGED <<disk, rots, crashes, owed>>

-----------------------------------------------------------------------------
(* quarantineCorruptSqliteDb.                                              *)

MoveMain ==
  /\ pc = "quarantine" /\ pc' = "move log"
  /\ disk' = [disk EXCEPT ![job.source] = disk[Db], ![Db] = NoFile]
  /\ wal' = [wal EXCEPT ![job.source] = NoLog]
  /\ UNCHANGED <<markers, job, bounds, history>>

\* A sidecar that cannot be renamed is removed.
MoveLog(moved) ==
  /\ pc = "move log" /\ pc' = "mark"
  /\ wal' = [wal EXCEPT ![job.source] = IF moved THEN wal[Db] ELSE NoLog, ![Db] = NoLog]
  /\ Lose("log", IF moved THEN {} ELSE wal[Db].rows \ disk[job.source].rows)
  /\ UNCHANGED <<disk, markers, job, bounds, owed>>

\* The rename fails: the file is copied.
CopyMain(part) ==
  /\ pc = "quarantine" /\ pc' = "copying"
  /\ part \subseteq disk[Db].rows
  /\ disk' = [disk EXCEPT ![job.source] = [NoFile EXCEPT !.rows = part, !.state = "torn"]]
  /\ wal' = [wal EXCEPT ![job.source] = NoLog]
  /\ UNCHANGED <<markers, job, bounds, history>>

CopyEnds ==
  /\ pc = "copying" /\ pc' = "copy log"
  /\ disk' = [disk EXCEPT ![job.source] = disk[Db]]
  /\ UNCHANGED <<wal, markers, job, bounds, history>>

\* The copy fails too: the recovery goes on in place.
CopyFails ==
  /\ pc = "copying" /\ pc' = "mark"
  /\ job' = [job EXCEPT !.source = Db, !.target = Replacement(Db)]
  /\ UNCHANGED <<storage, bounds, history>>

CopyLog(copied) ==
  /\ pc = "copy log" /\ pc' = "drop source"
  /\ wal' = [wal EXCEPT ![job.source] = IF copied THEN wal[Db] ELSE NoLog]
  /\ Lose("log", IF copied THEN {} ELSE OnlyInLog(Db))
  /\ UNCHANGED <<disk, markers, job, bounds, owed>>

DropSource ==
  /\ pc = "drop source" /\ pc' = "mark"
  /\ Remove({Db})
  /\ UNCHANGED <<markers, job, bounds, history>>

\* The marker is renamed to say where the rows are.
Mark ==
  /\ pc = "mark"
  /\ markers' = (markers \ {NewestMarker}) \cup {[stamp |-> job.source[2], kind |-> "pending"]}
  /\ pc' = IF job.resumed THEN "rebuild" ELSE "finish"
  /\ UNCHANGED <<disk, wal, job, bounds, history>>

-----------------------------------------------------------------------------
(* finishConversationBlobRecovery.                                         *)

CompleteWhenSound(p) == disk[p].state = "sound"    \* mutant
Complete(p) == disk[p].state = "sound" /\ Version(p) \in {Rebuilt, Adopted}

\* The database is gone and its replacement is complete.
FinishInstalls ==
  /\ pc = "finish" /\ ~Exists(Db) /\ Complete(job.target)
  /\ pc' = "checkpoint"
  /\ UNCHANGED <<storage, job, bounds, history>>

\* A replacement that is all there is becomes the source.
FinishRebuilds ==
  /\ pc = "finish" /\ ~Exists(Db) /\ ~Complete(job.target)
  /\ pc' = "rebuild"
  /\ job' = IF Exists(job.target) /\ (job.source = Db \/ ~Exists(job.source))
            THEN [job EXCEPT !.source = job.target, !.target = Replacement(job.target)]
            ELSE job
  /\ UNCHANGED <<storage, bounds, history>>

\* The database is sound: the recovery had ended, or is not needed.
FinishHealthy ==
  /\ pc = "finish" /\ disk[Db].state = "sound"
  /\ pc' = "settle"
  /\ Remove({Replacement(job.source)})
  /\ UNCHANGED <<markers, job, bounds, history>>

FinishAnyway ==                                                      \* mutant
  /\ pc = "finish" /\ Exists(Db)
  /\ \/ job.source = Db /\ pc' = "rebuild" /\ UNCHANGED <<disk, wal>>
     \/ job.source # Db /\ ~Exists(job.source) /\ pc' = "quarantine" /\ UNCHANGED <<disk, wal>>
     \/ job.source # Db /\ Exists(job.source) /\ pc' = "rebuild" /\ Remove({Db})
  /\ UNCHANGED <<markers, job, bounds, history>>
FinishCorrupt ==
  /\ pc = "finish" /\ disk[Db].state = "corrupt"
  /\ \/ job.source = Db /\ pc' = "rebuild" /\ UNCHANGED <<disk, wal>>
     \/ job.source # Db /\ ~Exists(job.source) /\ pc' = "quarantine" /\ UNCHANGED <<disk, wal>>
     \/ job.source # Db /\ Exists(job.source) /\ pc' = "rebuild" /\ Remove({Db})
  /\ UNCHANGED <<markers, job, bounds, history>>

\* getHealthOnDisk retries an I/O error without the sidecars.
FinishFails ==
  LET examined == IF Exists(Db) THEN Db ELSE job.target IN
  /\ pc = "finish" /\ Exists(examined) /\ ~job.retried
  /\ DropSidecars(examined)
  /\ Lose("sidecar", IF examined = Db THEN OnlyInLog(Db) ELSE {})
  /\ job' = [job EXCEPT !.retried = TRUE]
  /\ UNCHANGED <<disk, markers, pc, rots, crashes, owed>>

Rebuild ==
  /\ pc = "rebuild" /\ pc' = "salvage"
  /\ disk' = [disk EXCEPT ![job.target] = EmptyFile]
  /\ wal' = [wal EXCEPT ![job.target] = NoLog]
  /\ UNCHANGED <<markers, job, bounds, history>>

\* openSqliteForSalvage, on an error, opens the source without its sidecars.
SalvageFails ==
  /\ pc = "salvage" /\ Content(job.target) = {} /\ Exists(job.source)
  /\ DropSidecars(job.source)
  /\ Lose("sidecar", OnlyInLog(job.source))
  /\ UNCHANGED <<disk, markers, pc, job, rots, crashes, owed>>

SalvageRow(r) ==
  /\ pc = "salvage" /\ r \in Content(job.source) \ Content(job.target)
  /\ wal' = [wal EXCEPT ![job.target].rows = @ \cup {r}]
  /\ UNCHANGED <<disk, markers, pc, job, bounds, history>>

\* copySalvageableSqliteRows skips a row that cannot be inserted.
SalvageEnds ==
  LET skipped == Content(job.source) \ Content(job.target) IN
  /\ pc = "salvage" /\ pc' = "checkpoint"
  /\ \/ skipped = {} /\ UNCHANGED <<faults, lost>>
     \/ /\ skipped # {} /\ faults < MaxFaults /\ faults' = faults + 1
        /\ Lose("skipped", skipped)
  /\ wal' = [wal EXCEPT ![job.target].version = Rebuilt]
  /\ UNCHANGED <<disk, markers, job, rots, crashes, owed>>

\* The log is checkpointed and its files are removed.
Checkpoint ==
  /\ pc = "checkpoint" /\ pc' = "remove"
  /\ disk' = [disk EXCEPT ![job.target] = Checkpointed(job.target)]
  /\ wal' = [wal EXCEPT ![job.target] = NoLog]
  /\ UNCHANGED <<markers, job, bounds, history>>

RemoveOld ==
  /\ pc = "remove" /\ pc' = "install"
  /\ Remove({Db})
  /\ UNCHANGED <<markers, job, bounds, history>>

Install ==
  /\ pc = "install" /\ pc' = "settle"
  /\ disk' = [disk EXCEPT ![Db] = disk[job.target], ![job.target] = NoFile]
  /\ UNCHANGED <<wal, markers, job, bounds, history>>

SettlePending ==                                                     \* mutant
  /\ pc = "settle" /\ pc' = "adopt"
  /\ markers' = {m \in markers : m.kind = "intent"}
  /\ UNCHANGED <<disk, wal, job, bounds, history>>
Settle ==
  /\ pc = "settle" /\ pc' = "adopt"
  /\ markers' = markers \ {NewestMarker}
  /\ UNCHANGED <<disk, wal, job, bounds, history>>

-----------------------------------------------------------------------------
(* ConversationBlobStoreDb: adoption of the legacy blobs, writes, the end. *)

AdoptionDue == Version(Db) \in {Unstarted, Rebuilt}

SkipAdoption ==
  /\ pc = "adopt" /\ pc' = "ready"     \* not due, or it failed
  /\ UNCHANGED <<storage, job, bounds, history>>

Adopt ==
  /\ pc = "adopt" /\ AdoptionDue
  /\ pc' = "adopted"
  /\ wal' = [wal EXCEPT ![Db].rows = @ \cup (LegacyRows \ Content(Db))]
  /\ UNCHANGED <<disk, markers, job, bounds, history>>

MarkAdopted ==
  /\ pc = "adopted" /\ pc' = "ready"
  /\ wal' = [wal EXCEPT ![Db].version = Adopted]
  /\ UNCHANGED <<disk, markers, job, bounds, history>>

\* setBlob
Write(r) ==
  /\ pc = "ready" /\ r \notin owed
  /\ wal' = [wal EXCEPT ![Db].rows = @ \cup ({r} \ Content(Db))]
  /\ owed' = owed \cup {r}
  /\ lost' = [w \in Windows |-> lost[w] \ {r}]
  /\ UNCHANGED <<disk, markers, pc, job, bounds>>

\* SQLite's own checkpoint: at some write, and at the end of the connection.
FoldLog(closed) ==
  /\ pc = "ready" /\ pc' = IF closed THEN "closed" ELSE "ready"
  /\ disk' = [disk EXCEPT ![Db] = Checkpointed(Db)]
  /\ wal' = [wal EXCEPT ![Db] = NoLog]
  /\ UNCHANGED <<markers, job, bounds, history>>

-----------------------------------------------------------------------------
(* What happens to the worker and to the files.                            *)

\* The rows a crash leaves where the next opening does not look: in the log of a
\* main file that has been moved or copied without it, and in a database of
\* which only a part was copied.
ExposedLog ==
  {r \in wal[Db].rows : \/ pc = "move log" /\ r \notin disk[job.source].rows
                        \/ pc = "copy log" /\ r \notin disk[Db].rows}
ExposedTorn ==
  {r \in Content(Db) : /\ pc \in {"copying", "mark"}
                       /\ disk[Source(NewestMarker)].state = "torn"
                       /\ r \notin disk[Source(NewestMarker)].rows}

Crash ==
  /\ pc # "closed" /\ crashes < MaxCrashes
  /\ crashes' = crashes + 1
  /\ pc' = "closed" /\ job' = Idle
  /\ lost' = [lost EXCEPT !.log = @ \cup ExposedLog, !.torn = @ \cup ExposedTorn]
  /\ UNCHANGED <<storage, rots, faults, owed>>

\* Where the next opening finds rows of the database at p besides p.
Backup(p) ==
  IF markers = {} THEN {}
  ELSE LET source == Source(NewestMarker) IN
       IF p = Db THEN (IF source = Db THEN {} ELSE Content(source))
       ELSE Content(source) \cup Content(Db)

Rot(p, part) ==
  /\ pc = "closed" /\ rots < MaxRots
  /\ p \in {Db} \cup ActiveReplacement /\ Exists(p) /\ part \subseteq disk[p].rows
  /\ rots' = rots + 1
  /\ disk' = [disk EXCEPT ![p].rows = part, ![p].state = "corrupt"]
  /\ owed' = owed \ (disk[p].rows \ (part \cup wal[p].rows \cup Backup(p)))
  /\ UNCHANGED <<wal, markers, pc, job, faults, crashes, lost>>

-----------------------------------------------------------------------------
Progress ==
  \/ Open \/ ProbeHealthy \/ ProbeCorrupt
  \/ MoveMain \/ CopyEnds \/ CopyFails \/ DropSource \/ Mark
  \/ \E done \in BOOLEAN : MoveLog(done) \/ CopyLog(done)
  \/ FinishInstalls \/ FinishRebuilds \/ FinishHealthy \/ FinishCorrupt
  \/ Rebuild \/ SalvageEnds \/ \E r \in Rows : SalvageRow(r)
  \/ Checkpoint \/ RemoveOld \/ Install \/ Settle

Use ==
  \/ SkipAdoption \/ Adopt \/ MarkAdopted
  \/ \E r \in Rows : Write(r)
  \/ \E closed \in BOOLEAN : FoldLog(closed)

Trouble ==
  \/ ProbeFails \/ FinishFails \/ SalvageFails \/ Crash
  \/ \E part \in SUBSET Rows : CopyMain(part) \/ \E p \in Paths : Rot(p, part)

Next == Progress \/ Use \/ Trouble
Spec == Init /\ [][Next]_vars

\* Some request for the agent opens its store, and the worker's code runs on.
FairSpec == Spec /\ WF_vars(Progress)

-----------------------------------------------------------------------------
(* Properties.                                                             *)

Labels == {"closed", "probe", "quarantine", "move log", "copying", "copy log", "drop source",
           "mark", "finish", "rebuild", "salvage", "checkpoint", "remove", "install", "settle",
           "adopt", "adopted", "ready"}
Opened == pc \in {"adopt", "adopted", "ready"}

\* One recovery is under way at a time, and none once the database is open
\* (:442, :471).
TypeOK ==
  /\ disk \in [Paths -> File] /\ wal \in [Paths -> Log]
  /\ markers \subseteq Marker /\ \A m, n \in markers : m = n
  /\ pc \in Labels /\ (Opened => markers = {} /\ disk[Db].state = "sound")
  /\ job \in [source: Paths, target: Replacements, resumed: BOOLEAN, retried: BOOLEAN]
  /\ rots \in 0 .. MaxRots /\ faults \in 0 .. MaxFaults /\ crashes \in 0 .. MaxCrashes
  /\ owed \subseteq Rows /\ lost \in [Windows -> SUBSET Rows]

\* Whatever the opening had to do, and wherever it was interrupted before, the
\* database it returns holds every row that was written and stayed readable:
\* the only rows it may lack are those in the four windows of the code
\* (finishConversationBlobRecovery).
NothingElseIsLost == Opened => owed \subseteq Content(Db) \cup UNION {lost[w] : w \in Windows}

\* A database said to hold the legacy blobs holds them all, after any loss of
\* its log and any recovery (adoptLegacyBlobs).
AdoptedIsWhole ==
  pc = "ready" /\ Version(Db) = Adopted => LegacyRows \subseteq Content(Db)

\* What is good is not overwritten: a quarantined database, which is evidence, by
\* no later recovery and no second attempt at the same one; a sound database, as
\* long as the storage reports no other error, by no recovery that was interrupted
\* after its end and is resumed (recoverConversationBlobDb, :322).
GoodFilesAreKept ==
  [][/\ \A q \in Quarantines :
          disk[q].state \in {"sound", "corrupt"} => disk'[q] = disk[q]
     /\ disk[Db].state = "sound" /\ faults = 0 /\ rots' = rots =>
          disk'[Db].state = "sound" /\ disk[Db].rows \subseteq disk'[Db].rows]_vars

\* A recovery that has begun ends, whatever is interrupted (findPendingRecovery).
RecoveryEnds == markers # {} ~> markers = {}
=============================================================================
