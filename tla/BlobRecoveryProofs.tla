------------------------ MODULE BlobRecoveryProofs ------------------------
(***************************************************************************)
(* Proofs about BlobRecovery: for any blobs and any number of crashes,     *)
(* errors and corruptions, the database that is opened lacks no owed row   *)
(* but those given up in the four windows.                                 *)
(***************************************************************************)
EXTENDS BlobRecovery, TLAPS

Quarantining == {"quarantine", "move log", "copying", "copy log", "drop source"}
Rebuilding == {"rebuild", "salvage", "checkpoint", "remove", "install"}
Recovering == Quarantining \cup {"mark", "finish"} \cup Rebuilding \cup {"settle"}

\* The marker there is, and where it says the rows are.
Here == Source(NewestMarker)

\* What the worker's place in the code says of the marker and of its paths.
PathsOK ==
  /\ pc = "probe" => markers = {} /\ \A s \in Stamps : ~Exists(<<"replacement", s>>)
  /\ pc \in Recovering => markers # {}
  /\ pc \in Quarantining => job.source = Here
  /\ pc \in Quarantining \cup {"mark"} => Here # Db
  /\ pc = "mark" => job.source \in {Db, Here}
  /\ pc = "finish" => job.source = Here
  /\ pc \in Rebuilding => job.source = Here \/ (Here = Db /\ job.source = Replacement(Db))
  /\ pc \in Recovering \ {"settle"} => job.target = Replacement(job.source)

\* No owed row is anywhere but in rows or given up; and the same once what a crash
\* at this point gives up is counted.
Lost == UNION {lost[w] : w \in Windows}
Held(rows) == owed \subseteq rows \cup Lost
Kept(rows) == owed \subseteq rows \cup Lost \cup ExposedLog \cup ExposedTorn

\* What the next opening finds if the worker dies now.
Recoverable ==
  /\ markers = {} => Kept(Content(Db))
  /\ markers # {} =>
       /\ Here # Db /\ Exists(Here) => Kept(Content(Here))
       /\ Exists(Db) /\ (disk[Db].state = "sound" \/ Here = Db \/ ~Exists(Here))
            => Kept(Content(Db))
       /\ ~Exists(Db) /\ (Here = Db \/ Complete(Replacement(Here)))
            => Kept(Content(Replacement(Here)))
       /\ IF Here # Db
          THEN IF Exists(Db) THEN ~Exists(Replacement(Here)) ELSE Exists(Here)
          ELSE Exists(Db) \/ (Exists(Replacement(Db)) /\ wal[Replacement(Db)] = NoLog)

\* What is in the files, by the worker's place in the code.
FilesOK ==
  /\ disk[Db].state # "torn"
  /\ \A p \in Replacements : wal[p] = NoLog \/ disk[p].version = Unstarted
  /\ pc \in Quarantining \cup {"mark"} /\ job.resumed /\ Exists(Db) => disk[Db].state = "corrupt"
  /\ pc \in Quarantining \cup {"mark"} => ~Exists(Replacement(Here))
  /\ pc = "quarantine" => Exists(Db) /\ ~Exists(Here)
  /\ pc = "move log" =>
       /\ ~Exists(Db) /\ Exists(Here) /\ wal[Here] = NoLog
       /\ Held(disk[Here].rows \cup wal[Db].rows)
  /\ pc = "copying" =>
       Exists(Db) /\ disk[Here].state = "torn" /\ wal[Here] = NoLog /\ Held(Content(Db))
  /\ pc = "copy log" =>
       Exists(Db) /\ disk[Here] = disk[Db] /\ wal[Here] = NoLog /\ Held(Content(Db))
  /\ pc = "drop source" => Exists(Db) /\ Exists(Here)
  /\ pc = "mark" => IF job.source = Db THEN Exists(Db) /\ Held(Content(Db)) ELSE ~Exists(Db)
  /\ pc \in Rebuilding =>
       /\ ~Exists(Db) \/ (pc # "install" /\ disk[Db].state = "corrupt" /\ job.source = Db)
       /\ job.source = Replacement(Db) => ~Complete(job.source)
  /\ pc \in {"rebuild", "salvage"} => Held(Content(job.source)) /\ Exists(job.source)
  /\ pc = "salvage" => disk[job.target] = EmptyFile /\ wal[job.target].version = Unstarted
  /\ pc \in {"checkpoint", "remove", "install"} =>
       disk[job.target].state = "sound" /\ Held(Content(job.target))
  /\ pc \in {"remove", "install"} => wal[job.target] = NoLog
  /\ pc = "settle" => disk[Db].state = "sound"

RecoveryInv == TypeOK /\ PathsOK /\ Recoverable /\ FilesOK

-----------------------------------------------------------------------------
(* Paths and markers.                                                      *)

LEMMA PathFacts ==
  /\ Db \in Paths /\ Db \notin Quarantines /\ Db \notin Replacements
  /\ Quarantines \subseteq Paths /\ Replacements \subseteq Paths
  /\ Quarantines \cap Replacements = {}
  /\ \A p \in Paths : Replacement(p) \in Replacements
  /\ Replacement(Replacement(Db)) # Replacement(Db)
  /\ \A m \in Marker : Source(m) \in {Db} \cup Quarantines
  BY BoundsAssumption DEF Paths, Db, Quarantines, Replacements, Replacement, Source, Marker, Stamps

\* With at most one marker, the newest is the one there is.
LEMMA MarkerFacts ==
  ASSUME TypeOK, markers # {}
  PROVE  /\ markers = {NewestMarker} /\ NewestMarker \in Marker
         /\ Here \in {Db} \cup Quarantines /\ Replacement(Here) \in Replacements
  <1>1. PICK m \in markers : markers = {m}
    BY DEF TypeOK
  <1>2. m \in Marker /\ m.stamp \in Int
    BY BoundsAssumption DEF TypeOK, Marker
  <1>3. NewestMarker = m
    BY <1>1, <1>2 DEF NewestMarker
  <1> QED BY <1>1, <1>2, <1>3, PathFacts DEF Here

LEMMA HereUnchanged ==
  ASSUME markers' = markers
  PROVE  Here' = Here
  BY DEF Here, NewestMarker

\* The files, logs and rows given up that the type invariant allows.
LEMMA Typed ==
  ASSUME TypeOK
  PROVE  /\ disk \in [Paths -> File] /\ wal \in [Paths -> Log]
         /\ NoFile \in File /\ EmptyFile \in File /\ NoLog \in Log
         /\ \A p \in Paths : Content(p) \subseteq Rows
         /\ owed \subseteq Rows /\ lost \in [Windows -> SUBSET Rows]
  BY DEF TypeOK, File, EmptyFile, NoFile, Log, NoLog, Unstarted, Content

\* Only in the middle of a quarantine does a crash give anything up.
LEMMA NothingExposed ==
  /\ pc \notin {"move log", "copying", "copy log", "mark"} => ExposedLog = {} /\ ExposedTorn = {}
  /\ pc' \notin {"move log", "copying", "copy log", "mark"} => ExposedLog' = {} /\ ExposedTorn' = {}
  BY DEF ExposedLog, ExposedTorn

LEMMA LoseFacts ==
  ASSUME NEW window \in Windows, NEW rows, TypeOK, Lose(window, rows)
  PROVE  Lost' = Lost \cup rows
  BY DEF Lose, Lost, TypeOK

\* Where a recovery that quarantines the database finds its files.
LEMMA QuarantineFacts ==
  ASSUME RecoveryInv, pc \in Quarantining \cup {"mark"}
  PROVE  /\ markers = {NewestMarker} /\ NewestMarker \in Marker
         /\ Db \in Paths /\ Here \in Quarantines /\ Here \in Paths /\ Here # Db
         /\ Replacement(Here) \in Replacements /\ Replacement(Here) \notin {Db, Here}
         /\ ~Exists(Replacement(Here))
         /\ pc # "mark" => job.source = Here
         /\ job.source \in {Db, Here} /\ job.target = Replacement(job.source)
  BY MarkerFacts, PathFacts DEF RecoveryInv, PathsOK, FilesOK, Recovering, Quarantining

LEMMA HistoryUnchanged ==
  ASSUME UNCHANGED history
  PROVE  owed' = owed /\ Lost' = Lost
  BY DEF history, Lost

-----------------------------------------------------------------------------
LEMMA InitInv == Init => RecoveryInv
  <1> SUFFICES ASSUME Init PROVE RecoveryInv
    OBVIOUS
  <1>1. TypeOK
    BY BoundsAssumption, PathFacts DEF Init, TypeOK, File, NoFile, Log, NoLog, Marker, Labels, Opened, Idle,
       Unstarted
  <1>2. PathsOK
    BY DEF Init, PathsOK, Recovering, Quarantining, Rebuilding
  <1>3. Recoverable
    BY DEF Init, Recoverable, Kept
  <1>4. FilesOK
    <2>1. \A p \in Replacements : wal[p] = NoLog
      BY PathFacts DEF Init
    <2>2. disk[Db].state = "none" /\ pc = "closed"
      BY PathFacts DEF Init, NoFile
    <2> QED BY <2>1, <2>2 DEF FilesOK, Rebuilding, Quarantining
  <1> QED BY <1>1, <1>2, <1>3, <1>4 DEF RecoveryInv

-----------------------------------------------------------------------------
(* Opening.                                                                *)

LEMMA OpenInv == ASSUME RecoveryInv, Open PROVE RecoveryInv'
  <1> USE DEF RecoveryInv
  <1> DEFINE gone == Replacements \ (ActiveReplacement \cup {<<"second", 0>>})
  <1>0. disk \in [Paths -> File] /\ wal \in [Paths -> Log] /\ NoFile \in File /\ NoLog \in Log
    BY Typed
  <1>a. /\ disk' = [p \in Paths |-> IF p \in gone THEN NoFile ELSE disk[p]]
        /\ wal' = [p \in Paths |-> IF p \in gone THEN NoLog ELSE wal[p]]
        /\ pc = "closed" /\ UNCHANGED <<bounds, history>>
    BY DEF Open, Remove
  <1>b. markers' = markers /\ Here' = Here
    BY MarkerFacts, HereUnchanged DEF Open
  <1>c. IF markers = {} THEN pc' = "probe" /\ job' = Idle
        ELSE /\ pc' = "finish"
             /\ job' = [Idle EXCEPT !.source = Here, !.target = Replacement(Here), !.resumed = TRUE]
    BY DEF Open, Here
  <1>d. owed' = owed /\ Lost' = Lost
    BY <1>a, HistoryUnchanged
  <1>e. /\ disk'[Db] = disk[Db] /\ wal'[Db] = wal[Db]
        /\ markers # {} => /\ disk'[Here] = disk[Here] /\ wal'[Here] = wal[Here]
                           /\ disk'[Replacement(Here)] = disk[Replacement(Here)]
                           /\ wal'[Replacement(Here)] = wal[Replacement(Here)]
    BY <1>a, PathFacts, MarkerFacts DEF ActiveReplacement, Here
  <1>f. markers = {} => \A s \in Stamps : disk'[<<"replacement", s>>] = NoFile
    BY <1>a, PathFacts DEF ActiveReplacement, Replacements, Stamps
  <1>1. TypeOK'
    <2>1. disk' \in [Paths -> File] /\ wal' \in [Paths -> Log]
      BY <1>0, <1>a
    <2>2. job' \in [source: Paths, target: Replacements, resumed: BOOLEAN, retried: BOOLEAN]
      <3>1. Db \in Paths /\ Replacement(Db) \in Replacements
        BY PathFacts
      <3>2. markers # {} => Here \in Paths /\ Replacement(Here) \in Replacements
        BY MarkerFacts, PathFacts
      <3>3. CASE markers = {}
        <4>1. job' = [source |-> Db, target |-> Replacement(Db), resumed |-> FALSE, retried |-> FALSE]
          BY <1>c, <3>3 DEF Idle
        <4> QED BY <4>1, <3>1
      <3>4. CASE markers # {}
        <4>1. job' = [source |-> Here, target |-> Replacement(Here), resumed |-> TRUE, retried |-> FALSE]
          BY <1>c, <3>4 DEF Idle
        <4> QED BY <4>1, <3>2, <3>4
      <3> QED BY <3>3, <3>4
    <2> QED BY <2>1, <2>2, <1>a, <1>b, <1>c DEF TypeOK, Labels, Opened, bounds, history
  <1>2. PathsOK'
    <2>1. CASE markers = {}
      <3>1. pc' = "probe" /\ markers' = {}
        BY <2>1, <1>b, <1>c
      <3>2. \A s \in Stamps : ~Exists(<<"replacement", s>>)'
        <4> SUFFICES ASSUME NEW s \in Stamps PROVE ~Exists(<<"replacement", s>>)'
          OBVIOUS
        <4>1. disk'[<<"replacement", s>>] = NoFile
          BY <2>1, <1>f
        <4> QED BY <4>1 DEF Exists, NoFile
      <3> QED BY <3>1, <3>2 DEF PathsOK, Recovering, Quarantining, Rebuilding
    <2>2. CASE markers # {}
      <3>1. pc' = "finish" /\ job'.source = Here /\ job'.target = Replacement(Here)
        BY <1>c, <2>2 DEF Idle
      <3>2. Replacement(job.source)' = job'.target
        BY <3>1 DEF Replacement
      <3> QED BY <2>2, <1>b, <3>1, <3>2 DEF PathsOK, Recovering, Quarantining, Rebuilding
    <2> QED BY <2>1, <2>2
  <1>3. Recoverable'
    BY <1>a, <1>b, <1>c, <1>d, <1>e, NothingExposed, MarkerFacts
       DEF Recoverable, Kept, Content, Exists, Complete, Version
  <1>4. FilesOK'
    <2>1. \A p \in Replacements : wal'[p] = NoLog \/ disk'[p].version = Unstarted
      BY <1>a, PathFacts DEF FilesOK
    <2>2. disk'[Db].state # "torn"
      BY <1>e DEF FilesOK
    <2> QED BY <1>c, <2>1, <2>2 DEF FilesOK, Rebuilding, Quarantining
  <1> QED BY <1>1, <1>2, <1>3, <1>4

LEMMA ProbeHealthyInv == ASSUME RecoveryInv, ProbeHealthy PROVE RecoveryInv'
  <1> USE DEF RecoveryInv
  <1>0. disk \in [Paths -> File] /\ wal \in [Paths -> Log] /\ EmptyFile \in File /\ NoLog \in Log
    BY Typed
  <1>a. /\ pc = "probe" /\ pc' = "adopt" /\ markers = {} /\ markers' = markers
        /\ job' = job /\ UNCHANGED <<bounds, history>>
    BY DEF ProbeHealthy, PathsOK
  <1>b. /\ disk' \in [Paths -> File] /\ wal' \in [Paths -> Log]
        /\ disk'[Db].state = "sound"
        /\ \A p \in Paths \ {Db} : disk'[p] = disk[p] /\ wal'[p] = wal[p]
        /\ Exists(Db) => disk' = disk /\ wal' = wal
    <2>1. CASE Exists(Db)
      BY <2>1, <1>0 DEF ProbeHealthy, Exists
    <2>2. CASE ~Exists(Db)
      <3>1. disk' = [disk EXCEPT ![Db] = EmptyFile] /\ wal' = [wal EXCEPT ![Db] = NoLog]
        BY <2>2 DEF ProbeHealthy
      <3>2. Db \in Paths /\ EmptyFile.state = "sound"
        BY PathFacts DEF EmptyFile, NoFile
      <3> QED BY <2>2, <3>1, <3>2, <1>0
    <2> QED BY <2>1, <2>2
  <1>c. owed' = owed /\ Lost' = Lost
    BY <1>a, HistoryUnchanged
  <1>1. TypeOK'
    BY <1>a, <1>b DEF TypeOK, Labels, Opened, bounds, history
  <1>2. PathsOK'
    BY <1>a DEF PathsOK, Recovering, Quarantining, Rebuilding
  <1>3. Recoverable'
    BY <1>a, <1>b, <1>c, NothingExposed DEF Recoverable, Kept, Content, Exists
  <1>4. FilesOK'
    <2>1. \A p \in Replacements : wal'[p] = NoLog \/ disk'[p].version = Unstarted
      BY <1>b, PathFacts DEF FilesOK
    <2> QED BY <1>a, <1>b, <2>1 DEF FilesOK, Rebuilding, Quarantining
  <1> QED BY <1>1, <1>2, <1>3, <1>4

\* A recovery begins: the rows are still in the database.
LEMMA RecoverInv ==
  ASSUME RecoveryInv, Recover, pc = "probe", Exists(Db), disk' = disk,
         wal' \in [Paths -> Log], \A p \in Paths \ {Db} : wal'[p] = wal[p],
         rots' \in 0 .. MaxRots, faults' \in 0 .. MaxFaults, crashes' \in 0 .. MaxCrashes,
         owed' = owed, lost' \in [Windows -> SUBSET Rows],
         owed' \subseteq (disk[Db].rows \cup wal[Db].rows)' \cup Lost'
  PROVE  RecoveryInv'
  <1> USE DEF RecoveryInv
  <1>a. PICK s \in Stamps :
          /\ ~Exists(<<"quarantine", s>>)
          /\ markers' = markers \cup {[stamp |-> s, kind |-> "intent"]}
          /\ job' = [Idle EXCEPT !.source = <<"quarantine", s>>, !.target = <<"replacement", s>>]
          /\ pc' = "quarantine"
    BY DEF Recover, FreshStamp
  <1> DEFINE m == [stamp |-> s, kind |-> "intent"]
  <1>b. markers' = {m} /\ m \in Marker /\ s \in Int /\ s # 0
    BY <1>a, BoundsAssumption DEF PathsOK, Marker, Stamps
  <1>c. Here' = <<"quarantine", s>>
    BY <1>b DEF Here, NewestMarker, Source
  <1>d. Here' \in Quarantines /\ Here' # Db /\ Here' \in Paths
        /\ Replacement(Here)' = <<"replacement", s>> /\ Replacement(Here)' \in Replacements
    BY <1>c, PathFacts DEF Quarantines, Replacement
  <1>e. ~Exists(Here)' /\ ~Exists(Replacement(Here))' /\ Exists(Db)'
    BY <1>a, <1>c, <1>d DEF PathsOK, Exists
  <1>1. TypeOK'
    <2>1. job' \in [source: Paths, target: Replacements, resumed: BOOLEAN, retried: BOOLEAN]
      BY <1>a, <1>c, <1>d DEF Idle, Replacement
    <2> QED BY <1>a, <1>b, <2>1 DEF TypeOK, Labels, Opened
  <1>2. PathsOK'
    BY <1>a, <1>b, <1>c, <1>d DEF PathsOK, Recovering, Quarantining, Rebuilding, Idle
  <1>3. Recoverable'
    BY <1>b, <1>d, <1>e DEF Recoverable, Kept, Content
  <1>4. FilesOK'
    <2>1. \A p \in Replacements : wal'[p] = NoLog \/ disk'[p].version = Unstarted
      BY PathFacts DEF FilesOK
    <2>2. disk'[Db].state # "torn" /\ ~job'.resumed
      BY <1>a DEF FilesOK, Idle
    <2> QED BY <1>a, <1>e, <2>1, <2>2 DEF FilesOK, Rebuilding, Quarantining
  <1> QED BY <1>1, <1>2, <1>3, <1>4

LEMMA ProbeCorruptInv == ASSUME RecoveryInv, ProbeCorrupt PROVE RecoveryInv'
  <1> USE DEF RecoveryInv
  <1>a. /\ Recover /\ pc = "probe" /\ Exists(Db) /\ disk' = disk /\ wal' = wal
        /\ markers = {} /\ UNCHANGED <<bounds, history>>
    BY DEF ProbeCorrupt, Exists, PathsOK
  <1>b. owed' = owed /\ Lost' = Lost
    BY <1>a, HistoryUnchanged
  <1>c. owed' \subseteq (disk[Db].rows \cup wal[Db].rows)' \cup Lost'
    BY <1>a, <1>b, NothingExposed DEF Recoverable, Kept, Content
  <1>d. /\ rots' \in 0 .. MaxRots /\ faults' \in 0 .. MaxFaults /\ crashes' \in 0 .. MaxCrashes
        /\ wal' \in [Paths -> Log] /\ lost' \in [Windows -> SUBSET Rows]
    BY <1>a DEF TypeOK, bounds, history
  <1> QED BY <1>a, <1>b, <1>c, <1>d, RecoverInv

LEMMA ProbeFailsInv == ASSUME RecoveryInv, ProbeFails PROVE RecoveryInv'
  <1> USE DEF RecoveryInv
  <1>0. disk \in [Paths -> File] /\ wal \in [Paths -> Log] /\ NoLog \in Log /\ "sidecar" \in Windows
    BY Typed DEF Windows
  <1>a. /\ pc = "probe" /\ Exists(Db) /\ disk' = disk /\ markers = {}
        /\ faults < MaxFaults /\ faults' = faults + 1 /\ wal' = [wal EXCEPT ![Db] = NoLog]
        /\ Lose("sidecar", OnlyInLog(Db)) /\ UNCHANGED <<rots, crashes, owed>>
    BY DEF ProbeFails, DropSidecars, PathsOK
  <1>b. Lost' = Lost \cup OnlyInLog(Db)
    BY <1>0, <1>a, LoseFacts
  <1>c. wal' \in [Paths -> Log] /\ (\A p \in Paths \ {Db} : wal'[p] = wal[p]) /\ wal'[Db] = NoLog
    BY <1>0, <1>a, PathFacts
  <1>d. owed' \subseteq (disk[Db].rows \cup wal[Db].rows)' \cup Lost'
    BY <1>a, <1>b, NothingExposed DEF Recoverable, Kept, Content, OnlyInLog
  <1>e. lost' \in [Windows -> SUBSET Rows]
    BY <1>0, <1>a, Typed, PathFacts DEF Lose, OnlyInLog, Log
  <1>f. rots' \in 0 .. MaxRots /\ faults' \in 0 .. MaxFaults /\ crashes' \in 0 .. MaxCrashes
    BY <1>a, BoundsAssumption DEF TypeOK
  <1>1. CASE job.retried
    <2>1. Recover
      BY <1>1 DEF ProbeFails
    <2> QED BY <2>1, <1>a, <1>c, <1>d, <1>e, <1>f, RecoverInv
  <1>2. CASE ~job.retried
    <2>a. job' = [job EXCEPT !.retried = TRUE] /\ markers' = markers /\ pc' = pc
      BY <1>2 DEF ProbeFails
    <2>1. TypeOK'
      BY <1>a, <1>c, <1>e, <1>f, <2>a DEF TypeOK, Labels, Opened
    <2>2. PathsOK'
      BY <1>a, <2>a DEF PathsOK, Recovering, Quarantining, Rebuilding, Exists
    <2>3. Recoverable'
      BY <1>a, <1>d, <2>a DEF Recoverable, Kept, Content, Exists
    <2>4. FilesOK'
      <3>1. \A p \in Replacements : wal'[p] = NoLog \/ disk'[p].version = Unstarted
        BY <1>a, <1>c, PathFacts DEF FilesOK
      <3> QED BY <1>a, <2>a, <3>1 DEF FilesOK, Rebuilding, Quarantining
    <2> QED BY <2>1, <2>2, <2>3, <2>4
  <1> QED BY <1>1, <1>2

-----------------------------------------------------------------------------
(* quarantineCorruptSqliteDb.                                               *)

LEMMA MoveMainInv == ASSUME RecoveryInv, MoveMain PROVE RecoveryInv'
  <1> USE DEF RecoveryInv
  <1>a. /\ pc = "quarantine" /\ pc' = "move log" /\ job' = job /\ markers' = markers /\ Here' = Here
        /\ UNCHANGED <<bounds, history>> /\ owed' = owed /\ Lost' = Lost
    BY HereUnchanged, HistoryUnchanged DEF MoveMain
  <1>q. /\ Db \in Paths /\ Here \in Quarantines /\ Here \in Paths /\ Here # Db /\ job.source = Here
        /\ Replacement(Here) \in Replacements /\ Replacement(Here) \notin {Db, Here}
        /\ ~Exists(Replacement(Here)) /\ job.target = Replacement(Here) /\ markers # {}
    BY <1>a, QuarantineFacts DEF Quarantining
  <1>t. disk \in [Paths -> File] /\ wal \in [Paths -> Log] /\ NoFile \in File /\ NoLog \in Log
    BY Typed
  <1>b. /\ Exists(Db) /\ ~Exists(Here) /\ disk[Db].state # "torn"
        /\ owed \subseteq disk[Db].rows \cup wal[Db].rows \cup Lost
    BY <1>a, <1>q, NothingExposed DEF FilesOK, Recoverable, Kept, Content
  <1>c. /\ disk' \in [Paths -> File] /\ wal' \in [Paths -> Log]
        /\ disk'[Db] = NoFile /\ disk'[Here] = disk[Db] /\ wal'[Db] = wal[Db] /\ wal'[Here] = NoLog
        /\ \A p \in Paths \ {Db, Here} : disk'[p] = disk[p] /\ wal'[p] = wal[p]
    BY <1>q, <1>t DEF MoveMain
  <1>d. Replacement(Here)' = Replacement(Here) /\ Replacement(job.source)' = Replacement(job.source)
    BY <1>a DEF Replacement
  <1>e. ~Exists(Db)' /\ Exists(Here)' /\ ~Exists(Replacement(Here))'
    <2>1. ~Exists(Db)'
      BY <1>c DEF Exists, NoFile
    <2>2. Exists(Here)'
      BY <1>a, <1>b, <1>c DEF Exists
    <2>3. disk'[Replacement(Here)] = disk[Replacement(Here)]
      BY <1>c, <1>q, PathFacts
    <2> QED BY <2>1, <2>2, <2>3, <1>d, <1>q DEF Exists
  <1>1. TypeOK'
    BY <1>a, <1>c DEF TypeOK, Labels, Opened, bounds, history
  <1>2. PathsOK'
    BY <1>a, <1>d, <1>q DEF PathsOK, Recovering, Quarantining, Rebuilding
  <1>3. Recoverable'
    <2>1. ExposedLog' = {r \in wal[Db].rows : r \notin disk[Db].rows}
      BY <1>a, <1>c, <1>q DEF ExposedLog
    <2>2. disk[Db].rows \subseteq Content(Here)'
      BY <1>a, <1>c, <1>e DEF Content, NoLog, Exists
    <2>3. Kept(Content(Here))'
      BY <1>a, <1>b, <2>1, <2>2 DEF Kept
    <2> QED BY <1>a, <1>d, <1>e, <1>q, <2>3 DEF Recoverable, Complete, Exists
  <1>4. FilesOK'
    <2>0. disk'[Db].state # "torn"
      BY <1>c DEF NoFile
    <2>1. \A p \in Replacements : wal'[p] = NoLog \/ disk'[p].version = Unstarted
      BY <1>c, <1>q, PathFacts DEF FilesOK
    <2>2. Held(disk[Here].rows \cup wal[Db].rows)'
      BY <1>a, <1>b, <1>c DEF Held
    <2> QED BY <1>a, <1>c, <1>e, <2>0, <2>1, <2>2 DEF FilesOK, Rebuilding, Quarantining
  <1> QED BY <1>1, <1>2, <1>3, <1>4

LEMMA MoveLogInv == ASSUME RecoveryInv, NEW moved \in BOOLEAN, MoveLog(moved) PROVE RecoveryInv'
  <1> USE DEF RecoveryInv
  <1>a. /\ pc = "move log" /\ pc' = "mark" /\ job' = job /\ markers' = markers /\ Here' = Here
        /\ disk' = disk /\ UNCHANGED bounds /\ owed' = owed
    BY HereUnchanged DEF MoveLog
  <1>q. /\ Db \in Paths /\ Here \in Quarantines /\ Here \in Paths /\ Here # Db /\ job.source = Here
        /\ Replacement(Here) \in Replacements /\ Replacement(Here) \notin {Db, Here}
        /\ ~Exists(Replacement(Here)) /\ job.target = Replacement(Here) /\ markers # {}
    BY <1>a, QuarantineFacts DEF Quarantining
  <1>t. disk \in [Paths -> File] /\ wal \in [Paths -> Log] /\ NoLog \in Log
        /\ lost \in [Windows -> SUBSET Rows] /\ "log" \in Windows
    BY Typed DEF Windows
  <1> DEFINE given == IF moved THEN {} ELSE wal[Db].rows \ disk[Here].rows
  <1>b. ~Exists(Db) /\ Exists(Here) /\ owed \subseteq disk[Here].rows \cup wal[Db].rows \cup Lost
    BY <1>a DEF FilesOK, Held
  <1>c. /\ wal' \in [Paths -> Log] /\ wal'[Db] = NoLog
        /\ wal'[Here] = IF moved THEN wal[Db] ELSE NoLog
        /\ \A p \in Paths \ {Db, Here} : wal'[p] = wal[p]
    BY <1>q, <1>t DEF MoveLog
  <1>l. Lost' = Lost \cup given /\ lost' \in [Windows -> SUBSET Rows]
    <2>1. Lose("log", given)
      BY <1>q DEF MoveLog
    <2>2. given \subseteq Rows
      BY <1>q, <1>t DEF Log
    <2> QED BY <1>t, <2>1, <2>2, LoseFacts DEF Lose
  <1>d. Replacement(Here)' = Replacement(Here) /\ Replacement(job.source)' = Replacement(job.source)
    BY <1>a DEF Replacement
  <1>e. ~Exists(Db)' /\ Exists(Here)' /\ ~Exists(Replacement(Here))'
    BY <1>a, <1>b, <1>d, <1>q DEF Exists
  <1>1. TypeOK'
    BY <1>a, <1>c, <1>l DEF TypeOK, Labels, Opened, bounds
  <1>2. PathsOK'
    BY <1>a, <1>d, <1>q DEF PathsOK, Recovering, Quarantining, Rebuilding
  <1>3. Recoverable'
    <2>1. Content(Here)' = disk[Here].rows \cup wal'[Here].rows
      BY <1>a, <1>e DEF Content
    <2>2. Kept(Content(Here))'
      BY <1>a, <1>b, <1>c, <1>l, <2>1 DEF Kept
    <2> QED BY <1>a, <1>d, <1>e, <1>q, <2>2 DEF Recoverable, Complete, Exists
  <1>4. FilesOK'
    <2>1. disk'[Db].state # "torn" /\ \A p \in Replacements : wal'[p] = NoLog \/ disk'[p].version = Unstarted
      BY <1>a, <1>c, <1>q, PathFacts DEF FilesOK
    <2> QED BY <1>a, <1>e, <1>q, <2>1 DEF FilesOK, Rebuilding, Quarantining
  <1> QED BY <1>1, <1>2, <1>3, <1>4

LEMMA CopyMainInv == ASSUME RecoveryInv, NEW part \in SUBSET Rows, CopyMain(part) PROVE RecoveryInv'
  <1> USE DEF RecoveryInv
  <1> DEFINE torn == [NoFile EXCEPT !.rows = part, !.state = "torn"]
  <1>a. /\ pc = "quarantine" /\ pc' = "copying" /\ job' = job /\ markers' = markers /\ Here' = Here
        /\ UNCHANGED <<bounds, history>> /\ owed' = owed /\ Lost' = Lost
    BY HereUnchanged, HistoryUnchanged DEF CopyMain
  <1>q. /\ Db \in Paths /\ Here \in Quarantines /\ Here \in Paths /\ Here # Db /\ job.source = Here
        /\ Replacement(Here) \in Replacements /\ Replacement(Here) \notin {Db, Here}
        /\ ~Exists(Replacement(Here)) /\ job.target = Replacement(Here) /\ markers # {}
        /\ Source(NewestMarker) = Here
    BY <1>a, QuarantineFacts DEF Quarantining, Here
  <1>t. disk \in [Paths -> File] /\ wal \in [Paths -> Log] /\ NoLog \in Log /\ torn \in File
    BY Typed DEF File, NoFile, Unstarted
  <1>b. /\ Exists(Db) /\ ~Exists(Here) /\ disk[Db].state # "torn" /\ owed \subseteq Content(Db) \cup Lost
    BY <1>a, <1>q, NothingExposed DEF FilesOK, Recoverable, Kept
  <1>c. /\ disk' \in [Paths -> File] /\ wal' \in [Paths -> Log]
        /\ disk'[Here] = torn /\ wal'[Here] = NoLog
        /\ \A p \in Paths \ {Here} : disk'[p] = disk[p] /\ wal'[p] = wal[p]
    BY <1>q, <1>t DEF CopyMain
  <1>d. /\ Replacement(Here)' = Replacement(Here) /\ Replacement(job.source)' = Replacement(job.source)
        /\ Source(NewestMarker)' = Here
    BY <1>a, <1>q DEF Replacement, Here
  <1>e. /\ Exists(Db)' /\ Content(Db)' = Content(Db) /\ disk'[Db] = disk[Db]
        /\ disk'[Here].state = "torn" /\ ~Exists(Replacement(Here))'
    BY <1>b, <1>c, <1>d, <1>q, PathFacts DEF Exists, Content, NoFile
  <1>1. TypeOK'
    BY <1>a, <1>c DEF TypeOK, Labels, Opened, bounds, history
  <1>2. PathsOK'
    BY <1>a, <1>d, <1>q DEF PathsOK, Recovering, Quarantining, Rebuilding
  <1>3. Recoverable'
    <2>1. ExposedTorn' = {r \in Content(Db) : r \notin disk'[Here].rows}
      BY <1>a, <1>d, <1>e DEF ExposedTorn
    <2>2. Content(Here)' = disk'[Here].rows
      BY <1>a, <1>c, <1>e DEF Content, NoLog, Exists
    <2>3. Kept(Content(Here))' /\ Kept(Content(Db))'
      BY <1>a, <1>b, <1>e, <2>1, <2>2 DEF Kept
    <2> QED BY <1>a, <1>d, <1>e, <1>q, <2>3 DEF Recoverable
  <1>4. FilesOK'
    <2>1. disk'[Db].state # "torn" /\ \A p \in Replacements : wal'[p] = NoLog \/ disk'[p].version = Unstarted
      BY <1>c, <1>q, PathFacts DEF FilesOK
    <2>2. job'.resumed => disk'[Db].state = "corrupt"
      BY <1>a, <1>b, <1>e DEF FilesOK, Quarantining
    <2>3. Held(Content(Db))'
      BY <1>a, <1>b, <1>e DEF Held
    <2> QED BY <1>a, <1>c, <1>e, <2>1, <2>2, <2>3 DEF FilesOK, Rebuilding, Quarantining
  <1> QED BY <1>1, <1>2, <1>3, <1>4

LEMMA CopyEndsInv == ASSUME RecoveryInv, CopyEnds PROVE RecoveryInv'
  <1> USE DEF RecoveryInv
  <1>a. /\ pc = "copying" /\ pc' = "copy log" /\ job' = job /\ markers' = markers /\ Here' = Here
        /\ wal' = wal /\ UNCHANGED <<bounds, history>> /\ owed' = owed /\ Lost' = Lost
    BY HereUnchanged, HistoryUnchanged DEF CopyEnds
  <1>q. /\ Db \in Paths /\ Here \in Quarantines /\ Here \in Paths /\ Here # Db /\ job.source = Here
        /\ Replacement(Here) \in Replacements /\ Replacement(Here) \notin {Db, Here}
        /\ ~Exists(Replacement(Here)) /\ job.target = Replacement(Here) /\ markers # {}
    BY <1>a, QuarantineFacts DEF Quarantining
  <1>t. disk \in [Paths -> File] /\ wal \in [Paths -> Log]
    BY Typed
  <1>b. /\ Exists(Db) /\ wal[Here] = NoLog /\ disk[Db].state # "torn" /\ owed \subseteq Content(Db) \cup Lost
    BY <1>a, <1>q DEF FilesOK, Held
  <1>c. /\ disk' \in [Paths -> File] /\ disk'[Here] = disk[Db]
        /\ \A p \in Paths \ {Here} : disk'[p] = disk[p]
    BY <1>q, <1>t DEF CopyEnds
  <1>d. Replacement(Here)' = Replacement(Here) /\ Replacement(job.source)' = Replacement(job.source)
    BY <1>a DEF Replacement
  <1>e. /\ Exists(Db)' /\ Content(Db)' = Content(Db) /\ disk'[Db] = disk[Db]
        /\ Exists(Here)' /\ ~Exists(Replacement(Here))'
    BY <1>a, <1>b, <1>c, <1>d, <1>q, PathFacts DEF Exists, Content
  <1>1. TypeOK'
    BY <1>a, <1>c, <1>t DEF TypeOK, Labels, Opened, bounds, history
  <1>2. PathsOK'
    BY <1>a, <1>d, <1>q DEF PathsOK, Recovering, Quarantining, Rebuilding
  <1>3. Recoverable'
    <2>1. ExposedLog' = {r \in wal[Db].rows : r \notin disk[Db].rows}
      BY <1>a, <1>e DEF ExposedLog
    <2>2. disk[Db].rows \subseteq Content(Here)'
      BY <1>a, <1>b, <1>c, <1>e DEF Content, NoLog, Exists
    <2>3. Kept(Content(Here))' /\ Kept(Content(Db))'
      BY <1>a, <1>b, <1>e, <2>1, <2>2 DEF Kept, Content
    <2> QED BY <1>a, <1>d, <1>e, <1>q, <2>3 DEF Recoverable
  <1>4. FilesOK'
    <2>1. disk'[Db].state # "torn" /\ \A p \in Replacements : wal'[p] = NoLog \/ disk'[p].version = Unstarted
      BY <1>a, <1>c, <1>q, PathFacts DEF FilesOK
    <2>2. job'.resumed => disk'[Db].state = "corrupt"
      BY <1>a, <1>b, <1>e DEF FilesOK, Quarantining
    <2>3. Held(Content(Db))'
      BY <1>a, <1>b, <1>e DEF Held
    <2> QED BY <1>a, <1>b, <1>c, <1>e, <2>1, <2>2, <2>3 DEF FilesOK, Rebuilding, Quarantining
  <1> QED BY <1>1, <1>2, <1>3, <1>4

LEMMA CopyFailsInv == ASSUME RecoveryInv, CopyFails PROVE RecoveryInv'
  <1> USE DEF RecoveryInv
  <1>a. /\ pc = "copying" /\ pc' = "mark" /\ markers' = markers /\ Here' = Here
        /\ disk' = disk /\ wal' = wal /\ UNCHANGED <<bounds, history>> /\ owed' = owed /\ Lost' = Lost
        /\ job' = [job EXCEPT !.source = Db, !.target = Replacement(Db)]
    BY HereUnchanged, HistoryUnchanged DEF CopyFails, storage
  <1>q. /\ Db \in Paths /\ Here \in Quarantines /\ Here \in Paths /\ Here # Db /\ markers # {}
        /\ ~Exists(Replacement(Here)) /\ Replacement(Db) \in Replacements
    BY <1>a, QuarantineFacts, PathFacts DEF Quarantining
  <1>b. Exists(Db) /\ owed \subseteq Content(Db) \cup Lost
    BY <1>a DEF FilesOK, Held
  <1>j. /\ job' \in [source: Paths, target: Replacements, resumed: BOOLEAN, retried: BOOLEAN]
        /\ job'.source = Db /\ job'.target = Replacement(Db) /\ job'.resumed = job.resumed
    BY <1>a, <1>q DEF TypeOK
  <1>d. Replacement(Here)' = Replacement(Here) /\ Replacement(job.source)' = Replacement(Db)
    BY <1>a, <1>j DEF Replacement
  <1>e. \A p : Exists(p)' = Exists(p) /\ Content(p)' = Content(p) /\ Complete(p)' = Complete(p)
    BY <1>a DEF Exists, Content, Complete, Version
  <1>1. TypeOK'
    BY <1>a, <1>j DEF TypeOK, Labels, Opened, bounds, history
  <1>2. PathsOK'
    BY <1>a, <1>d, <1>j, <1>q DEF PathsOK, Recovering, Quarantining, Rebuilding
  <1>3. Recoverable'
    <2>1. ExposedLog = {} /\ ExposedTorn' = ExposedTorn
      BY <1>a DEF ExposedLog, ExposedTorn, Content, Exists, NewestMarker, Source
    <2>3. Exists(Here)' => Kept(Content(Here))'
      <3>1. Exists(Here) => Kept(Content(Here))
        BY <1>q DEF Recoverable
      <3> QED BY <3>1, <1>a, <1>e, <2>1 DEF Kept, Exists, Content
    <2>4. Kept(Content(Db))'
      BY <1>a, <1>b, <1>e DEF Kept
    <2>5. Exists(Db)' /\ ~Exists(Replacement(Here))'
      BY <1>a, <1>b, <1>d, <1>q DEF Exists
    <2> QED BY <1>a, <1>d, <1>q, <2>3, <2>4, <2>5 DEF Recoverable
  <1>4. FilesOK'
    <2>1. disk'[Db].state # "torn" /\ \A p \in Replacements : wal'[p] = NoLog \/ disk'[p].version = Unstarted
      BY <1>a DEF FilesOK
    <2>2. job'.resumed => disk'[Db].state = "corrupt"
      BY <1>a, <1>b, <1>j DEF FilesOK, Quarantining
    <2>3. Exists(Db)' /\ Held(Content(Db))' /\ ~Exists(Replacement(Here))'
      BY <1>a, <1>b, <1>d, <1>e, <1>q DEF Held, Exists
    <2> QED BY <1>a, <1>j, <2>1, <2>2, <2>3 DEF FilesOK, Rebuilding, Quarantining
  <1> QED BY <1>1, <1>2, <1>3, <1>4

LEMMA CopyLogInv == ASSUME RecoveryInv, NEW copied \in BOOLEAN, CopyLog(copied) PROVE RecoveryInv'
  <1> USE DEF RecoveryInv
  <1>a. /\ pc = "copy log" /\ pc' = "drop source" /\ job' = job /\ markers' = markers /\ Here' = Here
        /\ disk' = disk /\ UNCHANGED bounds /\ owed' = owed
    BY HereUnchanged DEF CopyLog
  <1>q. /\ Db \in Paths /\ Here \in Quarantines /\ Here \in Paths /\ Here # Db /\ job.source = Here
        /\ Replacement(Here) \in Replacements /\ Replacement(Here) \notin {Db, Here}
        /\ ~Exists(Replacement(Here)) /\ job.target = Replacement(Here) /\ markers # {}
    BY <1>a, QuarantineFacts DEF Quarantining
  <1>t. disk \in [Paths -> File] /\ wal \in [Paths -> Log] /\ NoLog \in Log
        /\ lost \in [Windows -> SUBSET Rows] /\ "log" \in Windows
    BY Typed DEF Windows
  <1> DEFINE given == IF copied THEN {} ELSE OnlyInLog(Db)
  <1>b. Exists(Db) /\ disk[Here] = disk[Db] /\ owed \subseteq Content(Db) \cup Lost
    BY <1>a DEF FilesOK, Held
  <1>c. /\ wal' \in [Paths -> Log] /\ wal'[Here] = IF copied THEN wal[Db] ELSE NoLog
        /\ \A p \in Paths \ {Here} : wal'[p] = wal[p]
    BY <1>q, <1>t DEF CopyLog
  <1>l. Lost' = Lost \cup given /\ lost' \in [Windows -> SUBSET Rows]
    <2>1. Lose("log", given)
      BY <1>q DEF CopyLog
    <2>2. given \subseteq Rows
      BY <1>q, <1>t DEF Log, OnlyInLog
    <2> QED BY <1>t, <2>1, <2>2, LoseFacts DEF Lose
  <1>d. Replacement(Here)' = Replacement(Here) /\ Replacement(job.source)' = Replacement(job.source)
    BY <1>a DEF Replacement
  <1>e. Exists(Db)' /\ Exists(Here)' /\ ~Exists(Replacement(Here))' /\ Content(Db)' = Content(Db)
    BY <1>a, <1>b, <1>c, <1>d, <1>q DEF Exists, Content
  <1>1. TypeOK'
    BY <1>a, <1>c, <1>l DEF TypeOK, Labels, Opened, bounds
  <1>2. PathsOK'
    BY <1>a, <1>d, <1>q DEF PathsOK, Recovering, Quarantining, Rebuilding
  <1>3. Recoverable'
    <2>1. Content(Here)' = disk[Db].rows \cup wal'[Here].rows
      BY <1>a, <1>b, <1>e DEF Content
    <2>2. owed \subseteq disk[Db].rows \cup wal[Db].rows \cup Lost
      BY <1>b DEF Content
    <2>3. Kept(Content(Here))' /\ Kept(Content(Db))'
      BY <1>a, <1>b, <1>c, <1>e, <1>l, <2>1, <2>2 DEF Kept, OnlyInLog
    <2> QED BY <1>a, <1>d, <1>e, <1>q, <2>3 DEF Recoverable
  <1>4. FilesOK'
    <2>1. disk'[Db].state # "torn" /\ \A p \in Replacements : wal'[p] = NoLog \/ disk'[p].version = Unstarted
      BY <1>a, <1>c, <1>q, PathFacts DEF FilesOK
    <2>2. job'.resumed => disk'[Db].state = "corrupt"
      BY <1>a, <1>b DEF FilesOK, Quarantining
    <2> QED BY <1>a, <1>e, <2>1, <2>2 DEF FilesOK, Rebuilding, Quarantining
  <1> QED BY <1>1, <1>2, <1>3, <1>4

LEMMA DropSourceInv == ASSUME RecoveryInv, DropSource PROVE RecoveryInv'
  <1> USE DEF RecoveryInv
  <1>a. /\ pc = "drop source" /\ pc' = "mark" /\ job' = job /\ markers' = markers /\ Here' = Here
        /\ UNCHANGED <<bounds, history>> /\ owed' = owed /\ Lost' = Lost
    BY HereUnchanged, HistoryUnchanged DEF DropSource
  <1>q. /\ Db \in Paths /\ Here \in Quarantines /\ Here \in Paths /\ Here # Db /\ job.source = Here
        /\ Replacement(Here) \in Replacements /\ Replacement(Here) \notin {Db, Here}
        /\ ~Exists(Replacement(Here)) /\ job.target = Replacement(Here) /\ markers # {}
        /\ Replacement(Here) \in Paths
    BY <1>a, QuarantineFacts, PathFacts DEF Quarantining
  <1>t. disk \in [Paths -> File] /\ wal \in [Paths -> Log] /\ NoFile \in File /\ NoLog \in Log
    BY Typed
  <1>b. Exists(Here) /\ Held(Content(Here))
    BY <1>a, <1>q, NothingExposed DEF FilesOK, Recoverable, Kept, Held
  <1>c. /\ disk' \in [Paths -> File] /\ wal' \in [Paths -> Log] /\ disk'[Db] = NoFile
        /\ \A p \in Paths \ {Db} : disk'[p] = disk[p] /\ wal'[p] = wal[p]
    BY <1>q, <1>t DEF DropSource, Remove
  <1>d. Replacement(Here)' = Replacement(Here) /\ Replacement(job.source)' = Replacement(job.source)
    BY <1>a DEF Replacement
  <1>e. ~Exists(Db)' /\ Exists(Here)' /\ ~Exists(Replacement(Here))' /\ Content(Here)' = Content(Here)
    <2>1. ~Exists(Db)'
      BY <1>c DEF Exists, NoFile
    <2>2. disk'[Here] = disk[Here] /\ wal'[Here] = wal[Here] /\ disk'[Replacement(Here)] = disk[Replacement(Here)]
      BY <1>c, <1>q
    <2> QED BY <1>a, <1>b, <1>d, <1>q, <2>1, <2>2 DEF Exists, Content
  <1>1. TypeOK'
    BY <1>a, <1>c DEF TypeOK, Labels, Opened, bounds, history
  <1>2. PathsOK'
    BY <1>a, <1>d, <1>q DEF PathsOK, Recovering, Quarantining, Rebuilding
  <1>3. Recoverable'
    <2>1. Kept(Content(Here))'
      BY <1>a, <1>b, <1>e DEF Kept, Held
    <2> QED BY <1>a, <1>d, <1>e, <1>q, <2>1 DEF Recoverable, Complete, Exists
  <1>4. FilesOK'
    <2>0. disk'[Db].state # "torn"
      BY <1>c DEF NoFile
    <2>1. \A p \in Replacements : wal'[p] = NoLog \/ disk'[p].version = Unstarted
      BY <1>c, <1>q, PathFacts DEF FilesOK
    <2> QED BY <1>a, <1>e, <1>q, <2>0, <2>1 DEF FilesOK, Rebuilding, Quarantining
  <1> QED BY <1>1, <1>2, <1>3, <1>4

LEMMA MarkInv == ASSUME RecoveryInv, Mark PROVE RecoveryInv'
  <1> USE DEF RecoveryInv
  <1> DEFINE m == [stamp |-> job.source[2], kind |-> "pending"]
  <1>a. /\ pc = "mark" /\ pc' = (IF job.resumed THEN "rebuild" ELSE "finish") /\ job' = job
        /\ disk' = disk /\ wal' = wal /\ UNCHANGED <<bounds, history>> /\ owed' = owed /\ Lost' = Lost
        /\ markers' = (markers \ {NewestMarker}) \cup {m}
    BY HistoryUnchanged DEF Mark
  <1>q. /\ markers = {NewestMarker} /\ Db \in Paths /\ Here \in Quarantines /\ Here \in Paths /\ Here # Db
        /\ ~Exists(Replacement(Here)) /\ job.source \in {Db, Here} /\ job.target = Replacement(job.source)
    BY <1>a, QuarantineFacts
  <1>m. markers' = {m} /\ m \in Marker /\ Here' = job.source
    <2>1. markers' = {m}
      BY <1>a, <1>q
    <2>2. job.source = Db \/ \E s \in Stamps : job.source = <<"quarantine", s>>
      BY <1>q DEF Quarantines
    <2>3. m \in Marker /\ m.stamp \in Int /\ Source(m) = job.source
      BY <2>2, BoundsAssumption DEF Marker, Source, Db, Stamps
    <2>4. NewestMarker' = m
      BY <2>1, <2>3 DEF NewestMarker
    <2> QED BY <2>1, <2>3, <2>4 DEF Here, Source
  <1>d. Replacement(Here)' = Replacement(job.source) /\ Replacement(job.source)' = Replacement(job.source)
    BY <1>a, <1>m DEF Replacement
  <1>e. \A p : Exists(p)' = Exists(p) /\ Content(p)' = Content(p)
    BY <1>a DEF Exists, Content
  <1>1. TypeOK'
    BY <1>a, <1>m DEF TypeOK, Labels, Opened, bounds, history
  <1>2. PathsOK'
    BY <1>a, <1>d, <1>m, <1>q DEF PathsOK, Recovering, Quarantining, Rebuilding
  <1>f. job.source \in Paths /\ job.source # Replacement(Db)
    BY <1>q, PathFacts
  <1>0. disk'[Db].state # "torn" /\ \A p \in Replacements : wal'[p] = NoLog \/ disk'[p].version = Unstarted
    BY <1>a DEF FilesOK
  <1>5. CASE job.source = Db
    <2>1. Exists(Db) /\ Held(Content(Db)) /\ (job.resumed => disk[Db].state = "corrupt")
      BY <1>5, <1>a DEF FilesOK, Quarantining
    <2>2. Exists(Db)' /\ Exists(job.source)' /\ Held(Content(Db))' /\ Held(Content(job.source))'
      BY <1>5, <1>a, <2>1 DEF Held, Exists, Content
    <2>3. Recoverable'
      BY <1>5, <1>m, <2>2 DEF Recoverable, Kept, Held
    <2>4. FilesOK'
      BY <1>0, <1>5, <1>a, <1>f, <2>1, <2>2 DEF FilesOK, Rebuilding, Quarantining
    <2> QED BY <1>1, <1>2, <2>3, <2>4
  <1>6. CASE job.source = Here /\ job.source # Db
    <2>1. ~Exists(Db)
      BY <1>6, <1>a DEF FilesOK
    <2>2. ExposedTorn = {} /\ ExposedLog = {}
      BY <1>a, <2>1 DEF ExposedTorn, ExposedLog, Content
    <2>3. Exists(Here) /\ Held(Content(Here))
      BY <1>q, <2>1, <2>2 DEF Recoverable, Kept, Held
    <2>4. ~Exists(Db)' /\ Exists(job.source)' /\ Held(Content(job.source))' /\ ~Exists(Replacement(job.source))'
      BY <1>6, <1>a, <1>d, <1>q, <2>1, <2>3 DEF Held, Exists, Content
    <2>5. Recoverable'
      BY <1>6, <1>d, <1>a, <1>m, <2>4 DEF Recoverable, Kept, Held, Complete, Exists
    <2>6. FilesOK'
      BY <1>0, <1>6, <1>a, <1>f, <2>4 DEF FilesOK, Rebuilding, Quarantining
    <2> QED BY <1>1, <1>2, <2>5, <2>6
  <1> QED BY <1>5, <1>6, <1>q

-----------------------------------------------------------------------------
(* finishConversationBlobRecovery: what a resumed recovery decides.         *)

\* Where a recovery that is resumed or finished finds its files.
LEMMA FinishFacts ==
  ASSUME RecoveryInv, pc = "finish"
  PROVE  /\ markers = {NewestMarker} /\ Db \in Paths /\ Here \in {Db} \cup Quarantines /\ Here \in Paths
         /\ Replacement(Here) \in Replacements /\ Replacement(Here) \in Paths
         /\ Replacement(Here) \notin {Db, Here} /\ Here # Replacement(Db)
         /\ job.source = Here /\ job.target = Replacement(Here)
         /\ Exists(Db) /\ (disk[Db].state = "sound" \/ Here = Db \/ ~Exists(Here)) => Held(Content(Db))
         /\ Here # Db /\ Exists(Here) => Held(Content(Here))
         /\ ~Exists(Db) /\ (Here = Db \/ Complete(Replacement(Here))) => Held(Content(Replacement(Here)))
  <1>1. markers = {NewestMarker} /\ Here \in {Db} \cup Quarantines /\ Here \in Paths
        /\ Replacement(Here) \in Replacements
    BY MarkerFacts, PathFacts DEF RecoveryInv, PathsOK, Recovering
  <1>2. job.source = Here /\ job.target = Replacement(Here)
    BY DEF RecoveryInv, PathsOK, Recovering, Rebuilding
  <1>3. \A rows : Kept(rows) => Held(rows)
    BY NothingExposed DEF Kept, Held
  <1>4. Recoverable
    BY DEF RecoveryInv
  <1> QED BY <1>1, <1>2, <1>3, <1>4, PathFacts DEF Recoverable

LEMMA FinishInstallsInv == ASSUME RecoveryInv, FinishInstalls PROVE RecoveryInv'
  <1> USE DEF RecoveryInv
  <1>a. /\ pc = "finish" /\ pc' = "checkpoint" /\ job' = job /\ markers' = markers /\ Here' = Here
        /\ disk' = disk /\ wal' = wal /\ UNCHANGED <<bounds, history>> /\ owed' = owed /\ Lost' = Lost
        /\ ~Exists(Db) /\ Complete(job.target)
    BY HereUnchanged, HistoryUnchanged DEF FinishInstalls, storage
  <1>q. /\ job.source = Here /\ job.target = Replacement(Here) /\ markers # {} /\ Here # Replacement(Db)
        /\ Held(Content(job.target))
    BY <1>a, FinishFacts
  <1>d. Replacement(Here)' = Replacement(Here) /\ Replacement(job.source)' = Replacement(job.source)
    BY <1>a DEF Replacement
  <1>e. \A p : Exists(p)' = Exists(p) /\ Content(p)' = Content(p) /\ Complete(p)' = Complete(p)
    BY <1>a DEF Exists, Content, Complete, Version
  <1>1. TypeOK'
    BY <1>a DEF TypeOK, Labels, Opened, bounds, history
  <1>2. PathsOK'
    BY <1>a, <1>d, <1>q DEF PathsOK, Recovering, Quarantining, Rebuilding
  <1>3. Recoverable'
    BY <1>a, <1>d, NothingExposed DEF Recoverable, Kept, Content, Exists, Complete, Version
  <1>4. FilesOK'
    <2>1. disk'[Db].state # "torn" /\ \A p \in Replacements : wal'[p] = NoLog \/ disk'[p].version = Unstarted
      BY <1>a DEF FilesOK
    <2>2. ~Exists(Db)' /\ disk'[job.target].state = "sound" /\ Held(Content(job.target))'
      BY <1>a, <1>q DEF Held, Content, Exists, Complete
    <2> QED BY <1>a, <1>q, <2>1, <2>2 DEF FilesOK, Rebuilding, Quarantining
  <1> QED BY <1>1, <1>2, <1>3, <1>4

LEMMA FinishRebuildsInv == ASSUME RecoveryInv, FinishRebuilds PROVE RecoveryInv'
  <1> USE DEF RecoveryInv
  <1>a. /\ pc = "finish" /\ pc' = "rebuild" /\ markers' = markers /\ Here' = Here
        /\ disk' = disk /\ wal' = wal /\ UNCHANGED <<bounds, history>> /\ owed' = owed /\ Lost' = Lost
        /\ ~Exists(Db) /\ ~Complete(job.target)
    BY HereUnchanged, HistoryUnchanged DEF FinishRebuilds, storage
  <1>q. /\ job.source = Here /\ job.target = Replacement(Here) /\ markers # {} /\ Here # Replacement(Db)
        /\ Here \in Paths /\ Replacement(Here) \in Paths /\ Replacement(Replacement(Here)) \in Replacements
        /\ Here # Db /\ Exists(Here) => Held(Content(Here))
        /\ Here = Db => Held(Content(Replacement(Here)))
        /\ IF Here # Db THEN Exists(Here) ELSE Exists(Replacement(Db))
    BY <1>a, FinishFacts, PathFacts DEF Recoverable
  <1>j. job' = IF Here = Db THEN [job EXCEPT !.source = Replacement(Here),
                                             !.target = Replacement(Replacement(Here))]
               ELSE job
    BY <1>q DEF FinishRebuilds
  <1>k. /\ job' \in [source: Paths, target: Replacements, resumed: BOOLEAN, retried: BOOLEAN]
        /\ IF Here = Db THEN job'.source = Replacement(Db) ELSE job'.source = Here
        /\ job'.target = Replacement(job'.source)
    BY <1>j, <1>q DEF TypeOK
  <1>d. Replacement(Here)' = Replacement(Here) /\ Replacement(job.source)' = Replacement(job'.source)
        /\ Replacement(Db)' = Replacement(Db)
    BY <1>a DEF Replacement
  <1>1. TypeOK'
    BY <1>a, <1>k DEF TypeOK, Labels, Opened, bounds, history
  <1>2. PathsOK'
    BY <1>a, <1>d, <1>k, <1>q DEF PathsOK, Recovering, Quarantining, Rebuilding
  <1>3. Recoverable'
    BY <1>a, <1>d, NothingExposed DEF Recoverable, Kept, Content, Exists, Complete, Version
  <1>4. FilesOK'
    <2>1. disk'[Db].state # "torn" /\ \A p \in Replacements : wal'[p] = NoLog \/ disk'[p].version = Unstarted
      BY <1>a DEF FilesOK
    <2>2. ~Exists(Db)' /\ Exists(job.source)' /\ Held(Content(job.source))'
      BY <1>a, <1>k, <1>q DEF Held, Content, Exists
    <2>3. job'.source = Replacement(Db) => ~Complete(job.source)'
      BY <1>a, <1>k, <1>q DEF Complete, Version
    <2> QED BY <1>a, <1>d, <2>1, <2>2, <2>3 DEF FilesOK, Rebuilding, Quarantining
  <1> QED BY <1>1, <1>2, <1>3, <1>4

LEMMA FinishHealthyInv == ASSUME RecoveryInv, FinishHealthy PROVE RecoveryInv'
  <1> USE DEF RecoveryInv
  <1>a. /\ pc = "finish" /\ pc' = "settle" /\ job' = job /\ markers' = markers /\ Here' = Here
        /\ UNCHANGED <<bounds, history>> /\ owed' = owed /\ Lost' = Lost /\ disk[Db].state = "sound"
    BY HereUnchanged, HistoryUnchanged DEF FinishHealthy
  <1>q. /\ Db \in Paths /\ Here \in Paths /\ markers # {} /\ job.source = Here
        /\ Replacement(Here) \in Paths /\ Replacement(Here) \notin {Db, Here}
        /\ Held(Content(Db)) /\ (Here # Db /\ Exists(Here) => Held(Content(Here)))
    BY <1>a, FinishFacts DEF Exists
  <1>t. disk \in [Paths -> File] /\ wal \in [Paths -> Log] /\ NoFile \in File /\ NoLog \in Log
    BY Typed
  <1>c. /\ disk' \in [Paths -> File] /\ wal' \in [Paths -> Log]
        /\ disk'[Replacement(Here)] = NoFile /\ wal'[Replacement(Here)] = NoLog
        /\ \A p \in Paths \ {Replacement(Here)} : disk'[p] = disk[p] /\ wal'[p] = wal[p]
    BY <1>q, <1>t DEF FinishHealthy, Remove
  <1>d. Replacement(Here)' = Replacement(Here)
    BY <1>a DEF Replacement
  <1>e. /\ disk'[Db].state = "sound" /\ Exists(Db)' /\ Content(Db)' = Content(Db)
        /\ Exists(Here)' = Exists(Here) /\ Content(Here)' = Content(Here)
        /\ ~Exists(Replacement(Here))'
    <2>1. disk'[Db] = disk[Db] /\ wal'[Db] = wal[Db] /\ disk'[Here] = disk[Here] /\ wal'[Here] = wal[Here]
      BY <1>c, <1>q
    <2>2. ~Exists(Replacement(Here))'
      BY <1>c, <1>d DEF Exists, NoFile
    <2> QED BY <1>a, <2>1, <2>2 DEF Exists, Content
  <1>1. TypeOK'
    BY <1>a, <1>c DEF TypeOK, Labels, Opened, bounds, history
  <1>2. PathsOK'
    BY <1>a, <1>q DEF PathsOK, Recovering, Quarantining, Rebuilding
  <1>3. Recoverable'
    BY <1>a, <1>d, <1>e, <1>q DEF Recoverable, Kept, Held
  <1>4. FilesOK'
    <2>1. \A p \in Replacements : wal'[p] = NoLog \/ disk'[p].version = Unstarted
      BY <1>c, PathFacts DEF FilesOK
    <2> QED BY <1>a, <1>e, <2>1 DEF FilesOK, Rebuilding, Quarantining
  <1> QED BY <1>1, <1>2, <1>3, <1>4

LEMMA FinishCorruptInv == ASSUME RecoveryInv, FinishCorrupt PROVE RecoveryInv'
  <1> USE DEF RecoveryInv
  <1>a. /\ pc = "finish" /\ job' = job /\ markers' = markers /\ Here' = Here
        /\ UNCHANGED <<bounds, history>> /\ owed' = owed /\ Lost' = Lost /\ disk[Db].state = "corrupt"
    BY HereUnchanged, HistoryUnchanged DEF FinishCorrupt
  <1>q. /\ Db \in Paths /\ Here \in Paths /\ markers # {} /\ job.source = Here /\ job.target = Replacement(Here)
        /\ Replacement(Here) \in Paths /\ Replacement(Here) \notin {Db, Here} /\ Here # Replacement(Db)
        /\ Exists(Db) /\ (Here = Db \/ ~Exists(Here) => Held(Content(Db)))
        /\ Here # Db /\ Exists(Here) => Held(Content(Here))
        /\ Here # Db => ~Exists(Replacement(Here))
    BY <1>a, FinishFacts DEF Exists, Recoverable
  <1>d. Replacement(Here)' = Replacement(Here) /\ Replacement(job.source)' = Replacement(job.source)
    BY <1>a DEF Replacement
  <1>t. disk \in [Paths -> File] /\ wal \in [Paths -> Log] /\ NoFile \in File /\ NoLog \in Log
    BY Typed
  <1>5. CASE Here = Db \/ ~Exists(Here)
    <2>a. disk' = disk /\ wal' = wal /\ pc' = IF Here = Db THEN "rebuild" ELSE "quarantine"
      BY <1>5, <1>q DEF FinishCorrupt
    <2>1. TypeOK'
      BY <1>a, <2>a DEF TypeOK, Labels, Opened, bounds, history
    <2>2. PathsOK'
      BY <1>a, <1>d, <1>q, <2>a DEF PathsOK, Recovering, Quarantining, Rebuilding
    <2>3. Recoverable'
      BY <1>a, <1>d, <2>a, NothingExposed DEF Recoverable, Kept, Content, Exists, Complete, Version
    <2>4. FilesOK'
      <3>1. disk'[Db].state = "corrupt" /\ \A p \in Replacements : wal'[p] = NoLog \/ disk'[p].version = Unstarted
        BY <1>a, <2>a DEF FilesOK
      <3>2. Exists(Db)' /\ Held(Content(Db))' /\ (Here # Db => ~Exists(Here)' /\ ~Exists(Replacement(Here))')
        BY <1>5, <1>a, <1>d, <1>q, <2>a DEF Held, Content, Exists
      <3> QED BY <1>a, <1>q, <2>a, <3>1, <3>2 DEF FilesOK, Rebuilding, Quarantining
    <2> QED BY <2>1, <2>2, <2>3, <2>4
  <1>6. CASE Here # Db /\ Exists(Here)
    <2>a. pc' = "rebuild" /\ Remove({Db})
      BY <1>6, <1>q DEF FinishCorrupt
    <2>c. /\ disk' \in [Paths -> File] /\ wal' \in [Paths -> Log] /\ disk'[Db] = NoFile
          /\ \A p \in Paths \ {Db} : disk'[p] = disk[p] /\ wal'[p] = wal[p]
      BY <1>q, <1>t, <2>a DEF Remove
    <2>e. ~Exists(Db)' /\ Exists(Here)' /\ Held(Content(Here))' /\ ~Exists(Replacement(Here))'
      <3>1. ~Exists(Db)'
        BY <2>c DEF Exists, NoFile
      <3>2. disk'[Here] = disk[Here] /\ wal'[Here] = wal[Here] /\ disk'[Replacement(Here)] = disk[Replacement(Here)]
        BY <1>6, <1>q, <2>c
      <3> QED BY <1>6, <1>a, <1>d, <1>q, <3>1, <3>2 DEF Exists, Content, Held
    <2>1. TypeOK'
      BY <1>a, <2>a, <2>c DEF TypeOK, Labels, Opened, bounds, history
    <2>2. PathsOK'
      BY <1>a, <1>d, <1>q, <2>a DEF PathsOK, Recovering, Quarantining, Rebuilding
    <2>3. Recoverable'
      BY <1>6, <1>a, <1>d, <1>q, <2>e DEF Recoverable, Kept, Held, Complete, Exists
    <2>4. FilesOK'
      <3>0. disk'[Db].state # "torn"
        BY <2>c DEF NoFile
      <3>1. \A p \in Replacements : wal'[p] = NoLog \/ disk'[p].version = Unstarted
        BY <2>c, <1>q, PathFacts DEF FilesOK
      <3> QED BY <1>a, <1>q, <2>a, <2>e, <3>0, <3>1 DEF FilesOK, Rebuilding, Quarantining
    <2> QED BY <2>1, <2>2, <2>3, <2>4
  <1> QED BY <1>5, <1>6

LEMMA FinishFailsInv == ASSUME RecoveryInv, FinishFails PROVE RecoveryInv'
  <1> USE DEF RecoveryInv
  <1> DEFINE examined == IF Exists(Db) THEN Db ELSE Replacement(Here)
             given == IF Exists(Db) THEN OnlyInLog(Db) ELSE {}
  <1>q0. /\ pc = "finish" /\ job.source = Here /\ job.target = Replacement(Here) /\ markers # {}
         /\ Db \in Paths /\ Here \in Paths /\ Replacement(Here) \in Paths
         /\ Replacement(Here) \notin {Db, Here} /\ Here # Replacement(Db)
    BY FinishFacts DEF FinishFails
  <1>a. /\ pc' = pc /\ markers' = markers /\ Here' = Here
        /\ disk' = disk /\ UNCHANGED <<rots, crashes>> /\ owed' = owed
        /\ faults < MaxFaults /\ faults' = faults + 1 /\ wal' = [wal EXCEPT ![examined] = NoLog]
        /\ Exists(examined) /\ Lose("sidecar", given) /\ job' = [job EXCEPT !.retried = TRUE]
    BY <1>q0, HereUnchanged DEF FinishFails, DropSidecars
  <1>q. /\ Exists(Db) /\ (disk[Db].state = "sound" \/ Here = Db \/ ~Exists(Here)) => Held(Content(Db))
        /\ Here # Db /\ Exists(Here) => Held(Content(Here))
        /\ ~Exists(Db) /\ (Here = Db \/ Complete(Replacement(Here))) => Held(Content(Replacement(Here)))
    BY <1>q0, FinishFacts
  <1>t. disk \in [Paths -> File] /\ wal \in [Paths -> Log] /\ NoLog \in Log
        /\ lost \in [Windows -> SUBSET Rows] /\ "sidecar" \in Windows
    BY Typed DEF Windows
  <1>c. /\ wal' \in [Paths -> Log] /\ wal'[examined] = NoLog /\ examined \in Paths
        /\ \A p \in Paths \ {examined} : wal'[p] = wal[p]
    BY <1>a, <1>q0, <1>t
  <1>l. Lost' = Lost \cup given /\ lost' \in [Windows -> SUBSET Rows]
    <2>1. given \subseteq Rows
      BY <1>q0, <1>t DEF Log, OnlyInLog
    <2> QED BY <1>a, <1>t, <2>1, LoseFacts DEF Lose
  <1>j. /\ job' \in [source: Paths, target: Replacements, resumed: BOOLEAN, retried: BOOLEAN]
        /\ job'.source = job.source /\ job'.target = job.target /\ job'.resumed = job.resumed
    BY <1>a DEF TypeOK
  <1>d. Replacement(Here)' = Replacement(Here) /\ Replacement(job.source)' = Replacement(job.source)
    BY <1>a, <1>j DEF Replacement
  <1>e. \A p : Exists(p)' = Exists(p)
    BY <1>a DEF Exists
  <1>1. TypeOK'
    <2>1. rots' \in 0 .. MaxRots /\ faults' \in 0 .. MaxFaults /\ crashes' \in 0 .. MaxCrashes
      BY <1>a, BoundsAssumption DEF TypeOK
    <2> QED BY <1>a, <1>c, <1>l, <1>j, <1>q0, <2>1 DEF TypeOK, Labels, Opened
  <1>2. PathsOK'
    BY <1>a, <1>d, <1>j, <1>q0 DEF PathsOK, Recovering, Quarantining, Rebuilding
  <1>4. FilesOK'
    <2>1. \A p \in Replacements : wal'[p] = NoLog \/ disk'[p].version = Unstarted
      BY <1>a, <1>c, PathFacts DEF FilesOK
    <2> QED BY <1>a, <1>q0, <2>1 DEF FilesOK, Rebuilding, Quarantining
  <1>5. CASE Exists(Db)
    <2>1. Here # Db => wal'[Here] = wal[Here]
      BY <1>5, <1>c, <1>q0
    <2>2. Held(Content(Db)) => Held(Content(Db))'
      BY <1>5, <1>a, <1>c, <1>l DEF Held, Content, OnlyInLog, Exists, NoLog
    <2>3. Here # Db /\ Exists(Here) => Held(Content(Here))'
      BY <1>a, <1>l, <1>q, <2>1 DEF Held, Content, Exists
    <2>4. Here # Db => ~Exists(Replacement(Here))
      BY <1>5, <1>q0 DEF Recoverable
    <2>5. Recoverable'
      BY <1>5, <1>a, <1>d, <1>q, <1>q0, <2>2, <2>3, <2>4 DEF Recoverable, Kept, Held, Exists
    <2> QED BY <1>1, <1>2, <1>4, <2>5
  <1>6. CASE ~Exists(Db)
    <2>1. wal'[Db] = wal[Db] /\ wal'[Here] = wal[Here] /\ Lost' = Lost /\ examined = Replacement(Here)
      BY <1>6, <1>c, <1>q0, <1>l
    <2>2. wal[Replacement(Here)] = NoLog => wal' = wal
      BY <1>a, <1>c, <1>t, <2>1
    <2>3. Here = Db => wal[Replacement(Here)] = NoLog
      BY <1>6, <1>q0 DEF Recoverable
    <2>4. Complete(Replacement(Here))' => wal[Replacement(Here)] = NoLog
      <3>1. Complete(Replacement(Here))' => disk[Replacement(Here)].version \in {Rebuilt, Adopted}
        BY <1>a, <1>c, <1>d, <2>1 DEF Complete, Version, NoLog
      <3> QED BY <3>1, FinishFacts, <1>q0 DEF FilesOK, Rebuilt, Adopted, Unstarted
    <2>5. Here = Db \/ Complete(Replacement(Here))' => Held(Content(Replacement(Here)))'
      <3>1. CASE wal' = wal
        BY <1>6, <3>1, <1>a, <1>d, <1>q, <2>1 DEF Held, Content, Exists, Complete, Version
      <3> QED BY <3>1, <2>2, <2>3, <2>4
    <2>6. Here # Db /\ Exists(Here) => Held(Content(Here))'
      BY <1>a, <1>q, <2>1 DEF Held, Content, Exists
    <2>7. IF Here # Db THEN Exists(Here) ELSE Exists(Replacement(Db)) /\ wal'[Replacement(Db)] = NoLog
      BY <1>6, <1>q0, <1>c, <2>1 DEF Recoverable
    <2>8. Recoverable'
      BY <1>6, <1>a, <1>d, <1>q0, <2>5, <2>6, <2>7 DEF Recoverable, Kept, Held, Exists
    <2> QED BY <1>1, <1>2, <1>4, <2>8
  <1> QED BY <1>5, <1>6

-----------------------------------------------------------------------------
(* finishConversationBlobRecovery: rebuilding and installing.               *)

\* Where a recovery that rebuilds the database finds its files.
LEMMA RebuildFacts ==
  ASSUME RecoveryInv, pc \in Rebuilding
  PROVE  /\ markers = {NewestMarker} /\ Db \in Paths /\ Here \in {Db} \cup Quarantines /\ Here \in Paths
         /\ Replacement(Here) \in Paths /\ Replacement(Here) \notin {Db, Here} /\ Here # Replacement(Db)
         /\ job.source \in Paths /\ job.target \in Paths /\ job.target \in Replacements
         /\ job.target \notin {Db, Here, job.source}
         /\ \/ job.source = Here /\ job.target = Replacement(Here)
            \/ Here = Db /\ job.source = Replacement(Db) /\ job.target # Replacement(Db)
         /\ job.source # Db => ~Exists(Db)
         /\ Here # Db /\ Exists(Here) => Held(Content(Here))
         /\ Exists(Db) => Held(Content(Db))
         /\ ~Exists(Db) /\ (Here = Db \/ Complete(Replacement(Here))) => Held(Content(Replacement(Here)))
         /\ Here # Db => Exists(Here)
         /\ job.source = Replacement(Db) => Exists(job.source) /\ wal[job.source] = NoLog
  <1>1. markers = {NewestMarker} /\ Here \in {Db} \cup Quarantines /\ Here \in Paths
        /\ Replacement(Here) \in Replacements
    BY MarkerFacts, PathFacts DEF RecoveryInv, PathsOK, Recovering
  <1>2. (job.source = Here \/ (Here = Db /\ job.source = Replacement(Db))) /\ job.target = Replacement(job.source)
    BY DEF RecoveryInv, PathsOK, Recovering, Rebuilding, Quarantining
  <1>3. \A rows : Kept(rows) => Held(rows)
    BY NothingExposed DEF Kept, Held, Rebuilding
  <1>4. Recoverable /\ job.source \in Paths /\ job.target \in Replacements
    BY DEF RecoveryInv, TypeOK
  <1>5. Exists(Db) => disk[Db].state = "corrupt" /\ job.source = Db
    BY DEF RecoveryInv, FilesOK
  <1>6. /\ Replacement(Here) \in Paths /\ Replacement(Here) \notin {Db, Here} /\ Here # Replacement(Db)
        /\ Db \in Paths /\ job.target \in Paths /\ job.target \notin {Db, Here, job.source}
        /\ Replacement(Replacement(Db)) # Replacement(Db) /\ Db # Replacement(Db)
    BY <1>1, <1>2, <1>4, PathFacts
  <1>7. Exists(Db) => Here = Db /\ Held(Content(Db))
    BY <1>1, <1>2, <1>3, <1>4, <1>5, <1>6 DEF Recoverable
  <1>8. Here # Db => Exists(Here) /\ Held(Content(Here))
    BY <1>1, <1>3, <1>4, <1>7 DEF Recoverable
  <1>9. ~Exists(Db) /\ (Here = Db \/ Complete(Replacement(Here))) => Held(Content(Replacement(Here)))
    BY <1>1, <1>3, <1>4 DEF Recoverable
  <1>10. job.source = Replacement(Db) => Exists(job.source) /\ wal[job.source] = NoLog
    BY <1>1, <1>2, <1>4, <1>5, <1>6 DEF Recoverable
  <1> QED BY <1>1, <1>2, <1>4, <1>5, <1>6, <1>7, <1>8, <1>9, <1>10

\* While the replacement is filled, the next opening starts again from the source.
LEMMA FillingKeeps ==
  ASSUME RecoveryInv, pc \in Rebuilding, pc' \in Rebuilding, UNCHANGED <<markers, job, owed>>,
         Lost \subseteq Lost',
         \A p \in Paths \ {job.target} : disk'[p] = disk[p] /\ wal'[p] = wal[p],
         Complete(job.target)' \/ ~Exists(job.source) => Held(Content(job.target))',
         ~Exists(job.source) => Exists(job.target)' /\ wal'[job.target] = NoLog
  PROVE  PathsOK' /\ Recoverable'
  <1> USE DEF RecoveryInv
  <1>q. /\ Db \in Paths /\ Here \in Paths
        /\ Replacement(Here) \in Paths /\ Replacement(Here) \notin {Db, Here} /\ Here # Replacement(Db)
        /\ job.source \in Paths /\ job.target \notin {Db, Here, job.source}
        /\ \/ job.source = Here /\ job.target = Replacement(Here)
           \/ Here = Db /\ job.source = Replacement(Db) /\ job.target # Replacement(Db)
        /\ Here # Db /\ Exists(Here) => Held(Content(Here))
        /\ Exists(Db) => Held(Content(Db))
        /\ ~Exists(Db) /\ (Here = Db \/ Complete(Replacement(Here))) => Held(Content(Replacement(Here)))
        /\ Here # Db => Exists(Here) /\ ~Exists(Db)
        /\ job.source = Replacement(Db) => Exists(job.source) /\ wal[job.source] = NoLog
        /\ job.target = Replacement(job.source) /\ markers # {}
    BY RebuildFacts DEF PathsOK, Recovering, Rebuilding
  <1>a. Here' = Here /\ Replacement(Here)' = Replacement(Here) /\ Replacement(job.source)' = Replacement(job.source)
        /\ Replacement(Db)' = Replacement(Db) /\ job' = job /\ markers' = markers
    BY HereUnchanged DEF Replacement
  <1>h. \A rows : Held(rows) => owed' \subseteq rows \cup Lost'
    BY DEF Held
  <1>c. \A p \in Paths \ {job.target} :
          /\ Exists(p)' = Exists(p) /\ Content(p)' = Content(p) /\ Complete(p)' = Complete(p)
    BY DEF Exists, Content, Complete, Version
  <1>1. PathsOK'
    BY <1>a, <1>q DEF PathsOK, Recovering, Quarantining, Rebuilding
  <1>2. Exists(Db)' = Exists(Db) /\ Content(Db)' = Content(Db) /\ Exists(Here)' = Exists(Here)
        /\ Content(Here)' = Content(Here)
    BY <1>a, <1>c, <1>q DEF Exists, Content
  <1>3. Here # Db /\ Exists(Here) => Kept(Content(Here))'
    BY <1>2, <1>h, <1>q DEF Kept
  <1>4. Exists(Db) => Kept(Content(Db))'
    BY <1>2, <1>h, <1>q DEF Kept
  <1>5. CASE job.source = Here /\ job.target = Replacement(Here)
    <2>1. Complete(Replacement(Here))' => Kept(Content(Replacement(Here)))'
      BY <1>5, <1>a DEF Held, Kept, Complete, Content, Exists, Version
    <2>2. Here = Db /\ ~Exists(Db) => /\ Kept(Content(Replacement(Here)))'
                                     /\ Exists(Replacement(Db))' /\ wal'[Replacement(Db)] = NoLog
      BY <1>5, <1>a DEF Held, Kept, Content, Exists
    <2> QED BY <1>1, <1>2, <1>3, <1>4, <1>5, <1>a, <1>q, <2>1, <2>2 DEF Recoverable
  <1>6. CASE Here = Db /\ job.source = Replacement(Db) /\ job.target # Replacement(Db)
    <2>1. Exists(Replacement(Db))' /\ wal'[Replacement(Db)] = NoLog
          /\ Content(Replacement(Db))' = Content(Replacement(Db))
      BY <1>6, <1>c, <1>q
    <2> QED BY <1>1, <1>2, <1>4, <1>6, <1>a, <1>h, <1>q, <2>1 DEF Recoverable, Kept
  <1> QED BY <1>5, <1>6, <1>q

LEMMA RebuildInv == ASSUME RecoveryInv, Rebuild PROVE RecoveryInv'
  <1> USE DEF RecoveryInv
  <1>a. /\ pc = "rebuild" /\ pc' = "salvage" /\ job' = job /\ markers' = markers /\ Here' = Here
        /\ UNCHANGED <<bounds, history>> /\ owed' = owed /\ Lost' = Lost
    BY HereUnchanged, HistoryUnchanged DEF Rebuild
  <1>q. /\ Db \in Paths /\ job.source \in Paths /\ job.target \in Paths
        /\ job.target \notin {Db, Here, job.source} /\ (job.source # Db => ~Exists(Db))
    BY <1>a, RebuildFacts DEF Rebuilding
  <1>t. disk \in [Paths -> File] /\ wal \in [Paths -> Log] /\ EmptyFile \in File /\ NoLog \in Log
    BY Typed
  <1>b. Held(Content(job.source)) /\ Exists(job.source)
    BY <1>a DEF FilesOK
  <1>c. /\ disk' \in [Paths -> File] /\ wal' \in [Paths -> Log]
        /\ disk'[job.target] = EmptyFile /\ wal'[job.target] = NoLog
        /\ \A p \in Paths \ {job.target} : disk'[p] = disk[p] /\ wal'[p] = wal[p]
    BY <1>q, <1>t DEF Rebuild
  <1>d. ~Complete(job.target)'
    BY <1>a, <1>c DEF Complete, Version, EmptyFile, NoFile, NoLog, Unstarted, Rebuilt, Adopted
  <1>1. TypeOK'
    BY <1>a, <1>c DEF TypeOK, Labels, Opened, bounds, history
  <1>2. PathsOK' /\ Recoverable'
    BY <1>a, <1>b, <1>c, <1>d, FillingKeeps DEF Rebuilding
  <1>4. FilesOK'
    <2>1. disk'[Db] = disk[Db] /\ disk'[job.source] = disk[job.source] /\ wal'[job.source] = wal[job.source]
      BY <1>c, <1>q
    <2>2. \A p \in Replacements : wal'[p] = NoLog \/ disk'[p].version = Unstarted
      BY <1>c, PathFacts DEF FilesOK
    <2>3. Held(Content(job.source))' /\ Exists(job.source)' /\ Complete(job.source)' = Complete(job.source)
          /\ Exists(Db)' = Exists(Db) /\ wal'[job.target].version = Unstarted
      BY <1>a, <1>b, <1>c, <2>1 DEF Held, Exists, Content, Complete, Version, NoLog
    <2>4. disk'[Db].state # "torn" /\ (~Exists(Db)' \/ (disk'[Db].state = "corrupt" /\ job.source = Db))
          /\ (job.source = Replacement(Db) => ~Complete(job.source))
      BY <1>a, <1>q, <2>1, <2>3 DEF FilesOK, Rebuilding
    <2>5. Replacement(Db)' = Replacement(Db)
      BY DEF Replacement
    <2> QED BY <1>a, <1>c, <2>2, <2>3, <2>4, <2>5 DEF FilesOK, Rebuilding, Quarantining
  <1> QED BY <1>1, <1>2, <1>4

LEMMA SalvageRowInv == ASSUME RecoveryInv, NEW r \in Rows, SalvageRow(r) PROVE RecoveryInv'
  <1> USE DEF RecoveryInv
  <1>a. /\ pc = "salvage" /\ pc' = pc /\ job' = job /\ markers' = markers /\ Here' = Here
        /\ disk' = disk /\ UNCHANGED <<bounds, history>> /\ owed' = owed /\ Lost' = Lost
    BY HereUnchanged, HistoryUnchanged DEF SalvageRow
  <1>q. /\ Db \in Paths /\ job.source \in Paths /\ job.target \in Paths
        /\ job.target \notin {Db, Here, job.source}
    BY <1>a, RebuildFacts DEF Rebuilding
  <1>t. disk \in [Paths -> File] /\ wal \in [Paths -> Log]
    BY Typed
  <1>b. /\ Held(Content(job.source)) /\ Exists(job.source)
        /\ disk[job.target] = EmptyFile /\ wal[job.target].version = Unstarted
    BY <1>a DEF FilesOK
  <1>c. /\ wal' \in [Paths -> Log] /\ wal'[job.target].version = Unstarted
        /\ \A p \in Paths \ {job.target} : wal'[p] = wal[p]
    <2>1. wal' = [wal EXCEPT ![job.target] = [wal[job.target] EXCEPT !.rows = @ \cup {r}]]
      BY DEF SalvageRow
    <2>2. [wal[job.target] EXCEPT !.rows = @ \cup {r}] \in Log
      BY <1>q, <1>t DEF Log
    <2> QED BY <1>b, <1>q, <1>t, <2>1, <2>2 DEF Log
  <1>d. ~Complete(job.target)'
    BY <1>a, <1>b, <1>c DEF Complete, Version, EmptyFile, NoFile, Unstarted, Rebuilt, Adopted
  <1>1. TypeOK'
    BY <1>a, <1>c DEF TypeOK, Labels, Opened, bounds, history
  <1>2. PathsOK' /\ Recoverable'
    BY <1>a, <1>b, <1>c, <1>d, FillingKeeps DEF Rebuilding
  <1>4. FilesOK'
    <2>2. \A p \in Replacements : wal'[p] = NoLog \/ disk'[p].version = Unstarted
      <3>1. EmptyFile.version = Unstarted
        BY DEF EmptyFile, NoFile
      <3> QED BY <3>1, <1>a, <1>b, <1>c, PathFacts DEF FilesOK
    <2>3. Held(Content(job.source))' /\ Exists(job.source)' /\ Complete(job.source)' = Complete(job.source)
          /\ Exists(Db)' = Exists(Db)
      BY <1>a, <1>b, <1>c, <1>q DEF Held, Exists, Content, Complete, Version
    <2>4. disk'[Db].state # "torn" /\ (~Exists(Db)' \/ (disk'[Db].state = "corrupt" /\ job.source = Db))
          /\ (job.source = Replacement(Db) => ~Complete(job.source))
      BY <1>a, <2>3 DEF FilesOK, Rebuilding
    <2>5. Replacement(Db)' = Replacement(Db) /\ EmptyFile' = EmptyFile
      BY DEF Replacement
    <2> QED BY <1>a, <1>b, <1>c, <2>2, <2>3, <2>4, <2>5 DEF FilesOK, Rebuilding, Quarantining
  <1> QED BY <1>1, <1>2, <1>4

LEMMA SalvageFailsInv == ASSUME RecoveryInv, SalvageFails PROVE RecoveryInv'
  <1> USE DEF RecoveryInv
  <1>a. /\ pc = "salvage" /\ pc' = pc /\ job' = job /\ markers' = markers /\ Here' = Here
        /\ disk' = disk /\ UNCHANGED <<rots, crashes>> /\ owed' = owed /\ Exists(job.source)
        /\ faults < MaxFaults /\ faults' = faults + 1 /\ wal' = [wal EXCEPT ![job.source] = NoLog]
        /\ Lose("sidecar", OnlyInLog(job.source))
    BY HereUnchanged DEF SalvageFails, DropSidecars
  <1>q. /\ Db \in Paths /\ Here \in Paths /\ job.source \in Paths /\ job.target \in Paths /\ markers # {}
        /\ Replacement(Here) \in Paths /\ Replacement(Here) \notin {Db, Here} /\ Here # Replacement(Db)
        /\ job.target \notin {Db, Here, job.source}
        /\ \/ job.source = Here /\ job.target = Replacement(Here)
           \/ Here = Db /\ job.source = Replacement(Db) /\ job.target # Replacement(Db)
        /\ job.source # Db => ~Exists(Db)
        /\ Here # Db => Exists(Here)
        /\ job.source = Replacement(Db) => wal[job.source] = NoLog
        /\ job.target = Replacement(job.source)
    BY <1>a, RebuildFacts DEF Rebuilding, PathsOK, Recovering
  <1>t. disk \in [Paths -> File] /\ wal \in [Paths -> Log] /\ NoLog \in Log
        /\ lost \in [Windows -> SUBSET Rows] /\ "sidecar" \in Windows
    BY Typed DEF Windows
  <1>b. /\ owed \subseteq Content(job.source) \cup Lost
        /\ disk[job.target] = EmptyFile /\ wal[job.target].version = Unstarted
    BY <1>a DEF FilesOK, Held
  <1>c. /\ wal' \in [Paths -> Log] /\ wal'[job.source] = NoLog
        /\ \A p \in Paths \ {job.source} : wal'[p] = wal[p]
    BY <1>a, <1>q, <1>t
  <1>l. Lost' = Lost \cup OnlyInLog(job.source) /\ lost' \in [Windows -> SUBSET Rows]
    <2>1. OnlyInLog(job.source) \subseteq Rows
      BY <1>q, <1>t DEF Log, OnlyInLog
    <2> QED BY <1>a, <1>t, <2>1, LoseFacts DEF Lose
  <1>d. Replacement(Here)' = Replacement(Here) /\ Replacement(job.source)' = Replacement(job.source)
        /\ Replacement(Db)' = Replacement(Db)
    BY <1>a DEF Replacement
  <1>e. \A p : Exists(p)' = Exists(p)
    BY <1>a DEF Exists
  <1>f. Held(Content(job.source))'
    BY <1>a, <1>b, <1>c, <1>l DEF Held, Content, OnlyInLog, Exists, NoLog
  <1>g. ~Complete(job.target)'
    BY <1>a, <1>b, <1>c, <1>q DEF Complete, Version, EmptyFile, NoFile, Unstarted, Rebuilt, Adopted
  <1>h. job.source = Replacement(Db) => wal' = wal
    BY <1>a, <1>q, <1>t
  <1>1. TypeOK'
    <2>1. rots' \in 0 .. MaxRots /\ faults' \in 0 .. MaxFaults /\ crashes' \in 0 .. MaxCrashes
      BY <1>a, BoundsAssumption DEF TypeOK
    <2> QED BY <1>a, <1>c, <1>l, <2>1 DEF TypeOK, Labels, Opened
  <1>2. PathsOK'
    BY <1>a, <1>d, <1>q DEF PathsOK, Recovering, Quarantining, Rebuilding
  <1>3. Recoverable'
    <2>1. CASE job.source = Here /\ job.target = Replacement(Here)
      <3>1. Kept(Content(Here))' /\ Exists(Here)'
        BY <2>1, <1>a, <1>e, <1>f DEF Held, Kept, Content, Exists
      <3> QED BY <2>1, <1>a, <1>d, <1>e, <1>g, <1>q, <3>1 DEF Recoverable, Complete, Exists
    <2>2. CASE Here = Db /\ job.source = Replacement(Db) /\ job.target # Replacement(Db)
      <3>1. wal' = wal /\ Exists(Replacement(Db)) /\ wal[Replacement(Db)] = NoLog
        BY <2>2, <1>a, <1>h, <1>q
      <3>2. Kept(Content(Replacement(Here)))'
        BY <2>2, <1>a, <1>d, <1>f DEF Held, Kept, Content, Exists
      <3> QED BY <2>2, <1>a, <1>d, <1>e, <1>q, <3>1, <3>2 DEF Recoverable
    <2> QED BY <2>1, <2>2, <1>q
  <1>4. FilesOK'
    <2>2. \A p \in Replacements : wal'[p] = NoLog \/ disk'[p].version = Unstarted
      BY <1>a, <1>c, PathFacts DEF FilesOK
    <2>3. wal'[job.target].version = Unstarted /\ (job.source = Replacement(Db) => ~Complete(job.source)')
      <3>1. job.source = Replacement(Db) => ~Complete(job.source)
        BY <1>a DEF FilesOK, Rebuilding
      <3> QED BY <1>a, <1>b, <1>c, <1>h, <1>q, <3>1 DEF Complete, Version
    <2>4. disk'[Db].state # "torn" /\ (~Exists(Db)' \/ (disk'[Db].state = "corrupt" /\ job.source = Db))
      BY <1>a, <1>e DEF FilesOK, Rebuilding
    <2>5. EmptyFile' = EmptyFile
      OBVIOUS
    <2> QED BY <1>a, <1>b, <1>d, <1>e, <1>f, <2>2, <2>3, <2>4, <2>5 DEF FilesOK, Rebuilding, Quarantining
  <1> QED BY <1>1, <1>2, <1>3, <1>4

LEMMA SalvageEndsInv == ASSUME RecoveryInv, SalvageEnds PROVE RecoveryInv'
  <1> USE DEF RecoveryInv
  <1> DEFINE skipped == Content(job.source) \ Content(job.target)
  <1>a. /\ pc = "salvage" /\ pc' = "checkpoint" /\ job' = job /\ markers' = markers /\ Here' = Here
        /\ disk' = disk /\ UNCHANGED <<rots, crashes>> /\ owed' = owed
    BY HereUnchanged DEF SalvageEnds
  <1>q. /\ Db \in Paths /\ job.source \in Paths /\ job.target \in Paths
        /\ job.target \notin {Db, Here, job.source}
    BY <1>a, RebuildFacts DEF Rebuilding
  <1>t. disk \in [Paths -> File] /\ wal \in [Paths -> Log] /\ lost \in [Windows -> SUBSET Rows]
        /\ (\A p \in Paths : Content(p) \subseteq Rows) /\ "skipped" \in Windows
    BY Typed DEF Windows
  <1>b. /\ owed \subseteq Content(job.source) \cup Lost /\ Exists(job.source)
        /\ disk[job.target] = EmptyFile
    BY <1>a DEF FilesOK, Held
  <1>l. /\ lost' \in [Windows -> SUBSET Rows] /\ Lost' = Lost \cup skipped
        /\ faults' \in 0 .. MaxFaults
    <2>1. CASE skipped = {} /\ faults' = faults /\ lost' = lost
      BY <2>1, <1>t DEF Lost, TypeOK
    <2>2. CASE faults < MaxFaults /\ faults' = faults + 1 /\ Lose("skipped", skipped)
      <3>1. Lost' = Lost \cup skipped
        BY <2>2, <1>t, LoseFacts
      <3>2. lost' \in [Windows -> SUBSET Rows]
        BY <2>2, <1>q, <1>t DEF Lose
      <3>3. faults' \in 0 .. MaxFaults
        BY <2>2, BoundsAssumption DEF TypeOK
      <3> QED BY <3>1, <3>2, <3>3
    <2> QED BY <2>1, <2>2 DEF SalvageEnds
  <1>c. /\ wal' \in [Paths -> Log] /\ wal'[job.target].rows = wal[job.target].rows
        /\ \A p \in Paths \ {job.target} : wal'[p] = wal[p]
    <2>1. wal' = [wal EXCEPT ![job.target] = [wal[job.target] EXCEPT !.version = Rebuilt]]
      BY DEF SalvageEnds
    <2>2. [wal[job.target] EXCEPT !.version = Rebuilt] \in Log
      BY <1>q, <1>t DEF Log, Rebuilt
    <2> QED BY <1>q, <1>t, <2>1, <2>2 DEF Log
  <1>d. Held(Content(job.target))' /\ disk'[job.target].state = "sound"
    BY <1>a, <1>b, <1>c, <1>l DEF Held, Content, Exists, EmptyFile, NoFile
  <1>1. TypeOK'
    BY <1>a, <1>c, <1>l DEF TypeOK, Labels, Opened
  <1>2. PathsOK' /\ Recoverable'
    BY <1>a, <1>b, <1>c, <1>d, <1>l, FillingKeeps DEF Rebuilding
  <1>4. FilesOK'
    <2>1. \A p \in Replacements : wal'[p] = NoLog \/ disk'[p].version = Unstarted
      <3>1. EmptyFile.version = Unstarted
        BY DEF EmptyFile, NoFile
      <3> QED BY <3>1, <1>a, <1>b, <1>c, PathFacts DEF FilesOK
    <2>2. Complete(job.source)' = Complete(job.source) /\ Exists(Db)' = Exists(Db)
      BY <1>a, <1>c, <1>q DEF Exists, Complete, Version
    <2>3. disk'[Db].state # "torn" /\ (~Exists(Db)' \/ (disk'[Db].state = "corrupt" /\ job.source = Db))
          /\ (job.source = Replacement(Db) => ~Complete(job.source)')
      BY <1>a, <2>2 DEF FilesOK, Rebuilding
    <2>4. Replacement(Db)' = Replacement(Db)
      BY DEF Replacement
    <2> QED BY <1>a, <1>d, <2>1, <2>3, <2>4 DEF FilesOK, Rebuilding, Quarantining
  <1> QED BY <1>1, <1>2, <1>4

LEMMA CheckpointInv == ASSUME RecoveryInv, Checkpoint PROVE RecoveryInv'
  <1> USE DEF RecoveryInv
  <1>a. /\ pc = "checkpoint" /\ pc' = "remove" /\ job' = job /\ markers' = markers /\ Here' = Here
        /\ UNCHANGED <<bounds, history>> /\ owed' = owed /\ Lost' = Lost
    BY HereUnchanged, HistoryUnchanged DEF Checkpoint
  <1>q. /\ Db \in Paths /\ job.source \in Paths /\ job.target \in Paths
        /\ job.target \notin {Db, Here, job.source}
    BY <1>a, RebuildFacts DEF Rebuilding
  <1>t. disk \in [Paths -> File] /\ wal \in [Paths -> Log] /\ NoLog \in Log
        /\ \A p \in Paths : Content(p) \subseteq Rows
    BY Typed
  <1>b. disk[job.target].state = "sound" /\ Held(Content(job.target))
    BY <1>a DEF FilesOK
  <1> DEFINE file == Checkpointed(job.target)
  <1>f. file \in File /\ file.rows = Content(job.target) /\ file.state = "sound"
    <2>1. disk[job.target] \in File /\ wal[job.target] \in Log /\ Content(job.target) \subseteq Rows
      BY <1>q, <1>t
    <2>2. Version(job.target) \in 0 .. 2
      BY <2>1 DEF Version, File, Log
    <2> QED BY <1>b, <2>1, <2>2 DEF Checkpointed, File
  <1>c. /\ disk' \in [Paths -> File] /\ wal' \in [Paths -> Log]
        /\ disk'[job.target] = file /\ wal'[job.target] = NoLog
        /\ \A p \in Paths \ {job.target} : disk'[p] = disk[p] /\ wal'[p] = wal[p]
    BY <1>f, <1>q, <1>t DEF Checkpoint
  <1>d. Held(Content(job.target))' /\ disk'[job.target].state = "sound" /\ Exists(job.target)'
    BY <1>a, <1>b, <1>c, <1>f DEF Held, Content, Exists
  <1>1. TypeOK'
    BY <1>a, <1>c DEF TypeOK, Labels, Opened, bounds, history
  <1>2. PathsOK' /\ Recoverable'
    BY <1>a, <1>c, <1>d, FillingKeeps DEF Rebuilding
  <1>4. FilesOK'
    <2>0. disk'[Db] = disk[Db] /\ disk'[job.source] = disk[job.source] /\ wal'[job.source] = wal[job.source]
      BY <1>c, <1>q
    <2>1. \A p \in Replacements : wal'[p] = NoLog \/ disk'[p].version = Unstarted
      BY <1>c, PathFacts DEF FilesOK
    <2>2. Complete(job.source)' = Complete(job.source) /\ Exists(Db)' = Exists(Db)
      BY <1>a, <2>0 DEF Exists, Complete, Version
    <2>3. disk'[Db].state # "torn" /\ (~Exists(Db)' \/ (disk'[Db].state = "corrupt" /\ job.source = Db))
          /\ (job.source = Replacement(Db) => ~Complete(job.source)')
      BY <1>a, <2>0, <2>2 DEF FilesOK, Rebuilding
    <2>4. Replacement(Db)' = Replacement(Db)
      BY DEF Replacement
    <2> QED BY <1>a, <1>c, <1>d, <2>1, <2>3, <2>4 DEF FilesOK, Rebuilding, Quarantining
  <1> QED BY <1>1, <1>2, <1>4

LEMMA RemoveOldInv == ASSUME RecoveryInv, RemoveOld PROVE RecoveryInv'
  <1> USE DEF RecoveryInv
  <1>a. /\ pc = "remove" /\ pc' = "install" /\ job' = job /\ markers' = markers /\ Here' = Here
        /\ UNCHANGED <<bounds, history>> /\ owed' = owed /\ Lost' = Lost
    BY HereUnchanged, HistoryUnchanged DEF RemoveOld
  <1>q. /\ Db \in Paths /\ Here \in Paths /\ job.source \in Paths /\ job.target \in Paths /\ markers # {}
        /\ Replacement(Here) \in Paths /\ Replacement(Here) \notin {Db, Here} /\ Here # Replacement(Db)
        /\ job.target \notin {Db, Here, job.source}
        /\ \/ job.source = Here /\ job.target = Replacement(Here)
           \/ Here = Db /\ job.source = Replacement(Db) /\ job.target # Replacement(Db)
        /\ job.source # Db => ~Exists(Db)
        /\ Here # Db => Exists(Here) /\ Held(Content(Here))
        /\ ~Exists(Db) /\ Here = Db => Held(Content(Replacement(Here)))
        /\ job.source = Replacement(Db) => Exists(job.source) /\ wal[job.source] = NoLog
        /\ job.target = Replacement(job.source)
    BY <1>a, RebuildFacts DEF Rebuilding, PathsOK, Recovering
  <1>t. disk \in [Paths -> File] /\ wal \in [Paths -> Log] /\ NoFile \in File /\ NoLog \in Log
    BY Typed
  <1>b. disk[job.target].state = "sound" /\ Held(Content(job.target)) /\ wal[job.target] = NoLog
    BY <1>a DEF FilesOK
  <1>c. /\ disk' \in [Paths -> File] /\ wal' \in [Paths -> Log] /\ disk'[Db] = NoFile
        /\ \A p \in Paths \ {Db} : disk'[p] = disk[p] /\ wal'[p] = wal[p]
    BY <1>q, <1>t DEF RemoveOld, Remove
  <1>d. Replacement(Here)' = Replacement(Here) /\ Replacement(job.source)' = Replacement(job.source)
        /\ Replacement(Db)' = Replacement(Db)
    BY <1>a DEF Replacement
  <1>e. ~Exists(Db)' /\ disk'[Db].state # "torn"
    BY <1>c DEF Exists, NoFile
  <1>f. \A p \in Paths \ {Db} : /\ Exists(p)' = Exists(p) /\ Content(p)' = Content(p)
                               /\ Complete(p)' = Complete(p)
    BY <1>c DEF Exists, Content, Complete, Version
  <1>1. TypeOK'
    BY <1>a, <1>c DEF TypeOK, Labels, Opened, bounds, history
  <1>2. PathsOK'
    BY <1>a, <1>d, <1>q DEF PathsOK, Recovering, Quarantining, Rebuilding
  <1>h. \A rows : Held(rows) => owed' \subseteq rows \cup Lost'
    BY <1>a DEF Held
  <1>i. Content(job.target)' = Content(job.target) /\ Content(Replacement(Here))' = Content(Replacement(Here))
    BY <1>a, <1>d, <1>f, <1>q DEF Content, Exists
  <1>3. Recoverable'
    <2>1. Here # Db => Exists(Here)' /\ Kept(Content(Here))'
      <3>1. Here # Db => Exists(Here)' /\ Content(Here)' = Content(Here)
        BY <1>a, <1>f, <1>q DEF Content, Exists
      <3> QED BY <3>1, <1>h, <1>q DEF Kept
    <2>2. CASE job.source = Here /\ job.target = Replacement(Here)
      <3>1. Kept(Content(Replacement(Here)))'
        BY <2>2, <1>b, <1>h, <1>i DEF Kept
      <3>2. Exists(Replacement(Here))' /\ wal'[Replacement(Here)] = NoLog
        BY <2>2, <1>b, <1>c, <1>d, <1>q DEF Exists
      <3> QED BY <1>a, <1>d, <1>e, <1>q, <2>1, <3>1, <3>2 DEF Recoverable
    <2>3. CASE Here = Db /\ job.source = Replacement(Db) /\ job.target # Replacement(Db)
      <3>1. Kept(Content(Replacement(Here)))'
        BY <2>3, <1>h, <1>i, <1>q DEF Kept
      <3>2. Exists(Replacement(Db))' /\ wal'[Replacement(Db)] = NoLog
        BY <2>3, <1>c, <1>d, <1>f, <1>q
      <3> QED BY <2>3, <1>a, <1>d, <1>e, <1>q, <3>1, <3>2 DEF Recoverable
    <2> QED BY <2>2, <2>3, <1>q
  <1>4. FilesOK'
    <2>1. \A p \in Replacements : wal'[p] = NoLog \/ disk'[p].version = Unstarted
      BY <1>c, PathFacts DEF FilesOK
    <2>2. job.source = Replacement(Db) => ~Complete(job.source)'
      <3>1. job.source = Replacement(Db) => ~Complete(job.source) /\ job.source # Db
        BY <1>a, PathFacts DEF FilesOK, Rebuilding
      <3>2. job.source # Db => Complete(job.source)' = Complete(job.source)
        BY <1>a, <1>c, <1>q DEF Complete, Version
      <3> QED BY <3>1, <3>2
    <2>3. disk'[job.target].state = "sound" /\ Held(Content(job.target))' /\ wal'[job.target] = NoLog
      BY <1>a, <1>b, <1>c, <1>h, <1>i, <1>q DEF Held
    <2> QED BY <1>a, <1>d, <1>e, <2>1, <2>2, <2>3 DEF FilesOK, Rebuilding, Quarantining
  <1> QED BY <1>1, <1>2, <1>3, <1>4

LEMMA InstallInv == ASSUME RecoveryInv, Install PROVE RecoveryInv'
  <1> USE DEF RecoveryInv
  <1>a. /\ pc = "install" /\ pc' = "settle" /\ job' = job /\ markers' = markers /\ Here' = Here
        /\ wal' = wal /\ UNCHANGED <<bounds, history>> /\ owed' = owed /\ Lost' = Lost
    BY HereUnchanged, HistoryUnchanged DEF Install
  <1>q. /\ Db \in Paths /\ Here \in Paths /\ job.target \in Paths /\ markers # {}
        /\ Replacement(Here) \in Paths /\ Replacement(Here) \notin {Db, Here}
        /\ job.target \notin {Db, Here, job.source}
        /\ (job.source = Here /\ job.target = Replacement(Here)) \/ Here = Db
        /\ Here # Db /\ Exists(Here) => Held(Content(Here))
    BY <1>a, RebuildFacts DEF Rebuilding
  <1>t. disk \in [Paths -> File] /\ NoFile \in File
    BY Typed
  <1>b. /\ disk[job.target].state = "sound" /\ wal[job.target] = NoLog
        /\ owed \subseteq Content(job.target) \cup Lost
    BY <1>a DEF FilesOK, Held
  <1>c. /\ disk' \in [Paths -> File] /\ disk'[Db] = disk[job.target] /\ disk'[job.target] = NoFile
        /\ \A p \in Paths \ {Db, job.target} : disk'[p] = disk[p]
    BY <1>q, <1>t DEF Install
  <1>d. Replacement(Here)' = Replacement(Here)
    BY <1>a DEF Replacement
  <1>e. disk'[Db].state = "sound" /\ Exists(Db)' /\ Kept(Content(Db))'
    <2>1. disk'[Db].state = "sound" /\ Exists(Db)'
      BY <1>b, <1>c DEF Exists
    <2>2. Content(job.target) \subseteq disk'[Db].rows \cup wal'[Db].rows
      BY <1>b, <1>c DEF Content, NoLog
    <2> QED BY <1>a, <1>b, <2>1, <2>2 DEF Kept, Content
  <1>1. TypeOK'
    BY <1>a, <1>c, <1>e DEF TypeOK, Labels, Opened, bounds, history
  <1>2. PathsOK'
    BY <1>a, <1>q DEF PathsOK, Recovering, Quarantining, Rebuilding
  <1>3. Recoverable'
    <2>1. Here # Db => disk'[Here] = disk[Here]
      BY <1>c, <1>q
    <2>2. Here # Db /\ Exists(Here)' => Kept(Content(Here))'
      BY <1>a, <1>q, <2>1 DEF Kept, Held, Content, Exists
    <2>3. Here # Db => ~Exists(Replacement(Here))'
      BY <1>c, <1>d, <1>q DEF Exists, NoFile
    <2> QED BY <1>a, <1>d, <1>e, <1>q, <2>2, <2>3 DEF Recoverable
  <1>4. FilesOK'
    <2>1. \A p \in Replacements : wal'[p] = NoLog \/ disk'[p].version = Unstarted
      <3>1. NoFile.version = Unstarted
        BY DEF NoFile
      <3> QED BY <3>1, <1>a, <1>c, PathFacts DEF FilesOK
    <2> QED BY <1>a, <1>e, <2>1 DEF FilesOK, Rebuilding, Quarantining
  <1> QED BY <1>1, <1>2, <1>3, <1>4

LEMMA SettleInv == ASSUME RecoveryInv, Settle PROVE RecoveryInv'
  <1> USE DEF RecoveryInv
  <1>a. /\ pc = "settle" /\ pc' = "adopt" /\ job' = job /\ markers' = markers \ {NewestMarker}
        /\ disk' = disk /\ wal' = wal /\ UNCHANGED <<bounds, history>> /\ owed' = owed /\ Lost' = Lost
    BY HistoryUnchanged DEF Settle
  <1>b. markers # {} /\ markers' = {}
    BY <1>a, MarkerFacts DEF PathsOK, Recovering
  <1>c. disk[Db].state = "sound" /\ Kept(Content(Db))
    BY <1>a, <1>b DEF FilesOK, Recoverable, Exists
  <1>1. TypeOK'
    BY <1>a, <1>b, <1>c DEF TypeOK, Labels, Opened, bounds, history
  <1>2. PathsOK'
    BY <1>a DEF PathsOK, Recovering, Quarantining, Rebuilding
  <1>3. Recoverable'
    BY <1>a, <1>b, <1>c, NothingExposed DEF Recoverable, Kept, Content, Exists
  <1>4. FilesOK'
    BY <1>a DEF FilesOK, Rebuilding, Quarantining
  <1> QED BY <1>1, <1>2, <1>3, <1>4

-----------------------------------------------------------------------------
(* The open database.                                                       *)

\* Once the database is open, whatever is done to it leaves it sound and whole.
LEMMA OpenedKeeps ==
  ASSUME RecoveryInv, Opened, pc' \in {"adopt", "adopted", "ready", "closed"},
         UNCHANGED <<markers, job, bounds>>,
         disk' \in [Paths -> File], wal' \in [Paths -> Log], disk'[Db].state = "sound",
         \A p \in Paths \ {Db} : disk'[p] = disk[p] /\ wal'[p] = wal[p],
         owed' \subseteq Rows, lost' \in [Windows -> SUBSET Rows], Held(Content(Db))'
  PROVE  RecoveryInv'
  <1> USE DEF RecoveryInv
  <1>a. markers = {} /\ markers' = {}
    BY DEF TypeOK
  <1>1. TypeOK'
    BY <1>a DEF TypeOK, Labels, Opened, bounds
  <1>2. PathsOK'
    BY DEF PathsOK, Recovering, Quarantining, Rebuilding
  <1>3. Recoverable'
    BY <1>a DEF Recoverable, Kept, Held
  <1>4. FilesOK'
    <2>1. \A p \in Replacements : wal'[p] = NoLog \/ disk'[p].version = Unstarted
      BY PathFacts DEF FilesOK
    <2> QED BY <2>1 DEF FilesOK, Rebuilding, Quarantining
  <1> QED BY <1>1, <1>2, <1>3, <1>4

LEMMA OpenedHolds ==
  ASSUME RecoveryInv, Opened
  PROVE  /\ disk[Db].state = "sound" /\ Exists(Db) /\ owed \subseteq Content(Db) \cup Lost
         /\ disk \in [Paths -> File] /\ wal \in [Paths -> Log] /\ NoLog \in Log /\ Db \in Paths
         /\ Content(Db) \subseteq Rows /\ Content(Db) = disk[Db].rows \cup wal[Db].rows
         /\ owed \subseteq Rows /\ lost \in [Windows -> SUBSET Rows]
  <1>1. Db \in Paths
    BY PathFacts
  <1>2. disk[Db].state = "sound" /\ markers = {}
    BY DEF RecoveryInv, TypeOK
  <1>3. Kept(Content(Db)) /\ ExposedLog = {} /\ ExposedTorn = {}
    BY <1>2, NothingExposed DEF RecoveryInv, Recoverable, Opened
  <1> QED BY <1>1, <1>2, <1>3, Typed DEF Kept, RecoveryInv, Exists, Content

LEMMA SkipAdoptionInv == ASSUME RecoveryInv, SkipAdoption PROVE RecoveryInv'
  <1>1. /\ Opened /\ pc' = "ready" /\ disk' = disk /\ wal' = wal /\ owed' = owed /\ lost' = lost
        /\ UNCHANGED <<markers, job, bounds>>
    BY DEF SkipAdoption, Opened, storage, history
  <1>2. Held(Content(Db))'
    BY <1>1, OpenedHolds DEF Held, Content, Exists, Lost
  <1> QED BY <1>1, <1>2, OpenedHolds, OpenedKeeps

LEMMA AdoptInv == ASSUME RecoveryInv, Adopt PROVE RecoveryInv'
  <1>1. /\ Opened /\ pc' = "adopted" /\ disk' = disk /\ owed' = owed /\ lost' = lost
        /\ UNCHANGED <<markers, job, bounds>>
    BY DEF Adopt, Opened, history
  <1>2. wal' \in [Paths -> Log] /\ wal[Db].rows \subseteq wal'[Db].rows
        /\ \A p \in Paths \ {Db} : wal'[p] = wal[p]
    <2> DEFINE log == [wal[Db] EXCEPT !.rows = @ \cup (LegacyRows \ Content(Db))]
    <2>1. log \in Log /\ wal[Db].rows \subseteq log.rows
      BY <1>1, OpenedHolds, RowsAssumption DEF Log
    <2>2. wal' = [wal EXCEPT ![Db] = log]
      BY DEF Adopt
    <2> QED BY <1>1, <2>1, <2>2, OpenedHolds
  <1>3. Held(Content(Db))'
    BY <1>1, <1>2, OpenedHolds DEF Held, Content, Exists, Lost
  <1> QED BY <1>1, <1>2, <1>3, OpenedHolds, OpenedKeeps

LEMMA MarkAdoptedInv == ASSUME RecoveryInv, MarkAdopted PROVE RecoveryInv'
  <1>1. /\ Opened /\ pc' = "ready" /\ disk' = disk /\ owed' = owed /\ lost' = lost
        /\ UNCHANGED <<markers, job, bounds>>
    BY DEF MarkAdopted, Opened, history
  <1>2. wal' \in [Paths -> Log] /\ wal[Db].rows \subseteq wal'[Db].rows
        /\ \A p \in Paths \ {Db} : wal'[p] = wal[p]
    <2> DEFINE log == [wal[Db] EXCEPT !.version = Adopted]
    <2>1. log \in Log /\ log.rows = wal[Db].rows
      BY <1>1, OpenedHolds DEF Log, Adopted
    <2>2. wal' = [wal EXCEPT ![Db] = log]
      BY DEF MarkAdopted
    <2> QED BY <1>1, <2>1, <2>2, OpenedHolds
  <1>3. Held(Content(Db))'
    BY <1>1, <1>2, OpenedHolds DEF Held, Content, Exists, Lost
  <1> QED BY <1>1, <1>2, <1>3, OpenedHolds, OpenedKeeps

LEMMA WriteInv == ASSUME RecoveryInv, NEW r \in Rows, Write(r) PROVE RecoveryInv'
  <1>1. /\ Opened /\ pc' = "ready" /\ disk' = disk /\ owed' = owed \cup {r}
        /\ lost' = [w \in Windows |-> lost[w] \ {r}] /\ UNCHANGED <<markers, job, bounds>>
    BY DEF Write, Opened
  <1>2. wal' \in [Paths -> Log] /\ wal'[Db].rows = wal[Db].rows \cup ({r} \ Content(Db))
        /\ \A p \in Paths \ {Db} : wal'[p] = wal[p]
    <2> DEFINE log == [wal[Db] EXCEPT !.rows = @ \cup ({r} \ Content(Db))]
    <2>1. log \in Log /\ log.rows = wal[Db].rows \cup ({r} \ Content(Db))
      BY <1>1, OpenedHolds DEF Log
    <2>2. wal' = [wal EXCEPT ![Db] = log]
      BY DEF Write
    <2> QED BY <1>1, <2>1, <2>2, OpenedHolds
  <1>3. Lost' = Lost \ {r}
    BY <1>1 DEF Lost
  <1>4. Content(Db)' = Content(Db) \cup {r}
    BY <1>1, <1>2, OpenedHolds DEF Content, Exists
  <1>5. Held(Content(Db))'
    BY <1>1, <1>3, <1>4, OpenedHolds DEF Held
  <1>6. owed' \subseteq Rows /\ lost' \in [Windows -> SUBSET Rows]
    BY <1>1, OpenedHolds
  <1> QED BY <1>1, <1>2, <1>5, <1>6, OpenedHolds, OpenedKeeps

LEMMA FoldLogInv == ASSUME RecoveryInv, NEW closed \in BOOLEAN, FoldLog(closed) PROVE RecoveryInv'
  <1>1. /\ Opened /\ pc' \in {"ready", "closed"} /\ owed' = owed /\ lost' = lost
        /\ UNCHANGED <<markers, job, bounds>>
    BY DEF FoldLog, Opened, history
  <1> DEFINE file == Checkpointed(Db)
  <1>2. file \in File /\ file.rows = Content(Db) /\ file.state = "sound"
    <2>1. disk[Db] \in File /\ wal[Db] \in Log /\ Content(Db) \subseteq Rows /\ disk[Db].state = "sound"
      BY <1>1, OpenedHolds
    <2>2. Version(Db) \in 0 .. 2
      BY <2>1 DEF Version, File, Log
    <2> QED BY <2>1, <2>2 DEF Checkpointed, File
  <1>3. /\ disk' \in [Paths -> File] /\ wal' \in [Paths -> Log] /\ disk'[Db] = file
        /\ \A p \in Paths \ {Db} : disk'[p] = disk[p] /\ wal'[p] = wal[p]
    BY <1>1, <1>2, OpenedHolds DEF FoldLog
  <1>4. Held(Content(Db))'
    BY <1>1, <1>2, <1>3, OpenedHolds DEF Held, Content, Exists, Lost
  <1> QED BY <1>1, <1>2, <1>3, <1>4, OpenedHolds, OpenedKeeps

-----------------------------------------------------------------------------
(* Crashes and decay.                                                       *)

LEMMA CrashInv == ASSUME RecoveryInv, Crash PROVE RecoveryInv'
  <1> USE DEF RecoveryInv
  <1>a. /\ pc' = "closed" /\ job' = Idle /\ markers' = markers /\ Here' = Here
        /\ disk' = disk /\ wal' = wal /\ UNCHANGED <<rots, faults>> /\ owed' = owed
        /\ crashes < MaxCrashes /\ crashes' = crashes + 1
        /\ lost' = [lost EXCEPT !.log = @ \cup ExposedLog, !.torn = @ \cup ExposedTorn]
    BY HereUnchanged DEF Crash, storage
  <1>t. disk \in [Paths -> File] /\ wal \in [Paths -> Log] /\ lost \in [Windows -> SUBSET Rows]
        /\ (\A p \in Paths : Content(p) \subseteq Rows) /\ Db \in Paths
    BY Typed, PathFacts
  <1>l. Lost' = Lost \cup ExposedLog \cup ExposedTorn /\ lost' \in [Windows -> SUBSET Rows]
    <2>1. ExposedLog \subseteq Rows /\ ExposedTorn \subseteq Rows
      BY <1>t DEF ExposedLog, ExposedTorn, Log
    <2>2. /\ lost'["log"] = lost["log"] \cup ExposedLog /\ lost'["torn"] = lost["torn"] \cup ExposedTorn
          /\ lost'["sidecar"] = lost["sidecar"] /\ lost'["skipped"] = lost["skipped"]
      BY <1>a, <1>t DEF Windows
    <2>3. Lost = lost["sidecar"] \cup lost["log"] \cup lost["torn"] \cup lost["skipped"]
      BY DEF Lost, Windows
    <2>4. Lost' = lost'["sidecar"] \cup lost'["log"] \cup lost'["torn"] \cup lost'["skipped"]
      BY DEF Lost, Windows
    <2>5. lost' \in [Windows -> SUBSET Rows]
      BY <1>a, <1>t, <2>1
    <2> QED BY <2>2, <2>3, <2>4, <2>5
  <1>k. \A rows : Kept(rows) <=> owed \subseteq rows \cup Lost'
    BY <1>l DEF Kept
  <1>d. Replacement(Here)' = Replacement(Here)
    BY <1>a DEF Replacement
  <1>1. TypeOK'
    <2>1. rots' \in 0 .. MaxRots /\ faults' \in 0 .. MaxFaults /\ crashes' \in 0 .. MaxCrashes
      BY <1>a, BoundsAssumption DEF TypeOK
    <2>2. job' \in [source: Paths, target: Replacements, resumed: BOOLEAN, retried: BOOLEAN]
      <3>1. Db \in Paths /\ Replacement(Db) \in Replacements
        BY PathFacts
      <3>2. job' = [source |-> Db, target |-> Replacement(Db), resumed |-> FALSE, retried |-> FALSE]
        BY <1>a DEF Idle
      <3> QED BY <3>1, <3>2
    <2> QED BY <1>a, <1>l, <2>1, <2>2 DEF TypeOK, Labels, Opened
  <1>2. PathsOK'
    BY <1>a DEF PathsOK, Recovering, Quarantining, Rebuilding
  <1>3. Recoverable'
    <2>1. \A p : Exists(p)' = Exists(p) /\ Content(p)' = Content(p) /\ Complete(p)' = Complete(p)
      BY <1>a DEF Exists, Content, Complete, Version
    <2>2. \A p : Kept(Content(p)) => Kept(Content(p))'
      <3>1. \A p : Content(p)' = Content(p)
        BY <2>1
      <3>2. \A p : Kept(Content(p)) => owed' \subseteq Content(p) \cup Lost'
        BY <1>a, <1>k
      <3> QED BY <3>1, <3>2 DEF Kept, Content, Exists
    <2>3. Kept(Content(Db)) => Kept(Content(Db))'
      BY <2>2
    <2>4. Kept(Content(Here)) => Kept(Content(Here))'
      BY <2>2, <1>a DEF Kept, Content, Exists
    <2>5. Kept(Content(Replacement(Here))) => Kept(Content(Replacement(Here)))'
      BY <2>2, <1>d DEF Kept, Content, Exists
    <2> QED BY <1>a, <1>d, <2>3, <2>4, <2>5 DEF Recoverable, Exists, Complete, Version
  <1>4. FilesOK'
    BY <1>a DEF FilesOK, Rebuilding, Quarantining
  <1> QED BY <1>1, <1>2, <1>3, <1>4

\* A file decays while the database is closed: what could still be read elsewhere
\* stays owed.
LEMMA RotInv ==
  ASSUME RecoveryInv, NEW p \in Paths, NEW part \in SUBSET Rows, Rot(p, part)
  PROVE  RecoveryInv'
  <1> USE DEF RecoveryInv
  <1> DEFINE file == [disk[p] EXCEPT !.rows = part, !.state = "corrupt"]
             gone == disk[p].rows \ (part \cup wal[p].rows \cup Backup(p))
  <1>a. /\ pc = "closed" /\ pc' = pc /\ job' = job /\ markers' = markers /\ Here' = Here
        /\ wal' = wal /\ UNCHANGED <<faults, crashes>> /\ lost' = lost /\ Lost' = Lost
        /\ rots < MaxRots /\ rots' = rots + 1 /\ disk' = [disk EXCEPT ![p] = file]
        /\ owed' = owed \ gone /\ Exists(p) /\ p \in {Db} \cup ActiveReplacement
        /\ part \subseteq disk[p].rows
    BY HereUnchanged DEF Rot, Lost
  <1>t. disk \in [Paths -> File] /\ wal \in [Paths -> Log]
    BY Typed
  <1>c. /\ disk' \in [Paths -> File] /\ disk'[p] = file
        /\ file.state = "corrupt" /\ file.rows = part /\ file.version = disk[p].version
        /\ \A q \in Paths \ {p} : disk'[q] = disk[q]
    <2>1. file \in File /\ file.state = "corrupt" /\ file.rows = part /\ file.version = disk[p].version
      BY <1>t DEF File
    <2> QED BY <1>a, <1>t, <2>1
  <1>d. Replacement(Here)' = Replacement(Here) /\ Replacement(Db)' = Replacement(Db)
    BY <1>a DEF Replacement
  <1>e. \A q \in Paths : /\ Exists(q)' = Exists(q)
                         /\ q # p => Content(q)' = Content(q) /\ Complete(q)' = Complete(q)
    BY <1>a, <1>c DEF Exists, Content, Complete, Version
  <1>f. Content(p)' = part \cup wal[p].rows /\ ~Complete(p)' /\ Content(p) = disk[p].rows \cup wal[p].rows
    BY <1>a, <1>c DEF Exists, Content, Complete
  <1>g. \A rows : Kept(rows) <=> owed \subseteq rows \cup Lost
    BY <1>a, NothingExposed DEF Kept
  <1>h. \A rows : (owed \ gone) \subseteq rows \cup Lost => owed' \subseteq rows \cup Lost'
    BY <1>a
  <1>1. TypeOK'
    <2>1. rots' \in 0 .. MaxRots /\ faults' \in 0 .. MaxFaults /\ crashes' \in 0 .. MaxCrashes
      BY <1>a, BoundsAssumption DEF TypeOK
    <2>2. owed' \subseteq Rows
      BY <1>a DEF TypeOK
    <2> QED BY <1>a, <1>c, <2>1, <2>2 DEF TypeOK, Labels, Opened
  <1>2. PathsOK'
    BY <1>a DEF PathsOK, Recovering, Quarantining, Rebuilding
  <1>4. FilesOK'
    <2>0. Db \in Paths
      BY PathFacts
    <2>1. \A q \in Replacements : wal'[q] = NoLog \/ disk'[q].version = Unstarted
      BY <1>a, <1>c, PathFacts DEF FilesOK
    <2>2. disk'[Db].state # "torn"
      BY <1>c, <2>0 DEF FilesOK
    <2> QED BY <1>a, <2>1, <2>2 DEF FilesOK, Rebuilding, Quarantining
  <1>5. CASE markers = {}
    <2>1. p = Db /\ Backup(p) = {}
      BY <1>5, <1>a DEF ActiveReplacement, Backup
    <2>2. owed \subseteq disk[Db].rows \cup wal[Db].rows \cup Lost
      BY <1>5, <1>f, <1>g, <2>1 DEF Recoverable
    <2>3. Kept(Content(Db))'
      BY <1>a, <1>f, <2>1, <2>2 DEF Kept
    <2> QED BY <1>1, <1>2, <1>4, <1>5, <1>a, <2>3 DEF Recoverable
  <1>6. CASE markers # {}
    <2>q. /\ Db \in Paths /\ Here \in Paths /\ Here \in {Db} \cup Quarantines
          /\ Replacement(Here) \in Paths /\ Replacement(Here) \notin {Db, Here}
      BY <1>6, MarkerFacts, PathFacts
    <2>b. Backup(p) = IF p = Db THEN (IF Here = Db THEN {} ELSE Content(Here))
                      ELSE Content(Here) \cup Content(Db)
      BY <1>6 DEF Backup, Here
    <2>r. /\ Here # Db /\ Exists(Here) => owed \subseteq Content(Here) \cup Lost
          /\ Exists(Db) /\ (disk[Db].state = "sound" \/ Here = Db \/ ~Exists(Here))
               => owed \subseteq Content(Db) \cup Lost
          /\ ~Exists(Db) /\ (Here = Db \/ Complete(Replacement(Here)))
               => owed \subseteq Content(Replacement(Here)) \cup Lost
          /\ IF Here # Db
             THEN IF Exists(Db) THEN ~Exists(Replacement(Here)) ELSE Exists(Here)
             ELSE Exists(Db) \/ (Exists(Replacement(Db)) /\ wal[Replacement(Db)] = NoLog)
      BY <1>6, <1>g DEF Recoverable
    <2>4. CASE p = Db
      <3>1. Here # Db /\ Exists(Here)' => Kept(Content(Here))'
        BY <2>4, <1>a, <1>e, <2>q, <2>r DEF Kept, Content, Exists
      <3>2. Here = Db \/ ~Exists(Here) => Kept(Content(Db))'
        <4>1. ASSUME Here = Db \/ ~Exists(Here) PROVE Backup(p) = {}
          BY <4>1, <2>4, <2>b DEF Content
        <4>2. ASSUME Here = Db \/ ~Exists(Here) PROVE Kept(Content(Db))'
          BY <4>1, <4>2, <2>4, <1>a, <1>f, <2>r DEF Kept
        <4> QED BY <4>2
      <3>3. disk'[Db].state # "sound" /\ Exists(Db)' /\ Exists(Here)' = Exists(Here)
            /\ (Exists(Replacement(Here))' <=> Exists(Replacement(Here)))
        BY <2>4, <1>a, <1>c, <1>d, <1>e, <2>q DEF Exists
      <3>4. Recoverable'
        BY <1>6, <2>4, <1>a, <1>d, <2>q, <2>r, <3>1, <3>2, <3>3 DEF Recoverable
      <3> QED BY <1>1, <1>2, <1>4, <3>4
    <2>5. CASE p # Db
      <3>0. p = Replacement(Here)
        BY <2>5, <1>a DEF ActiveReplacement, Here
      <3>1. Exists(Db)' = Exists(Db) /\ disk'[Db] = disk[Db] /\ Content(Db)' = Content(Db)
            /\ Exists(Here)' = Exists(Here) /\ Content(Here)' = Content(Here) /\ Exists(p)' = Exists(p)
        BY <2>5, <3>0, <1>a, <1>c, <1>e, <2>q DEF Exists, Content
      <3>2. ~Complete(Replacement(Here))' /\ Exists(Replacement(Here))'
        BY <3>0, <1>a, <1>d, <1>f, <3>1 DEF Complete, Exists
      <3>3. Here = Db /\ ~Exists(Db) => Kept(Content(Replacement(Here)))'
        <4>1. ASSUME Here = Db, ~Exists(Db) PROVE Backup(p) = {}
          BY <4>1, <2>5, <2>b DEF Content
        <4>2. ASSUME Here = Db, ~Exists(Db) PROVE owed' \subseteq Content(p)' \cup Lost'
          BY <4>1, <4>2, <3>0, <1>a, <1>f, <2>r
        <4> QED BY <4>2, <3>0, <1>a, <1>d DEF Kept, Content, Exists
      <3>4. \A rows : owed \subseteq rows \cup Lost => (owed' \subseteq rows \cup Lost')
        BY <1>a
      <3>5. /\ Here # Db /\ Exists(Here)' => Kept(Content(Here))'
            /\ Exists(Db)' /\ (disk'[Db].state = "sound" \/ Here = Db \/ ~Exists(Here)) => Kept(Content(Db))'
        BY <2>r, <3>1, <3>4 DEF Kept
      <3>6. Recoverable'
        BY <1>6, <1>a, <1>d, <2>5, <2>q, <2>r, <3>0, <3>1, <3>2, <3>3, <3>5 DEF Recoverable
      <3> QED BY <1>1, <1>2, <1>4, <3>6
    <2> QED BY <2>4, <2>5
  <1> QED BY <1>5, <1>6

-----------------------------------------------------------------------------
(* The invariant, and what follows from it.                                 *)

LEMMA NextInv == ASSUME RecoveryInv, [Next]_vars PROVE RecoveryInv'
  <1>1. CASE UNCHANGED vars
    <2>a. /\ disk' = disk /\ wal' = wal /\ markers' = markers /\ pc' = pc /\ job' = job /\ owed' = owed
          /\ Here' = Here /\ Lost' = Lost /\ lost' = lost /\ UNCHANGED bounds
      BY <1>1, HereUnchanged, HistoryUnchanged DEF vars, storage, history
    <2>b. ExposedLog' = ExposedLog /\ ExposedTorn' = ExposedTorn
      BY <2>a DEF ExposedLog, ExposedTorn, Content, Exists, Here
    <2>1. TypeOK'
      BY <2>a DEF RecoveryInv, TypeOK, Opened, bounds
    <2>2. PathsOK'
      BY <2>a DEF RecoveryInv, PathsOK, Exists, Replacement
    <2>3. Recoverable'
      BY <2>a, <2>b DEF RecoveryInv, Recoverable, Kept, Content, Exists, Complete, Version, Replacement
    <2>4. FilesOK'
      <3>1. /\ Exists(Db)' = Exists(Db) /\ Exists(Here)' = Exists(Here)
            /\ Exists(job.source)' = Exists(job.source)
            /\ Exists(Replacement(Here))' = Exists(Replacement(Here))
            /\ Complete(job.source)' = Complete(job.source) /\ Replacement(Db)' = Replacement(Db)
        BY <2>a DEF Exists, Complete, Version, Replacement
      <3>2. /\ Held(Content(Db))' = Held(Content(Db))
            /\ Held(Content(job.source))' = Held(Content(job.source))
            /\ Held(Content(job.target))' = Held(Content(job.target))
            /\ Held(disk[Here].rows \cup wal[Db].rows)' = Held(disk[Here].rows \cup wal[Db].rows)
        BY <2>a DEF Held, Content, Exists
      <3>3. disk' = disk /\ wal' = wal /\ pc' = pc /\ job' = job /\ Here' = Here
        BY <2>a
      <3>4. FilesOK
        BY DEF RecoveryInv
      <3> DEFINE A ==
           /\ disk[Db].state # "torn"
           /\ \A p \in Replacements : wal[p] = NoLog \/ disk[p].version = Unstarted
           /\ pc \in Quarantining \cup {"mark"} /\ job.resumed /\ Exists(Db) => disk[Db].state = "corrupt"
           /\ pc \in Quarantining \cup {"mark"} => ~Exists(Replacement(Here))
      <3> DEFINE B ==
           /\ pc = "quarantine" => Exists(Db) /\ ~Exists(Here)
           /\ pc = "move log" =>
                /\ ~Exists(Db) /\ Exists(Here) /\ wal[Here] = NoLog
                /\ Held(disk[Here].rows \cup wal[Db].rows)
           /\ pc = "copying" =>
                Exists(Db) /\ disk[Here].state = "torn" /\ wal[Here] = NoLog /\ Held(Content(Db))
           /\ pc = "copy log" =>
                Exists(Db) /\ disk[Here] = disk[Db] /\ wal[Here] = NoLog /\ Held(Content(Db))
      <3> DEFINE C ==
           /\ pc = "drop source" => Exists(Db) /\ Exists(Here)
           /\ pc = "mark" => IF job.source = Db THEN Exists(Db) /\ Held(Content(Db)) ELSE ~Exists(Db)
           /\ pc \in Rebuilding =>
                /\ ~Exists(Db) \/ (pc # "install" /\ disk[Db].state = "corrupt" /\ job.source = Db)
                /\ job.source = Replacement(Db) => ~Complete(job.source)
      <3> DEFINE D ==
           /\ pc \in {"rebuild", "salvage"} => Held(Content(job.source)) /\ Exists(job.source)
           /\ pc = "salvage" => disk[job.target] = EmptyFile /\ wal[job.target].version = Unstarted
           /\ pc \in {"checkpoint", "remove", "install"} =>
                disk[job.target].state = "sound" /\ Held(Content(job.target))
           /\ pc \in {"remove", "install"} => wal[job.target] = NoLog
           /\ pc = "settle" => disk[Db].state = "sound"
      <3>5. A'
        BY <3>1, <3>2, <3>3, <3>4 DEF FilesOK
      <3>6. B'
        BY <3>1, <3>2, <3>3, <3>4 DEF FilesOK
      <3>7. C'
        BY <3>1, <3>2, <3>3, <3>4 DEF FilesOK
      <3>8. D'
        BY <3>1, <3>2, <3>3, <3>4 DEF FilesOK
      <3> QED BY <3>5, <3>6, <3>7, <3>8 DEF FilesOK
    <2> QED BY <2>1, <2>2, <2>3, <2>4 DEF RecoveryInv
  <1>2. CASE Progress
    <2>1. CASE \E done \in BOOLEAN : MoveLog(done) \/ CopyLog(done)
      BY <2>1, MoveLogInv, CopyLogInv
    <2>2. CASE \E r \in Rows : SalvageRow(r)
      BY <2>2, SalvageRowInv
    <2>3. CASE Open \/ ProbeHealthy \/ ProbeCorrupt
      BY <2>3, OpenInv, ProbeHealthyInv, ProbeCorruptInv
    <2>4. CASE MoveMain \/ CopyEnds \/ CopyFails \/ DropSource \/ Mark
      BY <2>4, MoveMainInv, CopyEndsInv, CopyFailsInv, DropSourceInv, MarkInv
    <2>5. CASE FinishInstalls \/ FinishRebuilds \/ FinishHealthy \/ FinishCorrupt
      BY <2>5, FinishInstallsInv, FinishRebuildsInv, FinishHealthyInv, FinishCorruptInv
    <2>6. CASE Rebuild \/ SalvageEnds \/ Checkpoint \/ RemoveOld \/ Install \/ Settle
      BY <2>6, RebuildInv, SalvageEndsInv, CheckpointInv, RemoveOldInv, InstallInv, SettleInv
    <2> QED BY <1>2, <2>1, <2>2, <2>3, <2>4, <2>5, <2>6 DEF Progress
  <1>3. CASE Use
    BY <1>3, SkipAdoptionInv, AdoptInv, MarkAdoptedInv, WriteInv, FoldLogInv DEF Use
  <1>4. CASE Trouble
    <2>1. CASE \E part \in SUBSET Rows : CopyMain(part) \/ \E p \in Paths : Rot(p, part)
      BY <2>1, CopyMainInv, RotInv
    <2>2. CASE ProbeFails \/ FinishFails \/ SalvageFails \/ Crash
      BY <2>2, ProbeFailsInv, FinishFailsInv, SalvageFailsInv, CrashInv
    <2> QED BY <1>4, <2>1, <2>2 DEF Trouble
  <1> QED BY <1>1, <1>2, <1>3, <1>4 DEF Next

\* The inductive invariant of the recovery: what the next opening will find is
\* enough, at every step of the worker.
THEOREM RecoveryInvariant == Spec => []RecoveryInv
  <1>1. Init => RecoveryInv
    BY InitInv
  <1>2. RecoveryInv /\ [Next]_vars => RecoveryInv'
    BY NextInv
  <1> QED BY <1>1, <1>2, PTL DEF Spec

\* One recovery is under way at a time and the open database is sound.
THEOREM BlobTypeCorrect == Spec => []TypeOK
  <1>1. RecoveryInv => TypeOK
    BY DEF RecoveryInv
  <1> QED BY <1>1, RecoveryInvariant, PTL

\* The database that opening returns lacks no owed row but those given up in the
\* four windows of the code, whatever crashes, errors and corruptions came before.
THEOREM OpenedIsWhole == Spec => []NothingElseIsLost
  <1>1. RecoveryInv => NothingElseIsLost
    BY OpenedHolds DEF NothingElseIsLost, Lost
  <1> QED BY <1>1, RecoveryInvariant, PTL

-----------------------------------------------------------------------------
(***************************************************************************)
(* What is good is never overwritten, and what is said to hold the legacy  *)
(* blobs holds them.  Both rest on the invariant of the recovery.          *)
(***************************************************************************)
\* A sound database is quarantined only after an error.
Unharmed == pc \in Quarantining => disk[Db].state # "sound" \/ faults > 0

\* Only the database is ever marked adopted, and only when it is whole.
AdoptionInv ==
  /\ \A p \in Replacements : disk[p].version # Adopted /\ wal[p].version # Adopted
  /\ disk[Db].state = "sound" /\ disk[Db].version = Adopted => LegacyRows \subseteq disk[Db].rows
  /\ disk[Db].state = "sound" /\ wal[Db].version = Adopted => LegacyRows \subseteq Content(Db)
  /\ pc = "adopted" => LegacyRows \subseteq Content(Db)
  /\ pc = "install" => wal[Db] = NoLog

StoreInv == RecoveryInv /\ Unharmed /\ AdoptionInv

\* The body of GoodFilesAreKept.
KeepsGood ==
  /\ \A q \in Quarantines :
       disk[q].state \in {"sound", "corrupt"} => disk'[q] = disk[q]
  /\ disk[Db].state = "sound" /\ faults = 0 /\ rots' = rots =>
       disk'[Db].state = "sound" /\ disk[Db].rows \subseteq disk'[Db].rows

\* What a step owes, besides the invariant of the recovery.
StepOK == Unharmed' /\ AdoptionInv' /\ KeepsGood

-----------------------------------------------------------------------------
LEMMA StoreFacts ==
  ASSUME StoreInv
  PROVE  /\ disk \in [Paths -> File] /\ wal \in [Paths -> Log]
         /\ Db \in Paths /\ Db \notin Quarantines /\ Db \notin Replacements
         /\ Quarantines \subseteq Paths /\ Replacements \subseteq Paths
         /\ Quarantines \cap Replacements = {}
         /\ faults \in Nat /\ NoLog.version # Adopted /\ NoFile.version # Adopted
         /\ NoFile.state = "none" /\ Unharmed /\ AdoptionInv
  BY PathFacts, BoundsAssumption
     DEF StoreInv, RecoveryInv, TypeOK, NoLog, NoFile, Unstarted, Adopted

\* A step that leaves the database and the quarantined files alone.
LEMMA AwayFromDb ==
  ASSUME StoreInv, disk'[Db] = disk[Db], wal'[Db] = wal[Db],
         \A q \in Quarantines : disk[q].state \in {"sound", "corrupt"} => disk'[q] = disk[q],
         \A p \in Replacements : disk'[p].version # Adopted /\ wal'[p].version # Adopted,
         pc' \in {"adopted", "install"} => pc' = pc,
         pc' \in Quarantining => pc \in Quarantining /\ faults' = faults
  PROVE  StepOK
  <1>1. Content(Db)' = Content(Db)
    BY DEF Content, Exists
  <1>2. AdoptionInv'
    BY <1>1 DEF StoreInv, AdoptionInv
  <1>3. Unharmed'
    BY DEF StoreInv, Unharmed
  <1> QED BY <1>2, <1>3 DEF StepOK, KeepsGood

\* A step that removes a database that is not sound, or whose errors are known.
LEMMA WithoutDb ==
  ASSUME StoreInv, disk'[Db] = NoFile, disk[Db].state # "sound" \/ faults > 0,
         \A q \in Quarantines : disk[q].state \in {"sound", "corrupt"} => disk'[q] = disk[q],
         \A p \in Replacements : disk'[p].version # Adopted /\ wal'[p].version # Adopted,
         pc' # "adopted", pc' = "install" => wal'[Db] = NoLog
  PROVE  StepOK
  <1>1. AdoptionInv' /\ Unharmed'
    BY StoreFacts DEF AdoptionInv, Unharmed
  <1>2. disk[Db].state = "sound" => faults # 0
    BY StoreFacts
  <1> QED BY <1>1, <1>2 DEF StepOK, KeepsGood

-----------------------------------------------------------------------------
LEMMA FilesUntouched ==
  ASSUME StoreInv, disk' = disk, wal' = wal,
         \/ CopyFails \/ Mark \/ FinishInstalls \/ FinishRebuilds \/ Settle \/ SkipAdoption \/ Crash
         \/ UNCHANGED vars
  PROVE  StepOK
  <1>1. /\ pc' \in {"adopted", "install"} => pc' = pc
        /\ pc' \in Quarantining => pc \in Quarantining /\ faults' = faults
    BY DEF CopyFails, Mark, FinishInstalls, FinishRebuilds, Settle, SkipAdoption, Crash, vars, bounds,
           Quarantining
  <1> QED BY <1>1, AwayFromDb, StoreFacts DEF AdoptionInv

LEMMA OpenStep == ASSUME StoreInv, Open PROVE StepOK
  <1>1. /\ \A p \in Paths : \/ disk'[p] = disk[p] /\ wal'[p] = wal[p]
                            \/ p \in Replacements /\ disk'[p] = NoFile /\ wal'[p] = NoLog
        /\ pc' \in {"probe", "finish"}
    BY DEF Open, Remove
  <1>2. disk'[Db] = disk[Db] /\ wal'[Db] = wal[Db] /\ \A q \in Quarantines : disk'[q] = disk[q]
    BY <1>1, StoreFacts
  <1>3. \A p \in Replacements : disk'[p].version # Adopted /\ wal'[p].version # Adopted
    BY <1>1, StoreFacts DEF AdoptionInv
  <1> QED BY <1>1, <1>2, <1>3, AwayFromDb DEF Quarantining

LEMMA ProbeStep == ASSUME StoreInv, ProbeHealthy \/ ProbeCorrupt \/ ProbeFails PROVE StepOK
  <1>1. CASE ProbeHealthy
    <2>1. CASE Exists(Db)
      <3>1. disk' = disk /\ wal' = wal /\ pc' = "adopt"
        BY <1>1, <2>1 DEF ProbeHealthy
      <3> QED BY <3>1, AwayFromDb, StoreFacts DEF AdoptionInv, Quarantining
    <2>2. CASE ~Exists(Db)
      <3>1. disk' = [disk EXCEPT ![Db] = EmptyFile] /\ wal' = [wal EXCEPT ![Db] = NoLog] /\ pc' = "adopt"
        BY <1>1, <2>2 DEF ProbeHealthy
      <3>2. /\ disk'[Db] = EmptyFile /\ wal'[Db] = NoLog
            /\ \A p \in Paths \ {Db} : disk'[p] = disk[p] /\ wal'[p] = wal[p]
        BY <3>1, StoreFacts
      <3>3. EmptyFile.version # Adopted
        BY DEF EmptyFile, NoFile, Unstarted, Adopted
      <3>4. AdoptionInv' /\ Unharmed'
        BY <3>1, <3>2, <3>3, StoreFacts DEF AdoptionInv, Unharmed, Quarantining
      <3>5. KeepsGood
        BY <2>2, <3>2, StoreFacts DEF KeepsGood, Exists
      <3> QED BY <3>4, <3>5 DEF StepOK
    <2> QED BY <2>1, <2>2
  <1>2. CASE ProbeCorrupt
    <2>1. disk' = disk /\ wal' = wal /\ pc' = "quarantine" /\ disk[Db].state = "corrupt"
      BY <1>2 DEF ProbeCorrupt, Recover
    <2>2. AdoptionInv' /\ Unharmed' /\ KeepsGood
      BY <2>1, StoreFacts DEF AdoptionInv, Unharmed, KeepsGood
    <2> QED BY <2>2 DEF StepOK
  <1>3. CASE ProbeFails
    <2>1. /\ disk' = disk /\ wal' = [wal EXCEPT ![Db] = NoLog] /\ faults' = faults + 1
          /\ pc' \in {"quarantine", "probe"}
      BY <1>3 DEF ProbeFails, DropSidecars, Recover
    <2>2. wal'[Db] = NoLog /\ \A p \in Replacements : wal'[p] = wal[p]
      BY <2>1, StoreFacts
    <2>3. AdoptionInv' /\ Unharmed' /\ KeepsGood
      BY <2>1, <2>2, StoreFacts DEF AdoptionInv, Unharmed, KeepsGood
    <2> QED BY <2>3 DEF StepOK
  <1> QED BY <1>1, <1>2, <1>3

LEMMA QuarantineStep ==
  ASSUME StoreInv, MoveMain \/ CopyEnds \/ DropSource
                   \/ (\E done \in BOOLEAN : MoveLog(done) \/ CopyLog(done))
                   \/ (\E part \in SUBSET Rows : CopyMain(part))
  PROVE  StepOK
  <1>q. pc \in Quarantining /\ Here \in Quarantines /\ job.source = Here
        /\ (pc # "quarantine" \/ disk[Here].state = "none")
    <2>1. pc \in Quarantining
      BY DEF MoveMain, CopyEnds, DropSource, MoveLog, CopyLog, CopyMain, Quarantining
    <2> QED BY <2>1, QuarantineFacts DEF StoreInv, RecoveryInv, FilesOK, Exists, Quarantining
  <1>u. disk[Db].state # "sound" \/ faults > 0
    BY <1>q, StoreFacts DEF Unharmed
  <1>1. CASE MoveMain
    <2>1. /\ disk' = [disk EXCEPT ![Here] = disk[Db], ![Db] = NoFile]
          /\ wal' = [wal EXCEPT ![Here] = NoLog] /\ pc' = "move log" /\ disk[Here].state = "none"
      BY <1>1, <1>q DEF MoveMain
    <2>2. /\ disk'[Db] = NoFile
          /\ \A p \in Paths \ {Db, Here} : disk'[p] = disk[p] /\ wal'[p] = wal[p]
      BY <1>q, <2>1, StoreFacts
    <2>3. /\ \A q \in Quarantines : disk[q].state \in {"sound", "corrupt"} => disk'[q] = disk[q]
          /\ \A p \in Replacements : disk'[p].version # Adopted /\ wal'[p].version # Adopted
      BY <1>q, <2>1, <2>2, StoreFacts DEF AdoptionInv
    <2> QED BY <1>u, <2>1, <2>2, <2>3, WithoutDb
  <1>2. CASE \E part \in SUBSET Rows : CopyMain(part)
    <2>1. PICK part \in SUBSET Rows : CopyMain(part)
      BY <1>2
    <2> DEFINE torn == [NoFile EXCEPT !.rows = part, !.state = "torn"]
    <2>2. /\ disk' = [disk EXCEPT ![Here] = torn] /\ wal' = [wal EXCEPT ![Here] = NoLog]
          /\ pc' = "copying" /\ faults' = faults /\ disk[Here].state = "none"
      BY <1>q, <2>1 DEF CopyMain, bounds
    <2>3. \A p \in Paths \ {Here} : disk'[p] = disk[p] /\ wal'[p] = wal[p]
      BY <1>q, <2>2, StoreFacts
    <2>4. /\ \A q \in Quarantines : disk[q].state \in {"sound", "corrupt"} => disk'[q] = disk[q]
          /\ \A p \in Replacements : disk'[p].version # Adopted /\ wal'[p].version # Adopted
          /\ disk'[Db] = disk[Db] /\ wal'[Db] = wal[Db]
      BY <1>q, <2>2, <2>3, StoreFacts DEF AdoptionInv
    <2> QED BY <1>q, <2>2, <2>4, AwayFromDb
  <1>3. CASE CopyEnds
    <2>1. /\ disk' = [disk EXCEPT ![Here] = disk[Db]] /\ wal' = wal
          /\ pc' = "copy log" /\ faults' = faults /\ disk[Here].state = "torn"
      BY <1>3, <1>q DEF CopyEnds, bounds, StoreInv, RecoveryInv, FilesOK
    <2>2. \A p \in Paths \ {Here} : disk'[p] = disk[p]
      BY <1>q, <2>1, StoreFacts
    <2>3. /\ \A q \in Quarantines : disk[q].state \in {"sound", "corrupt"} => disk'[q] = disk[q]
          /\ \A p \in Replacements : disk'[p].version # Adopted /\ wal'[p].version # Adopted
          /\ disk'[Db] = disk[Db]
      BY <1>q, <2>1, <2>2, StoreFacts DEF AdoptionInv
    <2> QED BY <1>q, <2>1, <2>3, AwayFromDb
  <1>4. CASE DropSource
    <2>1. /\ pc' = "mark" /\ disk'[Db] = NoFile
          /\ \A p \in Paths \ {Db} : disk'[p] = disk[p] /\ wal'[p] = wal[p]
      BY <1>4, StoreFacts DEF DropSource, Remove
    <2>2. /\ \A q \in Quarantines : disk'[q] = disk[q]
          /\ \A p \in Replacements : disk'[p].version # Adopted /\ wal'[p].version # Adopted
      BY <2>1, StoreFacts DEF AdoptionInv
    <2> QED BY <1>u, <2>1, <2>2, WithoutDb
  <1>5. CASE \E done \in BOOLEAN : MoveLog(done)
    <2>1. PICK done \in BOOLEAN : MoveLog(done)
      BY <1>5
    <2>2. pc' = "mark" /\ disk' = disk /\ pc = "move log"
      BY <2>1 DEF MoveLog
    <2>3. \A p \in Paths \ {Db, Here} : wal'[p] = wal[p]
      BY <1>q, <2>1, StoreFacts DEF MoveLog
    <2>4. \A p \in Replacements : disk'[p].version # Adopted /\ wal'[p].version # Adopted
      BY <1>q, <2>2, <2>3, StoreFacts DEF AdoptionInv
    <2>5. disk[Db].state = "none"
      BY <2>2 DEF StoreInv, RecoveryInv, FilesOK, Exists
    <2>6. AdoptionInv' /\ Unharmed' /\ KeepsGood
      BY <2>2, <2>4, <2>5, StoreFacts DEF AdoptionInv, Unharmed, KeepsGood, Quarantining
    <2> QED BY <2>6 DEF StepOK
  <1>6. CASE \E done \in BOOLEAN : CopyLog(done)
    <2>1. PICK done \in BOOLEAN : CopyLog(done)
      BY <1>6
    <2>2. pc' = "drop source" /\ disk' = disk /\ faults' = faults
      BY <2>1 DEF CopyLog, bounds
    <2>3. \A p \in Paths \ {Here} : wal'[p] = wal[p]
      BY <1>q, <2>1, StoreFacts DEF CopyLog
    <2>4. wal'[Db] = wal[Db] /\ \A p \in Replacements : disk'[p].version # Adopted /\ wal'[p].version # Adopted
      BY <1>q, <2>2, <2>3, StoreFacts DEF AdoptionInv
    <2> QED BY <1>q, <2>2, <2>4, AwayFromDb
  <1> QED BY <1>1, <1>2, <1>3, <1>4, <1>5, <1>6

-----------------------------------------------------------------------------
LEMMA FinishStep == ASSUME StoreInv, FinishHealthy \/ FinishCorrupt \/ FinishFails PROVE StepOK
  <1>q. pc = "finish" /\ job.source = Here /\ job.target = Replacement(Here)
        /\ Replacement(Here) \in Replacements
    <2>1. pc = "finish"
      BY DEF FinishHealthy, FinishCorrupt, FinishFails
    <2> QED BY <2>1, FinishFacts DEF StoreInv
  <1>1. CASE FinishHealthy
    <2>1. /\ pc' = "settle"
          /\ disk' = [p \in Paths |-> IF p = Replacement(Here) THEN NoFile ELSE disk[p]]
          /\ wal' = [p \in Paths |-> IF p = Replacement(Here) THEN NoLog ELSE wal[p]]
      BY <1>1, <1>q DEF FinishHealthy, Remove
    <2>2. disk'[Db] = disk[Db] /\ wal'[Db] = wal[Db] /\ \A q \in Quarantines : disk'[q] = disk[q]
      BY <1>q, <2>1, StoreFacts
    <2>3. \A p \in Replacements : disk'[p].version # Adopted /\ wal'[p].version # Adopted
      BY <2>1, StoreFacts DEF AdoptionInv
    <2> QED BY <2>1, <2>2, <2>3, AwayFromDb DEF Quarantining
  <1>2. CASE FinishCorrupt
    <2>1. disk[Db].state = "corrupt" /\ pc' \in {"rebuild", "quarantine"}
      BY <1>2 DEF FinishCorrupt
    <2>2. CASE disk' = disk /\ wal' = wal
      <3>1. AdoptionInv' /\ Unharmed' /\ KeepsGood
        BY <2>1, <2>2, StoreFacts DEF AdoptionInv, Unharmed, KeepsGood
      <3> QED BY <3>1 DEF StepOK
    <2>3. CASE Remove({Db})
      <3>1. disk'[Db] = NoFile /\ \A p \in Paths \ {Db} : disk'[p] = disk[p] /\ wal'[p] = wal[p]
        BY <2>3, StoreFacts DEF Remove
      <3>2. /\ \A q \in Quarantines : disk'[q] = disk[q]
            /\ \A p \in Replacements : disk'[p].version # Adopted /\ wal'[p].version # Adopted
        BY <3>1, StoreFacts DEF AdoptionInv
      <3> QED BY <2>1, <3>1, <3>2, WithoutDb
    <2> QED BY <1>2, <2>2, <2>3 DEF FinishCorrupt
  <1>3. CASE FinishFails
    <2> DEFINE examined == IF Exists(Db) THEN Db ELSE job.target
    <2>1. disk' = disk /\ wal' = [wal EXCEPT ![examined] = NoLog] /\ pc' = "finish"
      BY <1>3, <1>q DEF FinishFails, DropSidecars
    <2>2. /\ \A p \in Replacements : disk'[p].version # Adopted /\ wal'[p].version # Adopted
          /\ wal'[Db] \in {wal[Db], NoLog}
      BY <2>1, StoreFacts DEF AdoptionInv
    <2>3. disk[Db].state = "sound" /\ wal'[Db].version = Adopted => Content(Db)' = Content(Db) /\ wal'[Db] = wal[Db]
      BY <2>1, <2>2, StoreFacts DEF Content, Exists
    <2>4. AdoptionInv' /\ Unharmed' /\ KeepsGood
      BY <2>1, <2>2, <2>3, StoreFacts DEF AdoptionInv, Unharmed, KeepsGood, Quarantining
    <2> QED BY <2>4 DEF StepOK
  <1> QED BY <1>1, <1>2, <1>3

LEMMA RebuildStep ==
  ASSUME StoreInv, \/ Rebuild \/ SalvageFails \/ SalvageEnds \/ Checkpoint \/ RemoveOld \/ Install
                   \/ \E r \in Rows : SalvageRow(r)
  PROVE  StepOK
  <1>q. /\ pc \in Rebuilding /\ job.source \in Paths /\ job.target \in Replacements
        /\ job.target # job.source /\ disk[Db].state # "sound"
    <2>1. pc \in Rebuilding
      BY DEF Rebuild, SalvageFails, SalvageEnds, Checkpoint, RemoveOld, Install, SalvageRow, Rebuilding
    <2> QED BY <2>1, RebuildFacts DEF StoreInv, RecoveryInv, FilesOK, Exists
  <1>t. job.target \in Paths /\ job.target # Db /\ job.target \notin Quarantines
        /\ disk[job.target].version # Adopted /\ wal[job.target].version # Adopted
    BY <1>q, StoreFacts DEF AdoptionInv
  <1>1. CASE Rebuild
    <2>1. /\ pc' = "salvage" /\ disk' = [disk EXCEPT ![job.target] = EmptyFile]
          /\ wal' = [wal EXCEPT ![job.target] = NoLog]
      BY <1>1 DEF Rebuild
    <2>2. EmptyFile.version # Adopted
      BY DEF EmptyFile, NoFile, Unstarted, Adopted
    <2>3. /\ disk'[Db] = disk[Db] /\ wal'[Db] = wal[Db] /\ \A q \in Quarantines : disk'[q] = disk[q]
          /\ \A p \in Replacements : disk'[p].version # Adopted /\ wal'[p].version # Adopted
      BY <1>t, <2>1, <2>2, StoreFacts DEF AdoptionInv
    <2> QED BY <2>1, <2>3, AwayFromDb DEF Quarantining
  <1>2. CASE SalvageFails
    <2>1. disk' = disk /\ wal' = [wal EXCEPT ![job.source] = NoLog] /\ pc' = "salvage"
      BY <1>2 DEF SalvageFails, DropSidecars
    <2>2. /\ \A p \in Replacements : disk'[p].version # Adopted /\ wal'[p].version # Adopted
      BY <2>1, StoreFacts DEF AdoptionInv
    <2>3. AdoptionInv' /\ Unharmed' /\ KeepsGood
      BY <1>q, <2>1, <2>2 DEF AdoptionInv, Unharmed, KeepsGood, Quarantining
    <2> QED BY <2>3 DEF StepOK
  <1>3. CASE \E r \in Rows : SalvageRow(r)
    <2>1. PICK r \in Rows : SalvageRow(r)
      BY <1>3
    <2>2. /\ pc' = "salvage" /\ disk' = disk
          /\ wal' = [wal EXCEPT ![job.target] = [wal[job.target] EXCEPT !.rows = @ \cup {r}]]
      BY <2>1 DEF SalvageRow
    <2>3. wal'[job.target].version = wal[job.target].version /\ \A p \in Paths \ {job.target} : wal'[p] = wal[p]
      BY <1>t, <2>2, StoreFacts DEF Log
    <2>4. wal'[Db] = wal[Db] /\ \A p \in Replacements : disk'[p].version # Adopted /\ wal'[p].version # Adopted
      BY <1>t, <2>2, <2>3, StoreFacts DEF AdoptionInv
    <2> QED BY <2>2, <2>4, AwayFromDb DEF Quarantining
  <1>4. CASE SalvageEnds
    <2>1. /\ pc' = "checkpoint" /\ disk' = disk
          /\ wal' = [wal EXCEPT ![job.target] = [wal[job.target] EXCEPT !.version = Rebuilt]]
      BY <1>4 DEF SalvageEnds
    <2>2. wal'[job.target].version = Rebuilt /\ \A p \in Paths \ {job.target} : wal'[p] = wal[p]
      BY <1>t, <2>1, StoreFacts DEF Log
    <2>3. wal'[Db] = wal[Db] /\ \A p \in Replacements : disk'[p].version # Adopted /\ wal'[p].version # Adopted
      BY <1>t, <2>1, <2>2, StoreFacts DEF AdoptionInv, Rebuilt, Adopted
    <2> QED BY <2>1, <2>3, AwayFromDb DEF Quarantining
  <1>5. CASE Checkpoint
    <2> DEFINE file == Checkpointed(job.target)
    <2>1. /\ pc' = "remove" /\ disk' = [disk EXCEPT ![job.target] = file]
          /\ wal' = [wal EXCEPT ![job.target] = NoLog]
      BY <1>5 DEF Checkpoint
    <2>2. file.version # Adopted
      <3>1. Version(job.target) # Adopted
        BY <1>t DEF Version
      <3> QED BY <1>t, <3>1, StoreFacts DEF Checkpointed, File
    <2>3. /\ disk'[Db] = disk[Db] /\ wal'[Db] = wal[Db] /\ \A q \in Quarantines : disk'[q] = disk[q]
          /\ \A p \in Replacements : disk'[p].version # Adopted /\ wal'[p].version # Adopted
      BY <1>t, <2>1, <2>2, StoreFacts DEF AdoptionInv
    <2> QED BY <2>1, <2>3, AwayFromDb DEF Quarantining
  <1>6. CASE RemoveOld
    <2>1. /\ pc' = "install" /\ disk'[Db] = NoFile /\ wal'[Db] = NoLog
          /\ \A p \in Paths \ {Db} : disk'[p] = disk[p] /\ wal'[p] = wal[p]
      BY <1>6, StoreFacts DEF RemoveOld, Remove
    <2>2. /\ \A q \in Quarantines : disk'[q] = disk[q]
          /\ \A p \in Replacements : disk'[p].version # Adopted /\ wal'[p].version # Adopted
      BY <2>1, StoreFacts DEF AdoptionInv
    <2> QED BY <1>q, <2>1, <2>2, WithoutDb
  <1>7. CASE Install
    <2>1. /\ pc = "install" /\ pc' = "settle" /\ wal' = wal
          /\ disk' = [disk EXCEPT ![Db] = disk[job.target], ![job.target] = NoFile]
      BY <1>7 DEF Install
    <2>2. /\ disk'[Db] = disk[job.target] /\ disk'[job.target] = NoFile
          /\ \A p \in Paths \ {Db, job.target} : disk'[p] = disk[p]
      BY <1>t, <2>1, StoreFacts
    <2>3. wal'[Db] = NoLog /\ \A p \in Replacements : disk'[p].version # Adopted /\ wal'[p].version # Adopted
      BY <1>t, <2>1, <2>2, StoreFacts DEF AdoptionInv
    <2>4. AdoptionInv' /\ Unharmed'
      BY <1>t, <2>1, <2>2, <2>3, StoreFacts DEF AdoptionInv, Unharmed, Quarantining
    <2>5. KeepsGood
      BY <1>q, <1>t, <2>2, StoreFacts DEF KeepsGood
    <2> QED BY <2>4, <2>5 DEF StepOK
  <1> QED BY <1>1, <1>2, <1>3, <1>4, <1>5, <1>6, <1>7

-----------------------------------------------------------------------------
\* A step of the open database that only adds to it.
LEMMA Growing ==
  ASSUME StoreInv, Opened, \A p \in Paths \ {Db} : disk'[p] = disk[p] /\ wal'[p] = wal[p],
         pc' \in {"adopted", "ready", "closed"},
         disk'[Db].state = "sound" /\ disk[Db].rows \subseteq disk'[Db].rows,
         disk'[Db].version = Adopted => LegacyRows \subseteq disk'[Db].rows,
         wal'[Db].version = Adopted \/ pc' = "adopted" => LegacyRows \subseteq Content(Db)'
  PROVE  StepOK
  <1>1. /\ \A q \in Quarantines : disk'[q] = disk[q]
        /\ \A p \in Replacements : disk'[p].version # Adopted /\ wal'[p].version # Adopted
    BY StoreFacts DEF AdoptionInv
  <1>2. AdoptionInv' /\ Unharmed' /\ KeepsGood
    BY <1>1 DEF AdoptionInv, Unharmed, KeepsGood, Quarantining
  <1> QED BY <1>2 DEF StepOK

LEMMA UseStep ==
  ASSUME StoreInv, \/ Adopt \/ MarkAdopted \/ (\E r \in Rows : Write(r))
                   \/ \E closed \in BOOLEAN : FoldLog(closed)
  PROVE  StepOK
  <1>o. /\ Opened /\ disk[Db].state = "sound" /\ Content(Db) = disk[Db].rows \cup wal[Db].rows
    <2>1. Opened
      BY DEF Adopt, MarkAdopted, Write, FoldLog, Opened
    <2> QED BY <2>1, OpenedHolds DEF StoreInv
  <1>a. /\ disk[Db].version = Adopted => LegacyRows \subseteq disk[Db].rows
        /\ wal[Db].version = Adopted => LegacyRows \subseteq Content(Db)
        /\ pc = "adopted" => LegacyRows \subseteq Content(Db)
    BY <1>o, StoreFacts DEF AdoptionInv
  <1>1. CASE Adopt
    <2> DEFINE log == [wal[Db] EXCEPT !.rows = @ \cup (LegacyRows \ Content(Db))]
    <2>1. pc' = "adopted" /\ disk' = disk /\ wal' = [wal EXCEPT ![Db] = log]
      BY <1>1 DEF Adopt
    <2>2. log.rows = wal[Db].rows \cup (LegacyRows \ Content(Db))
      BY StoreFacts DEF Log
    <2>3. wal'[Db] = log /\ \A p \in Paths \ {Db} : wal'[p] = wal[p]
      BY <2>1, StoreFacts
    <2>4. LegacyRows \subseteq Content(Db)'
      BY <1>o, <2>1, <2>2, <2>3 DEF Content, Exists
    <2> QED BY <1>a, <1>o, <2>1, <2>3, <2>4, Growing
  <1>2. CASE MarkAdopted
    <2> DEFINE log == [wal[Db] EXCEPT !.version = Adopted]
    <2>1. pc = "adopted" /\ pc' = "ready" /\ disk' = disk /\ wal' = [wal EXCEPT ![Db] = log]
      BY <1>2 DEF MarkAdopted
    <2>2. log.rows = wal[Db].rows
      BY StoreFacts DEF Log
    <2>3. wal'[Db] = log /\ \A p \in Paths \ {Db} : wal'[p] = wal[p]
      BY <2>1, StoreFacts
    <2>4. LegacyRows \subseteq Content(Db)'
      BY <1>a, <1>o, <2>1, <2>2, <2>3 DEF Content, Exists
    <2> QED BY <1>a, <1>o, <2>1, <2>3, <2>4, Growing
  <1>3. CASE \E r \in Rows : Write(r)
    <2>1. PICK r \in Rows : Write(r)
      BY <1>3
    <2> DEFINE log == [wal[Db] EXCEPT !.rows = @ \cup ({r} \ Content(Db))]
    <2>2. pc' = "ready" /\ disk' = disk /\ wal' = [wal EXCEPT ![Db] = log]
      BY <2>1 DEF Write
    <2>3. wal[Db].rows \subseteq log.rows /\ log.version = wal[Db].version
      BY StoreFacts DEF Log
    <2>4. wal'[Db] = log /\ \A p \in Paths \ {Db} : wal'[p] = wal[p]
      BY <2>2, StoreFacts
    <2>5. wal'[Db].version = Adopted => LegacyRows \subseteq Content(Db)'
      BY <1>a, <1>o, <2>2, <2>3, <2>4 DEF Content, Exists
    <2> QED BY <1>a, <1>o, <2>2, <2>4, <2>5, Growing
  <1>4. CASE \E closed \in BOOLEAN : FoldLog(closed)
    <2> DEFINE file == Checkpointed(Db)
    <2>1. pc' \in {"ready", "closed"} /\ disk' = [disk EXCEPT ![Db] = file] /\ wal' = [wal EXCEPT ![Db] = NoLog]
      BY <1>4 DEF FoldLog
    <2>2. file.state = "sound" /\ file.rows = Content(Db) /\ file.version = Version(Db)
      BY <1>o, StoreFacts DEF Checkpointed, File
    <2>3. disk'[Db] = file /\ wal'[Db] = NoLog /\ \A p \in Paths \ {Db} : disk'[p] = disk[p] /\ wal'[p] = wal[p]
      BY <2>1, StoreFacts
    <2>4. file.version = Adopted => LegacyRows \subseteq file.rows
      BY <1>a, <1>o, <2>2 DEF Version
    <2> QED BY <1>o, <2>1, <2>2, <2>3, <2>4, StoreFacts, Growing
  <1> QED BY <1>1, <1>2, <1>3, <1>4

LEMMA RotStep ==
  ASSUME StoreInv, NEW p \in Paths, NEW part \in SUBSET Rows, Rot(p, part)
  PROVE  StepOK
  <1> DEFINE file == [disk[p] EXCEPT !.rows = part, !.state = "corrupt"]
  <1>1. /\ pc = "closed" /\ pc' = pc /\ wal' = wal /\ rots' # rots /\ disk' = [disk EXCEPT ![p] = file]
        /\ p \in {Db} \cup ActiveReplacement
    <2>1. rots' = rots + 1 /\ rots \in Int
      BY BoundsAssumption DEF Rot, StoreInv, RecoveryInv, TypeOK
    <2>2. rots' # rots
      BY <2>1
    <2> QED BY <2>2 DEF Rot
  <1>2. file.state = "corrupt" /\ file.version = disk[p].version
    BY StoreFacts DEF File
  <1>3. disk'[p] = file /\ \A q \in Paths \ {p} : disk'[q] = disk[q]
    BY <1>1, StoreFacts
  <1>4. p \notin Quarantines
    <2>1. p = Db \/ (markers # {} /\ p = Replacement(Here))
      BY <1>1 DEF ActiveReplacement, Here
    <2> QED BY <2>1, MarkerFacts, StoreFacts DEF StoreInv, RecoveryInv
  <1>5. \A q \in Replacements : disk'[q].version # Adopted /\ wal'[q].version # Adopted
    BY <1>1, <1>2, <1>3, StoreFacts DEF AdoptionInv
  <1>6. disk'[Db].state = "sound" => disk'[Db] = disk[Db] /\ Content(Db)' = Content(Db)
    BY <1>1, <1>2, <1>3, StoreFacts DEF Content, Exists
  <1>7. AdoptionInv' /\ Unharmed'
    BY <1>1, <1>5, <1>6, StoreFacts DEF AdoptionInv, Unharmed, Quarantining
  <1>8. KeepsGood
    BY <1>1, <1>3, <1>4, StoreFacts DEF KeepsGood
  <1> QED BY <1>7, <1>8 DEF StepOK

-----------------------------------------------------------------------------
LEMMA StoreStep == ASSUME StoreInv, [Next]_vars PROVE StepOK
  <1>1. CASE UNCHANGED vars
    BY <1>1, FilesUntouched DEF vars, storage
  <1>2. CASE CopyFails \/ Mark \/ FinishInstalls \/ FinishRebuilds \/ Settle \/ SkipAdoption \/ Crash
    <2>1. disk' = disk /\ wal' = wal
      BY <1>2 DEF CopyFails, Mark, FinishInstalls, FinishRebuilds, Settle, SkipAdoption, Crash, storage
    <2> QED BY <1>2, <2>1, FilesUntouched
  <1>3. CASE Progress
    BY <1>2, <1>3, OpenStep, ProbeStep, QuarantineStep, FinishStep, RebuildStep DEF Progress
  <1>4. CASE Use
    BY <1>2, <1>4, UseStep DEF Use
  <1>5. CASE Trouble
    BY <1>2, <1>5, ProbeStep, FinishStep, RebuildStep, QuarantineStep, RotStep DEF Trouble
  <1> QED BY <1>1, <1>3, <1>4, <1>5 DEF Next

LEMMA StoreInvariant == Spec => []StoreInv
  <1>1. Init => StoreInv
    <2>1. Init => Unharmed /\ AdoptionInv
      BY PathFacts DEF Init, Unharmed, AdoptionInv, Quarantining, NoFile, NoLog, Unstarted, Adopted
    <2> QED BY <2>1, InitInv DEF StoreInv
  <1>2. StoreInv /\ [Next]_vars => StoreInv'
    BY StoreStep, NextInv DEF StoreInv, StepOK
  <1> QED BY <1>1, <1>2, PTL DEF Spec

\* No quarantined database is written again, and as long as the storage reports no
\* error a sound database is neither replaced nor emptied by a recovery that was
\* interrupted after its end and is resumed.
THEOREM GoodIsKept == Spec => GoodFilesAreKept
  <1>1. StoreInv /\ [Next]_vars =>
          [/\ \A q \in Quarantines :
                disk[q].state \in {"sound", "corrupt"} => disk'[q] = disk[q]
           /\ disk[Db].state = "sound" /\ faults = 0 /\ rots' = rots =>
                disk'[Db].state = "sound" /\ disk[Db].rows \subseteq disk'[Db].rows]_vars
    BY StoreStep DEF StepOK, KeepsGood
  <1> QED BY <1>1, StoreInvariant, PTL DEF Spec, GoodFilesAreKept

\* A database said to hold the legacy blobs holds them, whatever was lost with its
\* log or in its recovery.
THEOREM AdoptedHoldsLegacy == Spec => []AdoptedIsWhole
  <1>1. StoreInv => AdoptedIsWhole
    <2> SUFFICES ASSUME StoreInv, pc = "ready", Version(Db) = Adopted
                 PROVE  LegacyRows \subseteq Content(Db)
      BY DEF AdoptedIsWhole
    <2>1. disk[Db].state = "sound" /\ Content(Db) = disk[Db].rows \cup wal[Db].rows
      BY OpenedHolds DEF Opened, StoreInv
    <2> QED BY <2>1, StoreFacts DEF AdoptionInv, Version
  <1> QED BY <1>1, StoreInvariant, PTL
=============================================================================
