---------------------------- MODULE BackupProofs ----------------------------
(***************************************************************************)
(* Theorems about Backup for every value of its constants.                 *)
(*                                                                         *)
(* None of the properties is inductive.  BackupInv adds what makes them    *)
(* so: a task message has one owner, a row keeps what it was created with  *)
(* until its own task saves it, a stem is written by one task and named by *)
(* one row, and each step of a task knows what the steps before it have    *)
(* established.  A step of a worker is described by what it leaves alone   *)
(* (Frame) and by the few things it may do to a row, to a stem and to the  *)
(* directory (FileStep, StemStep, DiskStep); the conjuncts of the          *)
(* invariant are then proved from these, and not from the actions.         *)
(***************************************************************************)
EXTENDS Backup, Collections, FiniteSetTheorems, TLAPS

\* A row its task has not concluded yet.
Fresh(i) == rec[i].status = "running" /\ rec[i].file = NoStem /\ ~rec[i].valid

\* A row that has not been inserted.
Blank == [op |-> "backup", status |-> "absent", file |-> NoStem, valid |-> FALSE,
          source |-> NoId]

\* The table is filled from 1 upwards; a worker has a row exactly while it is
\* not idle.
Numbering ==
  /\ queue \subseteq 1 .. lastId
  /\ \A i \in Id : i > lastId => rec[i] = Blank
  /\ \A w \in Worker : IF pc[w] = "idle"
                       THEN job[w] = NoId /\ stem[w] = NoStem /\ todo[w] = {}
                       ELSE job[w] \in 1 .. lastId

\* A message is in the broker or with one worker, never in two places.
OneOwner ==
  /\ \A w \in Worker : job[w] \notin queue
  /\ \A v, w \in Worker : v # w /\ job[v] = job[w] => job[w] = NoId

\* The steps before the last commit, whose row is still Fresh.
Undone == {"begin", "save", "rescueSave"} \cup BackupStep \cup RestoreStep

\* A task executes the steps of its own kind, on a row it has not concluded.
WorkerOK(w) ==
  /\ pc[w] \in Undone => Fresh(job[w])
  /\ pc[w] \in BackupStep => rec[job[w]].op = "backup"
  /\ pc[w] \in RestoreStep => rec[job[w]].op = "restore"

Working == (\A i \in queue : Fresh(i)) /\ (\A w \in Worker : WorkerOK(w))

\* A row names a stem that was taken, no two rows name the same, and a valid
\* row names one that can be decompressed; what a restore will read is valid.
Files ==
  \A i \in Id :
    /\ rec[i].file <= clock
    /\ rec[i].op = "restore" => rec[i].file = NoStem
    /\ rec[i].valid => rec[i].file # NoStem /\ rec[i].file \notin bad
    /\ rec[i].op = "backup" /\ rec[i].status = "succeeded" => rec[i].valid
    /\ rec[i].op = "restore" /\ rec[i].source # NoId => rec[rec[i].source].valid
    /\ \A j \in Id \ {i} : rec[i].file = rec[j].file => rec[i].file = NoStem

\* Worker w is writing the dump stem[w].
Writes(w) == pc[w] # "idle" /\ rec[job[w]].op = "backup" /\ stem[w] # NoStem

\* Nobody else writes the stem a backup writes, and no other row names it.
OwnStem ==
  \A w \in Worker :
    /\ stem[w] <= clock
    /\ Writes(w) => /\ \A i \in Id \ {job[w]} : rec[i].file # stem[w]
                    /\ \A v \in Worker \ {w} : Writes(v) => stem[v] # stem[w]

Verified == {"sha", "list", "prune", "remove", "check", "save", "rescueSave"}
Written  == {"gz", "zip", "verify"} \cup Verified

\* From its verification on, the archive of a backup can be decompressed.
DumpOK(w) ==
  pc[w] # "idle" /\ rec[job[w]].op = "backup" =>
    /\ pc[w] \in Written => stem[w] # NoStem
    /\ pc[w] \in Verified => stem[w] \notin bad

Intact == \A w \in Worker : DumpOK(w)

\* What a restore works on is the file of the backup its row names.
SourceOK(w) ==
  pc[w] \in {"open", "drop", "import", "finish", "stats"} =>
    rec[job[w]].source # NoId /\ stem[w] = rec[rec[job[w]].source].file

Restoring == \A w \in Worker : SourceOK(w)

\* What a request has found valid stays so, whatever becomes of its status.
Asking == \A i \in asked : rec[i].valid

\* A restore whose worker died stays as it was, and nobody takes it up.
Orphaned ==
  \A i \in orphan : /\ i <= lastId /\ i \notin queue /\ \A w \in Worker : job[w] # i
                    /\ Fresh(i) /\ rec[i].op = "restore" /\ rec[i].source # NoId

\* The inductive invariant.
BackupInv ==
  /\ TypeOK /\ Numbering /\ OneOwner /\ Working /\ Files /\ OwnStem /\ Intact /\ Restoring
  /\ Asking /\ Orphaned

\* All but the target database and what requests have read.
core == <<rec, lastId, queue, workerVars, diskVars>>

\* A request looks at a backup, or a client left behind imports a table.
Aside == /\ UNCHANGED <<core, orphan>>
         /\ \A i \in asked' \ asked : i \in Id /\ rec[i].valid

-----------------------------------------------------------------------------
(* The shape of steps.                                                     *)

\* A request adds one row behind the others, of a task that has not run; the
\* source of a restore was validated (create_backup, restore_backup).
Requested(r) ==
  /\ lastId' = lastId + 1 /\ lastId' \in Id
  /\ rec' = [rec EXCEPT ![lastId'] = r]
  /\ r.status = "running" /\ r.file = NoStem /\ ~r.valid
  /\ r.op = "restore" => r.source \in Id /\ rec[r.source].valid
  /\ r.op = "backup" => r.source = NoId
  /\ queue' \in {queue, queue \cup {lastId'}}
  /\ UNCHANGED <<asked, workerVars, diskVars, targetVars>>

\* Every request that is accepted adds a row as Requested says: one for a backup,
LEMMA CreateRequests ==
  ASSUME BackupInv, CreateBackup
  PROVE  \E r \in Record : Requested(r)
<1> USE BackupAssumption DEF BackupAssumption, BackupInv, TypeOK, Id, NoId
<1> DEFINE r == [op |-> "backup", status |-> "running", file |-> NoStem,
                 valid |-> FALSE, source |-> NoId]
<1>1. r \in Record
  BY DEF Record, Op, Status
<1>2. Insert(r)
  BY DEF CreateBackup
<1> HIDE DEF r
<1>3. lastId + 1 \in Id /\ lastId' = lastId + 1 /\ queue' \in {queue, queue \cup {lastId'}}
  BY <1>2 DEF Insert
<1> QED BY <1>1, <1>2, <1>3 DEF Insert, Requested, r

\* and one for a restore, whose source was found valid before.
LEMMA RestoreRequests ==
  ASSUME BackupInv, NEW i \in Id, RestoreBackup(i)
  PROVE  \E r \in Record : Requested(r)
<1> USE BackupAssumption DEF BackupAssumption, BackupInv, TypeOK, Id, NoId
<1> DEFINE r == [op |-> "restore", status |-> "running", file |-> NoStem,
                 valid |-> FALSE, source |-> i]
<1>1. r \in Record
  BY DEF Record, Op, Status
<1>2. Insert(r) /\ rec[i].valid
  BY DEF RestoreBackup, Asking
<1> HIDE DEF r
<1>3. lastId + 1 \in Id /\ lastId' = lastId + 1 /\ queue' \in {queue, queue \cup {lastId'}}
  BY <1>2 DEF Insert
<1> QED BY <1>1, <1>2, <1>3 DEF Insert, Requested, r

\* A committed result is a record of the same operation.
LEMMA SavedIsRecord ==
  ASSUME BackupInv, NEW w \in Worker, job[w] \in Id
  PROVE  /\ Saved(w) \in Record /\ Saved(w).op = rec[job[w]].op
         /\ Saved(w).source \in {rec[job[w]].source, NoId}
         /\ Saved(w).op = "backup" => /\ Saved(w).file = stem[w]
                                      /\ Saved(w).valid = sound[w]
                                      /\ Saved(w).status = IF sound[w] THEN "succeeded" ELSE "failed"
         /\ Saved(w).op = "restore" => /\ Saved(w).file = rec[job[w]].file
                                       /\ Saved(w).valid = rec[job[w]].valid
                                       /\ Saved(w).source = NoId
<1>1. rec[job[w]] \in Record /\ sound[w] \in BOOLEAN /\ stem[w] \in Stem \cup {NoStem}
  BY DEF BackupInv, TypeOK
<1> QED BY <1>1 DEF Saved, Record, Op, Status, NoId

\* What a step writes has its type.
LEMMA TypeStep == BackupInv /\ [Next]_vars => TypeOK'
<1> SUFFICES ASSUME BackupInv, [Next]_vars PROVE TypeOK'
  OBVIOUS
<1> USE BackupAssumption DEF BackupAssumption, BackupInv, TypeOK, dbVars, apiVars, workerVars, diskVars, targetVars,
        vars, Go, At, Idle, Id, NoId, Stem, NoStem
<1>1. CASE UNCHANGED vars
  BY <1>1
<1>2. CASE Api
  <2>1. ASSUME NEW i \in Id, AskRestore(i) PROVE TypeOK'
    BY <2>1 DEF AskRestore
  <2>2. CASE \E r \in Record : Requested(r)
    BY <2>2 DEF Requested
  <2>3. ASSUME NEW i \in Id, RestoreBackup(i) PROVE \E r \in Record : Requested(r)
    BY <2>3, RestoreRequests
  <2> QED BY <1>2, <2>1, <2>2, <2>3, CreateRequests DEF Api
<1>29. ASSUME NEW i \in Id, Orphan(i) PROVE TypeOK'
  <2>1. rec[i].source \in Id /\ rec \in [Id -> Record]
    BY <1>29 DEF Orphan, Orphaned, Record
  <2>2. rec[rec[i].source].file \in Stem \cup {NoStem}
    BY <2>1 DEF Record
  <2> QED BY <1>29, <2>2 DEF Orphan
<1> USE DEF Step, BackupStep, RestoreStep
<1>3. ASSUME NEW w \in Worker, pc[w] # "idle" PROVE job[w] \in Id
  BY <1>3 DEF Numbering
<1>4. ASSUME NEW w \in Worker, NEW i \in Id, Take(w, i) PROVE TypeOK'
  BY <1>4 DEF Take
<1>5. ASSUME NEW w \in Worker, Begin(w) PROVE TypeOK'
  <2>1. job[w] \in Id /\ rec[job[w]] \in Record
    BY <1>3, <1>5 DEF Begin
  <2>2. [rec[job[w]] EXCEPT !.status = "running"] \in Record
    BY <2>1 DEF Record, Status
  <2> QED BY <1>5, <2>1, <2>2 DEF Begin
<1>6. ASSUME NEW w \in Worker, Save(w) PROVE TypeOK'
  <2>1. rec' \in [Id -> Record]
    BY <1>3, <1>6, SavedIsRecord DEF Save
  <2> QED BY <1>6, <2>1 DEF Save
<1>7. ASSUME NEW w \in Worker, Rescue(w) PROVE TypeOK'
  <2>1. job[w] \in Id /\ Saved(w) \in Record
    BY <1>3, <1>7, SavedIsRecord DEF Rescue
  <2>2. [Saved(w) EXCEPT !.status = "failed", !.source = NoId] \in Record
    BY <2>1 DEF Record, Status
  <2>3. [rec EXCEPT ![job[w]].status = "failed", ![job[w]].source = NoId] \in [Id -> Record]
    BY <2>1 DEF Record, Status
  <2>4. rec' \in [Id -> Record]
    BY <1>7, <2>1, <2>2, <2>3 DEF Rescue
  <2> QED BY <1>7, <2>4 DEF Rescue
<1>8. ASSUME NEW w \in Worker, WriteSql(w) PROVE TypeOK'
  <2>1. clock + 1 \in Stem /\ <<clock + 1, Sql>> \in Path
    BY <1>8 DEF WriteSql, Path
  <2> QED BY <1>8, <2>1 DEF WriteSql
<1>9. ASSUME NEW w \in Worker, pc[w] \in {"gz", "sha"}
      PROVE  stem[w] \in Stem /\ <<stem[w], Gz>> \in Path /\ <<stem[w], Sha>> \in Path
  BY <1>3, <1>9 DEF Intact, DumpOK, Written, Verified, Working, WorkerOK, Undone, Path
<1>10. ASSUME NEW w \in Worker, OpenGz(w) PROVE TypeOK'
  BY <1>9, <1>10 DEF OpenGz
<1>11. ASSUME NEW w \in Worker, WriteSha(w) PROVE TypeOK'
  BY <1>9, <1>11 DEF WriteSha
<1>12. ASSUME NEW w \in Worker, List(w) PROVE TypeOK'
  <2>1. Surplus \X {Gz, Sql, Sha} \subseteq Path
    BY DEF Surplus, Archives, Path
  <2> QED BY <1>12, <2>1 DEF List
<1>13. ASSUME NEW w \in Worker, ReadSource(w) PROVE TypeOK'
  <2>1. rec[job[w]].source \in Id \cup {NoId}
    BY <1>3, <1>13 DEF ReadSource, Record
  <2>2. rec[rec[job[w]].source].file \in Stem
    BY <1>13, <2>1 DEF ReadSource, Record
  <2> QED BY <1>13, <2>2 DEF ReadSource
<1>14. ASSUME NEW w \in Worker, NEW x \in Path, LookUp(w, x) PROVE TypeOK'
  <2>1. todo' \in [Worker -> SUBSET Path]
    BY <1>14 DEF LookUp, Done
  <2> QED BY <1>14, <2>1 DEF LookUp
<1>15. ASSUME NEW w \in Worker, NEW x \in Path, Remove(w, x) PROVE TypeOK'
  BY <1>15 DEF Remove, Done
<1>16. ASSUME NEW w \in Worker, Return(w) PROVE TypeOK'
  BY <1>16 DEF Return
<1>17. ASSUME NEW w \in Worker, Raise(w) PROVE TypeOK'
  BY <1>17 DEF Raise
<1>18. ASSUME NEW w \in Worker, RescueFails(w) PROVE TypeOK'
  BY <1>18 DEF RescueFails
<1>19. ASSUME NEW w \in Worker, Kill(w) PROVE TypeOK'
  BY <1>3, <1>19 DEF Kill, Filling
<1>20. ASSUME NEW w \in Worker, Dump(w) PROVE TypeOK'
  BY <1>20 DEF Dump
<1>21. ASSUME NEW w \in Worker, CloseGz(w) PROVE TypeOK'
  <2>1. stem[w] \in Stem
    BY <1>3, <1>21 DEF CloseGz, Intact, DumpOK, Written, Verified, Working, WorkerOK, Undone
  <2>2. bad' \in SUBSET Stem /\ odd' \in SUBSET Stem
    BY <1>21, <2>1 DEF CloseGz
  <2> QED BY <1>21, <2>2 DEF CloseGz
<1>22. ASSUME NEW w \in Worker, Verify(w) PROVE TypeOK'
  BY <1>22 DEF Verify
<1>23. ASSUME NEW w \in Worker, Pruned(w) PROVE TypeOK'
  BY <1>23 DEF Pruned
<1>24. ASSUME NEW w \in Worker, Check(w) PROVE TypeOK'
  BY <1>24 DEF Check
<1>25. ASSUME NEW w \in Worker, OpenDump(w) PROVE TypeOK'
  BY <1>25 DEF OpenDump
<1>26. ASSUME NEW w \in Worker, DropTarget(w) PROVE TypeOK'
  BY <1>26 DEF DropTarget, Others
<1>27. ASSUME NEW w \in Worker, Import(w) PROVE TypeOK'
  BY <1>27 DEF Import, Others, Half
<1>28. ASSUME NEW w \in Worker, Stats(w) PROVE TypeOK'
  BY <1>28 DEF Stats
<1> QED BY <1>1, <1>2, <1>4, <1>5, <1>6, <1>7, <1>8, <1>10, <1>11, <1>12, <1>13, <1>14, <1>15,
           <1>16, <1>17, <1>18, <1>19, <1>20, <1>21, <1>22, <1>23, <1>24, <1>25, <1>26, <1>27, <1>28, <1>29
        DEF Next, WorkerStep, BackupTask, RestoreTask

-----------------------------------------------------------------------------
(* What a step of a worker leaves alone.                                   *)

\* Rows and locals of the others, and what kind of job each row is.
Frame(w) ==
  /\ lastId' = lastId /\ asked' = asked
  /\ \A i \in Id : i # job[w] => rec'[i] = rec[i]
  /\ \A i \in Id : rec'[i].op = rec[i].op
  /\ \A v \in Worker \ {w} : /\ pc'[v] = pc[v] /\ job'[v] = job[v]
                             /\ stem'[v] = stem[v] /\ todo'[v] = todo[v]

\* The file of a row is only ever the one that its worker writes, a row is
\* valid once that file was found sound, and stays so.
FileStep(w) ==
  /\ \A i \in Id : rec'[i].file # rec[i].file =>
       i = job[w] /\ Writes(w) /\ Fresh(i) /\ rec'[i].file = stem[w]
  /\ \A i \in Id : rec'[i].valid # rec[i].valid =>
       /\ i = job[w] /\ Writes(w) /\ Fresh(i) /\ rec'[i].valid
       /\ rec'[i].file = stem[w] /\ stem[w] \notin bad /\ bad' = bad
  /\ \A i \in Id : rec'[i].source # rec[i].source => rec'[i].source = NoId
  /\ \A i \in Id : (rec[i].op = "backup" /\ rec'[i].status = "succeeded")
                     => rec'[i].valid \/ rec[i].status = "succeeded"

\* A dump is written under a new stem, and only by its own worker.
StemStep(w) ==
  /\ clock' \in {clock, clock + 1} /\ stem'[w] <= clock'
  /\ Writes(w)' => \/ Writes(w) /\ stem'[w] = stem[w] /\ job'[w] = job[w]
                   \/ stem'[w] = clock + 1 /\ clock' = clock + 1
  /\ \A f \in bad' \ bad : Writes(w) /\ f = stem[w] /\ Fresh(job[w])

\* Every step of worker w, its death included, has its frame.
LEMMA FrameStep ==
  ASSUME BackupInv, NEW w \in Worker, WorkerStep(w) \/ Kill(w)
  PROVE  Frame(w)
<1> USE BackupAssumption DEF BackupAssumption, BackupInv, TypeOK, dbVars, apiVars, workerVars, diskVars, targetVars,
        Go, At, Idle, Id, NoId, Stem, NoStem, Step, BackupStep, RestoreStep, Frame
<1>1. pc[w] # "idle" => job[w] \in Id
  BY DEF Numbering
<1>2. ASSUME NEW i \in Id, Take(w, i) PROVE Frame(w)
  BY <1>2 DEF Take
<1>3. ASSUME Save(w) PROVE Frame(w)
  <2>1. rec' = [rec EXCEPT ![job[w]] = Saved(w)] /\ job[w] \in Id
    BY <1>1, <1>3 DEF Save
  <2> QED BY <1>3, <2>1, SavedIsRecord DEF Save
<1>4. ASSUME Rescue(w) PROVE Frame(w)
  <2> DEFINE r == [Saved(w) EXCEPT !.status = "failed", !.source = NoId]
  <2>1. job[w] \in Id /\ Saved(w) \in Record
    BY <1>1, <1>4, SavedIsRecord DEF Rescue
  <2>2. r.op = rec[job[w]].op
    BY <2>1, SavedIsRecord DEF Record
  <2>3. CASE rec' = [rec EXCEPT ![job[w]] = r]
    <3> HIDE DEF r
    <3> QED BY <1>4, <2>1, <2>2, <2>3 DEF Rescue
  <2>4. CASE rec' = [rec EXCEPT ![job[w]].status = "failed", ![job[w]].source = NoId]
    BY <1>4, <2>1, <2>4 DEF Rescue, Record
  <2> QED BY <1>4, <2>3, <2>4 DEF Rescue
<1>5. ASSUME NEW x \in Path, LookUp(w, x) PROVE Frame(w)
  BY <1>5 DEF LookUp, Done
<1>6. ASSUME NEW x \in Path, Remove(w, x) PROVE Frame(w)
  BY <1>6 DEF Remove, Done
<1>7. ASSUME Return(w) \/ Raise(w) \/ RescueFails(w) \/ Kill(w)
      PROVE  Frame(w)
  BY <1>1, <1>7 DEF Return, Raise, RescueFails, Kill
<1>10. ASSUME Begin(w) PROVE Frame(w)
  BY <1>1, <1>10 DEF Begin
<1>8. ASSUME \/ Dump(w) \/ WriteSql(w) \/ OpenGz(w) \/ CloseGz(w)
             \/ Verify(w) \/ WriteSha(w) \/ List(w) \/ Pruned(w) \/ Check(w)
      PROVE  Frame(w)
  BY <1>1, <1>8 DEF Dump, WriteSql, OpenGz, CloseGz, Verify, WriteSha, List, Pruned, Check
<1>9. ASSUME ReadSource(w) \/ OpenDump(w) \/ DropTarget(w) \/ Import(w) \/ Stats(w)
      PROVE  Frame(w)
  BY <1>1, <1>9 DEF ReadSource, OpenDump, DropTarget, Import, Stats
<1> QED BY <1>2, <1>3, <1>4, <1>5, <1>6, <1>7, <1>8, <1>9, <1>10
        DEF WorkerStep, BackupTask, RestoreTask

\* Every step of worker w changes the columns of a row as FileStep says.
LEMMA FileSteps ==
  ASSUME BackupInv, NEW w \in Worker, WorkerStep(w) \/ Kill(w)
  PROVE  FileStep(w)
<1> USE BackupAssumption DEF BackupAssumption, BackupInv, TypeOK, dbVars, apiVars, workerVars, diskVars, targetVars,
        Go, At, Idle, Id, NoId, Stem, NoStem, Step, BackupStep, RestoreStep, FileStep, Working, WorkerOK, Undone, Fresh, OwnStem, Writes, Numbering, Intact, DumpOK, Written, Verified, Record
<1>1. pc[w] # "idle" => job[w] \in Id
  BY DEF Numbering
<1>2. ASSUME NEW i \in Id, Take(w, i) PROVE FileStep(w)
  BY <1>2 DEF Take
<1>3. ASSUME Save(w) PROVE FileStep(w)
  <2>1. /\ rec' = [rec EXCEPT ![job[w]] = Saved(w)] /\ job[w] \in Id
        /\ pc[w] = "save" /\ bad' = bad
    BY <1>1, <1>3 DEF Save
  <2>2. Fresh(job[w]) /\ (rec[job[w]].op = "backup" => Writes(w) /\ stem[w] \notin bad)
    BY <2>1
  <2>3. rec[job[w]].op \in {"backup", "restore"} /\ sound[w] \in BOOLEAN
    BY <2>1 DEF Record, Op
  <2> HIDE DEF Working, WorkerOK, OwnStem, Writes, Numbering, Intact
  <2> QED BY <2>1, <2>2, <2>3, SavedIsRecord
<1>4. ASSUME Rescue(w) PROVE FileStep(w)
  <2> DEFINE r == [Saved(w) EXCEPT !.status = "failed", !.source = NoId]
  <2>1. job[w] \in Id /\ Saved(w) \in Record /\ bad' = bad
    BY <1>1, <1>4, SavedIsRecord DEF Rescue
  <2>2. rec[job[w]].op \in {"backup", "restore"} /\ sound[w] \in BOOLEAN
    BY <2>1 DEF Record, Op
  <2>3. CASE pc[w] = "rescueSave" /\ rec' = [rec EXCEPT ![job[w]] = r]
    <3>1. Fresh(job[w]) /\ (rec[job[w]].op = "backup" => Writes(w) /\ stem[w] \notin bad)
      BY <2>1, <2>3
    <3>2. r.file = Saved(w).file /\ r.valid = Saved(w).valid /\ r.status = "failed" /\ r.source = NoId
      BY <2>1 DEF Record
    <3> HIDE DEF r, Working, WorkerOK, OwnStem, Writes, Numbering, Intact
    <3> QED BY <2>1, <2>2, <2>3, <3>1, <3>2, SavedIsRecord
  <2>4. CASE rec' = [rec EXCEPT ![job[w]].status = "failed", ![job[w]].source = NoId]
    BY <2>1, <2>4 DEF Record
  <2> QED BY <1>4, <2>3, <2>4 DEF Rescue
<1>5. ASSUME NEW x \in Path, LookUp(w, x) PROVE FileStep(w)
  BY <1>5 DEF LookUp, Done
<1>6. ASSUME NEW x \in Path, Remove(w, x) PROVE FileStep(w)
  BY <1>6 DEF Remove, Done
<1>7. ASSUME Return(w) \/ Raise(w) \/ RescueFails(w) \/ Kill(w)
      PROVE  FileStep(w)
  BY <1>7 DEF Return, Raise, RescueFails, Kill
<1>10. ASSUME Begin(w) PROVE FileStep(w)
  BY <1>1, <1>10 DEF Begin
<1>8. ASSUME \/ Dump(w) \/ WriteSql(w) \/ OpenGz(w) \/ CloseGz(w)
             \/ Verify(w) \/ WriteSha(w) \/ List(w) \/ Pruned(w) \/ Check(w)
      PROVE  FileStep(w)
  BY <1>1, <1>8 DEF Dump, WriteSql, OpenGz, CloseGz, Verify, WriteSha, List, Pruned, Check
<1>9. ASSUME ReadSource(w) \/ OpenDump(w) \/ DropTarget(w) \/ Import(w) \/ Stats(w)
      PROVE  FileStep(w)
  BY <1>1, <1>9 DEF ReadSource, OpenDump, DropTarget, Import, Stats
<1> QED BY <1>2, <1>3, <1>4, <1>5, <1>6, <1>7, <1>8, <1>9, <1>10
        DEF WorkerStep, BackupTask, RestoreTask

\* Every step of worker w takes and damages stems as StemStep says.
LEMMA StemSteps ==
  ASSUME BackupInv, NEW w \in Worker, WorkerStep(w) \/ Kill(w)
  PROVE  StemStep(w)
<1> USE BackupAssumption DEF BackupAssumption, BackupInv, TypeOK, dbVars, apiVars, workerVars, diskVars, targetVars,
        Go, At, Idle, Id, NoId, Stem, NoStem, Step, BackupStep, RestoreStep, StemStep, Working, WorkerOK, Undone, Fresh, OwnStem, Writes, Numbering, Intact, DumpOK, Written, Verified
<1>1. pc[w] # "idle" => job[w] \in Id
  BY DEF Numbering
<1>2. ASSUME NEW i \in Id, Take(w, i) PROVE StemStep(w)
  BY <1>2 DEF Take
<1>3. ASSUME Save(w) PROVE StemStep(w)
  <2>1. /\ rec' = [rec EXCEPT ![job[w]] = Saved(w)] /\ job[w] \in Id
        /\ pc[w] = "save" /\ UNCHANGED <<bad, stem, clock, job>>
    BY <1>1, <1>3 DEF Save
  <2>2. rec'[job[w]].op = rec[job[w]].op
    BY <2>1, SavedIsRecord
  <2> QED BY <2>1, <2>2
<1>4. ASSUME ReadSource(w) PROVE StemStep(w)
  <2>1. job[w] \in Id /\ rec[job[w]].op = "restore" /\ UNCHANGED <<rec, job, clock, bad>>
    BY <1>1, <1>4 DEF ReadSource
  <2>2. rec[rec[job[w]].source].file <= clock /\ rec[job[w]].source \in Id
    BY <1>4, <2>1 DEF ReadSource, Files, Record
  <2>3. stem'[w] <= clock
    BY <1>4, <2>1, <2>2 DEF ReadSource
  <2> QED BY <2>1, <2>3
<1>5. ASSUME NEW x \in Path, LookUp(w, x) PROVE StemStep(w)
  BY <1>5 DEF LookUp, Done
<1>6. ASSUME NEW x \in Path, Remove(w, x) PROVE StemStep(w)
  BY <1>6 DEF Remove, Done
<1>7. ASSUME Return(w) \/ Raise(w) \/ RescueFails(w) \/ Kill(w)
      PROVE  StemStep(w)
  BY <1>1, <1>7 DEF Return, Raise, RescueFails, Kill
<1>11. ASSUME Begin(w) PROVE StemStep(w)
  BY <1>1, <1>11 DEF Begin
<1>10. ASSUME Rescue(w) PROVE StemStep(w)
  BY <1>1, <1>10 DEF Rescue
<1>8. ASSUME \/ Dump(w) \/ WriteSql(w) \/ OpenGz(w) \/ CloseGz(w)
             \/ Verify(w) \/ WriteSha(w) \/ List(w) \/ Pruned(w) \/ Check(w)
      PROVE  StemStep(w)
  BY <1>1, <1>8 DEF Dump, WriteSql, OpenGz, CloseGz, Verify, WriteSha, List, Pruned, Check
<1>9. ASSUME OpenDump(w) \/ DropTarget(w) \/ Import(w) \/ Stats(w)
      PROVE  StemStep(w)
  BY <1>1, <1>9 DEF OpenDump, DropTarget, Import, Stats
<1> QED BY <1>2, <1>3, <1>4, <1>5, <1>6, <1>7, <1>8, <1>9, <1>10, <1>11
        DEF WorkerStep, BackupTask, RestoreTask

\* A task starts with a message, which is gone then, and keeps its row.
QueueStep(w) ==
  /\ queue' \subseteq queue
  /\ IF pc'[w] = "idle" THEN job'[w] = NoId /\ stem'[w] = NoStem /\ todo'[w] = {}
     ELSE \/ pc[w] # "idle" /\ job'[w] = job[w]
          \/ pc[w] = "idle" /\ pc'[w] = "begin" /\ job'[w] \in queue \ queue' /\ UNCHANGED <<rec, stem>>

\* Every step of worker w treats messages as QueueStep says.
LEMMA QueueSteps ==
  ASSUME BackupInv, NEW w \in Worker, WorkerStep(w) \/ Kill(w)
  PROVE  QueueStep(w)
<1> USE BackupAssumption DEF BackupAssumption, BackupInv, TypeOK, dbVars, apiVars, workerVars, diskVars, targetVars,
        Go, At, Idle, Id, NoId, Stem, NoStem, Step, BackupStep, RestoreStep, QueueStep, Numbering
<1>1. pc[w] # "idle" => job[w] \in Id
  BY DEF Numbering
<1>2. ASSUME NEW i \in Id, Take(w, i) PROVE QueueStep(w)
  BY <1>2 DEF Take
<1>3. ASSUME NEW x \in Path, LookUp(w, x) PROVE QueueStep(w)
  BY <1>3 DEF LookUp, Done
<1>4. ASSUME NEW x \in Path, Remove(w, x) PROVE QueueStep(w)
  BY <1>4 DEF Remove, Done
<1>5. ASSUME \/ Begin(w) \/ Save(w) \/ Return(w)
             \/ Raise(w) \/ Rescue(w) \/ RescueFails(w) \/ Kill(w)
      PROVE  QueueStep(w)
  BY <1>1, <1>5 DEF Begin, Save, Return, Raise, Rescue, RescueFails, Kill
<1>6. ASSUME \/ Dump(w) \/ WriteSql(w) \/ OpenGz(w) \/ CloseGz(w)
             \/ Verify(w) \/ WriteSha(w) \/ List(w) \/ Pruned(w) \/ Check(w)
      PROVE  QueueStep(w)
  BY <1>1, <1>6 DEF Dump, WriteSql, OpenGz, CloseGz, Verify, WriteSha, List, Pruned, Check
<1>7. ASSUME ReadSource(w) \/ OpenDump(w) \/ DropTarget(w) \/ Import(w) \/ Stats(w)
      PROVE  QueueStep(w)
  BY <1>1, <1>7 DEF ReadSource, OpenDump, DropTarget, Import, Stats
<1> QED BY <1>2, <1>3, <1>4, <1>5, <1>6, <1>7
        DEF WorkerStep, BackupTask, RestoreTask

\* After a step of worker w the row it works on is as its step requires.
LEMMA TaskSteps ==
  ASSUME BackupInv, NEW w \in Worker, WorkerStep(w) \/ Kill(w)
  PROVE  WorkerOK(w)'
<1> USE BackupAssumption DEF BackupAssumption, BackupInv, TypeOK, dbVars, apiVars, workerVars, diskVars, targetVars,
        Go, At, Idle, Id, NoId, Stem, NoStem, Step, BackupStep, RestoreStep, WorkerOK, Numbering, Working, Undone, Fresh, Record, Status
<1>1. pc[w] # "idle" => job[w] \in Id
  BY DEF Numbering
<1>2. ASSUME NEW i \in Id, Take(w, i) PROVE WorkerOK(w)'
  BY <1>2 DEF Take
<1>3. ASSUME Begin(w) PROVE WorkerOK(w)'
  <2>1. /\ rec' = [rec EXCEPT ![job[w]].status = "running"]
        /\ job[w] \in Id /\ job' = job /\ Fresh(job[w])
        /\ pc'[w] = IF rec[job[w]].op = "backup" THEN "dump" ELSE "source"
    BY <1>1, <1>3 DEF Begin
  <2>2. rec[job[w]].op \in {"backup", "restore"}
    BY <2>1 DEF Op
  <2>3. /\ rec'[job[w]].status = "running" /\ rec'[job[w]].op = rec[job[w]].op
        /\ rec'[job[w]].file = rec[job[w]].file /\ rec'[job[w]].valid = rec[job[w]].valid
    BY <2>1
  <2> QED BY <2>1, <2>2, <2>3
<1>4. ASSUME NEW x \in Path, LookUp(w, x) PROVE WorkerOK(w)'
  BY <1>4 DEF LookUp, Done
<1>5. ASSUME NEW x \in Path, Remove(w, x) PROVE WorkerOK(w)'
  BY <1>5 DEF Remove, Done
<1>6. ASSUME Save(w) \/ Return(w) \/ Raise(w) \/ Rescue(w) \/ RescueFails(w) \/ Kill(w)
      PROVE  WorkerOK(w)'
  BY <1>1, <1>6 DEF Save, Return, Raise, Rescue, RescueFails, Kill
<1>7. ASSUME \/ Dump(w) \/ WriteSql(w) \/ OpenGz(w) \/ CloseGz(w)
             \/ Verify(w) \/ WriteSha(w) \/ List(w) \/ Pruned(w) \/ Check(w)
      PROVE  WorkerOK(w)'
  BY <1>1, <1>7 DEF Dump, WriteSql, OpenGz, CloseGz, Verify, WriteSha, List, Pruned, Check
<1>8. ASSUME ReadSource(w) \/ OpenDump(w) \/ DropTarget(w) \/ Import(w) \/ Stats(w)
      PROVE  WorkerOK(w)'
  BY <1>1, <1>8 DEF ReadSource, OpenDump, DropTarget, Import, Stats
<1> QED BY <1>2, <1>3, <1>4, <1>5, <1>6, <1>7, <1>8
        DEF WorkerStep, BackupTask, RestoreTask

\* After a step of worker w its archive is as its step requires.
LEMMA DumpSteps ==
  ASSUME BackupInv, NEW w \in Worker, WorkerStep(w) \/ Kill(w)
  PROVE  DumpOK(w)'
<1> USE BackupAssumption DEF BackupAssumption, BackupInv, TypeOK, dbVars, apiVars, workerVars, diskVars, targetVars,
        Go, At, Idle, Id, NoId, Stem, NoStem, Step, BackupStep, RestoreStep, DumpOK, Numbering, Working, WorkerOK, Undone, Intact, Verified, Written, Record, Op
<1>1. pc[w] # "idle" => job[w] \in Id
  BY DEF Numbering
<1>2. ASSUME NEW i \in Id, Take(w, i) PROVE DumpOK(w)'
  BY <1>2 DEF Take
<1>3. ASSUME NEW x \in Path, LookUp(w, x) PROVE DumpOK(w)'
  BY <1>3 DEF LookUp, Done
<1>4. ASSUME NEW x \in Path, Remove(w, x) PROVE DumpOK(w)'
  BY <1>4 DEF Remove, Done
<1>5. ASSUME \/ Begin(w) \/ Save(w) \/ Return(w)
             \/ Raise(w) \/ Rescue(w) \/ RescueFails(w) \/ Kill(w)
      PROVE  DumpOK(w)'
  BY <1>1, <1>5 DEF Begin, Save, Return, Raise, Rescue, RescueFails, Kill
<1>6. ASSUME \/ Dump(w) \/ WriteSql(w) \/ OpenGz(w) \/ CloseGz(w)
             \/ Verify(w) \/ WriteSha(w) \/ List(w) \/ Pruned(w) \/ Check(w)
      PROVE  DumpOK(w)'
  BY <1>1, <1>6 DEF Dump, WriteSql, OpenGz, CloseGz, Verify, WriteSha, List, Pruned, Check
<1>7. ASSUME ReadSource(w) \/ OpenDump(w) \/ DropTarget(w) \/ Import(w) \/ Stats(w)
      PROVE  DumpOK(w)'
  BY <1>1, <1>7 DEF ReadSource, OpenDump, DropTarget, Import, Stats
<1> QED BY <1>2, <1>3, <1>4, <1>5, <1>6, <1>7
        DEF WorkerStep, BackupTask, RestoreTask

\* After a step of worker w the source of its restore is as its step requires.
LEMMA SourceSteps ==
  ASSUME BackupInv, NEW w \in Worker, WorkerStep(w) \/ Kill(w)
  PROVE  SourceOK(w)'
<1> USE BackupAssumption DEF BackupAssumption, BackupInv, TypeOK, dbVars, apiVars, workerVars, diskVars, targetVars,
        Go, At, Idle, Id, NoId, Stem, NoStem, Step, BackupStep, RestoreStep, SourceOK, Numbering, Working, WorkerOK, Undone, Restoring, Record
<1>1. pc[w] # "idle" => job[w] \in Id
  BY DEF Numbering
<1>2. ASSUME NEW i \in Id, Take(w, i) PROVE SourceOK(w)'
  BY <1>2 DEF Take
<1>3. ASSUME NEW x \in Path, LookUp(w, x) PROVE SourceOK(w)'
  BY <1>3 DEF LookUp, Done
<1>4. ASSUME NEW x \in Path, Remove(w, x) PROVE SourceOK(w)'
  BY <1>4 DEF Remove, Done
<1>5. ASSUME \/ Begin(w) \/ Save(w) \/ Return(w)
             \/ Raise(w) \/ Rescue(w) \/ RescueFails(w) \/ Kill(w)
      PROVE  SourceOK(w)'
  BY <1>1, <1>5 DEF Begin, Save, Return, Raise, Rescue, RescueFails, Kill
<1>6. ASSUME \/ Dump(w) \/ WriteSql(w) \/ OpenGz(w) \/ CloseGz(w)
             \/ Verify(w) \/ WriteSha(w) \/ List(w) \/ Pruned(w) \/ Check(w)
      PROVE  SourceOK(w)'
  BY <1>1, <1>6 DEF Dump, WriteSql, OpenGz, CloseGz, Verify, WriteSha, List, Pruned, Check
<1>7. ASSUME ReadSource(w) \/ OpenDump(w) \/ DropTarget(w) \/ Import(w) \/ Stats(w)
      PROVE  SourceOK(w)'
  BY <1>1, <1>7 DEF ReadSource, OpenDump, DropTarget, Import, Stats
<1> QED BY <1>2, <1>3, <1>4, <1>5, <1>6, <1>7
        DEF WorkerStep, BackupTask, RestoreTask

-----------------------------------------------------------------------------
(* The conjuncts of the invariant, each over every step.                   *)

\* The three kinds of steps.
LEMMA NextCases ==
  ASSUME BackupInv, [Next]_vars
  PROVE  \/ Aside
         \/ \E r \in Record : Requested(r)
         \/ \E w \in Worker : WorkerStep(w) \/ Kill(w)
<1>1. UNCHANGED vars => Aside
  BY DEF vars, dbVars, apiVars, targetVars, Aside, core
<1>2. ASSUME NEW i \in Id, AskRestore(i) PROVE Aside
  BY <1>2 DEF AskRestore, Aside, core, targetVars
<1>3. ASSUME NEW i \in Id, Orphan(i) PROVE Aside
  BY <1>3 DEF Orphan, Aside, core, dbVars, apiVars
<1> QED BY <1>1, <1>2, <1>3, CreateRequests, RestoreRequests DEF Next, Api

\* Rows are inserted behind lastId and workers hold inserted ones.
LEMMA NumberingStep == BackupInv /\ [Next]_vars => Numbering'
<1> SUFFICES ASSUME BackupInv, [Next]_vars PROVE Numbering'
  OBVIOUS
<1> USE BackupAssumption DEF BackupAssumption, BackupInv, TypeOK, Numbering, Id, NoId, NoStem
<1>1. CASE Aside
  BY <1>1 DEF Aside, core, workerVars
<1>2. ASSUME NEW r \in Record, Requested(r) PROVE Numbering'
  BY <1>2 DEF Requested, workerVars
<1>3. ASSUME NEW w \in Worker, WorkerStep(w) \/ Kill(w) PROVE Numbering'
  <2>1. Frame(w) /\ QueueStep(w)
    BY <1>3, FrameStep, QueueSteps
  <2>2. queue' \subseteq 1 .. lastId'
    BY <2>1 DEF Frame, QueueStep
  <2>3. \A i \in Id : i > lastId' => rec'[i] = Blank
    <3> SUFFICES ASSUME NEW i \in Id, i > lastId PROVE rec'[i] = Blank
      BY <2>1 DEF Frame
    <3>1. i # job[w]
      OBVIOUS
    <3> QED BY <2>1, <3>1 DEF Frame
  <2>4. \A v \in Worker : IF pc'[v] = "idle"
                          THEN job'[v] = NoId /\ stem'[v] = NoStem /\ todo'[v] = {}
                          ELSE job'[v] \in 1 .. lastId'
    <3> SUFFICES ASSUME NEW v \in Worker
                 PROVE  IF pc'[v] = "idle"
                        THEN job'[v] = NoId /\ stem'[v] = NoStem /\ todo'[v] = {}
                        ELSE job'[v] \in 1 .. lastId'
      OBVIOUS
    <3>1. CASE v = w
      BY <2>1, <3>1 DEF Frame, QueueStep
    <3>2. CASE v # w
      BY <2>1, <3>2 DEF Frame
    <3> QED BY <3>1, <3>2
  <2> QED BY <2>2, <2>3, <2>4
<1> QED BY <1>1, <1>2, <1>3, NextCases

\* A task message moves from the broker to one worker.
LEMMA OneOwnerStep == BackupInv /\ [Next]_vars => OneOwner'
<1> SUFFICES ASSUME BackupInv, [Next]_vars PROVE OneOwner'
  OBVIOUS
<1> USE BackupAssumption DEF BackupAssumption, BackupInv, TypeOK, OneOwner, Numbering, Id, NoId
<1>1. CASE Aside
  BY <1>1 DEF Aside, core, workerVars
<1>2. ASSUME NEW r \in Record, Requested(r) PROVE OneOwner'
  <2>1. \A w \in Worker : job[w] \in 0 .. lastId
    OBVIOUS
  <2>2. lastId + 1 \notin 0 .. lastId
    OBVIOUS
  <2> QED BY <1>2, <2>1, <2>2 DEF Requested, workerVars
<1>3. ASSUME NEW w \in Worker, WorkerStep(w) \/ Kill(w) PROVE OneOwner'
  <2>1. Frame(w) /\ QueueStep(w)
    BY <1>3, FrameStep, QueueSteps
  <2>2. \A v \in Worker \ {w} : job'[v] = job[v] /\ job[v] \notin queue
    BY <2>1 DEF Frame
  <2>3. job'[w] \in {NoId, job[w]} \/ job'[w] \in queue \ queue'
    BY <2>1 DEF QueueStep
  <2>4. NoId \notin queue /\ queue' \subseteq queue
    BY <2>1 DEF QueueStep
  <2>5. \A v \in Worker : job'[v] \notin queue'
    BY <2>2, <2>3, <2>4
  <2>6. \A v \in Worker \ {w} : job'[v] = job'[w] => job'[w] = NoId
    BY <2>2, <2>3, <2>4
  <2>7. \A u, v \in Worker : u # v /\ job'[u] = job'[v] => job'[v] = NoId
    BY <2>2, <2>6
  <2> QED BY <2>5, <2>7
<1> QED BY <1>1, <1>2, <1>3, NextCases

\* The row of another worker is not the one a step writes.
LEMMA OthersRow ==
  ASSUME BackupInv, NEW w \in Worker, WorkerStep(w) \/ Kill(w),
         NEW v \in Worker \ {w}, pc[v] # "idle"
  PROVE  job[v] \in Id /\ job[v] # job[w] /\ job'[v] = job[v] /\ rec'[job[v]] = rec[job[v]]
<1>1. job[v] \in 1 .. lastId /\ lastId \in Id \cup {NoId}
  BY DEF BackupInv, Numbering, TypeOK
<1>2. job[v] \in Id /\ job[v] # NoId
  BY <1>1, BackupAssumption DEF BackupAssumption, Id, NoId
<1>3. job[v] # job[w]
  BY <1>2 DEF BackupInv, OneOwner
<1> QED BY <1>2, <1>3, FrameStep DEF Frame

\* Rows stay Fresh until their own task concludes them.
LEMMA WorkingStep == BackupInv /\ [Next]_vars => Working'
<1> SUFFICES ASSUME BackupInv, [Next]_vars PROVE Working'
  OBVIOUS
<1>1. CASE Aside
  BY <1>1 DEF BackupInv, Working, WorkerOK, Fresh, Aside, core, workerVars
<1>2. ASSUME NEW r \in Record, Requested(r) PROVE Working'
  <2> USE BackupAssumption DEF BackupAssumption, BackupInv, Id
  <2>1. \A i \in Id : i # lastId' => rec'[i] = rec[i]
    BY <1>2 DEF Requested, TypeOK
  <2>2. lastId' \in Id /\ rec'[lastId'] = r
    BY <1>2 DEF Requested, TypeOK
  <2>3. queue \subseteq Id /\ queue' \subseteq queue \cup {lastId'}
    BY <1>2 DEF Requested, TypeOK
  <2>4. \A i \in queue' : Fresh(i)'
    BY <1>2, <2>1, <2>2, <2>3 DEF Working, Fresh, Requested
  <2>5. ASSUME NEW w \in Worker PROVE WorkerOK(w)'
    <3>1. CASE pc[w] = "idle"
      BY <1>2, <3>1 DEF WorkerOK, Undone, BackupStep, RestoreStep, Requested, workerVars
    <3>2. CASE pc[w] # "idle"
      <4>1. job[w] \in Id /\ job[w] # lastId'
        BY <1>2, <3>2 DEF Numbering, Requested, TypeOK, NoId
      <4> QED BY <1>2, <2>1, <4>1 DEF Working, WorkerOK, Fresh, Requested, workerVars
    <3> QED BY <3>1, <3>2
  <2> QED BY <2>4, <2>5 DEF Working
<1>3. ASSUME NEW w \in Worker, WorkerStep(w) \/ Kill(w) PROVE Working'
  <2>1. Frame(w) /\ QueueStep(w) /\ WorkerOK(w)'
    BY <1>3, FrameStep, QueueSteps, TaskSteps
  <2>2. \A i \in queue' : i \in Id /\ i # job[w] /\ Fresh(i)
    BY <2>1 DEF QueueStep, BackupInv, OneOwner, Working, TypeOK
  <2>3. \A i \in queue' : Fresh(i)'
    BY <2>1, <2>2 DEF Frame, Fresh
  <2>4. ASSUME NEW v \in Worker \ {w} PROVE WorkerOK(v)'
    <3>1. pc'[v] = pc[v] /\ WorkerOK(v)
      BY <2>1 DEF Frame, BackupInv, Working
    <3>2. CASE pc[v] = "idle"
      BY <3>1, <3>2 DEF WorkerOK, Undone, BackupStep, RestoreStep
    <3>3. CASE pc[v] # "idle"
      BY <1>3, <3>1, <3>3, OthersRow DEF WorkerOK, Fresh
    <3> QED BY <3>2, <3>3
  <2> QED BY <2>1, <2>3, <2>4 DEF Working
<1> QED BY <1>1, <1>2, <1>3, NextCases

\* No other task damages an archive that was verified.
LEMMA IntactStep == BackupInv /\ [Next]_vars => Intact'
<1> SUFFICES ASSUME BackupInv, [Next]_vars PROVE Intact'
  OBVIOUS
<1>1. CASE Aside
  BY <1>1 DEF BackupInv, Intact, DumpOK, Aside, core, workerVars, diskVars
<1>2. ASSUME NEW r \in Record, Requested(r) PROVE Intact'
  <2> SUFFICES ASSUME NEW w \in Worker PROVE DumpOK(w)'
    BY DEF Intact
  <2> USE BackupAssumption DEF BackupAssumption, BackupInv, Id
  <2>1. \A i \in Id : i # lastId' => rec'[i] = rec[i]
    BY <1>2 DEF Requested, TypeOK
  <2>2. pc[w] # "idle" => job[w] \in Id /\ job[w] # lastId'
    BY <1>2 DEF Numbering, Requested, TypeOK, NoId
  <2> QED BY <1>2, <2>1, <2>2 DEF Intact, DumpOK, Requested, workerVars, diskVars
<1>3. ASSUME NEW w \in Worker, WorkerStep(w) \/ Kill(w) PROVE Intact'
  <2>1. Frame(w) /\ StemStep(w) /\ DumpOK(w)'
    BY <1>3, FrameStep, StemSteps, DumpSteps
  <2>2. ASSUME NEW v \in Worker \ {w}, pc[v] # "idle", rec[job[v]].op = "backup"
        PROVE  stem[v] # NoStem => (stem[v] \notin bad => stem[v] \notin bad')
    <3>1. Writes(w) /\ Writes(v) => stem[v] # stem[w]
      BY DEF BackupInv, OwnStem
    <3> QED BY <2>1, <2>2, <3>1 DEF StemStep, Writes
  <2>3. ASSUME NEW v \in Worker \ {w} PROVE DumpOK(v)'
    <3>1. pc'[v] = pc[v] /\ stem'[v] = stem[v] /\ DumpOK(v)
      BY <2>1 DEF Frame, BackupInv, Intact
    <3>2. CASE pc[v] = "idle"
      BY <3>1, <3>2 DEF DumpOK
    <3>3. CASE pc[v] # "idle"
      BY <1>3, <2>2, <3>1, <3>3, OthersRow DEF DumpOK, Written
    <3> QED BY <3>2, <3>3
  <2> QED BY <2>1, <2>3 DEF Intact
<1> QED BY <1>1, <1>2, <1>3, NextCases

\* A new dump gets a stem that nobody has, and keeps it.
LEMMA OwnStemStep == BackupInv /\ [Next]_vars => OwnStem'
<1> SUFFICES ASSUME BackupInv, [Next]_vars PROVE OwnStem'
  OBVIOUS
<1>1. CASE Aside
  BY <1>1 DEF BackupInv, OwnStem, Writes, Aside, core, workerVars, diskVars
<1>2. ASSUME NEW r \in Record, Requested(r) PROVE OwnStem'
  <2> USE BackupAssumption DEF BackupAssumption, BackupInv, Id
  <2>1. /\ \A i \in Id : i # lastId' => rec'[i] = rec[i]
        /\ lastId' \in Id /\ rec'[lastId'].file = NoStem
    BY <1>2 DEF Requested, TypeOK
  <2>2. \A w \in Worker : pc[w] # "idle" => job[w] \in Id /\ job[w] # lastId'
    BY <1>2 DEF Numbering, Requested, TypeOK, NoId
  <2>3. \A w \in Worker : Writes(w)' <=> Writes(w)
    BY <1>2, <2>1, <2>2 DEF Writes, Requested, workerVars
  <2>4. \A w \in Worker : Writes(w) => \A i \in Id \ {job[w]} : rec'[i].file # stem[w]
    BY <2>1, <2>2 DEF OwnStem, Writes
  <2> QED BY <1>2, <2>3, <2>4 DEF OwnStem, Requested, workerVars, diskVars
<1>3. ASSUME NEW w \in Worker, WorkerStep(w) \/ Kill(w) PROVE OwnStem'
  <2>1. Frame(w) /\ StemStep(w) /\ FileStep(w) /\ QueueStep(w)
    BY <1>3, FrameStep, StemSteps, FileSteps, QueueSteps
  <2>2. /\ clock \in Int /\ clock' \in Int /\ clock <= clock' /\ clock >= NoStem
        /\ \A v \in Worker : stem[v] \in Int /\ stem[v] <= clock
        /\ \A i \in Id : rec[i].file \in Int /\ rec[i].file <= clock
    BY <2>1, BackupAssumption
    DEF StemStep, BackupInv, TypeOK, Record, Stem, NoStem, BackupAssumption, OwnStem, Files
  <2>3. \A v \in Worker : stem'[v] <= clock'
    BY <2>1, <2>2 DEF StemStep, Frame
  <2>4. ASSUME NEW v \in Worker \ {w}
        PROVE  /\ Writes(v)' <=> Writes(v)
               /\ stem'[v] = stem[v] /\ job'[v] = job[v]
    BY <1>3, <2>1, OthersRow DEF Frame, Writes
  <2>5. \A i \in Id : rec'[i].file # rec[i].file =>
          i = job[w] /\ Writes(w) /\ rec'[i].file = stem[w]
    BY <2>1 DEF FileStep
  <2>6. \A v, u \in Worker : u # v /\ Writes(u) /\ Writes(v) => stem[u] # stem[v]
    BY DEF BackupInv, OwnStem
  <2>7. ASSUME NEW v \in Worker, Writes(v)' PROVE \A i \in Id \ {job'[v]} : rec'[i].file # stem'[v]
    <3>1. CASE v # w
      BY <2>4, <2>5, <2>6, <2>7, <3>1 DEF BackupInv, OwnStem
    <3>2. CASE v = w /\ Writes(w) /\ stem'[w] = stem[w] /\ job'[w] = job[w]
      BY <2>5, <3>2 DEF BackupInv, OwnStem
    <3>3. CASE v = w /\ stem'[w] = clock + 1 /\ clock' = clock + 1
      <4>1. \A i \in Id : rec'[i].file <= clock /\ rec'[i].file \in Int
        BY <2>2, <2>5
      <4> QED BY <2>2, <3>3, <4>1
    <3> QED BY <2>1, <2>7, <3>1, <3>2, <3>3 DEF StemStep
  <2>8. ASSUME NEW v \in Worker \ {w}, Writes(v)', Writes(w)' PROVE stem'[v] # stem'[w]
    <3>1. Writes(v) /\ stem'[v] = stem[v] /\ stem[v] <= clock
      BY <2>2, <2>4, <2>8
    <3>2. (Writes(w) /\ stem'[w] = stem[w]) \/ stem'[w] = clock + 1
      BY <2>1, <2>8 DEF StemStep
    <3> QED BY <2>2, <2>6, <3>1, <3>2
  <2>9. ASSUME NEW u \in Worker, NEW v \in Worker \ {u}, Writes(u)', Writes(v)'
        PROVE  stem'[v] # stem'[u]
    BY <2>4, <2>6, <2>8, <2>9
  <2> QED BY <2>3, <2>7, <2>9 DEF OwnStem
<1> QED BY <1>1, <1>2, <1>3, NextCases

\* What rows say of their files stays true.
LEMMA FilesStep == BackupInv /\ [Next]_vars => Files'
<1> SUFFICES ASSUME BackupInv, [Next]_vars PROVE Files'
  OBVIOUS
<1> USE DEF NoStem
<1>1. CASE Aside
  BY <1>1 DEF BackupInv, Files, Aside, core, diskVars
<1>2. ASSUME NEW r \in Record, Requested(r) PROVE Files'
  <2> USE BackupAssumption DEF BackupAssumption, BackupInv
  <2>1. /\ \A i \in Id : i # lastId' => rec'[i] = rec[i]
        /\ lastId' \in Id /\ rec'[lastId'] = r
        /\ r.file = NoStem /\ ~r.valid /\ r.status = "running"
        /\ bad' = bad /\ clock' = clock /\ clock \in Nat
    BY <1>2 DEF Requested, TypeOK, diskVars, Stem
  <2>2. rec[lastId'] = Blank
    BY <1>2 DEF Requested, Numbering, TypeOK, Id, NoId
  <2>3. \A i \in Id : rec[i].valid => rec'[i].valid /\ rec'[i] = rec[i]
    BY <2>1, <2>2 DEF Blank
  <2>4. r.op = "restore" /\ r.source # NoId => rec'[r.source].valid
    BY <1>2, <2>3 DEF Requested
  <2>5. ASSUME NEW i \in Id, i # lastId', rec[i].op = "restore", rec[i].source # NoId
        PROVE  rec'[rec[i].source].valid
    <3>1. rec[i].source \in Id
      BY <2>5 DEF TypeOK, Record, NoId
    <3> QED BY <2>3, <2>5, <3>1 DEF Files
  <2>6. \A i \in Id : rec'[i].file = rec[i].file
    BY <2>1, <2>2 DEF Blank
  <2>7. ASSUME NEW i \in Id
        PROVE /\ rec'[i].file <= clock'
              /\ rec'[i].op = "restore" => rec'[i].file = NoStem
              /\ rec'[i].valid => rec'[i].file # NoStem /\ rec'[i].file \notin bad'
              /\ rec'[i].op = "backup" /\ rec'[i].status = "succeeded" => rec'[i].valid
              /\ rec'[i].op = "restore" /\ rec'[i].source # NoId => rec'[rec'[i].source].valid
              /\ \A j \in Id \ {i} : rec'[i].file = rec'[j].file => rec'[i].file = NoStem
    <3>1. \A j \in Id \ {i} : rec'[i].file = rec'[j].file => rec'[i].file = NoStem
      BY <2>6 DEF Files
    <3>2. CASE i = lastId'
      BY <2>1, <2>4, <3>1, <3>2
    <3>3. CASE i # lastId'
      BY <2>1, <2>5, <3>1, <3>3 DEF Files
    <3> QED BY <3>2, <3>3
  <2> QED BY <2>7 DEF Files
<1>3. ASSUME NEW w \in Worker, WorkerStep(w) \/ Kill(w) PROVE Files'
  <2> USE DEF BackupInv
  <2>1. Frame(w) /\ StemStep(w) /\ FileStep(w) /\ TypeOK'
    BY <1>3, FrameStep, StemSteps, FileSteps, TypeStep DEF Next
  <2>2. /\ clock \in Int /\ clock' \in Int /\ clock <= clock' /\ clock >= NoStem
        /\ \A v \in Worker : stem[v] \in Int /\ stem[v] <= clock
        /\ \A i \in Id : rec[i].file \in Int /\ rec[i].file <= clock
    BY <2>1, BackupAssumption DEF StemStep, TypeOK, Record, Stem, BackupAssumption, OwnStem, Files
  <2>3. \A i \in Id : rec'[i].file \in {rec[i].file} \cup {stem[w]}
    BY <2>1 DEF FileStep
  <2>4. \A i \in Id : rec'[i].op = rec[i].op
    BY <2>1 DEF Frame
  <2>5. ASSUME NEW i \in Id, rec[i].valid
        PROVE  rec'[i].valid /\ rec'[i].file = rec[i].file /\ rec'[i].file \notin bad'
    <3>1. rec'[i].file = rec[i].file
      BY <2>1, <2>5 DEF FileStep, Fresh
    <3>2. rec'[i].valid
      BY <2>1, <2>5 DEF FileStep
    <3>3. rec[i].file \notin bad /\ rec[i].file # NoStem
      BY <2>5 DEF Files
    <3>4. ASSUME rec[i].file \in bad' PROVE FALSE
      <4>1. Writes(w) /\ rec[i].file = stem[w] /\ Fresh(job[w])
        BY <2>1, <3>3, <3>4 DEF StemStep
      <4>2. i # job[w]
        BY <2>5, <4>1 DEF Fresh
      <4> QED BY <4>1, <4>2 DEF OwnStem
    <3> QED BY <3>1, <3>2, <3>4
  <2>6. ASSUME NEW i \in Id, rec'[i].valid
        PROVE  rec'[i].file # NoStem /\ rec'[i].file \notin bad'
    <3>1. CASE rec[i].valid
      BY <2>5, <3>1 DEF Files
    <3>2. CASE ~rec[i].valid
      BY <2>1, <2>6, <3>2 DEF FileStep, Writes
    <3> QED BY <3>1, <3>2
  <2>7. ASSUME NEW i \in Id, rec'[i].op = "restore" PROVE rec'[i].file = NoStem
    BY <2>1, <2>4, <2>7 DEF FileStep, Files, Writes
  <2>8. ASSUME NEW i \in Id, rec'[i].op = "backup", rec'[i].status = "succeeded"
        PROVE  rec'[i].valid
    BY <2>1, <2>4, <2>5, <2>8 DEF FileStep, Files
  <2>9. ASSUME NEW i \in Id, rec'[i].op = "restore", rec'[i].source # NoId
        PROVE  rec'[rec'[i].source].valid
    <3>1. rec'[i].source = rec[i].source
      BY <2>1, <2>9 DEF FileStep
    <3>2. rec[i].source \in Id
      BY <2>9, <3>1 DEF TypeOK, Record
    <3> QED BY <2>4, <2>5, <2>9, <3>1, <3>2 DEF Files
  <2>10. ASSUME NEW i \in Id, NEW j \in Id \ {i}, rec'[i].file = rec'[j].file
         PROVE  rec'[i].file = NoStem
    <3>1. CASE rec'[i].file = rec[i].file /\ rec'[j].file = rec[j].file
      BY <2>10, <3>1 DEF Files
    <3>2. CASE rec'[i].file # rec[i].file
      BY <2>1, <2>10, <3>2 DEF FileStep, OwnStem
    <3>3. CASE rec'[j].file # rec[j].file
      BY <2>1, <2>10, <3>3 DEF FileStep, OwnStem
    <3> QED BY <3>1, <3>2, <3>3
  <2>11. \A i \in Id : rec'[i].file <= clock'
    BY <2>2, <2>3
  <2> QED BY <2>6, <2>7, <2>8, <2>9, <2>10, <2>11 DEF Files
<1> QED BY <1>1, <1>2, <1>3, NextCases

\* The backup a restore reads keeps its file.
LEMMA RestoringStep == BackupInv /\ [Next]_vars => Restoring'
<1> SUFFICES ASSUME BackupInv, [Next]_vars PROVE Restoring'
  OBVIOUS
<1>1. CASE Aside
  BY <1>1 DEF BackupInv, Restoring, SourceOK, Aside, core, workerVars
<1>2. \A w \in Worker : pc[w] \in {"open", "drop", "import", "finish", "stats"} =>
        /\ job[w] \in Id /\ rec[job[w]].op = "restore"
        /\ rec[job[w]].source \in Id /\ rec[job[w]].source # NoId
        /\ rec[rec[job[w]].source].valid
        /\ stem[w] = rec[rec[job[w]].source].file
  <2> SUFFICES ASSUME NEW w \in Worker, pc[w] \in {"open", "drop", "import", "finish", "stats"}
               PROVE  /\ job[w] \in Id /\ rec[job[w]].op = "restore"
                      /\ rec[job[w]].source \in Id /\ rec[job[w]].source # NoId
                      /\ rec[rec[job[w]].source].valid
                      /\ stem[w] = rec[rec[job[w]].source].file
    OBVIOUS
  <2>1. job[w] \in Id /\ rec[job[w]].op = "restore"
    BY BackupAssumption DEF BackupAssumption, BackupInv, Numbering, TypeOK, Id, NoId, Working,
       WorkerOK, Undone, RestoreStep
  <2>2. /\ rec[job[w]].source \in Id /\ rec[job[w]].source # NoId
        /\ stem[w] = rec[rec[job[w]].source].file
    BY <2>1 DEF BackupInv, Restoring, SourceOK, TypeOK, Record
  <2> QED BY <2>1, <2>2 DEF BackupInv, Files
<1>3. ASSUME NEW r \in Record, Requested(r) PROVE Restoring'
  <2> USE BackupAssumption DEF BackupAssumption, BackupInv
  <2>1. \A i \in Id : i # lastId' => rec'[i] = rec[i]
    BY <1>3 DEF Requested, TypeOK
  <2>2. lastId' \in Id /\ rec[lastId'] = Blank
    BY <1>3 DEF Requested, Numbering, TypeOK, Id, NoId
  <2>3. \A w \in Worker : pc[w] # "idle" => job[w] \in Id /\ job[w] # lastId'
    BY <1>3 DEF Numbering, Requested, TypeOK, Id, NoId
  <2> QED BY <1>2, <1>3, <2>1, <2>2, <2>3 DEF Restoring, SourceOK, Blank, Requested, workerVars
<1>4. ASSUME NEW w \in Worker, WorkerStep(w) \/ Kill(w) PROVE Restoring'
  <2>1. Frame(w) /\ FileStep(w) /\ SourceOK(w)'
    BY <1>4, FrameStep, FileSteps, SourceSteps
  <2>2. ASSUME NEW v \in Worker \ {w}, pc[v] # "idle" PROVE rec'[job'[v]] = rec[job[v]]
    BY <1>4, <2>2, OthersRow
  <2>3. \A i \in Id : rec[i].valid => rec'[i].file = rec[i].file
    BY <2>1 DEF FileStep, Fresh
  <2>4. ASSUME NEW v \in Worker \ {w} PROVE SourceOK(v)'
    BY <1>2, <2>1, <2>2, <2>3 DEF Frame, SourceOK
  <2> QED BY <2>1, <2>4 DEF Restoring
<1> QED BY <1>1, <1>3, <1>4, NextCases

\* A valid row stays valid.
LEMMA AskingStep == BackupInv /\ [Next]_vars => Asking'
<1> SUFFICES ASSUME BackupInv, [Next]_vars PROVE Asking'
  OBVIOUS
<1> USE DEF BackupInv, Asking, TypeOK
<1>1. CASE Aside
  BY <1>1 DEF Aside, core
<1>2. ASSUME NEW r \in Record, Requested(r) PROVE Asking'
  <2>1. lastId' \in Id /\ rec[lastId'] = Blank
    BY <1>2, BackupAssumption DEF BackupAssumption, Requested, Numbering, Id, NoId
  <2>2. \A i \in Id : rec[i].valid => rec'[i] = rec[i]
    BY <1>2, <2>1 DEF Requested, Blank
  <2> QED BY <1>2, <2>2 DEF Requested
<1>3. ASSUME NEW w \in Worker, WorkerStep(w) \/ Kill(w) PROVE Asking'
  <2>1. Frame(w) /\ FileStep(w)
    BY <1>3, FrameStep, FileSteps
  <2> QED BY <2>1 DEF Frame, FileStep
<1> QED BY <1>1, <1>2, <1>3, NextCases

\* Only a worker that dies while its restore imports leaves a client behind.
LEMMA OrphanSteps ==
  ASSUME BackupInv, NEW w \in Worker, WorkerStep(w) \/ Kill(w)
  PROVE  \/ orphan' = orphan
         \/ pc[w] \in Filling /\ orphan' = orphan \cup {job[w]} /\ job'[w] = NoId /\ UNCHANGED <<rec, queue>>
<1> USE DEF dbVars, apiVars, workerVars, diskVars, targetVars
<1>1. CASE Kill(w)
  BY <1>1 DEF Kill, Idle, BackupInv, TypeOK
<1>2. CASE BackupTask(w) \/ RestoreTask(w)
  BY <1>2 DEF BackupTask, RestoreTask, Dump, WriteSql, OpenGz, CloseGz, Verify, WriteSha, List, LookUp,
     Remove, Pruned, Check, ReadSource, OpenDump, DropTarget, Import, Stats
<1>3. CASE \/ Begin(w) \/ Save(w) \/ Return(w) \/ Raise(w) \/ Rescue(w) \/ RescueFails(w)
           \/ \E i \in Id : Take(w, i)
  BY <1>3 DEF Begin, Save, Return, Raise, Rescue, RescueFails, Take
<1> QED BY <1>1, <1>2, <1>3 DEF WorkerStep

\* What is left behind is a restore that nobody works on any more.
LEMMA OrphanedStep == BackupInv /\ [Next]_vars => Orphaned'
<1> SUFFICES ASSUME BackupInv, [Next]_vars PROVE Orphaned'
  OBVIOUS
<1> USE BackupAssumption DEF BackupAssumption, BackupInv, TypeOK, Id, NoId
<1>1. CASE Aside
  BY <1>1 DEF Aside, core, workerVars, Orphaned, Fresh
<1>2. ASSUME NEW r \in Record, Requested(r) PROVE Orphaned'
  <2>1. \A i \in orphan : i # lastId' /\ i \in Id /\ rec'[i] = rec[i]
    BY <1>2 DEF Requested, Orphaned
  <2> QED BY <1>2, <2>1 DEF Requested, Orphaned, Fresh, workerVars, targetVars
<1>3. ASSUME NEW w \in Worker, WorkerStep(w) \/ Kill(w) PROVE Orphaned'
  <2>1. Frame(w) /\ QueueStep(w)
    BY <1>3, FrameStep, QueueSteps
  <2>2. ASSUME NEW i \in orphan
        PROVE  /\ i <= lastId' /\ i \notin queue' /\ \A v \in Worker : job'[v] # i
               /\ Fresh(i)' /\ rec'[i].op = "restore" /\ rec'[i].source # NoId
    <3>1. i \in Id /\ i # job[w] /\ rec'[i] = rec[i]
      BY <2>1 DEF Frame, Orphaned
    <3>2. \A v \in Worker : job'[v] # i
      BY <2>1, <3>1 DEF Frame, QueueStep, Orphaned
    <3> QED BY <2>1, <3>1, <3>2 DEF Frame, QueueStep, Orphaned, Fresh
  <2>3. CASE orphan' = orphan
    BY <2>2, <2>3 DEF Orphaned
  <2>4. CASE /\ pc[w] \in Filling /\ orphan' = orphan \cup {job[w]} /\ job'[w] = NoId
             /\ UNCHANGED <<rec, queue>>
    <3>1. /\ job[w] \in 1 .. lastId /\ Fresh(job[w]) /\ rec[job[w]].op = "restore"
          /\ rec[job[w]].source # NoId /\ job[w] \notin queue
      BY <2>4 DEF Numbering, Working, WorkerOK, Undone, RestoreStep, Filling, Restoring, SourceOK, OneOwner
    <3>2. \A v \in Worker : job'[v] # job[w]
      BY <2>1, <2>4, <3>1 DEF Frame, OneOwner
    <3> QED BY <2>1, <2>2, <2>4, <3>1, <3>2 DEF Orphaned, Frame, Fresh
  <2> QED BY <1>3, <2>3, <2>4, OrphanSteps
<1> QED BY <1>1, <1>2, <1>3, NextCases

\* The invariant holds of the empty table and the idle workers.
LEMMA BackupInit == Init => BackupInv
BY BackupAssumption DEF BackupAssumption, Init, BackupInv, TypeOK, Numbering, OneOwner, Working,
   WorkerOK, Files, OwnStem, Writes, Intact, DumpOK, Restoring, SourceOK, Undone, Written, Verified,
   BackupStep, RestoreStep, Step, Blank, Record, Op, Status, Id, NoId, Stem, NoStem, Asking, Orphaned

\* BackupInv is an invariant, for any number of workers, rows and dumps and
\* whatever the environment does.
THEOREM BackupInvariant == Spec => []BackupInv
<1>1. BackupInv /\ [Next]_vars => BackupInv'
  BY TypeStep, NumberingStep, OneOwnerStep, WorkingStep, FilesStep, OwnStemStep, IntactStep,
     RestoringStep, AskingStep, OrphanedStep DEF BackupInv
<1> QED BY <1>1, BackupInit, PTL DEF Spec

\* Every variable keeps its type.
THEOREM BackupTypes == Spec => []TypeOK
<1>1. BackupInv => TypeOK
  BY DEF BackupInv
<1> QED BY <1>1, BackupInvariant, PTL

\* Without "rot" no file passes for a dump that is none.
LEMMA OddSteps ==
  ASSUME "rot" \in Events \/ odd = {}, [Next]_vars
  PROVE  "rot" \in Events \/ odd' = {}
<1> SUFFICES ASSUME odd = {}, "rot" \notin Events PROVE odd' = odd
  OBVIOUS
<1> USE DEF diskVars
<1>1. CASE UNCHANGED vars \/ Api \/ \E i \in Id : Orphan(i)
  BY <1>1 DEF vars, Api, CreateBackup, AskRestore, RestoreBackup, Insert, Orphan
<1>2. ASSUME NEW w \in Worker, WorkerStep(w) \/ Kill(w) PROVE odd' = odd
  BY <1>2 DEF WorkerStep, BackupTask, RestoreTask, Dump, WriteSql, OpenGz, CloseGz, Verify, WriteSha, List, LookUp,
     Remove, Pruned, Check, ReadSource, OpenDump, DropTarget, Import, Stats, Begin, Save, Return, Raise, Rescue,
     RescueFails, Take, Kill
<1> QED BY <1>1, <1>2 DEF Next

\* A record that says "succeeded" names a dump of its own that passes the
\* validation for as long as it is on disk, with any number of backups at once and
\* with crashes; and it can be decompressed, if the disk keeps what is written.
THEOREM SucceededFilesIntact == Spec => []SucceededFileIntact
<1> DEFINE Kept == "rot" \in Events \/ odd = {}
<1>1. BackupInv /\ Kept => SucceededFileIntact
  <2> SUFFICES ASSUME BackupInv, Kept, NEW i \in Id, rec[i].op = "backup", rec[i].status = "succeeded",
                      NEW f, f = rec[i].file
               PROVE  /\ rec[i].valid /\ f # NoStem /\ f \notin bad
                      /\ \A j \in Id \ {i} : rec[j].file # f
                      /\ \A w \in Worker : stem[w] = f /\ job[w] # i => rec[job[w]].op = "restore"
    BY DEF SucceededFileIntact
  <2>1. /\ rec[i].valid /\ f # NoStem /\ f \notin bad
        /\ \A j \in Id \ {i} : rec[j].file # f
    BY DEF BackupInv, Files
  <2>2. ASSUME NEW w \in Worker, stem[w] = f, job[w] # i PROVE rec[job[w]].op = "restore"
    <3>1. pc[w] # "idle" /\ job[w] \in Id
      BY <2>1, <2>2, BackupAssumption DEF BackupAssumption, BackupInv, Numbering, TypeOK, Id, NoId
    <3>2. ~Writes(w)
      BY <2>2 DEF BackupInv, OwnStem
    <3> QED BY <2>1, <2>2, <3>1, <3>2 DEF Writes, BackupInv, TypeOK, Record, Op
  <2> QED BY <2>1, <2>2
<1>2. Init => Kept
  BY DEF Init
<1>3. Kept /\ [Next]_vars => Kept'
  BY OddSteps
<1> HIDE DEF Kept
<1> QED BY <1>1, <1>2, <1>3, BackupInvariant, PTL DEF Spec

\* What a restore imports is the dump of a backup that was validated, although
\* the check is made when the restore is requested and not when it runs.
THEOREM RestoresAreValidated == Spec => []RestoresValidated
<1>1. BackupInv => RestoresValidated
  <2> SUFFICES ASSUME BackupInv, NEW w \in Worker, pc[w] \in {"drop", "import", "finish", "stats"},
                      NEW i, i = rec[job[w]].source
               PROVE  i # NoId /\ rec[i].op = "backup" /\ rec[i].valid /\ stem[w] = rec[i].file
    BY DEF RestoresValidated
  <2>1. job[w] \in Id /\ rec[job[w]].op = "restore"
    BY BackupAssumption DEF BackupAssumption, BackupInv, Numbering, TypeOK, Id, NoId, Working,
       WorkerOK, Undone, RestoreStep
  <2>2. i # NoId /\ i \in Id /\ stem[w] = rec[i].file
    BY <2>1 DEF BackupInv, Restoring, SourceOK, TypeOK, Record
  <2>3. rec[i].valid
    BY <2>1, <2>2 DEF BackupInv, Files
  <2>4. rec[i].op = "backup"
    BY <2>2, <2>3 DEF BackupInv, Files, TypeOK, Record, Op
  <2> QED BY <2>2, <2>3, <2>4
<1> QED BY <1>1, BackupInvariant, PTL

-----------------------------------------------------------------------------
(* What retention removes.                                                 *)

\* The archives on disk are finitely many.
LEMMA ArchivesFinite == Archives \in SUBSET Nat /\ IsFiniteSet(Archives)
<1>1. IsFiniteSet(Stem)
  BY BackupAssumption, FS_Interval DEF BackupAssumption, Stem
<1>2. Archives \in SUBSET Stem
  BY DEF Archives
<1>3. Stem \subseteq Nat
  BY BackupAssumption DEF BackupAssumption, Stem
<1> QED BY <1>1, <1>2, <1>3, FS_Subset

\* A step removes at most one archive, the next of the retention pass or one
\* that has just failed its verification; a pass is planned by one listing.
DiskStep(w) ==
  /\ \A f \in Archives \ Archives' :
       /\ Archives' = Archives \ {f}
       /\ <<f, Gz>> \in todo[w] \/ (pc[w] = "verify" /\ f = stem[w] /\ f \in bad)
  /\ todo'[w] \subseteq todo[w] \/ (todo'[w] = Surplus \X {Gz, Sql, Sha} /\ disk' = disk)
  /\ pc'[w] = "verify" => \/ pc[w] = "verify" /\ stem'[w] = stem[w] /\ bad' = bad
                          \/ "rot" \in Events \/ stem'[w] \notin bad'

\* Every step of worker w changes the directory as DiskStep says.
LEMMA DiskSteps ==
  ASSUME BackupInv, NEW w \in Worker, WorkerStep(w) \/ Kill(w)
  PROVE  DiskStep(w)
<1> USE BackupAssumption DEF BackupAssumption, BackupInv, TypeOK, dbVars, apiVars, workerVars, diskVars, targetVars,
        Go, At, Idle, Id, NoId, Stem, NoStem, Step, BackupStep, RestoreStep, DiskStep, Archives, Gz, Sql, Sha, Path
<1>1. pc[w] # "idle" => job[w] \in Id
  BY DEF Numbering
<1>2. ASSUME NEW i \in Id, Take(w, i) PROVE DiskStep(w)
  BY <1>2 DEF Take
<1>3. ASSUME NEW x \in Path, LookUp(w, x) PROVE DiskStep(w)
  BY <1>3 DEF LookUp, Done
<1>4. ASSUME NEW x \in Path, Remove(w, x) PROVE DiskStep(w)
  <2>1. PICK f \in Stem, k \in {Gz, Sql, Sha} : x = <<f, k>>
    BY DEF Path
  <2>2. /\ disk' = disk \ {<<f, k>>} /\ <<f, k>> \in todo[w]
        /\ todo'[w] \subseteq todo[w] /\ pc'[w] = "prune"
    BY <1>4, <2>1 DEF Remove, Done, IsFirst
  <2>3. CASE k = Gz
    <3>1. Archives' = Archives \ {f}
      BY <2>2, <2>3 DEF Archives
    <3> QED BY <2>2, <2>3, <3>1
  <2>4. CASE k # Gz
    <3>1. Archives' = Archives
      BY <2>2, <2>4 DEF Archives
    <3> QED BY <2>2, <3>1
  <2> QED BY <2>3, <2>4
<1>5. ASSUME \/ Begin(w) \/ Save(w) \/ Return(w)
             \/ Raise(w) \/ Rescue(w) \/ RescueFails(w) \/ Kill(w)
      PROVE  DiskStep(w)
  BY <1>1, <1>5 DEF Begin, Save, Return, Raise, Rescue, RescueFails, Kill
<1>6. ASSUME \/ Dump(w) \/ WriteSql(w) \/ OpenGz(w) \/ WriteSha(w) \/ List(w) \/ Pruned(w) \/ Check(w)
      PROVE  DiskStep(w)
  BY <1>1, <1>6 DEF Dump, WriteSql, OpenGz, WriteSha, List, Pruned, Check
<1>9. ASSUME Verify(w) PROVE DiskStep(w)
  BY <1>9 DEF Verify
<1>8. ASSUME CloseGz(w) PROVE DiskStep(w)
  BY <1>8 DEF CloseGz
<1>7. ASSUME ReadSource(w) \/ OpenDump(w) \/ DropTarget(w) \/ Import(w) \/ Stats(w)
      PROVE  DiskStep(w)
  BY <1>1, <1>7 DEF ReadSource, OpenDump, DropTarget, Import, Stats
<1> QED BY <1>2, <1>3, <1>4, <1>5, <1>6, <1>7, <1>8, <1>9
        DEF WorkerStep, BackupTask, RestoreTask

-----------------------------------------------------------------------------
(* What a restore leaves in the target database.                           *)

\* The halves of the target that are imported come from the dump of w, unless
\* another restore has crossed it.
ImportedOK(w) ==
  w \notin crossed =>
    /\ pc[w] \in {"finish", "stats"} => target[1] = stem[w]
    /\ pc[w] = "stats" => target[2] = stem[w]

Imported == \A w \in Worker : ImportedOK(w)

\* Who writes to the target crosses the others, and nobody forgets it for them.
TargetStep(w) ==
  /\ target' = target \/ Others(w) \subseteq crossed'
  /\ crossed \ {w} \subseteq crossed'

\* Every step of worker w treats the target database as TargetStep says, and
\* keeps ImportedOK for itself.
LEMMA TargetSteps ==
  ASSUME NEW w \in Worker, BackupInv, ImportedOK(w), WorkerStep(w) \/ Kill(w)
  PROVE  TargetStep(w) /\ ImportedOK(w)'
<1> USE BackupAssumption DEF BackupAssumption, BackupInv, TypeOK, dbVars, apiVars, workerVars, diskVars, targetVars,
        Go, At, Idle, Id, NoId, Stem, NoStem, Step, BackupStep, RestoreStep, ImportedOK, Half, TargetStep
<1>2. ASSUME NEW i \in Id, Take(w, i) PROVE TargetStep(w) /\ ImportedOK(w)'
  BY <1>2 DEF Take
<1>3. ASSUME NEW x \in Path, LookUp(w, x) PROVE TargetStep(w) /\ ImportedOK(w)'
  BY <1>3 DEF LookUp, Done
<1>4. ASSUME NEW x \in Path, Remove(w, x) PROVE TargetStep(w) /\ ImportedOK(w)'
  BY <1>4 DEF Remove, Done
<1>5. ASSUME \/ Begin(w) \/ Save(w) \/ Return(w)
             \/ Raise(w) \/ Rescue(w) \/ RescueFails(w) \/ Kill(w)
      PROVE  TargetStep(w) /\ ImportedOK(w)'
  BY <1>5 DEF Begin, Save, Return, Raise, Rescue, RescueFails, Kill
<1>6. ASSUME \/ Dump(w) \/ WriteSql(w) \/ OpenGz(w) \/ CloseGz(w)
             \/ Verify(w) \/ WriteSha(w) \/ List(w) \/ Pruned(w) \/ Check(w)
      PROVE  TargetStep(w) /\ ImportedOK(w)'
  BY <1>6 DEF Dump, WriteSql, OpenGz, CloseGz, Verify, WriteSha, List, Pruned, Check
<1>7. ASSUME ReadSource(w) \/ OpenDump(w) \/ Stats(w)
      PROVE  TargetStep(w) /\ ImportedOK(w)'
  BY <1>7 DEF ReadSource, OpenDump, Stats
<1>8. ASSUME DropTarget(w) \/ Import(w)
      PROVE  TargetStep(w) /\ ImportedOK(w)'
  BY <1>8 DEF DropTarget, Import, Others
<1> QED BY <1>2, <1>3, <1>4, <1>5, <1>6, <1>7, <1>8
        DEF WorkerStep, BackupTask, RestoreTask

\* Every step keeps Imported.
LEMMA ImportedStep == BackupInv /\ Imported /\ [Next]_vars => Imported'
<1> SUFFICES ASSUME BackupInv, Imported, [Next]_vars PROVE Imported'
  OBVIOUS
<1>1. CASE UNCHANGED vars \/ Api
  BY <1>1 DEF Imported, ImportedOK, Api, CreateBackup, AskRestore, RestoreBackup, Insert, vars, workerVars, targetVars
<1>2. ASSUME NEW i \in Id, Orphan(i) PROVE Imported'
  BY <1>2 DEF Orphan, Imported, ImportedOK, Filling, workerVars
<1>3. ASSUME NEW w \in Worker, WorkerStep(w) \/ Kill(w) PROVE Imported'
  <2>1. TargetStep(w) /\ ImportedOK(w)' /\ Frame(w)
    BY <1>3, TargetSteps, FrameStep DEF Imported
  <2>2. ASSUME NEW v \in Worker \ {w} PROVE ImportedOK(v)'
    BY <2>1 DEF TargetStep, Others, Filling, Frame, Imported, ImportedOK
  <2> QED BY <2>1, <2>2 DEF Imported
<1> QED BY <1>1, <1>2, <1>3 DEF Next

\* The database a restore counts holds its source and nothing else, whatever was
\* in it before and however earlier restores ended, for any number of workers:
\* unless another restore has written to it since this one dropped it.
THEOREM RestoredIsItsSource == Spec => []RestoredIsSource
<1>1. Init => Imported
  BY DEF Init, Imported, ImportedOK
<1>2. Imported => RestoredIsSource
  BY DEF Imported, ImportedOK, RestoredIsSource, Half
<1> QED BY <1>1, <1>2, ImportedStep, BackupInvariant, PTL DEF Spec

-----------------------------------------------------------------------------
(* What retention keeps.                                                   *)

\* An archive that is about to be verified can be decompressed: true only of a
\* disk that keeps what was written.
Sealed == \A w \in Worker : pc[w] = "verify" => stem[w] \notin bad

\* The archives a listing would count before f.
Newer(f) == {g \in Archives : g > f}

\* Counting them, before a step ...
LEMMA NewerCount ==
  /\ \A f \in Stem : IsFiniteSet(Newer(f)) /\ Cardinality(Newer(f)) \in Nat
  /\ \A f \in Stem : \A T \in SUBSET Newer(f) : Cardinality(T) <= Cardinality(Newer(f))
<1>1. \A f \in Stem : IsFiniteSet(Newer(f))
  BY ArchivesFinite, FS_Subset DEF Newer
<1> QED BY <1>1, FS_Subset, FS_CardinalityType

\* ... and after it.
LEMMA NewerCountNext ==
  /\ \A f \in Stem : IsFiniteSet(Newer(f)') /\ Cardinality(Newer(f)') \in Nat
  /\ \A f \in Stem : \A T \in SUBSET (Newer(f)') : Cardinality(T) <= Cardinality(Newer(f)')
<1>1. Archives' \in SUBSET Stem /\ IsFiniteSet(Stem)
  BY BackupAssumption, FS_Interval DEF BackupAssumption, Stem, Archives
<1>2. \A f \in Stem : IsFiniteSet(Newer(f)')
  BY <1>1, FS_Subset DEF Newer
<1> QED BY <1>2, FS_Subset, FS_CardinalityType

\* Without "rot" every step keeps Sealed.
LEMMA SealedStep ==
  ASSUME "rot" \notin Events
  PROVE  BackupInv /\ Sealed /\ [Next]_vars => Sealed'
<1> SUFFICES ASSUME BackupInv, Sealed, [Next]_vars PROVE Sealed'
  OBVIOUS
<1>1. CASE Aside
  BY <1>1 DEF Sealed, Aside, core, workerVars, diskVars
<1>2. ASSUME NEW r \in Record, Requested(r) PROVE Sealed'
  BY <1>2 DEF Sealed, Requested, workerVars, diskVars
<1>3. ASSUME NEW w \in Worker, WorkerStep(w) \/ Kill(w) PROVE Sealed'
  <2>1. Frame(w) /\ StemStep(w) /\ DiskStep(w)
    BY <1>3, FrameStep, StemSteps, DiskSteps
  <2>2. pc'[w] = "verify" => stem'[w] \notin bad'
    BY <2>1 DEF DiskStep, Sealed
  <2>3. ASSUME NEW v \in Worker \ {w}, pc'[v] = "verify" PROVE stem'[v] \notin bad'
    <3>1. pc[v] = "verify" /\ stem'[v] = stem[v] /\ stem[v] \notin bad
      BY <2>1, <2>3 DEF Frame, Sealed
    <3>2. Writes(v)
      BY <3>1 DEF BackupInv, Working, WorkerOK, Undone, BackupStep, Intact, DumpOK, Written, Writes
    <3>3. Writes(w) => stem[v] # stem[w]
      BY <3>2 DEF BackupInv, OwnStem
    <3> QED BY <2>1, <3>1, <3>3 DEF StemStep
  <2> QED BY <2>2, <2>3 DEF Sealed
<1> QED BY <1>1, <1>2, <1>3, NextCases

\* An archive is removed only after Retention newer ones, which are then also
\* newer than whatever else another worker still has to remove.
LEMMA NewestStep ==
  BackupInv /\ Sealed /\ NewestKept /\ [Next]_vars => NewestKept'
<1> SUFFICES ASSUME BackupInv, Sealed, NewestKept, [Next]_vars,
                    NEW v \in Worker, NEW x \in todo'[v]
             PROVE  Cardinality(Newer(x[1])') >= Retention
  BY DEF NewestKept, Newer
<1>1. CASE Aside
  BY <1>1 DEF NewestKept, Newer, Archives, Aside, core, workerVars, diskVars
<1>2. ASSUME NEW r \in Record, Requested(r) PROVE Cardinality(Newer(x[1])') >= Retention
  BY <1>2 DEF NewestKept, Newer, Archives, Requested, workerVars, diskVars
<1>3. ASSUME NEW w \in Worker, WorkerStep(w) \/ Kill(w)
      PROVE  Cardinality(Newer(x[1])') >= Retention
  <2>1. Frame(w) /\ DiskStep(w) /\ TypeOK /\ TypeOK'
    BY <1>3, FrameStep, DiskSteps, TypeStep DEF BackupInv
  <2>2. x[1] \in Stem
    BY <2>1 DEF TypeOK, Path
  <2>3. Cardinality(Newer(x[1])) >= Retention
    <3>1. CASE x \in todo[v]
      BY <3>1 DEF NewestKept, Newer
    <3>2. CASE v = w /\ todo'[w] = Surplus \X {Gz, Sql, Sha}
      BY <3>2 DEF Surplus, Newer
    <3> QED BY <2>1, <3>1, <3>2 DEF Frame, DiskStep
  <2>4. CASE Archives \subseteq Archives'
    <3>1. Newer(x[1]) \subseteq Newer(x[1])'
      BY <2>4 DEF Newer
    <3> QED BY <2>2, <2>3, <3>1, NewerCountNext, NewerCount, BackupAssumption DEF BackupAssumption
  <2>5. ASSUME NEW f \in Archives \ Archives' PROVE Cardinality(Newer(x[1])') >= Retention
    <3>1. Archives' = Archives \ {f} /\ <<f, Gz>> \in todo[w]
      BY <2>1, <2>5 DEF DiskStep, Sealed
    <3>2. f \in Stem /\ Cardinality(Newer(f)) >= Retention
      BY <3>1 DEF NewestKept, Newer, Archives
    <3>3. Newer(f) \subseteq Newer(f)'
      BY <3>1, <3>2, BackupAssumption DEF Newer, Archives, Stem, BackupAssumption
    <3>4. CASE f <= x[1]
      <4>1. f \notin Newer(x[1])
        BY <2>2, <3>2, <3>4, BackupAssumption DEF BackupAssumption, Newer, Stem
      <4>2. Newer(x[1])' = Newer(x[1])
        BY <3>1, <4>1 DEF Newer
      <4> QED BY <2>3, <4>2
    <3>5. CASE f > x[1]
      <4>1. Newer(f) \subseteq Newer(x[1])'
        BY <2>2, <3>2, <3>3, <3>5, BackupAssumption DEF Newer, Archives, Stem, BackupAssumption
      <4> QED BY <2>2, <3>2, <4>1, NewerCount, NewerCountNext, BackupAssumption DEF BackupAssumption
    <3> QED BY <2>2, <3>2, <3>4, <3>5, BackupAssumption DEF BackupAssumption, Stem
  <2> QED BY <2>4, <2>5
<1> QED BY <1>1, <1>2, <1>3, NextCases

\* However the retention passes of any number of workers overlap, none plans to
\* remove one of the newest Retention archives, if the disk keeps what was
\* written to it.
THEOREM NewestAreKept ==
  ASSUME "rot" \notin Events
  PROVE  Spec => []NewestKept
<1>1. Init => Sealed /\ NewestKept
  BY DEF Init, Sealed, NewestKept
<1>2. BackupInv /\ Sealed /\ [Next]_vars => Sealed'
  BY SealedStep
<1>3. BackupInv /\ Sealed /\ NewestKept /\ [Next]_vars => NewestKept'
  BY NewestStep
<1> QED BY <1>1, <1>2, <1>3, BackupInvariant, PTL DEF Spec

-----------------------------------------------------------------------------
(* What an operator sees: the tables, archives and scratch database        *)
(* implement BackupLedger.                                                 *)

\* A stem has no archive before its worker opens one.
Unopened ==
  /\ \A f \in Stem : f > clock => f \notin Archives
  /\ \A w \in Worker : pc[w] = "gz" => stem[w] \notin Archives

\* A row that was inserted says so, only a running restore has a source, and
\* nothing is removed without a limit.
Inserted == \A i \in 1 .. lastId : rec[i].status # "absent"
Sourced  == \A i \in Id : rec[i].source # NoId => rec[i].op = "restore" /\ rec[i].status = "running"
Limited  == Retention = 0 => \A w \in Worker : todo[w] = {}

LedgerInv == BackupInv /\ Sealed /\ NewestKept /\ Unopened /\ Inserted /\ Sourced /\ Limited

\* Which steps make an archive, and which lead to its making and away from it.
GzStep(w) ==
  /\ Archives' \subseteq Archives \/ (pc[w] = "gz" /\ Archives' = Archives \cup {stem[w]})
  /\ clock' = clock \/ (clock' = clock + 1 /\ Archives' = Archives)
  /\ pc'[w] = "gz" => Archives' = Archives /\ clock' = clock + 1 /\ stem'[w] = clock + 1

\* The result of a restore replaces its source, and no row is absent again.
RowStep(w) == \A i \in Id : rec'[i].status # rec[i].status =>
  /\ rec'[i].status # "absent"
  /\ rec'[i].status = "running" \/ rec'[i].source = NoId \/ rec[i].op = "backup"

\* Every step of worker w makes archives as GzStep says.
LEMMA GzSteps ==
  ASSUME BackupInv, NEW w \in Worker, WorkerStep(w) \/ Kill(w)
  PROVE  GzStep(w)
<1> USE BackupAssumption DEF BackupAssumption, BackupInv, TypeOK, dbVars, apiVars, workerVars, diskVars, targetVars,
        Go, At, Idle, Id, NoId, Stem, NoStem, Step, BackupStep, RestoreStep, GzStep, Archives, Gz, Sql, Sha
<1>1. pc[w] # "idle" => job[w] \in Id
  BY DEF Numbering
<1>2. ASSUME NEW i \in Id, Take(w, i) PROVE GzStep(w)
  BY <1>2 DEF Take
<1>3. ASSUME NEW x \in Path, LookUp(w, x) PROVE GzStep(w)
  BY <1>3 DEF LookUp, Done
<1>4. ASSUME NEW x \in Path, Remove(w, x) PROVE GzStep(w)
  BY <1>4 DEF Remove, Done
<1>5. ASSUME Begin(w) \/ Save(w) \/ Return(w) \/ Raise(w) \/ Rescue(w) \/ RescueFails(w) \/ Kill(w)
      PROVE  GzStep(w)
  BY <1>1, <1>5 DEF Begin, Save, Return, Raise, Rescue, RescueFails, Kill
<1>7. ASSUME \/ Dump(w) \/ WriteSql(w) \/ OpenGz(w) \/ CloseGz(w)
             \/ Verify(w) \/ WriteSha(w) \/ List(w) \/ Pruned(w) \/ Check(w)
      PROVE  GzStep(w)
  <2>1. CASE OpenGz(w)
    <3>1. stem[w] \in Stem
      BY <2>1 DEF OpenGz, Working, WorkerOK, Undone, Intact, DumpOK, Written
    <3> QED BY <2>1, <3>1 DEF OpenGz
  <2> QED BY <1>7, <2>1 DEF Dump, WriteSql, CloseGz, Verify, WriteSha, List, Pruned, Check
<1>8. ASSUME ReadSource(w) \/ OpenDump(w) \/ DropTarget(w) \/ Import(w) \/ Stats(w)
      PROVE  GzStep(w)
  BY <1>1, <1>8 DEF ReadSource, OpenDump, DropTarget, Import, Stats
<1> QED BY <1>2, <1>3, <1>4, <1>5, <1>7, <1>8
        DEF WorkerStep, BackupTask, RestoreTask

\* Every step of worker w changes statuses as RowStep says.
LEMMA RowSteps ==
  ASSUME BackupInv, NEW w \in Worker, WorkerStep(w) \/ Kill(w)
  PROVE  RowStep(w)
<1>1. pc[w] # "idle" => job[w] \in Id /\ Saved(w) \in Record /\ rec \in [Id -> Record]
  <2>1. pc[w] # "idle" => job[w] \in Id
    BY BackupAssumption DEF BackupAssumption, BackupInv, Numbering, TypeOK, Id, NoId
  <2> QED BY <2>1, SavedIsRecord DEF BackupInv, TypeOK
<1>2. CASE rec' = rec
  BY <1>2 DEF RowStep
<1>3. CASE Begin(w)
  BY <1>1, <1>3 DEF Begin, At, RowStep, Record
<1>4. CASE pc[w] # "idle" /\ rec' = [rec EXCEPT ![job[w]] = Saved(w)]
  <2>1. Saved(w).status # "absent"
    BY <1>1, <1>4 DEF Saved, Record
  <2>2. Saved(w).source = NoId \/ rec[job[w]].op = "backup"
    BY <1>1, <1>4 DEF Saved, Record
  <2> QED BY <1>1, <1>4, <2>1, <2>2 DEF RowStep
<1>5. CASE /\ pc[w] # "idle"
           /\ rec' = [rec EXCEPT ![job[w]] = [Saved(w) EXCEPT !.status = "failed", !.source = NoId]]
  BY <1>1, <1>5 DEF RowStep, Record
<1>6. CASE /\ pc[w] # "idle"
           /\ rec' = [rec EXCEPT ![job[w]].status = "failed", ![job[w]].source = NoId]
  BY <1>1, <1>6 DEF RowStep, Record
<1>7. CASE Save(w) \/ Rescue(w)
  BY <1>4, <1>5, <1>6, <1>7 DEF Save, Rescue, At
<1>8. CASE BackupTask(w) \/ RestoreTask(w)
  BY <1>2, <1>8 DEF BackupTask, RestoreTask, Dump, WriteSql, OpenGz, CloseGz, Verify, WriteSha, List, LookUp,
     Remove, Pruned, Check, ReadSource, OpenDump, DropTarget, Import, Stats, dbVars
<1>9. CASE Return(w) \/ Raise(w) \/ RescueFails(w) \/ Kill(w) \/ \E i \in Id : Take(w, i)
  BY <1>2, <1>9 DEF Return, Raise, RescueFails, Kill, Take, dbVars
<1> QED BY <1>3, <1>7, <1>8, <1>9 DEF WorkerStep

\* The worker that is about to open an archive is the only one to write it.
LEMMA GzIsOwn ==
  ASSUME BackupInv, NEW w \in Worker, pc[w] = "gz"
  PROVE  /\ stem[w] \in Stem /\ stem[w] <= clock
         /\ \A v \in Worker \ {w} : pc[v] = "gz" => stem[v] # stem[w]
<1>1. \A v \in Worker : pc[v] = "gz" => Writes(v)
  BY DEF BackupInv, Working, WorkerOK, Undone, BackupStep, Intact, DumpOK, Written, Writes
<1> QED BY <1>1, BackupAssumption DEF BackupInv, TypeOK, OwnStem, Writes, BackupAssumption

\* Every step keeps Unopened.
LEMMA UnopenedStep == BackupInv /\ Unopened /\ [Next]_vars => Unopened'
<1> SUFFICES ASSUME BackupInv, Unopened, [Next]_vars PROVE Unopened'
  OBVIOUS
<1>1. CASE Aside
  BY <1>1 DEF Unopened, Archives, Aside, core, workerVars, diskVars
<1>2. ASSUME NEW r \in Record, Requested(r) PROVE Unopened'
  BY <1>2 DEF Unopened, Archives, Requested, workerVars, diskVars
<1>3. ASSUME NEW w \in Worker, WorkerStep(w) \/ Kill(w) PROVE Unopened'
  <2>1. GzStep(w) /\ Frame(w) /\ clock \in Nat /\ Stem \subseteq Nat
    BY <1>3, GzSteps, FrameStep, BackupAssumption DEF BackupInv, TypeOK, Stem, NoStem, BackupAssumption
  <2>2. ASSUME NEW f \in Stem, f > clock' PROVE f \notin Archives'
    <3>1. f > clock
      BY <2>1, <2>2 DEF GzStep
    <3>2. pc[w] = "gz" => stem[w] <= clock /\ stem[w] \in Nat
      BY <2>1, GzIsOwn
    <3>3. f \notin Archives
      BY <3>1 DEF Unopened
    <3> QED BY <2>1, <3>1, <3>2, <3>3 DEF GzStep
  <2>3. ASSUME NEW v \in Worker, pc'[v] = "gz" PROVE stem'[v] \notin Archives'
    <3>1. CASE v = w
      <4>1. Archives' = Archives /\ stem'[w] = clock + 1
        BY <2>1, <2>3, <3>1 DEF GzStep
      <4>2. clock + 1 \notin Archives
        BY <2>1 DEF Unopened, Archives
      <4> QED BY <3>1, <4>1, <4>2
    <3>2. CASE v # w
      <4>1. pc[v] = "gz" /\ stem'[v] = stem[v] /\ stem[v] \notin Archives
        BY <2>1, <2>3, <3>2 DEF Frame, Unopened
      <4>2. pc[w] = "gz" => stem[v] # stem[w]
        BY <3>2, <4>1, GzIsOwn
      <4> QED BY <2>1, <4>1, <4>2 DEF GzStep
    <3> QED BY <3>1, <3>2
  <2> QED BY <2>2, <2>3 DEF Unopened
<1> QED BY <1>1, <1>2, <1>3, NextCases

\* Every step keeps Inserted, Sourced and Limited.
LEMMA InsertedStep ==
  BackupInv /\ Inserted /\ Sourced /\ Limited /\ [Next]_vars => Inserted' /\ Sourced' /\ Limited'
<1> SUFFICES ASSUME BackupInv, Inserted, Sourced, Limited, [Next]_vars
             PROVE  Inserted' /\ Sourced' /\ Limited'
  OBVIOUS
<1> USE BackupAssumption DEF BackupAssumption
<1>1. CASE Aside
  BY <1>1 DEF Inserted, Sourced, Limited, Aside, core, workerVars
<1>2. ASSUME NEW r \in Record, Requested(r) PROVE Inserted' /\ Sourced' /\ Limited'
  <2>1. Inserted' /\ Limited'
    BY <1>2 DEF Inserted, Limited, Requested, workerVars, BackupInv, TypeOK, Id, NoId
  <2>2. Sourced'
    BY <1>2 DEF Sourced, Requested, BackupInv, TypeOK, Record, Op
  <2> QED BY <2>1, <2>2
<1>3. ASSUME NEW w \in Worker, WorkerStep(w) \/ Kill(w) PROVE Inserted' /\ Sourced' /\ Limited'
  <2>1. RowStep(w) /\ FileStep(w) /\ Frame(w) /\ DiskStep(w) /\ 1 .. lastId \subseteq Id
    BY <1>3, RowSteps, FileSteps, FrameStep, DiskSteps DEF BackupInv, TypeOK, Id, NoId
  <2>2. Inserted'
    BY <2>1 DEF RowStep, Frame, Inserted
  <2>3. Sourced'
    BY <2>1 DEF RowStep, FileStep, Frame, Sourced
  <2>4. ASSUME Retention = 0, NEW v \in Worker PROVE todo'[v] = {}
    <3>1. Surplus = {}
      BY <2>4 DEF Surplus
    <3>2. todo[v] = {}
      BY <2>4 DEF Limited
    <3> QED BY <2>1, <3>1, <3>2 DEF DiskStep, Frame
  <2> QED BY <2>2, <2>3, <2>4 DEF Limited
<1> QED BY <1>1, <1>2, <1>3, NextCases

\* Both modules count alike.
LEMMA LedgerCounts == \A S : Ledger!Cardinality(S) = Cardinality(S)
BY DEF Ledger!Cardinality, Cardinality

\* Where an archive stands depends on its file, on the damage to it, and on who
\* is about to open it.
LEMMA StoreIs ==
  /\ \A f \in Stem : Store[f] = IF f \in Archives THEN IF f \in bad THEN "open" ELSE "whole"
                                ELSE IF Awaited(f) THEN "none" ELSE "gone"
  /\ \A f \in Stem : Store'[f] = IF f \in Archives' THEN IF f \in bad' THEN "open" ELSE "whole"
                                 ELSE IF Awaited(f)' THEN "none" ELSE "gone"
BY DEF Store, Archives

\* So it stays where it is when none of these change, ...
LEMMA StoreKept ==
  ASSUME BackupInv, NEW w \in Worker, Frame(w), pc[w] # "gz", pc'[w] # "gz",
         UNCHANGED <<bad, clock>>, Archives' = Archives
  PROVE  Store' = Store
<1>1. \A f \in Stem : Awaited(f)' <=> Awaited(f)
  BY DEF Frame, Awaited, At
<1>2. \A f \in Stem : Store'[f] = Store[f]
  BY <1>1, StoreIs
<1> QED BY <1>2 DEF Store

\* ... and a change of one is a step of the ledger.
LEMMA StoreTurns ==
  ASSUME NEW f \in Stem, NEW s, \A g \in Stem : Store'[g] = IF g = f THEN s ELSE Store[g],
         UNCHANGED <<rec, target>>
  PROVE  Ledger!Turns(f, s)
<1>1. Store' = [Store EXCEPT ![f] = s]
  <2> DEFINE S == Store
             T == Store'
  <2>1. S = [g \in Stem |-> S[g]] /\ T = [g \in Stem |-> T[g]]
    BY DEF Store
  <2>2. \A g \in Stem : T[g] = IF g = f THEN s ELSE S[g]
    OBVIOUS
  <2> HIDE DEF S, T
  <2>3. T = [S EXCEPT ![f] = s]
    BY <2>1, <2>2
  <2> QED BY <2>3 DEF S, T
<1> QED BY <1>1 DEF Ledger!Turns, Base

\* Most steps of a task are not seen.
LEMMA HiddenSteps ==
  ASSUME BackupInv, NEW w \in Worker,
         \/ Begin(w) \/ Return(w) \/ RescueFails(w) \/ Dump(w) \/ WriteSha(w) \/ List(w)
         \/ Pruned(w) \/ Check(w) \/ ReadSource(w) \/ OpenDump(w) \/ Stats(w)
         \/ (Raise(w) \/ Kill(w)) /\ pc[w] # "gz"
         \/ (\E i \in Id : Take(w, i)) \/ (\E x \in Path : LookUp(w, x))
  PROVE  UNCHANGED <<rec, Store, Base>>
<1>1. Frame(w)
  BY FrameStep DEF WorkerStep, BackupTask, RestoreTask
<1>2. UNCHANGED <<bad, clock, target>> /\ pc[w] # "gz" /\ pc'[w] # "gz" /\ Archives' = Archives
  BY DEF Begin, Return, RescueFails, Dump, WriteSha, List, Pruned, Check, ReadSource, OpenDump,
     Stats, Raise, Kill, Take, LookUp, Idle, At, Go, dbVars, diskVars, workerVars, BackupInv, TypeOK,
     Archives, Gz, Sha, Sql, Path, targetVars
<1>3. rec' = rec
  <2>1. CASE Begin(w)
    <3>1. job[w] \in Id /\ rec[job[w]].status = "running" /\ rec \in [Id -> Record]
      BY <2>1, BackupAssumption DEF Begin, At, BackupInv, TypeOK, Numbering, Working, WorkerOK, Undone,
         Fresh, Id, NoId, BackupAssumption
    <3>2. rec[job[w]] \in Record
      BY <3>1
    <3>3. [rec[job[w]] EXCEPT !.status = "running"] = rec[job[w]]
      BY <3>1, <3>2 DEF Record
    <3> QED BY <2>1, <3>1, <3>3 DEF Begin
  <2> QED BY <2>1 DEF Return, RescueFails, Dump, WriteSha, List, Pruned, Check, ReadSource, OpenDump,
               Stats, Raise, Kill, Take, LookUp, dbVars
<1> QED BY <1>1, <1>2, <1>3, StoreKept DEF Base

\* Nor is a timestamp, whose archive is awaited from now on.
LEMMA StampHidden ==
  ASSUME LedgerInv, NEW w \in Worker, WriteSql(w)
  PROVE  UNCHANGED <<rec, Store, Base>>
<1>1. /\ clock' = clock + 1 /\ clock \in Nat /\ Stem \subseteq Nat /\ UNCHANGED <<rec, bad, target>>
      /\ pc[w] = "sql" /\ pc'[w] = "gz" /\ stem'[w] = clock + 1 /\ Archives' = Archives
      /\ \A v \in Worker \ {w} : pc'[v] = pc[v] /\ stem'[v] = stem[v]
  BY BackupAssumption DEF WriteSql, At, Go, LedgerInv, BackupInv, TypeOK, Stem, NoStem, dbVars, Archives,
     Gz, Sql, BackupAssumption, targetVars
<1>2. ASSUME NEW f \in Stem PROVE Awaited(f)' <=> Awaited(f)
  <2>1. (\E v \in Worker : pc'[v] = "gz" /\ stem'[v] = f)
          <=> f = clock + 1 \/ \E v \in Worker \ {w} : pc[v] = "gz" /\ stem[v] = f
    BY <1>1
  <2>2. f > clock <=> f > clock + 1 \/ f = clock + 1
    BY <1>1
  <2>3. Awaited(f) <=> f > clock \/ \E v \in Worker \ {w} : pc[v] = "gz" /\ stem[v] = f
    BY <1>1 DEF Awaited, At
  <2>4. Awaited(f)' <=> f > clock + 1 \/ \E v \in Worker : pc'[v] = "gz" /\ stem'[v] = f
    BY <1>1 DEF Awaited, At
  <2> QED BY <2>1, <2>2, <2>3, <2>4
<1>3. \A f \in Stem : Store'[f] = Store[f]
  BY <1>1, <1>2, StoreIs
<1> QED BY <1>1, <1>3 DEF Store, Base

\* A task that ends before it opened its archive gives it up.
LEMMA LeaveRefines ==
  ASSUME LedgerInv, NEW w \in Worker, pc[w] = "gz", Raise(w) \/ Kill(w)
  PROVE  Ledger!GiveUp(stem[w])
<1>1. PICK f \in Stem : f = stem[w] /\ f <= clock
  BY GzIsOwn DEF LedgerInv
<1>2. /\ clock \in Nat /\ f \in Nat /\ f \notin Archives
      /\ \A v \in Worker \ {w} : pc[v] = "gz" => stem[v] # f
  BY <1>1, GzIsOwn, BackupAssumption DEF LedgerInv, Unopened, BackupInv, TypeOK, Stem, NoStem, BackupAssumption
<1>3. Frame(w) /\ UNCHANGED <<rec, bad, clock, target>> /\ Archives' = Archives /\ pc'[w] # "gz"
  BY FrameStep DEF LedgerInv, BackupInv, TypeOK, WorkerStep, Raise, Kill, Idle, At, Go, dbVars, diskVars, Archives, targetVars
<1>4. Awaited(f) /\ ~Awaited(f)'
  BY <1>1, <1>2, <1>3 DEF Awaited, At, Frame
<1>5. \A g \in Stem \ {f} : Awaited(g)' <=> Awaited(g)
  BY <1>1, <1>3 DEF Awaited, At, Frame
<1>6. \A g \in Stem : Store'[g] = IF g = f THEN "gone" ELSE Store[g]
  BY <1>2, <1>3, <1>4, <1>5, StoreIs
<1>7. Store[f] = "none"
  BY <1>2, <1>4, StoreIs
<1>8. Ledger!Turns(f, "gone")
  BY <1>3, <1>6, StoreTurns
<1> QED BY <1>1, <1>7, <1>8 DEF Ledger!GiveUp

\* The file appears, ...
LEMMA OpenRefines ==
  ASSUME LedgerInv, NEW w \in Worker, OpenGz(w)
  PROVE  Ledger!Open(stem[w])
<1>1. /\ pc[w] = "gz" /\ stem[w] \in Stem /\ stem[w] \notin Archives
  BY GzIsOwn DEF OpenGz, At, LedgerInv, Unopened
<1>2. /\ Frame(w) /\ UNCHANGED <<rec, clock, target>> /\ pc'[w] # "gz"
      /\ Archives' = Archives \cup {stem[w]} /\ bad' = bad \cup {stem[w]}
  BY <1>1, FrameStep DEF LedgerInv, BackupInv, TypeOK, WorkerStep, BackupTask, OpenGz, At, Go, dbVars, Archives,
     Gz, Sql, Sha, targetVars
<1>3. Awaited(stem[w]) /\ \A g \in Stem \ {stem[w]} : Awaited(g)' <=> Awaited(g)
  BY <1>1, <1>2 DEF Awaited, At, Frame
<1>4. \A g \in Stem : Store'[g] = IF g = stem[w] THEN "open" ELSE Store[g]
  BY <1>1, <1>2, <1>3, StoreIs
<1>5. Store[stem[w]] = "none"
  BY <1>1, <1>3, StoreIs
<1> QED BY <1>1, <1>2, <1>4, <1>5, StoreTurns DEF Ledger!Open

\* ... is complete, unless it was removed meanwhile or the disk spoils it, ...
LEMMA CloseRefines ==
  ASSUME LedgerInv, NEW w \in Worker, CloseGz(w)
  PROVE  Ledger!Close(stem[w]) \/ UNCHANGED <<rec, Store, Base>>
<1>1. stem[w] \in Stem
  BY DEF CloseGz, At, LedgerInv, BackupInv, TypeOK, Working, WorkerOK, Undone, BackupStep, Intact, DumpOK, Written
<1>2. /\ Frame(w) /\ UNCHANGED <<rec, clock, target>> /\ pc[w] # "gz" /\ pc'[w] # "gz"
      /\ Archives' = Archives /\ bad' \in {bad, bad \ {stem[w]}}
  BY FrameStep DEF LedgerInv, BackupInv, TypeOK, WorkerStep, BackupTask, CloseGz, At, Go, dbVars, Archives, targetVars
<1>3. \A g \in Stem : Awaited(g)' <=> Awaited(g)
  BY <1>2 DEF Awaited, At, Frame
<1>4. CASE stem[w] \in Archives /\ stem[w] \in bad /\ stem[w] \notin bad'
  <2>1. \A g \in Stem : Store'[g] = IF g = stem[w] THEN "whole" ELSE Store[g]
    BY <1>2, <1>3, <1>4, StoreIs
  <2>2. Store[stem[w]] = "open"
    BY <1>1, <1>4, StoreIs
  <2> QED BY <1>1, <1>2, <2>1, <2>2, StoreTurns DEF Ledger!Close
<1>5. CASE ~(stem[w] \in Archives /\ stem[w] \in bad /\ stem[w] \notin bad')
  <2>1. \A g \in Stem : Store'[g] = Store[g]
    BY <1>2, <1>3, <1>5, StoreIs
  <2> QED BY <1>2, <2>1 DEF Store, Base
<1> QED BY <1>4, <1>5

\* ... is removed again if it cannot be read, ...
LEMMA VerifyRefines ==
  ASSUME LedgerInv, NEW w \in Worker, Verify(w)
  PROVE  Ledger!GiveUp(stem[w]) \/ UNCHANGED <<rec, Store, Base>>
<1>1. stem[w] \in Stem /\ stem[w] <= clock /\ clock \in Nat /\ stem[w] \in Nat /\ Writes(w)
  BY BackupAssumption DEF Verify, At, LedgerInv, BackupInv, TypeOK, Working, WorkerOK, Undone, BackupStep,
     Intact, DumpOK, Written, OwnStem, Writes, Stem, NoStem, BackupAssumption
<1>2. /\ Frame(w) /\ UNCHANGED <<rec, clock, bad, target>> /\ pc[w] # "gz" /\ pc'[w] # "gz"
      /\ stem[w] \in Archives
      /\ Archives' = IF stem[w] \in bad THEN Archives \ {stem[w]} ELSE Archives
  BY <1>1, FrameStep DEF LedgerInv, BackupInv, TypeOK, WorkerStep, BackupTask, Verify, At, Go, dbVars, Archives,
     Gz, Sql, targetVars
<1>3. \A g \in Stem : Awaited(g)' <=> Awaited(g)
  BY <1>2 DEF Awaited, At, Frame
<1>4. ~Awaited(stem[w])
  <2>1. \A v \in Worker : pc[v] = "gz" => Writes(v)
    BY DEF LedgerInv, BackupInv, Working, WorkerOK, Undone, BackupStep, Intact, DumpOK, Written, Writes
  <2>2. \A v \in Worker \ {w} : Writes(v) => stem[v] # stem[w]
    BY <1>1 DEF LedgerInv, BackupInv, OwnStem
  <2>3. ~(stem[w] > clock)
    BY <1>1
  <2> QED BY <1>2, <2>1, <2>2, <2>3 DEF Awaited, At
<1>5. CASE stem[w] \in bad
  <2>1. \A g \in Stem : Store'[g] = IF g = stem[w] THEN "gone" ELSE Store[g]
    BY <1>2, <1>3, <1>4, <1>5, StoreIs
  <2>2. Store[stem[w]] = "open"
    BY <1>1, <1>2, <1>5, StoreIs
  <2> QED BY <1>1, <1>2, <2>1, <2>2, StoreTurns DEF Ledger!GiveUp
<1>6. CASE stem[w] \notin bad
  BY <1>2, <1>6, StoreKept DEF LedgerInv, Base
<1> QED BY <1>5, <1>6

\* ... and is removed for good when it is among the oldest.
LEMMA RemoveRefines ==
  ASSUME LedgerInv, NEW w \in Worker, NEW x \in Path, Remove(w, x)
  PROVE  (\E f \in Stem : Ledger!Prune(f)) \/ UNCHANGED <<rec, Store, Base>>
<1>1. PICK f \in Stem, k \in {Gz, Sql, Sha} : x = <<f, k>>
  BY DEF Path
<1>2. /\ Frame(w) /\ UNCHANGED <<rec, clock, bad, target>> /\ pc[w] # "gz" /\ pc'[w] # "gz"
      /\ disk' = disk \ {<<f, k>>} /\ <<f, k>> \in disk /\ <<f, k>> \in todo[w]
  BY <1>1, FrameStep DEF LedgerInv, BackupInv, TypeOK, WorkerStep, BackupTask, Remove, IsFirst, At, Go, dbVars, targetVars
<1>3. CASE k # Gz
  <2>1. Archives' = Archives
    BY <1>2, <1>3 DEF Archives
  <2> QED BY <1>2, <2>1, StoreKept DEF LedgerInv, Base
<1>4. CASE k = Gz
  <2>1. f \in Archives /\ Archives' = Archives \ {f}
    BY <1>2, <1>4 DEF Archives
  <2>2. \A g \in Stem : Awaited(g)' <=> Awaited(g)
    BY <1>2 DEF Awaited, At, Frame
  <2>3. ~Awaited(f)
    BY <2>1 DEF Awaited, At, LedgerInv, Unopened
  <2>4. Ledger!Turns(f, "gone")
    <3>1. \A g \in Stem : Store'[g] = IF g = f THEN "gone" ELSE Store[g]
      BY <1>2, <2>1, <2>2, <2>3, StoreIs
    <3> QED BY <1>2, <3>1, StoreTurns
  <2>5. Store[f] \in {"open", "whole"} /\ \A g \in Stem : Store[g] \in {"open", "whole"} <=> g \in Archives
    BY <2>1, StoreIs
  <2>6. Newer(f) = {g \in Stem : g > f /\ Store[g] \in Ledger!Present}
    BY <2>5 DEF Newer, Archives, Ledger!Present
  <2>7. Cardinality(Newer(f)) >= Retention /\ Retention > 0
    <3>1. Retention # 0
      BY <1>2 DEF LedgerInv, Limited
    <3>2. Cardinality({g \in Archives : g > <<f, k>>[1]}) >= Retention
      BY <1>2 DEF LedgerInv, NewestKept
    <3> QED BY <3>1, <3>2, BackupAssumption DEF Newer, BackupAssumption
  <2>8. Ledger!Prune(f)
    BY <2>4, <2>5, <2>6, <2>7, LedgerCounts DEF Ledger!Prune, Ledger!Present
  <2> QED BY <2>8
<1> QED BY <1>3, <1>4

\* A backup whose archive was verified may name it, and vouch for it.
LEMMA NamedIsKept ==
  ASSUME LedgerInv, NEW w \in Worker, pc[w] \in {"save", "rescueSave"}, rec[job[w]].op = "backup"
  PROVE  stem[w] \in Stem /\ Ledger!Unnamed(stem[w]) /\ Store[stem[w]] \in {"whole", "gone"}
<1>1. /\ Writes(w) /\ stem[w] \in Stem /\ stem[w] \in Nat /\ stem[w] # NoStem /\ clock \in Nat
      /\ stem[w] \notin bad /\ stem[w] <= clock /\ Fresh(job[w])
  BY BackupAssumption DEF BackupAssumption, LedgerInv, BackupInv, TypeOK, Working, WorkerOK, Undone, Intact, DumpOK,
     Written, Verified, OwnStem, Writes, Stem, NoStem
<1>2. \A i \in Id : rec[i].file # stem[w]
  BY <1>1 DEF LedgerInv, BackupInv, OwnStem, Fresh
<1>3. ~Awaited(stem[w])
  <2>1. \A v \in Worker : pc[v] = "gz" => Writes(v)
    BY DEF LedgerInv, BackupInv, Working, WorkerOK, Undone, BackupStep, Intact, DumpOK, Written, Writes
  <2>2. \A v \in Worker \ {w} : Writes(v) => stem[v] # stem[w]
    BY <1>1 DEF LedgerInv, BackupInv, OwnStem
  <2>3. ~(stem[w] > clock)
    BY <1>1
  <2> QED BY <2>1, <2>2, <2>3 DEF Awaited, At
<1>4. stem[w] \in Stem /\ Ledger!Unnamed(stem[w])
  BY <1>1, <1>2 DEF Ledger!Unnamed
<1>5. Store[stem[w]] \in {"whole", "gone"}
  BY <1>1, <1>3, StoreIs
<1> QED BY <1>4, <1>5

\* A result that is committed is that of the kind of task, ...
LEMMA SaveRefines ==
  ASSUME LedgerInv, NEW w \in Worker, Save(w)
  PROVE  \/ \E f \in Stem : Ledger!Keep(job[w], f, "succeeded") \/ Ledger!Spoil(job[w], f)
         \/ Ledger!Restored(job[w])
<1> DEFINE i == job[w]
<1>1. /\ i \in Id /\ rec[i] \in Record /\ rec[i].status = "running" /\ ~rec[i].valid
      /\ sound[w] \in BOOLEAN /\ pc[w] = "save"
  BY BackupAssumption DEF BackupAssumption, LedgerInv, BackupInv, TypeOK, Numbering, Working, WorkerOK, Undone,
     Fresh, Save, At, Id, NoId
<1>2. UNCHANGED <<Store, Base>> /\ rec' = [rec EXCEPT ![i] = Saved(w)]
  <2>1. Frame(w) /\ UNCHANGED <<disk, bad, clock, target>> /\ pc[w] # "gz" /\ pc'[w] # "gz"
    BY <1>1, FrameStep DEF LedgerInv, BackupInv, TypeOK, WorkerStep, Save, Go, diskVars, targetVars
  <2>2. Archives' = Archives
    BY <2>1 DEF Archives
  <2> QED BY <1>1, <2>1, <2>2, StoreKept DEF LedgerInv, Base, Save
<1>3. CASE rec[i].op = "backup"
  <2>1. stem[w] \in Stem /\ Ledger!Unnamed(stem[w]) /\ Store[stem[w]] \in {"whole", "gone"}
    BY <1>1, <1>3, NamedIsKept
  <2>2. CASE sound[w]
    <3>1. Saved(w) = [rec[i] EXCEPT !.status = "succeeded", !.file = stem[w], !.valid = TRUE]
      BY <1>1, <1>3, <2>2 DEF Saved
    <3>2. Ledger!Becomes(i, [rec[i] EXCEPT !.status = "succeeded", !.file = stem[w], !.valid = TRUE])
      BY <1>2, <3>1 DEF Ledger!Becomes
    <3>3. Ledger!Keep(i, stem[w], "succeeded")
      BY <1>1, <1>3, <2>1, <3>2 DEF Ledger!Keep, Ledger!Is
    <3> QED BY <2>1, <3>3
  <2>3. CASE ~sound[w]
    <3>1. Saved(w) = [rec[i] EXCEPT !.status = "failed", !.file = stem[w]]
      BY <1>1, <1>3, <2>3 DEF Saved, Record
    <3>2. Ledger!Becomes(i, [rec[i] EXCEPT !.status = "failed", !.file = stem[w]])
      BY <1>2, <3>1 DEF Ledger!Becomes
    <3>3. Ledger!Spoil(i, stem[w])
      BY <1>1, <1>3, <2>1, <3>2 DEF Ledger!Spoil, Ledger!Is
    <3> QED BY <2>1, <3>3
  <2> QED BY <1>1, <2>2, <2>3
<1>4. CASE rec[i].op = "restore"
  <2>1. Ledger!Becomes(i, [rec[i] EXCEPT !.status = "succeeded", !.source = NoId])
    BY <1>1, <1>2, <1>4 DEF Ledger!Becomes, Saved
  <2> QED BY <1>1, <1>4, <2>1 DEF Ledger!Restored, Ledger!Is
<1> QED BY <1>1, <1>3, <1>4 DEF Record, Op

\* ... and the error handler's says "failed", with what was already assigned or
\* without.
LEMMA RescueRefines ==
  ASSUME LedgerInv, NEW w \in Worker, Rescue(w)
  PROVE  \/ \E f \in Stem : Ledger!Keep(job[w], f, "failed") \/ Ledger!Spoil(job[w], f)
         \/ Ledger!Fail(job[w])
         \/ UNCHANGED <<rec, Store, Base>>
<1> DEFINE i == job[w]
<1>1. /\ i \in Id /\ i \in 1 .. lastId /\ rec[i] \in Record /\ rec \in [Id -> Record]
      /\ sound[w] \in BOOLEAN /\ pc[w] \in {"rescue", "rescueSave"}
  BY BackupAssumption DEF BackupAssumption, LedgerInv, BackupInv, TypeOK, Numbering, Rescue, Id, NoId
<1>2. UNCHANGED <<Store, Base>>
  <2>3. Frame(w)
    BY FrameStep DEF LedgerInv, WorkerStep
  <2>4. UNCHANGED <<disk, bad, clock, target>> /\ pc' = [pc EXCEPT ![w] = "idle"]
    BY DEF Rescue, Idle, Go, diskVars
  <2>1. Frame(w) /\ UNCHANGED <<disk, bad, clock, target>> /\ pc[w] # "gz" /\ pc'[w] # "gz"
    BY <1>1, <2>3, <2>4 DEF LedgerInv, BackupInv, TypeOK
  <2>2. Archives' = Archives
    BY <2>1 DEF Archives
  <2> QED BY <1>1, <2>1, <2>2, StoreKept DEF LedgerInv, Base
<1>3. CASE rec' = [rec EXCEPT ![i] = [rec[i] EXCEPT !.status = "failed", !.source = NoId]]
  <2>1. CASE rec[i].status \in {"running", "succeeded"}
    BY <1>1, <1>2, <1>3, <2>1 DEF Ledger!Fail, Ledger!Becomes
  <2>2. CASE rec[i].status \notin {"running", "succeeded"}
    <3>1. rec[i].status = "failed" /\ rec[i].source = NoId
      BY <1>1, <2>2 DEF LedgerInv, Inserted, Sourced, Record, Status
    <3>2. [rec[i] EXCEPT !.status = "failed", !.source = NoId] = rec[i]
      BY <1>1, <3>1 DEF Record
    <3> QED BY <1>1, <1>2, <1>3, <3>2
  <2> QED BY <2>1, <2>2
<1>4. CASE /\ pc[w] = "rescueSave"
           /\ rec' = [rec EXCEPT ![i] = [Saved(w) EXCEPT !.status = "failed", !.source = NoId]]
  <2>1. rec[i].status = "running" /\ ~rec[i].valid
    BY <1>4 DEF LedgerInv, BackupInv, Working, WorkerOK, Undone, Fresh
  <2>2. CASE rec[i].op = "backup"
    <3>1. stem[w] \in Stem /\ Ledger!Unnamed(stem[w]) /\ Store[stem[w]] \in {"whole", "gone"} /\ rec[i].source = NoId
      BY <1>1, <1>4, <2>2, NamedIsKept DEF LedgerInv, Sourced
    <3>2. CASE sound[w]
      <4>1. [Saved(w) EXCEPT !.status = "failed", !.source = NoId]
              = [rec[i] EXCEPT !.status = "failed", !.file = stem[w], !.valid = TRUE]
        BY <1>1, <2>2, <3>1, <3>2 DEF Saved, Record
      <4>2. Ledger!Becomes(i, [rec[i] EXCEPT !.status = "failed", !.file = stem[w], !.valid = TRUE])
        BY <1>2, <1>4, <4>1 DEF Ledger!Becomes
      <4>3. Ledger!Keep(i, stem[w], "failed")
        BY <1>1, <2>1, <2>2, <3>1, <4>2 DEF Ledger!Keep, Ledger!Is
      <4> QED BY <3>1, <4>3
    <3>3. CASE ~sound[w]
      <4>1. [Saved(w) EXCEPT !.status = "failed", !.source = NoId]
              = [rec[i] EXCEPT !.status = "failed", !.file = stem[w]]
        BY <1>1, <2>1, <2>2, <3>1, <3>3 DEF Saved, Record
      <4>2. Ledger!Becomes(i, [rec[i] EXCEPT !.status = "failed", !.file = stem[w]])
        BY <1>2, <1>4, <4>1 DEF Ledger!Becomes
      <4>3. Ledger!Spoil(i, stem[w])
        BY <1>1, <2>1, <2>2, <3>1, <4>2 DEF Ledger!Spoil, Ledger!Is
      <4> QED BY <3>1, <4>3
    <3> QED BY <1>1, <3>2, <3>3
  <2>3. CASE rec[i].op = "restore"
    <3>1. [Saved(w) EXCEPT !.status = "failed", !.source = NoId]
            = [rec[i] EXCEPT !.status = "failed", !.source = NoId]
      BY <1>1, <2>3 DEF Saved, Record
    <3>2. Ledger!Becomes(i, [rec[i] EXCEPT !.status = "failed", !.source = NoId])
      BY <1>2, <1>4, <3>1 DEF Ledger!Becomes
    <3> QED BY <1>1, <2>1, <3>2 DEF Ledger!Fail
  <2> QED BY <1>1, <2>2, <2>3 DEF Record, Op
<1>5. [rec EXCEPT ![i].status = "failed", ![i].source = NoId]
        = [rec EXCEPT ![i] = [rec[i] EXCEPT !.status = "failed", !.source = NoId]]
  BY <1>1 DEF Record
<1> QED BY <1>3, <1>4, <1>5 DEF Rescue, At

\* The scratch database only takes tables of what the restore's source vouches for.
LEMMA ImportRefines ==
  ASSUME LedgerInv, NEW w \in Worker, DropTarget(w) \/ Import(w)
  PROVE  Ledger!Import(job[w])
<1> DEFINE i == job[w]
<1>1. /\ i \in Id /\ rec[i].op = "restore" /\ rec[i].status = "running" /\ stem[w] = rec[rec[i].source].file
      /\ target \in [Half -> Stem \cup {NoStem}]
  BY BackupAssumption DEF BackupAssumption, LedgerInv, BackupInv, TypeOK, Numbering, Working, WorkerOK, Undone,
     RestoreStep, Fresh, Restoring, SourceOK, DropTarget, Import, At, Id, NoId
<1>2. UNCHANGED <<rec, Store>>
  <2>1. Frame(w) /\ UNCHANGED <<rec, disk, bad, clock>> /\ pc[w] # "gz" /\ pc'[w] # "gz"
    BY <1>1, FrameStep DEF LedgerInv, BackupInv, TypeOK, WorkerStep, RestoreTask, DropTarget, Import, At, Go,
       dbVars, diskVars
  <2>2. Archives' = Archives
    BY <2>1 DEF Archives
  <2> QED BY <2>1, <2>2, StoreKept DEF LedgerInv
<1>3. Base' \subseteq Base \cup {stem[w]}
  BY <1>1 DEF DropTarget, Import, Base, Half
<1> QED BY <1>1, <1>2, <1>3 DEF Ledger!Import, Ledger!Is

\* A request adds a row.
LEMMA ApiRefines ==
  ASSUME LedgerInv, Api
  PROVE  \/ \E i \in Id : Ledger!Backup(i) \/ \E j \in Id : Ledger!Restore(i, j)
         \/ UNCHANGED <<rec, Store, Base>>
<1> DEFINE n == lastId + 1
<1>1. ASSUME NEW r, Insert(r) PROVE n \in Id /\ rec[n] = Ledger!Absent /\ Ledger!Becomes(n, r)
  <2>1. n \in Id /\ rec[n] = Blank /\ rec' = [rec EXCEPT ![n] = r]
    BY <1>1, BackupAssumption DEF BackupAssumption, Insert, LedgerInv, BackupInv, TypeOK, Numbering, Id, NoId
  <2>2. UNCHANGED <<pc, stem, disk, bad, clock, target>>
    BY <1>1 DEF Insert, workerVars, diskVars, targetVars
  <2>3. UNCHANGED <<Store, Base>>
    BY <2>2 DEF Store, Base, Awaited, At
  <2> QED BY <2>1, <2>3 DEF Ledger!Absent, Ledger!New, Ledger!Becomes, Blank, NoStem, NoId
<1>2. CASE CreateBackup
  <2> DEFINE r == [op |-> "backup", status |-> "running", file |-> NoStem, valid |-> FALSE, source |-> NoId]
  <2>2. r = Ledger!New("backup", "running", NoId)
    BY DEF Ledger!New, NoStem, NoId
  <2>3. Insert(r)
    BY <1>2 DEF CreateBackup
  <2> HIDE DEF r
  <2>1. Ledger!Backup(n)
    BY <1>1, <2>2, <2>3 DEF Ledger!Backup, NoId
  <2> QED BY <1>1, <2>1, <2>3
<1>3. ASSUME NEW j \in Id, RestoreBackup(j) PROVE \E i \in Id : Ledger!Restore(i, j)
  <2> DEFINE r == [op |-> "restore", status |-> "running", file |-> NoStem, valid |-> FALSE, source |-> j]
  <2>2. r = Ledger!New("restore", "running", j)
    BY DEF Ledger!New, NoStem, NoId
  <2>3. Insert(r) /\ rec[j].valid /\ rec[j].op = "backup"
    BY <1>3 DEF RestoreBackup, LedgerInv, BackupInv, Asking, Files, TypeOK, Record, Op
  <2> HIDE DEF r
  <2>1. Ledger!Restore(n, j)
    BY <1>1, <2>2, <2>3 DEF Ledger!Restore
  <2> QED BY <1>1, <2>1, <2>3
<1>4. ASSUME NEW j \in Id, AskRestore(j) PROVE UNCHANGED <<rec, Store, Base>>
  BY <1>4 DEF AskRestore, workerVars, diskVars, targetVars, Store, Base, Awaited, At
<1> QED BY <1>2, <1>3, <1>4 DEF Api

\* A client that outlives its worker imports what its restore was to restore.
LEMMA OrphanRefines ==
  ASSUME LedgerInv, NEW i \in Id, Orphan(i)
  PROVE  Ledger!Import(i)
<1>1. rec[i].op = "restore" /\ rec[i].status = "running"
  BY DEF Orphan, LedgerInv, BackupInv, Orphaned, Fresh
<1>2. UNCHANGED <<rec, Store>>
  BY DEF Orphan, dbVars, workerVars, diskVars, Store, Awaited, At
<1>3. Base' \subseteq Base \cup {rec[rec[i].source].file}
  BY DEF Orphan, Base, Half, LedgerInv, BackupInv, TypeOK
<1> QED BY <1>1, <1>2, <1>3 DEF Ledger!Import, Ledger!Is

\* Every step is one of the ledger, or not seen.
LEMMA StepRefines == LedgerInv /\ [Next]_vars => [Ledger!LedgerNext]_(Ledger!ledgerVars)
<1> SUFFICES ASSUME LedgerInv, [Next]_vars PROVE Ledger!LedgerNext \/ UNCHANGED <<rec, Store, Base>>
  BY DEF Ledger!ledgerVars
<1>1. CASE UNCHANGED vars
  BY <1>1 DEF vars, dbVars, workerVars, diskVars, targetVars, Store, Base, Awaited, At
<1>4. ASSUME NEW i \in Id, Orphan(i) PROVE Ledger!LedgerNext
  BY <1>4, OrphanRefines DEF Ledger!LedgerNext
<1>2. CASE Api
  BY <1>2, ApiRefines DEF Ledger!LedgerNext
<1>3. ASSUME NEW w \in Worker, WorkerStep(w) \/ Kill(w)
      PROVE  Ledger!LedgerNext \/ UNCHANGED <<rec, Store, Base>>
  <2>1. pc[w] # "idle" => job[w] \in Id
    BY BackupAssumption DEF BackupAssumption, LedgerInv, BackupInv, Numbering, TypeOK, Id, NoId
  <2>2. pc[w] \in {"gz", "zip", "verify"} => stem[w] \in Stem
    BY DEF LedgerInv, BackupInv, TypeOK, Working, WorkerOK, Undone, BackupStep, Intact, DumpOK, Written
  <2>3. CASE Save(w) \/ Rescue(w)
    <3>1. job[w] \in Id
      BY <2>1, <2>3 DEF Save, Rescue, At
    <3>2. ASSUME NEW f \in Stem, NEW s \in {"succeeded", "failed"}, Ledger!Keep(job[w], f, s)
          PROVE  Ledger!LedgerNext
      BY <3>1, <3>2 DEF Ledger!LedgerNext
    <3>3. ASSUME NEW f \in Stem, Ledger!Spoil(job[w], f) PROVE Ledger!LedgerNext
      BY <3>1, <3>3 DEF Ledger!LedgerNext
    <3>4. ASSUME Ledger!Restored(job[w]) \/ Ledger!Fail(job[w]) PROVE Ledger!LedgerNext
      BY <3>1, <3>4 DEF Ledger!LedgerNext
    <3> QED BY <2>3, <3>2, <3>3, <3>4, SaveRefines, RescueRefines
  <2>4. CASE DropTarget(w) \/ Import(w)
    <3>1. job[w] \in Id
      BY <2>1, <2>4 DEF DropTarget, Import, At
    <3> QED BY <2>4, <3>1, ImportRefines DEF Ledger!LedgerNext
  <2>5. CASE (Raise(w) \/ Kill(w)) /\ pc[w] = "gz"
    BY <2>2, <2>5, LeaveRefines DEF Ledger!LedgerNext
  <2>6. CASE OpenGz(w)
    BY <2>2, <2>6, OpenRefines DEF OpenGz, At, Ledger!LedgerNext
  <2>7. CASE CloseGz(w)
    BY <2>2, <2>7, CloseRefines DEF CloseGz, At, Ledger!LedgerNext
  <2>8. CASE Verify(w)
    BY <2>2, <2>8, VerifyRefines DEF Verify, At, Ledger!LedgerNext
  <2>9. CASE \E x \in Path : Remove(w, x)
    BY <2>9, RemoveRefines DEF Ledger!LedgerNext
  <2>10. CASE WriteSql(w)
    BY <2>10, StampHidden
  <2>11. CASE \/ Begin(w) \/ Return(w) \/ RescueFails(w) \/ Dump(w) \/ WriteSha(w) \/ List(w)
              \/ Pruned(w) \/ Check(w) \/ ReadSource(w) \/ OpenDump(w) \/ Stats(w)
              \/ (Raise(w) \/ Kill(w)) /\ pc[w] # "gz"
              \/ (\E i \in Id : Take(w, i)) \/ (\E x \in Path : LookUp(w, x))
    BY <2>11, HiddenSteps DEF LedgerInv
  <2> QED BY <1>3, <2>3, <2>4, <2>5, <2>6, <2>7, <2>8, <2>9, <2>10, <2>11
          DEF WorkerStep, BackupTask, RestoreTask
<1> QED BY <1>1, <1>2, <1>3, <1>4 DEF Next

\* For an operator who restores, any number of overlapping backups, retention
\* passes and restores, killed workers and lost messages are what BackupLedger
\* says: a record vouches for an archive of its own that is readable until
\* retention removes it, retention removes an archive only behind newer ones and
\* it does not come back, and only archives that records vouch for are imported
\* (run_backup_job, persist, _enforce_retention, run_restore_job).
THEOREM BackupRefinesLedger ==
  ASSUME "rot" \notin Events
  PROVE  Spec => RefinesLedger
<1>1. Init => LedgerInv
  <2> SUFFICES ASSUME Init PROVE LedgerInv
    OBVIOUS
  <2>1. Sealed /\ NewestKept /\ Limited
    BY DEF Init, Sealed, NewestKept, Limited
  <2>2. Unopened /\ Inserted /\ Sourced
    BY DEF Init, Unopened, Inserted, Sourced, Archives
  <2> QED BY <2>1, <2>2, BackupInit DEF LedgerInv
<1>2. LedgerInv /\ [Next]_vars => LedgerInv'
  <2>1. BackupInv /\ [Next]_vars => BackupInv'
    BY TypeStep, NumberingStep, OneOwnerStep, WorkingStep, FilesStep, OwnStemStep, IntactStep, RestoringStep,
       AskingStep, OrphanedStep DEF BackupInv
  <2> QED BY <2>1, SealedStep, NewestStep, UnopenedStep, InsertedStep DEF LedgerInv
<1>3. Init => Ledger!LedgerInit
  <2> SUFFICES ASSUME Init PROVE Ledger!LedgerInit
    OBVIOUS
  <2>1. rec = [i \in Id |-> Ledger!Absent] /\ Base = {}
    BY DEF Init, Base, Half, Ledger!Absent, Ledger!New, NoStem, NoId
  <2>2. \A f \in Stem : f > clock /\ f \notin Archives
    BY BackupAssumption DEF Init, Stem, Archives, BackupAssumption
  <2>3. Store = [f \in Stem |-> "none"]
    <3>1. \A f \in Stem : Store[f] = "none"
      BY <2>2, StoreIs DEF Awaited
    <3> QED BY <3>1 DEF Store
  <2> QED BY <2>1, <2>3 DEF Ledger!LedgerInit
<1> QED BY <1>1, <1>2, <1>3, StepRefines, PTL DEF Spec, RefinesLedger, Ledger!LedgerSpec
=============================================================================
