------------------------------- MODULE Backup -------------------------------
(***************************************************************************)
(* MySQL backup and restore, real execution mode: the backup API           *)
(* (api/v1/backup.py), the Celery tasks run_backup_job and run_restore_job *)
(* (tasks/backup_tasks.py), and RealMySQLDumpEngine                        *)
(* (services/backup_service.py) with the storage directory and the scratch *)
(* database <db>_restore that all workers share.                           *)
(*                                                                         *)
(* A dump is identified with the file it was written to: the files of one  *)
(* persist() share a stem, easyops-<timestamp>, and stems are numbered in  *)
(* the order of their timestamps, the order retention sorts them by.       *)
(***************************************************************************)
EXTENDS Integers, FiniteSets

CONSTANTS
  Worker,      \* celery worker processes
  Retention,   \* BACKUP_RETENTION_COUNT
  MaxRecord,   \* bound: rows of backup_record
  MaxStem,     \* bound: calls of persist()
  Events       \* what the environment does: see EventKinds

EventKinds == {"broker",  \* .delay() raises after the row was committed
               "kill",    \* a worker process dies (time_limit, OOM, restart)
               "db",      \* the database refuses the error handler's write
               "rot"}     \* the disk keeps something else than was written

ASSUME BackupAssumption ==
  /\ Retention \in Nat
  /\ MaxRecord \in Nat /\ MaxStem \in Nat
  /\ Events \subseteq EventKinds

Id     == 1 .. MaxRecord
Stem   == 1 .. MaxStem
NoId   == 0
NoStem == 0

\* The three files of a stem, in the order retention removes them.
Gz  == 1
Sql == 2
Sha == 3
Path == Stem \X {Gz, Sql, Sha}

\* Half of the tables of a dump: an import is not atomic.
Half == {1, 2}

VARIABLES
  rec,     \* backup_record: one record per id
  lastId,  \* its auto-increment counter
  queue,   \* task messages in the broker
  pc,      \* per worker: the next step of its task
  job,     \* per worker: the record id it was called with
  stem,    \* per worker: the dump its task writes or restores
  todo,    \* per worker: the paths its retention pass still has to remove
  sound,   \* per worker: what consistency_check() returned
  clock,   \* the stem with the latest timestamp
  disk,    \* the paths that exist in BACKUP_STORAGE_DIR
  bad,     \* the stems whose .sql.gz the validation refuses
  odd,     \* the stems whose .sql.gz it accepts, though it is no gzip file
  target,  \* per half of the tables of <db>_restore: the dump it came from
  orphan,  \* the restores whose worker died and whose mysql client still runs
  asked,   \* the backups that requests to restore have found valid
  crossed  \* history: the workers whose target database another restore has
           \* written since they dropped it

apiVars    == <<lastId, asked>>
dbVars     == <<rec, apiVars, queue>>
workerVars == <<pc, job, stem, todo, sound>>
diskVars   == <<clock, disk, bad, odd>>
targetVars == <<target, orphan, crossed>>
vars       == <<dbVars, workerVars, diskVars, targetVars>>

Op     == {"backup", "restore"}
Status == {"absent", "running", "succeeded", "failed"}
Record == [op : Op, status : Status, file : Stem \cup {NoStem},
           valid : BOOLEAN, source : Id \cup {NoId}]

BackupStep  == {"dump", "sql", "gz", "zip", "verify", "sha", "list", "prune",
                "remove", "check"}
Filling     == {"import", "finish"}
RestoreStep == {"source", "open", "drop", "import", "finish", "stats"}
Step == {"idle", "begin", "save", "return", "rescue", "rescueSave"}
          \cup BackupStep \cup RestoreStep

Archives == {f \in Stem : <<f, Gz>> \in disk}

Init ==
  /\ rec = [i \in Id |-> [op |-> "backup", status |-> "absent", file |-> NoStem,
                          valid |-> FALSE, source |-> NoId]]
  /\ lastId = 0
  /\ queue = {}
  /\ pc = [w \in Worker |-> "idle"]
  /\ job = [w \in Worker |-> NoId]
  /\ stem = [w \in Worker |-> NoStem]
  /\ todo = [w \in Worker |-> {}]
  /\ sound = [w \in Worker |-> FALSE]
  /\ clock = 0
  /\ disk = {}
  /\ bad = {}
  /\ odd = {}
  /\ target = [h \in Half |-> NoStem]
  /\ orphan = {}
  /\ asked = {}
  /\ crossed = {}

-----------------------------------------------------------------------------
(* The API: a row that says "running" is committed, then dispatched.       *)

Insert(r) ==
  /\ lastId < MaxRecord
  /\ lastId' = lastId + 1
  /\ rec' = [rec EXCEPT ![lastId + 1] = r]
  /\ \/ queue' = queue \cup {lastId + 1}
     \/ "broker" \in Events /\ UNCHANGED queue
  /\ UNCHANGED <<asked, workerVars, diskVars, targetVars>>

CreateBackup ==
  Insert([op |-> "backup", status |-> "running", file |-> NoStem,
          valid |-> FALSE, source |-> NoId])

\* Only a backup that was validated can be restored, else 400 or 404.
AskRestore(i) ==
  /\ lastId < MaxRecord
  /\ rec[i].op = "backup"
  /\ rec[i].status = "succeeded" /\ rec[i].valid
  /\ asked' = asked \cup {i}
  /\ UNCHANGED <<rec, lastId, queue, workerVars, diskVars, targetVars>>

\* Mutation of RestoreBackup: the row is not read before it is restored.
RestoreUnasked(i) ==
  /\ rec[i].op = "backup" /\ rec[i].status # "absent"
  /\ Insert([op |-> "restore", status |-> "running", file |-> NoStem,
             valid |-> FALSE, source |-> i])

\* The row of a restore is committed after the source was read, and any number
\* of requests may have read it: by now it may have been downgraded.
RestoreBackup(i) ==
  /\ i \in asked
  /\ Insert([op |-> "restore", status |-> "running", file |-> NoStem,
             valid |-> FALSE, source |-> i])

-----------------------------------------------------------------------------
(* Both tasks.                                                             *)

At(w, s) == pc[w] = s
Go(w, s) == pc' = [pc EXCEPT ![w] = s]

\* Mutation of Take: the message stays in the broker while the task runs.
TakeUnacknowledged(w, i) ==
  /\ At(w, "idle")
  /\ i \in queue
  /\ job' = [job EXCEPT ![w] = i]
  /\ Go(w, "begin")
  /\ UNCHANGED <<dbVars, stem, todo, sound, diskVars, targetVars>>

Take(w, i) ==
  /\ At(w, "idle")
  /\ i \in queue
  /\ queue' = queue \ {i}
  /\ job' = [job EXCEPT ![w] = i]
  /\ Go(w, "begin")
  /\ UNCHANGED <<rec, apiVars, stem, todo, sound, diskVars, targetVars>>

Begin(w) ==
  /\ At(w, "begin")
  /\ rec' = [rec EXCEPT ![job[w]].status = "running"]
  /\ Go(w, IF rec[job[w]].op = "backup" THEN "dump" ELSE "source")
  /\ UNCHANGED <<apiVars, queue, job, stem, todo, sound, diskVars, targetVars>>

\* The assignments before the last commit.  That of a restore replaces the
\* document that named its source.
Saved(w) ==
  LET r == rec[job[w]] IN
  IF r.op = "backup"
  THEN [r EXCEPT !.status = IF sound[w] THEN "succeeded" ELSE "failed",
                 !.file = stem[w], !.valid = sound[w]]
  ELSE [r EXCEPT !.status = "succeeded", !.source = NoId]

Save(w) ==
  /\ At(w, "save")
  /\ rec' = [rec EXCEPT ![job[w]] = Saved(w)]
  /\ Go(w, "return")
  /\ UNCHANGED <<apiVars, queue, job, stem, todo, sound, diskVars, targetVars>>

Idle(w) == /\ Go(w, "idle")
           /\ job' = [job EXCEPT ![w] = NoId]
           /\ stem' = [stem EXCEPT ![w] = NoStem]
           /\ todo' = [todo EXCEPT ![w] = {}]
           /\ sound' = [sound EXCEPT ![w] = FALSE]
           /\ crossed' = crossed \ {w}

Return(w) ==
  /\ At(w, "return")
  /\ Idle(w)
  /\ UNCHANGED <<dbVars, diskVars, target, orphan>>

\* Any call may raise: mysqldump or mysql fails or times out, the disk is
\* full, the soft time limit strikes, the database is lost.  What was written
\* so far stays where it is.
Raise(w) ==
  /\ pc[w] \notin {"idle", "rescue", "rescueSave"}
  /\ Go(w, IF At(w, "save") THEN "rescueSave" ELSE "rescue")
  /\ UNCHANGED <<dbVars, job, stem, todo, sound, diskVars, targetVars>>

\* Mutation of Rescue: the handler forgets the status.
RescueUnmarked(w) ==
  /\ pc[w] \in {"rescue", "rescueSave"}
  /\ Idle(w)
  /\ UNCHANGED <<dbVars, diskVars, target, orphan>>

\* The handler marks the row failed.  If the exception came after the fields
\* were assigned, its commit writes them too.
Rescue(w) ==
  LET i == job[w] IN
  /\ pc[w] \in {"rescue", "rescueSave"}
  /\ \/ rec' = [rec EXCEPT ![i].status = "failed", ![i].source = NoId]
     \/ /\ At(w, "rescueSave")
        /\ rec' = [rec EXCEPT ![i] = [Saved(w) EXCEPT !.status = "failed",
                                                      !.source = NoId]]
  /\ Idle(w)
  /\ UNCHANGED <<apiVars, queue, diskVars, target, orphan>>

RescueFails(w) ==
  /\ "db" \in Events
  /\ pc[w] \in {"rescue", "rescueSave"}
  /\ Idle(w)
  /\ UNCHANGED <<dbVars, diskVars, target, orphan>>

\* The mysql client of a restore outlives its worker.
Kill(w) ==
  /\ "kill" \in Events
  /\ ~At(w, "idle")
  /\ Idle(w)
  /\ orphan' = IF pc[w] \in Filling THEN orphan \cup {job[w]} ELSE orphan
  /\ UNCHANGED <<dbVars, diskVars, target>>

-----------------------------------------------------------------------------
(* run_backup_job.                                                         *)

\* Mutation of Dump: the archive is opened before persist() has its timestamp.
DumpToArchive(w) ==
  /\ At(w, "dump")
  /\ Go(w, "gz")
  /\ UNCHANGED <<dbVars, job, stem, todo, sound, diskVars, targetVars>>

\* mysqldump ended with return code 0.
Dump(w) ==
  /\ At(w, "dump")
  /\ Go(w, "sql")
  /\ UNCHANGED <<dbVars, job, stem, todo, sound, diskVars, targetVars>>

\* Mutation of WriteSql: two timestamps in a row may be the same.
WriteSqlCoarse(w) ==
  /\ At(w, "sql")
  /\ \E s \in {clock, clock + 1} \cap Stem :
       /\ clock' = s
       /\ stem' = [stem EXCEPT ![w] = s]
       /\ disk' = disk \cup {<<s, Sql>>}
  /\ Go(w, "gz")
  /\ UNCHANGED <<dbVars, job, todo, sound, bad, odd, targetVars>>

\* persist() takes its timestamp and writes <stem>.sql.
WriteSql(w) ==
  /\ At(w, "sql")
  /\ clock < MaxStem
  /\ clock' = clock + 1
  /\ stem' = [stem EXCEPT ![w] = clock + 1]
  /\ disk' = disk \cup {<<clock + 1, Sql>>}
  /\ Go(w, "gz")
  /\ UNCHANGED <<dbVars, job, todo, sound, bad, odd, targetVars>>

\* Until it is closed <stem>.sql.gz is there under its final name, truncated.
OpenGz(w) ==
  /\ At(w, "gz")
  /\ disk' = disk \cup {<<stem[w], Gz>>}
  /\ bad' = bad \cup {stem[w]}
  /\ Go(w, "zip")
  /\ UNCHANGED <<dbVars, job, stem, todo, sound, clock, odd, targetVars>>

\* What the disk keeps instead is refused if it is empty or a damaged gzip file;
\* any other bytes pass for a plain dump.
CloseGz(w) ==
  /\ At(w, "zip")
  /\ \/ bad' = bad \ {stem[w]} /\ UNCHANGED odd
     \/ "rot" \in Events /\ UNCHANGED <<bad, odd>>
     \/ "rot" \in Events /\ bad' = bad \ {stem[w]} /\ odd' = odd \cup {stem[w]}
  /\ Go(w, "verify")
  /\ UNCHANGED <<dbVars, job, stem, todo, sound, clock, disk, targetVars>>

\* The file is read back; if another worker's retention has removed it, open()
\* raises.
Verify(w) ==
  /\ At(w, "verify")
  /\ <<stem[w], Gz>> \in disk
  /\ IF stem[w] \in bad
     THEN disk' = disk \ {<<stem[w], Sql>>, <<stem[w], Gz>>} /\ Go(w, "rescue")
     ELSE UNCHANGED disk /\ Go(w, "sha")
  /\ UNCHANGED <<dbVars, job, stem, todo, sound, clock, bad, odd, targetVars>>

WriteSha(w) ==
  /\ At(w, "sha")
  /\ disk' = disk \cup {<<stem[w], Sha>>}
  /\ Go(w, "list")
  /\ UNCHANGED <<dbVars, job, stem, todo, sound, clock, bad, odd, targetVars>>

\* Mutations of Surplus: the slice is one too long; one in, one out.
SurplusTooMany == {f \in Archives :
                     /\ Retention > 0
                     /\ Cardinality({g \in Archives : g > f}) >= Retention - 1}

SurplusOldest == {f \in Archives :
                    /\ Retention > 0
                    /\ Cardinality(Archives) > Retention
                    /\ \A g \in Archives : g >= f}

\* _enforce_retention(): one listing of the directory, then each file of each
\* stem beyond the newest Retention is looked up and removed.
Surplus == {f \in Archives :
              /\ Retention > 0
              /\ Cardinality({g \in Archives : g > f}) >= Retention}

List(w) ==
  /\ At(w, "list")
  /\ todo' = [todo EXCEPT ![w] = Surplus \X {Gz, Sql, Sha}]
  /\ Go(w, "prune")
  /\ UNCHANGED <<dbVars, job, stem, sound, diskVars, targetVars>>

Before(x, y) == x[1] < y[1] \/ (x[1] = y[1] /\ x[2] < y[2])

IsFirst(w, x) == x \in todo[w] /\ \A y \in todo[w] \ {x} : Before(x, y)

Done(w, x) == todo' = [todo EXCEPT ![w] = @ \ {x}]

LookUp(w, x) ==
  /\ At(w, "prune")
  /\ IsFirst(w, x)
  /\ IF x \in disk
     THEN Go(w, "remove") /\ UNCHANGED todo
     ELSE Done(w, x) /\ UNCHANGED pc
  /\ UNCHANGED <<dbVars, job, stem, sound, diskVars, targetVars>>

\* os.remove() raises if another worker has been faster.
Remove(w, x) ==
  /\ At(w, "remove")
  /\ IsFirst(w, x)
  /\ x \in disk
  /\ disk' = disk \ {x}
  /\ Done(w, x)
  /\ Go(w, "prune")
  /\ UNCHANGED <<dbVars, job, stem, sound, clock, bad, odd, targetVars>>

Pruned(w) ==
  /\ At(w, "prune")
  /\ todo[w] = {}
  /\ Go(w, "check")
  /\ UNCHANGED <<dbVars, job, stem, todo, sound, diskVars, targetVars>>

\* consistency_check(): a file that is gone is inconsistent, not an error.
Check(w) ==
  /\ At(w, "check")
  /\ sound' = [sound EXCEPT ![w] = <<stem[w], Gz>> \in disk /\ stem[w] \notin bad]
  /\ Go(w, "save")
  /\ UNCHANGED <<dbVars, job, stem, todo, diskVars, targetVars>>

-----------------------------------------------------------------------------
(* run_restore_job.                                                        *)

ReadSource(w) ==
  LET i == rec[job[w]].source IN
  /\ At(w, "source")
  /\ i # NoId
  /\ rec[i].file # NoStem
  /\ stem' = [stem EXCEPT ![w] = rec[i].file]
  /\ Go(w, "open")
  /\ UNCHANGED <<dbVars, job, todo, sound, diskVars, targetVars>>

\* The whole dump is read into memory; a file that is missing or cannot be
\* decompressed raises.  Its checksum is not compared with the record's.
OpenDump(w) ==
  /\ At(w, "open")
  /\ <<stem[w], Gz>> \in disk
  /\ stem[w] \notin bad \cup odd
  /\ Go(w, "drop")
  /\ UNCHANGED <<dbVars, job, stem, todo, sound, diskVars, targetVars>>

\* The other restores that have dropped the target database before.
Others(w) == {v \in Worker \ {w} : pc[v] \in Filling \cup {"stats"}}

DropTarget(w) ==
  /\ At(w, "drop")
  /\ target' = [h \in Half |-> NoStem]
  /\ crossed' = (crossed \ {w}) \cup Others(w)
  /\ Go(w, "import")
  /\ UNCHANGED <<dbVars, job, stem, todo, sound, diskVars, orphan>>

\* Mutation of Import: the return code of mysql is not looked at.
ImportUnchecked(w) ==
  /\ \/ At(w, "import") /\ target' = [target EXCEPT ![1] = stem[w]] /\ Go(w, "finish")
     \/ At(w, "finish") /\ target' = [target EXCEPT ![2] = stem[w]] /\ Go(w, "stats")
     \/ pc[w] \in Filling /\ UNCHANGED target /\ Go(w, "stats")
  /\ crossed' = crossed \cup Others(w)
  /\ UNCHANGED <<dbVars, job, stem, todo, sound, diskVars, orphan>>

\* A dump drops and recreates each of its tables in turn.
Import(w) ==
  /\ \/ At(w, "import") /\ target' = [target EXCEPT ![1] = stem[w]] /\ Go(w, "finish")
     \/ At(w, "finish") /\ target' = [target EXCEPT ![2] = stem[w]] /\ Go(w, "stats")
  /\ crossed' = crossed \cup Others(w)
  /\ UNCHANGED <<dbVars, job, stem, todo, sound, diskVars, orphan>>

\* What a client was sent before its worker died, it goes on importing.
Orphan(i) ==
  /\ i \in orphan
  /\ \E h \in Half : target' = [target EXCEPT ![h] = rec[rec[i].source].file]
  /\ crossed' = {v \in Worker : pc[v] \in Filling \cup {"stats"}}
  /\ UNCHANGED <<dbVars, workerVars, diskVars, orphan>>

\* Whatever the counts are, the restore is consistent (>= 0).
Stats(w) ==
  /\ At(w, "stats")
  /\ Go(w, "save")
  /\ UNCHANGED <<dbVars, job, stem, todo, sound, diskVars, targetVars>>

-----------------------------------------------------------------------------
Api == CreateBackup \/ \E i \in Id : AskRestore(i) \/ RestoreBackup(i)

BackupTask(w) ==
  \/ Dump(w) \/ WriteSql(w) \/ OpenGz(w) \/ CloseGz(w) \/ Verify(w) \/ WriteSha(w)
  \/ List(w) \/ (\E x \in Path : LookUp(w, x) \/ Remove(w, x)) \/ Pruned(w) \/ Check(w)

RestoreTask(w) ==
  ReadSource(w) \/ OpenDump(w) \/ DropTarget(w) \/ Import(w) \/ Stats(w)

WorkerStep(w) ==
  \/ \E i \in Id : Take(w, i)
  \/ Begin(w) \/ BackupTask(w) \/ RestoreTask(w) \/ Save(w) \/ Return(w)
  \/ Raise(w) \/ Rescue(w) \/ RescueFails(w)

Next == Api \/ (\E w \in Worker : WorkerStep(w) \/ Kill(w)) \/ (\E i \in Id : Orphan(i))

Spec == Init /\ [][Next]_vars

FairSpec == Spec /\ \A w \in Worker : WF_vars(WorkerStep(w))

-----------------------------------------------------------------------------
(* Correctness.                                                            *)

\* Types of every variable.
TypeOK ==
  /\ rec \in [Id -> Record]
  /\ lastId \in Id \cup {NoId}
  /\ queue \in SUBSET Id
  /\ pc \in [Worker -> Step]
  /\ job \in [Worker -> Id \cup {NoId}]
  /\ stem \in [Worker -> Stem \cup {NoStem}]
  /\ todo \in [Worker -> SUBSET Path]
  /\ sound \in [Worker -> BOOLEAN]
  /\ clock \in Stem \cup {NoStem}
  /\ disk \in SUBSET Path
  /\ bad \in SUBSET Stem
  /\ odd \in SUBSET Stem
  /\ target \in [Half -> Stem \cup {NoStem}]
  /\ orphan \in SUBSET Id
  /\ asked \in SUBSET Id
  /\ crossed \in SUBSET Worker

\* A record that says "succeeded" names a dump of its own, and that dump is an
\* archive that passes the validation until retention removes it, never a
\* truncated file, never one that another backup writes.  It can be decompressed
\* if the disk keeps what is written: otherwise validate_dump_bytes takes any file
\* that does not look like gzip.
SucceededFileIntact ==
  \A i \in Id : (rec[i].op = "backup" /\ rec[i].status = "succeeded") =>
    LET f == rec[i].file IN
    /\ rec[i].valid /\ f # NoStem
    /\ <<f, Gz>> \in disk => f \notin bad /\ ("rot" \in Events \/ f \notin odd)
    /\ \A j \in Id \ {i} : rec[j].file # f
    /\ \A w \in Worker : (stem[w] = f /\ job[w] # i) => rec[job[w]].op = "restore"

\* Retention only ever removes what is older than the newest Retention
\* archives, however the passes of several workers overlap with each other
\* and with backups that are being written.
NewestKept ==
  \A w \in Worker : \A x \in todo[w] :
    Cardinality({g \in Archives : g > x[1]}) >= Retention

\* To an operator who restores, records, archives and scratch database are what
\* BackupLedger says, although passes of retention, backups that fail and
\* restores overlap: a record vouches for a readable archive of its own or for
\* one that retention has removed, no archive comes back, and only what a record
\* vouches for is imported (persist, _enforce_retention, restore).  An archive is
\* awaited from its timestamp to the moment its file is opened.
Awaited(f) == f > clock \/ \E w \in Worker : At(w, "gz") /\ stem[w] = f
Store   == [f \in Stem |-> IF <<f, Gz>> \in disk THEN IF f \in bad THEN "open" ELSE "whole"
                          ELSE IF Awaited(f) THEN "none" ELSE "gone"]
Base    == {target[h] : h \in Half} \ {NoStem}

Ledger == INSTANCE BackupLedger WITH row <- rec, store <- Store, base <- Base,
                                     Archive <- Stem, None <- NoId
RefinesLedger == Ledger!LedgerSpec

\* What a restore imports is the dump of a backup that was validated, although
\* the request only looks before it inserts its row and the backup may be
\* downgraded in between and before the restore runs.
RestoresValidated ==
  \A w \in Worker : pc[w] \in {"drop", "import", "finish", "stats"} =>
    LET i == rec[job[w]].source IN
    /\ i # NoId /\ rec[i].op = "backup" /\ rec[i].valid
    /\ stem[w] = rec[i].file

\* When a retention pass is over, no more than Retention archives are left,
\* whatever earlier crashes and failures left behind.
PrunedToRetention ==
  \A w \in Worker : (pc[w] = "check" /\ Retention > 0) =>
    Cardinality(Archives) <= Retention

\* The target database a restore counts its tables and rows in, as evidence
\* that it is consistent, holds its source, whole and nothing else, whatever
\* earlier restores left in it: unless another restore, or the client of one whose
\* worker died, has written to the same database in the meantime.
RestoredIsSource ==
  \A w \in Worker : (pc[w] = "stats" /\ w \notin crossed) =>
    \A h \in Half : target[h] = stem[w]

\* A failed backup does not take the place of the last valid one: when no task
\* is running and some backup was validated, a validated archive is on disk.
LastValidKept ==
  (/\ \A w \in Worker : pc[w] = "idle"
   /\ \E i \in Id : rec[i].op = "backup" /\ rec[i].status = "succeeded") =>
    \E i \in Id : /\ rec[i].op = "backup" /\ rec[i].status = "succeeded"
                  /\ <<rec[i].file, Gz>> \in disk

\* A record whose message is in the broker is concluded, if workers keep
\* working and neither they nor the database die under a task.
QueuedIsConcluded ==
  \A i \in Id : i \in queue ~> rec[i].status \in {"succeeded", "failed"}
=============================================================================
