# EasyOps verification project

TLA+ models of the EasyOps backend (`src/easyops_api`): the subsystems in which several processes,
remote machines and a database interact, model-checked with TLC on small instances, and theorems about
them that TLAPS checks for every value of the constants. Paths below are relative to `src/`; API and task
files are under `src/easyops_api/`.

Contents: [system](#the-system) · [modules](#modules-and-the-code) · [runs](#the-runs) ·
[proofs](#the-proofs) · [disagreements](#where-code-and-documents-disagree) ·
[limits](#what-is-not-modelled) · [plan](#plan)

## The system

EasyOps is a FastAPI application with a MySQL database, a Redis broker and Celery workers
(`docker-compose.yml`, worker `--concurrency=8`). Every long operation has the same skeleton:

1. a handler (`api/v1/*.py`, run in a thread pool) validates a request, inserts a row that says
   "requested"/"running", commits, and publishes a task message that carries only ids;
2. a worker process takes the message (acknowledged on receipt, `max_retries=0`), reads the row, works on
   remote machines over SSH or on the local disk, and commits the outcome;
3. an error handler or a `finally` block commits a failure or aggregates counts.

Nothing is locked: sessions commit at the points the code says, two tasks and two handlers may overlap
anywhere, and a process may end between any two commits.

| component | state it keeps | operations | interacts with | hard behaviour | correct when |
|---|---|---|---|---|---|
| controlled deployment (`api/v1/deploy.py`, `tasks/deploy_tasks.py`, `services/deploy_service.py`) | `deploy_release` rows; images, `release-<n>.yml` files and containers on hosts | create release, request rollback, deploy task, rollback task | broker, SSH, registry, asset rows | overlapping releases of one compose project, commands that outlive their connection, moving tags, assets that move, workers that die | a release is executed once; a success has its compose file and its image is what runs and is healthy; a rollback goes to an older deployment of its project |
| backup and restore (`api/v1/backup.py`, `tasks/backup_tasks.py`, `services/backup_service.py`) | `backup_record` rows, files in the storage directory, the scratch database `<db>_restore` | create backup, restore, retention, consistency check | broker, mysqldump/mysql, disk | retention passes of several workers, crashes in the middle of a file, two restores into one database | a succeeded record names an intact archive of its own; retention removes only what is old; a restore imports a validated dump, and that alone |
| controlled batch execution (`api/v1/exec_task.py`, `tasks/exec_tasks.py`) | `exec_record` (status, counts), `exec_host_result` rows | submit with an idempotency key, retry, per-host task, aggregation | broker, SSH, asset rows | look-up and insert in two transactions, stale reads, overlapping aggregations, partial dispatch | a host is run by one task at a time and not again after it succeeded, unless a stale retry spoils the batch; whatever status the batch is given was true of its hosts; it is declared concluded in the end |
| host inspection (`api/v1/inspection.py`, `tasks/inspection_tasks.py`) | `inspection_record`, `host_inspection`, `inspection_rule` | collect, collect_sync, per-host task, aggregation, rule CRUD, seeding | broker, SSH, asset rows, rule engine | as batch execution; tasks without an error handler; two first requests; rules edited under a running inspection | rules are seeded once; a verdict is given once and stands; a record is declared done once, when every host is judged |
| host facts (`services/host_inspection.py`) | none | ten probes over one SSH session, parsers | inspection | probes that fail one by one, output that does not parse | what a probe saw is what the rules judge |
| inspection rules (`services/inspection_rules.py`) | none (pure) | evaluate, seed list | inspection | missing metrics, operators that do not fit a metric, severity order | a rule alarms exactly when the host is in the state it describes; the verdict is the worst |
| operations catalogue (`services/operations.py`) | none (pure) | validate parameters, build a command | batch submission | limits, defaults, null | only whitelisted values reach a command |
| users, roles, break-glass switch (`api/v1/user.py`, `dependencies.py`, `api/v1/exec_task.py`) | `sys_user`, `sys_role`, `system_flag`, uses in `audit_log` | init-admin, create user, toggle, preview, submit | all handlers | check-then-insert, audit and insert in two transactions, restarts | one installation; accounts are kept; every arbitrary command is audited before it is recorded |
| asset registry, alerts, cron tasks, Docker/Kubernetes queries | single rows | CRUD, read-only queries | — | none beyond single statements | — |
| settings (`config.py`), metrics, redaction, encryption, migrations, web front end, Helm/compose files, `generate_easyops.py` | — | — | — | — | see [limits](#what-is-not-modelled) |

`PROJECT.json` lists every component with its status, and under `hazards` each place in the code where
these behaviours bite, with the properties that watch it.

## Modules and the code

| module | models | role |
|---|---|---|
| `ReleaseLedger` | the promises of the table `deploy_release` to its readers | abstract specification |
| `DeployRelease` | deployment: API, tasks, remote hosts, environment; implements `ReleaseLedger` through `INSTANCE ... WITH` | detailed specification |
| `DeployReleaseProofs` | inductive invariant of `DeployRelease` and its theorems | proofs |
| `DeployLedgerProofs` | `DeployRelease` implements `ReleaseLedger` | proofs |
| `BackupLedger` | the promises of `backup_record` and the archives to an operator who restores one | abstract specification |
| `Backup` | backup, retention, restore; implements `BackupLedger` | detailed specification |
| `BackupProofs` | inductive invariants of `Backup`, its theorems, and that it implements `BackupLedger` | proofs |
| `BatchLedger` | the promises of `exec_record` and `exec_host_result` to their readers | abstract specification |
| `ExecBatch` | batch submission, retry, task, aggregation; implements `BatchLedger` | detailed specification |
| `ExecBatchProofs` | inductive invariants of `ExecBatch` and its theorems | proofs |
| `BatchLedgerProofs` | `ExecBatch` implements `BatchLedger` | proofs |
| `HostLedger` | the promises of `inspection_record` and `host_inspection` to their readers | abstract specification |
| `HostFacts`, `InspectionRules` | what a host answers and what the parsers make of it; the rule engine | operators |
| `Inspection` | inspection requests, tasks, aggregation and rules; uses both, implements `HostLedger` | detailed specification |
| `InspectionProofs` | inductive invariants of `Inspection`, its theorems, and that it implements `HostLedger` | proofs |
| `Operations` | catalogue of fixed operations and their validation | operators |
| `Access` | installation, users, roles, the switch, and what a submission must pass; uses `Operations` | detailed specification |
| `AccessProofs` | inductive invariant of `Access` and its theorems | proofs |
| `Collections` | least elements, bags: lemmas that several proofs need | proofs |
| `MCDeployRelease`, `MCBackup`, `MCExecBatch`, `MCInspection`, `MCAccess` | constants for TLC | model checking |

### DeployRelease

State: the rows (`rel`, `lastId`); what requests for a rollback have found (`chosen`); ids committed but not yet published (`pending`) and published
(`queue`); per worker the step of its task and what its local variables hold (`pc`, `job`, `host`,
`failed`, `got`); per host its image store, compose files and containers (`image`, `files`, `container`);
remote commands whose connection was given up (`orphans`); the registry and the address of every asset. One
history variable, `crossed`, holds the workers whose container, or the image it came from, another task has
replaced since they started it.

* API: `CreateRelease`; `ChoosePoint` (`deploy.py:119` reads the newest `succeeded` row of the project before the
  release being undone, `last_valid_release`) and `RequestRollback` (`deploy.py:122-130` commits the row, when the
  point may have been downgraded or a newer success saved); `Delay`/`DelayFails` for the `.delay()` call after
  the commit. `chosen` is never emptied: any number of requests may have found the same point.
* Task: `Take`, `Begin` (row becomes `running`), `Load` (asset and runner are resolved, or fail closed),
  the remote steps `Pull`, `Up`, `Compose`, `Healthcheck`, each of which may also fail (`StepFails`) or go
  on after its connection was given up (`StepLingers`, `OrphanLands`), `ImageDigest`, `Save`, `Return`;
  `Raise`, `Rescue`, `RescueFails` for the error handler; `Kill` for the end of the process.
* Environment: `Push` moves a tag, `Retarget` moves an asset.

Two facts of the code shape everything: all releases of a project share the compose project
`easyops-p<id>`, so a new `up` replaces the container of any other release of that project; and compose
files name tags, so what an `up` starts depends on the image store of that host at that moment.

### Backup

State: the rows, the message set, per worker its step, record, dump (`stem`) and the paths its retention
pass still has to remove (`todo`); the clock that stamps file names; the files that exist (`disk`), the
archives that `validate_dump_bytes` refuses (`bad`: empty, truncated, a damaged gzip file) and those it takes though
they are no gzip files (`odd`: it looks at the gzip magic and takes anything else that is not empty for a plain dump),
and for each half of the tables in `<db>_restore` the dump it came from (`target`); the restores whose `mysql` client
outlived their worker (`orphan`). `crossed` is history: the workers whose target another restore has written to since
they dropped it. A dump is identified with the file it was written to. `Dump`, `WriteSql`, `OpenGz`,
`CloseGz`, `Verify`, `WriteSha`, `List`, `LookUp`, `Remove`, `Check`, `Saved`/`Return` are the steps of a
backup in the order of `RealMySQLDumpEngine.persist` and `run_backup_job`; `AskRestore` (the request looks at the backup,
`backup.py:51-55`), `RestoreBackup` (it commits the row, 56-62, whatever the backup says by then), `ReadSource`,
`OpenDump`, `DropTarget`, `Import`, `Stats` those of a restore. An import is done in two halves because another restore
can fall in between.

`BackupLedger` says what is left of all this for an operator who restores: a request adds a row; a backup ends by naming
an archive no other row names, and vouches for it (`Keep`) only if it was readable, which its status alone does not
say, since an exception after the commit turns `succeeded` into `failed`; a restore names a backup that is vouched for,
whatever its status by then; an archive is not there yet, open, whole or
gone, and gone for good; it goes when its writer gives it up before it was closed, or behind `Retention` newer ones;
and the scratch database takes tables only from the archive of a running restore's source. `Store` maps files to these
states: an archive is awaited from its timestamp to the moment its file is opened, which is when a missing file is not
yet a removed one.

### ExecBatch

State: `record` (the columns of `exec_record` that are read or aggregated), `row` (the host rows of each
record, in id order), the assets that exist, the *bag* of messages (one host may be queued twice), and for
every API thread (`call`) and worker (`task`) where it is and what it holds.

* Handlers: `Submit` (key looked up, request validated), `InsertRecord`, `InsertRows`, `Publish` one message
  at a time; `Select` and `Requeue` for a retry; `GiveUp` ends a request where a publish raises, the API
  process stops, or an asset the commits expired is gone when it is read again (`Readable`).
* Task: `Take`, `Begin` (the row says `running`; a deleted asset goes straight to the aggregation),
  `Conclude` (the result is committed), after a success `Return` or `Rescue` (the return statement reads the expired
  row inside the same `try`; if that raises, the handler commits `failed` over the success), `Recompute` (reads the
  record and all its rows in one snapshot), `Save`, `Kill`. A task works on the first row of its asset (`RowOf`), also
  where a batch names a server twice.
* SQLAlchemy flushes only the columns whose value differs from what the session loaded. An `UPDATE` is
  therefore a function from the changed columns to values (`Changed`), and `Flush` applies it to whatever
  the row holds by then. This is why overlapping aggregations can mix their columns.

`PassTwice` says how messages are built. `TRUE` is what `exec_task.py` does (`args` and `kwargs` both carry
the two ids); no task then gets past its call, see [disagreements](#where-code-and-documents-disagree).
`FALSE` is the call the tests make (`exec_host_result.run(record_id, asset_id)`), and the passing runs use it
to examine the rest of the design.

Three history variables say where a promise ends. `lost` collects the records that lost a message, a request, a task or
an asset, because nothing in the code brings those to an end; `BatchConcludes` is about the others. `stale` collects the
records of which a retry requeued hosts that had not failed, or had not any more, when it committed: `retry_failed` reads
in one transaction and writes in another. `undone` collects those of which a committed success was taken back. A record is
`Sound` if it is not in `stale` and its rows name different servers. Nothing of this is excluded from the behaviours:
the requests overlap, the stale retry happens, and a property says for which records it still holds.

`BatchLedger` says what a reader may rely on: the hosts of a batch are listed once, each goes from `queued` through
`running` to a result, a success may be taken back (`TakeBack`) but is not executed again, failures may be requeued, and
a `done` or `partial` that a batch shows was true of all its hosts at some moment. It may be true no longer:
`_recompute_record` reads and commits in different transactions, and a retry may come in between. The ledger therefore
computes verdicts (`Reckon`) and writes them later (`Declare`). Hosts of a batch in `void` may do anything (`Stray`), while
what is said of their batch still was true once. `RefinesLedger` maps `void` to the records that are not `Sound`, and
`verdict`, the verdicts that may still be written, to the `UPDATE`s tasks hold.

### HostFacts, InspectionRules and Inspection

A host is a record of what is true of it: load, memory, its file systems with the unit that `df -h` prints for
them, ports, services, and which probes and which kind of connection fail. `Collect` makes of it what
`collect_host_facts` makes of it; `Overall`, `Results` and `EvaluationRaises` are `evaluate`. Numbers are
integers in tenths, as the code rounds to one decimal. `Alarm` is the reference the rule engine is compared
with: it reads the host, never the facts. `Describes` are the rules that speak of a state of a host at all (the
operators of `default_rules`), and `Legible` is what has to be true of an answer so that the parsers keep that state:
disks are measured in gigabytes, the two tables of `df` list the same mounts, and an excess survives the rounding.

`Inspection` keeps the two tables, the rules, the message bag, and per thread and worker (`proc`) where it is.

* Handlers: `Start` validates and finds out whether there are rules; `Seed` adds the defaults or meets the unique
  names; `InsertRecord` and `InsertRows`, each after reading the expired assets again (`AssetGone`); then
  `Publish` for `collect`, or `ReadRules` and `SyncHost` per host for `collect_sync`, which turns exceptions into
  unknown hosts; both aggregate through `Recompute` and `Save`.
* Task: `Take`, `Begin` (row `running`; the transaction's snapshot of the rules), `Judge` (an exception leaves
  the row and goes to the `finally` block's aggregation, whose view of record and rows is that of the
  transaction still open), `Recompute`, `Save`, `Kill`. `PassTwice` is as in `ExecBatch`: with `TRUE`, which is what
  `inspection.py:87-89` does, `Take` ends the task. `collect_sync` dispatches nothing; what the code promises of
  conclusions is about it alone (`InspectionConcludes`).
* Rules: `CreateRule` with its whitelists, `UpdateRule` without any, `DeleteRule`.

`HostLedger` says what a reader may rely on: rows are listed once and together, a verdict replaces `running` and
nothing replaces a verdict, `done` comes once and after the last verdict. `RefinesLedger` maps its two variables to
the columns. That overlapping aggregations write only what differs from what they read is what makes it true.

### Operations and Access

A sent value is what the validation asks of it: null or not, the number it reads as, the whitelists it matches,
its length. `Builds` is `build_fixed_command` without an exception; a null for a parameter that the builder
names regardless (`lines`) fails there.

In `Access` a request reads (`InitAdmin`, `CreateUser`, `SetBreakGlass`, `SubmitFixed`, `BreakGlass`) and commits
later (`Mark`, `Bootstrap`, `InsertUser`, `Switch`, `Audit`, `Insert`); the unique columns make a commit fail
as a whole, and a value that equals what was read is not written. A preview of an arbitrary command stops after
`Audit`, one that is submitted goes on to `Insert`; what happens to the record then is `ExecBatch`. `Insert` is where a
command is recorded for execution, and `BreakGlassIsAudited` counts records: `retry_failed` executes a recorded command
again without looking at role or switch, see [disagreements](#where-code-and-documents-disagree).

## The runs

Passing runs:

| run | instance | properties | what it shows |
|---|---|---|---|
| `deploy_faults` | 2 workers, 3 rows, all of broker/kill/db/linger | `TypeOK`, `NoDoubleExecution`, `SucceededHasComposeFile`, `SavedSuccessIsRunning`, `RollbackPointSound`, `RefinesLedger` | ownership, rollback points, what runs when a success is saved, and the abstract ledger survive every fault |
| `deploy_serial` | 1 worker, 2 projects on an asset that may become unreachable, 2 digests of which one is broken, a tag that moves | `SavedSuccessIsRunning`, `SucceededImageGetsHealthy`, `RollbackPointSound`, `ContainerTraceable`, `QueuedIsConcluded` | a success is what runs and is healthy; projects never mix; every message leads to a conclusion |
| `backup_shared` | 2 workers (symmetric), retention 1, 3 records, broker/kill/db | `TypeOK`, `SucceededFileIntact`, `NewestKept`, `RestoresValidated`, `RestoredIsSource`, `RefinesLedger` | records, files, overlapping retention passes and overlapping restores agree, and are what the abstract ledger promises |
| `backup_serial` | 1 worker, retention 1, 3 records, disk corruption | `PrunedToRetention`, `QueuedIsConcluded` | retention is effective; every message leads to a conclusion |
| `exec_retry` | 2 handlers, 2 workers, 1 record of one server, of two, or of one named twice, 2 retries that may overlap, broker/crash/kill/delete | `TypeOK`, `OneWorkerPerRow`, `DoneIsConcluded`, `SucceededIsFinal`, `RefinesLedger`, `BatchConcludes` | unless a stale retry or a double name spoils the batch, no host is run twice at once or again after success; a batch that was not retried is never declared too early, every status was once true of all hosts, and overlapping aggregations do not keep a batch from concluding |
| `inspect` | 2 threads, 2 workers, 2 hosts with 5 kinds of answers, 4 default rules and 2 of a user, all faults | `TypeOK`, `SeededOnce`, `HealthyHasBasis`, `AlarmsMatchHost`, `RefinesLedger`, `InspectionConcludes` | one set of rules; verdicts are what the hosts are like, stand, and add up to one `done`; what is answered at once is concluded |
| `access` | 2 threads, 4 databases, 2 names, 2 records, restarts, disabled accounts | `TypeOK`, `InstalledOnce`, `AccountsAreKept`, `BreakGlassIsAudited`, `CommandsAreWhitelisted` | racing and broken-off requests install once, overwrite nobody, and record nothing unaudited or unlisted |

Runs that find a disagreement with a document: `deploy_rollback_image`, `deploy_cross_health`,
`backup_last_valid`, `exec_dispatch`, `inspect_missing`, explained below.

Every passing run disables deadlock checking: when the bounded number of requests has been served the
system rests, which is what it should do.

### Bounds

`MaxRelease = 3` is the least with a rollback whose point, undone release and own row differ. Three backup records with
`Retention = 1` are the least with two overlapping passes that see different listings and a restore of one of them, or
with two restores of one backup that share the target. Two hosts
and two workers in a batch are the least for two aggregations to overlap; one retry is the least that requeues a
host while an aggregation of the first round is still to be written, two retries by two threads the least of which one
may be stale. `MaxRetry` bounds the requests by the size of the batch: a batch of one host may be retried twice, so that
retries overlap, one of two hosts once. `exec_retry` has one record; no action reads another record's rows, and the one
property that related two records, that a key executes once, the code does not have. An asset that moves between two machines is
left to the proofs, which are about any number of them. Two workers are enough for pairs of steps to interleave; every property is about one worker or a
pair. `SucceededImageGetsHealthy` and `PrunedToRetention` hold only with one worker: there the bound is part of the claim
and is named in the table (`deploy_cross_health` shows the first fail with two; with two, another backup may
already have opened its archive). The liveness property of a backup has one worker because its faults are left
out, not because it would fail with two.

`inspect` has one record (two threads compete for it: both seed, one inspects), one rule edit and four of the
eight default rules, one for each kind of metric (a maximum over disks, one over their inodes, a number, a list);
`inspect_missing` uses all eight, and the dispatch as it is in the code. Each host is given the answers that differ in what the rules see of them: fine; short
of memory with two probes missing; a full disk and full inodes; no credentials; no connection. Percentages are multiples for which the code's
rounding is exact. `access` has two records, so that the submissions of two threads overlap between `Audit` and `Insert`;
at most one of them is a fixed operation (`MaxFixed`), since those share nothing but the ids. It has two audited uses and the parameter lists that meet each limit: none,
valid, null, zero, too large. Its two threads are symmetric, and so are the two workers of `backup_shared`; no liveness
property is checked in either run.

### Fairness

`FairSpec` is weak fairness of each worker's own steps (`WorkerStep`, `RunTask`): a Celery worker
that is up consumes its queue and its task goes on, every remote step being bounded by a timeout; and, in
`ExecBatch` and `Inspection`, of each request after its first step (`Serve`): the thread runs on. Nothing makes a user
send requests, a tag move, or a fault happen. The code has nothing that repairs a lost message, a
dead process or an error handler whose write failed (no reaper, no redelivery): a row then stays `requested` or
`running`. `deploy_serial` and `backup_serial` leave such faults out; `exec_retry` and `inspect` have them, and their
liveness properties excuse exactly the records in `lost` (and batches that name a server twice, whose second row no task
ever executes).

### Mutants

Each property has, in the module, a mutated form of some definition ("Mutation of ..."): a dropped filter,
a late acknowledgement, a missing status, a coarser write. `PROJECT.json` pairs them; putting the mutated
form in the place of the definition makes TLC find the property violated under the run's own configuration.
No specification uses them.

## The proofs

Every theorem holds for any number of projects, hosts, threads, workers, rows and every set of `Events`, from the
named assumption of its module (`DeployAssumption`, `BackupAssumption`, ...), which says of the constants only what
the code or its schema ensures: bounds are numbers, a project has an asset, a list of servers is not empty, names of
rules are unique. Where a property needs more, that is a hypothesis of the theorem, in its statement; each of them is
something the code does not enforce, and [below](#where-code-and-documents-disagree) is what happens without it.

| hypothesis | means | because | theorems |
|---|---|---|---|
| `"rot" \notin Events` | the disk keeps what was written | retention runs before validation and counts archives, not valid archives | `NewestAreKept`, `BackupRefinesLedger` |
| `Distinct` | the servers of one inspection differ | `_validate_asset_ids` does not check it; two tasks would write one row | `InspectionRefinesLedger` |

All others have none. In particular nothing is assumed of how many workers, requests, retries or restores overlap: where an
overlap breaks a promise, the property itself says of which worker or record it no longer holds (`crossed`, `stale`,
`undone`), in terms of what happened before.

### Deployment

| theorem | says |
|---|---|
| `TypeCorrect` | `Spec => []TypeOK` |
| `ExecutedOnce` | `Spec => []NoDoubleExecution` |
| `SuccessCanBeRolledBackTo` | `Spec => []SucceededHasComposeFile` |
| `RollbackPointsAreSound` | `Spec => []RollbackPointSound` |
| `ContainersAreTraceable` | `Spec => []ContainerTraceable` |
| `SuccessIsRunning` | `Spec => []SavedSuccessIsRunning`, for any number of workers and with lingering commands |
| `DeploymentRefinesLedger` | `Spec => RefinesLedger` |

The first five follow from `DeployInvariant == Spec => []DeployInv`. The properties are not inductive alone;
`DeployInv` adds:

* `Numbering`: rows are filled from 1 to `lastId` and everything that waits, runs or has a file is among
  them. Without it a fresh row could already own a message or a compose file.
* `Working`: a worker has a release exactly when it is not idle, a machine from the first remote step on,
  and deployments and rollbacks keep to their own steps.
* `Targeted`: a rollback that is waiting or executing still has its point. The error handler erases it, but
  only from a row whose task is over; this is what makes the remote `rollback` step start a compose file of
  its project.
* `Deploying`: past `up`, a deployment has its file on its host, so that saving `succeeded` keeps
  `SucceededHasComposeFile`.
* `Concluded`: only deployments say `succeeded`, so that a point is a deployment.
* `Choices`: a point that some request has found is an older deployment of the project with its compose file, and stays
  that when its handler downgrades it before the row of the rollback is committed.

The step lemmas are organised by what an action touches: `OneWorkerActs` and `JobRowsKept` say that a step of
one worker leaves the rows and locals of the others alone (from `NoDoubleExecution`), `RowsKept` and
`FilesKept` that rows keep their identity and files are never removed; each conjunct of `DeployInv` then has a
lemma with one step per action.

`SuccessIsRunning` adds `Running`: from the health check on, a task that nobody has crossed has the container it started
up, with the image its host has under that tag, and from the check's success on a digest that gets healthy. What changes a
container or an image is an `up`, a `pull` or a command that lingers (`HostSteps`), and each marks the workers it crosses.
It leans on `RollbackPointSound`, without which a rollback could start a container of another project.

`DeployLedgerProofs` maps `row` and `open` as `Ledger` does (`Row`, `Open`). `DeployInv` does not say what a row's
status is while its task runs, so `Staged` adds it: "requested" at `begin`, "running" from there to the last commit, and
never "absent" again. `StatusKept` is where `NoDoubleExecution` pays: nobody else writes the row. Then
there is one lemma per action that readers see (`CreateRefines`, `ChooseRefines`, ... `LeaveRefines`) and all others are invisible.

### Backup

| theorem | says |
|---|---|
| `BackupTypes` | `Spec => []TypeOK` |
| `SucceededFilesIntact` | `Spec => []SucceededFileIntact` |
| `RestoresAreValidated` | `Spec => []RestoresValidated` |
| `NewestAreKept` | no rot: `Spec => []NewestKept`, for any number of overlapping retention passes |
| `BackupRefinesLedger` | no rot: `Spec => RefinesLedger` |
| `RestoredIsItsSource` | `Spec => []RestoredIsSource`, for any number of overlapping restores |

`BackupInv` adds to `TypeOK` that a message has one owner (`OneOwner`), that a row is as it was created until its task
saves it (`Working`), that no two rows name one stem and a valid one can be decompressed (`Files`), that a stem is
written by one task and named by its row only (`OwnStem`), that an archive is readable from its verification on
(`Intact`), that a restore works on the file of its source (`Restoring`), that a backup once found valid stays so
(`Asking`), and that a restore whose worker died stays as it was while its client imports (`Orphaned`). "Readable" is what
the validation takes; that it can be decompressed too (`SucceededFileIntact`) needs `odd = {}`, which `OddSteps` gives
where the disk keeps what was written. `OwnStem` is the heart: `SucceededFileIntact`
could be broken by another task's write long after the row was saved.

Steps are first described by what they leave alone (`Frame`) and by the few things they do to rows, stems and the
directory (`FileStep`, `StemStep`, `DiskStep`); the conjuncts follow from these and not from the thirty actions.

`NewestKept` needs that what a pass plans to remove is older than `Retention` archives *now*, not when it was listed:
no archive disappears from among the newest, because no other pass plans to remove one (the property itself), and
`Sealed` keeps a failed verification from removing one. `BackupRefinesLedger` stands on the same two. `RestoredIsItsSource`
adds `Imported`: what is in the target of a restore nobody has crossed is what it has imported so far. Whoever writes to the
target crosses all others that have dropped it (`TargetSteps`), the client of a killed restore included.

`LedgerInv`, for the refinement, is these together with four facts about the table and the directory: an archive
that is awaited has no file (`Unopened`), so that opening it is not a return; a row that was inserted is never "absent"
again (`Inserted`); only a restore that is running has a source (`Sourced`), so that a failure which erases it is one
the ledger sees; and without a limit nothing is planned for removal (`Limited`). `StoreIs` and `StoreTurns` reduce a step
to what it does to one archive, `NamedIsKept` says that the archive a task is about to name is nobody's and was
readable (`OwnStem`, `Intact`), and `RemoveRefines` that it leaves behind enough newer ones (`NewestKept`). With
rot, a whole archive would cease to be readable, which the ledger does not allow, and retention would count it.

### Batch execution

| theorem | says |
|---|---|
| `BatchTypes` | `Spec => []TypeOK` |
| `HostHasOneWorker` | `Spec => []OneWorkerPerRow` |
| `SucceededHostIsFinal` | `Spec => SucceededIsFinal` |
| `FirstRunIsConcluded` | `Spec => []DoneIsConcluded` |
| `BatchRefinesLedger` | `Spec => RefinesLedger` |

* `TypeInv` is `TypeOK` with the variables of requests and tasks (an `UPDATE` is the difference of two rows), what
  requests know of the record they inserted, and `Room`: the requests past their look-up have ids left.
* `ExecInv` says that a host of a sound batch is in one hand at most: a request that still has to send its message, the
  queue, or a task until it returns (`Tokens`); and that its row says what the hand wrote last (`Backed`). The bag is needed as
  a bag: `queue[m] = 1`. A retry that finds all its rows failed when it commits takes hosts that are in no hand, because
  what is in a hand has not failed; one that does not makes the batch unsound, and soundness never returns (`SoundKept`).
  `RowOfRight` is where a double name would hurt: only with different names is the first row of an asset the one
  the message was built from.
* `BatchInv` adds for unsound batches what `FirstRunIsConcluded` needs of them: only a counted retry is stale (`Counted`), and
  the second row of a server stays `queued` for good (`Seconds`), so that such a batch is never declared done.
* `Verdicts` says of records *and of updates not yet written* that "done" and "partial" are right, and
  `VerdictKept` that they stay right until a retry, a success taken back excepted (`ShutKept`, `UndoneKept`). That is why
  aggregations may overlap and be written in any order.
* `LedgerInv` is `ExecInv` and `Recorded`: a record says "running" until its hosts are listed, a status that a task is
  about to write was computed from listed rows, and a retry writes nothing of a record but "running". Without the
  second a verdict could be written for a batch whose hosts the ledger does not know. `AggregateIsVerdict` says that
  a status `_recompute_record` changes is the ledger's verdict on rows that are closed; then there is one lemma per
  kind of change that readers see. `VoidKept` and `VoidOfOthers` follow the batches that are not sound: a step of a
  task on one of them is a `Stray` of its own batch and nothing to any other.

### Inspection

| theorem | says |
|---|---|
| `InspectionTypes` | `Spec => []TypeOK` |
| `HealthyIsFounded` | `Spec => []HealthyHasBasis`, whatever hosts answer and users edit |
| `AlarmsAreRight` | `Spec => []AlarmsMatchHost`, for any hosts, rules and edits |
| `RulesAreSeededOnce` | `Spec => []SeededOnce` |
| `InspectionRefinesLedger` | `Distinct`: `Spec => RefinesLedger` |

* `TypeInv` is types (`Tables`, `Procs`), what a request knows of its record (`Callers`) and that a record's rows are
  written by the request that inserted it (`Opening`). The rule engine enters through `JudgedIsVerdict`: what `evaluate`
  returns is a verdict, "healthy" only with a result.
* `Follows` says that a row's results are `RuleStatus` of the facts of the answer that was seen, and its status no milder
  than any of them; it is inductive because a row is judged in one commit, from rules read once. The rest is about
  the operators: `AlarmIsRight` has one case per metric. For a maximum over disks (`DisksExceed`) the lines that
  parse must be all lines; for memory and swap (`PercentExceeds`, `SharpExceeds`) an excess of less than half a
  tenth is rounded away; for inodes (`InodesExceed`) the value hangs on the disks of the *other* table.
* `Seeding` says why two first requests seed once: names are unique, and until the first edit the table is all the
  defaults, or what was there and nobody is about to seed unless it is empty. One transaction wins, the
  other meets a name.
* `InspectInv` is `Tokens` and `Backed` as above, here for the synchronous requests too (they judge the hosts they hold),
  and `Verdicts` for "done". `OverKept` carries the theorem: a record that is over stays over, as nobody holds a
  host of it, so an aggregation that is written late is still right.
* `Moves` describes every step by what it does to hands and rows; refinement then has one lemma per change that
  readers see: a record begins, its hosts are listed, one is judged, it is declared done.

### Access

| theorem | says |
|---|---|
| `TypesAreRight` | `Spec => []TypeOK` |
| `AdministratorInstalledOnce` | `Spec => []InstalledOnce` |
| `EveryBreakGlassIsAudited` | `Spec => []BreakGlassIsAudited` |
| `EveryCommandIsWhitelisted` | `Spec => []CommandsAreWhitelisted` |
| `NoAccountIsReplaced` | `Spec => AccountsAreKept` |

They hold for every database that a program that ran before may have left (`Database`). All but the last are parts of
`AccessInvariant == Spec => []AccessInv`, which adds to them:

* `Installation`: there are users only when there is an administrator, so a request that is about to mark the
  installation or to create a user still finds one. Without it `Mark` could close an installation nobody made.
* `Pending`: an entry that was accepted is typed, its user's and whitelisted until it is inserted; nothing is
  looked at again after `Audit`.
* `Audited`: the arbitrary commands recorded plus those about to be inserted do not exceed the audited uses.
  The second summand is what an overlapping request could otherwise spend twice; `Audit` adds one to both
  sides, `Insert` moves one from the second set to the first, a restart only loses one.

`RequestStep` says once what a new request may leave in its thread's slot, so that each conjunct has one step for
all requests and one per commit. `CleanedIsWhitelisted` carries the catalogue (`Catalogue`) to the entries.

### Only model-checked

* Liveness (`QueuedIsConcluded` of both modules, `BatchConcludes`, `InspectionConcludes`): fairness and `ENABLED` are out
  of the prover's reach.
* What hosts look like where the conditions of `AlarmsMatchHost` fail (`Legible`, a failed probe): there the rules are
  wrong, as `inspect_missing` and [the list below](#where-code-and-documents-disagree) show.
* The status of a batch that was retried: `DoneIsConcluded` speaks of batches that were not, since an update computed
  before a retry may be written after it; that such a batch concludes is `BatchConcludes`, and that its status was once right is `BatchRefinesLedger`.
* `SucceededImageGetsHealthy` (`deploy_serial`) and `PrunedToRetention` (`backup_serial`), which are about one worker.

Every other safety property that a passing run checks is also a theorem.

## Where code and documents disagree

With a run (`findings` in `PROJECT.json` quotes the documents):

* `exec_dispatch`: `batch_exec` and `retry_failed` pass the ids in `args` and in `kwargs`; the call raises
  `TypeError` before the task's body, so a batch stays `running` with every host `queued`. The inspection
  handler dispatches in the same way (`inspection.py:87-89`): no record of `POST /collect` is ever concluded, though
  nothing is lost (`docs/changes/2026-08-15-e4-host-inspection.md:61`: rows, then a Celery group).
* `deploy_cross_health`: with two workers the health check of a release may look at the container of
  another release of its project, and a broken image is recorded as `succeeded`.
* `deploy_rollback_image`: a rollback starts a tag, not the digest recorded for its point.
* `backup_last_valid`: retention runs before validation; late failures push the last valid archive out.
* `inspect_missing`: a rule without data ranks below a content one, and `parse_df_h` drops the lines of disks that
  have a terabyte, or less than a gigabyte used; a full disk of that kind belongs to a healthy host.

Also met, without a run of their own:

* two restores at once share the database `<db>_restore`, and the client of a killed one goes on writing to it, against the
  new target database that `backup_service.py:199` promises. `RestoredIsSource` is about restores that nobody has
  crossed; `backup_shared` reaches crossed ones, which count each other's tables;
* two submissions with one key at once insert two records, as soon as two are allowed: the key is looked up and inserted in
  two transactions and its column is not unique (`schemas/all.py:94` says that a repeated key does not execute again);
* two retries at once requeue and re-run a host that succeeded in between
  (`docs/changes/2026-08-14-e3-controlled-batch-exec.md:51`: only hosts that failed or timed out). `exec_retry` reaches such
  batches; its properties exempt them (`stale`), since they hold for all others;
* a success that was committed, and perhaps counted, becomes a failure if the `return` after it raises
  (`exec_tasks.py:84-98`): the record may say `done` over a host that says `failed`;
* `retry_failed` (`exec_task.py:208-238`) executes the command of a break-glass record again for any operator, without the
  role, the switch and the audit that the submission needs (`docs/roadmap.md:81`);
* the counts of a record (not its status) keep the values of whichever aggregation was written last;
* `timed_out` is never assigned: the hard limit leaves a row `running` and the soft limit makes it `failed`
  (`exec_tasks.py:13` promises `timed_out`);
* a failed service or port probe counts as an empty list: the host is critical, not unknown
  (`inspection_rules.py:57`, against line 10 and `docs/changes/2026-08-15-e4-host-inspection.md:53`);
* inodes are noted with the disks (`host_inspection.py:259`): when `df -hP` fails, or drops a line, the inode rules have
  no data although `df -iP` answered, which probes that each fail for themselves would not do;
* a connection that ends in an exception without text (`EOFError`) leaves no `unavailable_reason`, and the host is
  judged by empty facts (`host_inspection.py:268`);
* `PUT /rules/{id}` checks nothing that `POST` checks (`docs/changes/2026-08-15-e4-host-inspection.md:65`), and both
  accept an operator that does not fit the metric; the evaluation then raises, and in a Celery task the host stays
  `running` for good;
* a host that is still `running` counts as succeeded in the record (`inspection_tasks.py:104`);
* the ten probes may take 45 s each, the task's hard limit is 65 s: a slow host stays `running`;
* `{"lines": null}` raises `KeyError`, not the `ValueError` that `operations.py:42` promises, and the handler
  answers 500;
* switching break-glass on is audited after its commit, so that a restart in between leaves no trace
  (`docs/roadmap.md:81`);
* the error handler of a rollback replaces the document that holds the rollback point (`deploy_tasks.py:163`,
  against `models.py:226`); `RollbackPointSound` allows for it.

## What is not modelled

* Deployment: the mock mode; a `docker pull` that outlives its connection; the wording of the result
  document (its rollback fields are modelled, the rest is text); redelivery by Redis after the visibility
  timeout. A connection given up before `release-<n>.yml` is written is covered by giving it up afterwards,
  because no other task reads the file in between. A project always has an asset id; that the asset is
  missing or unreachable is the host `NoHost`. The digest of a row that fails after the digest was read is
  left at its old value, as no property reads it.
* Backup: the mock engine, an import that goes on after its worker was killed, the record's `database`
  column (the engine does not use it), file contents beyond whole/damaged.
* Timestamps: two calls of `persist()` in the same microsecond (the model's clock never repeats a timestamp).
* Batch execution: a refused request has no effect (what is refused is `Access`); the audit rows that nothing
  reads; the output columns of host
  rows; the read and the write of `running` at the start of a task are one step; the creation of a missing
  host row, which no caller reaches because rows are committed before the dispatch and never deleted.
* Inspection: the probes for hostname, os-release, kernel and processor count; the column `failed`, which is always
  `unknown`; metrics; lists that name a server twice, whose tasks both write the first row, so that the inspection
  never concludes.
* Access: passwords, tokens and their expiry (a request carries a name), the confirmation token beyond its presence
  (only its length is checked, as `docs/changes/2026-08-14-e3-controlled-batch-exec.md:110` says), previews of fixed operations, which write
  nothing; quoting of parameters; disabling an account is done in the database, as no handler does it.
* Rows are never deleted in the other tables, so the early returns "record not found" are unreachable.
* Settings validation: a check of constants before anything starts.
* Alerts, cron tasks, Docker/Kubernetes queries, asset CRUD: single statements. Metrics, redaction,
  encryption, migrations, front end, charts, the project generator: no state another operation depends on.

## Plan

Done: `ReleaseLedger`, `DeployRelease`, `BackupLedger`, `Backup`, `BatchLedger`, `ExecBatch`, `HostFacts`, `InspectionRules`,
`HostLedger`, `Inspection`, `Operations`, `Access`; the inductive invariants of all five state machines; the four
refinements; the rule engine against its reference.

1. Proofs: that the reads of one snapshot in `Recompute` give counts which add up (`ExecBatch`, `Inspection`).
2. Redelivered messages in `DeployRelease`.
