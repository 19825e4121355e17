---------------------------- MODULE DeployRelease ----------------------------
(***************************************************************************)
(* Controlled deployment, real execution mode: the deploy API              *)
(* (api/v1/deploy.py), the Celery tasks run_deploy_release and             *)
(* run_rollback_release (tasks/deploy_tasks.py) and the remote docker      *)
(* hosts they drive over SSH (services/deploy_service.py).                 *)
(*                                                                         *)
(* Several workers run at once (celery --concurrency), every task is       *)
(* acknowledged when it is received and never retried (max_retries=0), and *)
(* all releases of a project share one compose project "easyops-p<id>" and *)
(* one directory of release-<n>.yml files on the host.                     *)
(***************************************************************************)
EXTENDS Naturals

CONSTANTS
  Project,       \* rows of deploy_project
  Asset,         \* rows of server_asset
  ProjectAsset,  \* DeployProject.target_asset_id: no API changes it
  Host,          \* machines an asset's ip_address may lead to
  Tag,           \* image references "<image>:<version>"
  Digest,        \* contents a tag may stand for
  Broken,        \* the digests whose container never becomes healthy
  Worker,        \* celery worker processes
  MaxRelease,    \* bound: how many rows deploy_release ever holds
  Events,        \* what the environment does: see EventKinds
  NoHost, NoDigest

EventKinds == {"push",     \* somebody moves a tag in the registry
               "retarget", \* PUT /assets/{id} changes address or fingerprint
               "broker",   \* .delay() raises after the row was committed
               "kill",     \* a worker process dies (time_limit, OOM, restart)
               "db",       \* the database refuses the error handler's write
               "linger"}   \* a remote command outlives its SSH connection

ASSUME DeployAssumption ==
  /\ MaxRelease \in Nat
  /\ ProjectAsset \in [Project -> Asset]
  /\ Project # {}
  /\ Broken \subseteq Digest
  /\ NoHost \notin Host
  /\ NoDigest \notin Digest
  /\ Events \subseteq EventKinds

Id     == 1 .. MaxRelease
NoId   == 0
MaybeId == 0 .. MaxRelease

VARIABLES
  rel,        \* deploy_release: one record per id
  lastId,     \* its auto-increment counter
  chosen,     \* <<i, point>>: the rollback points that requests to undo i found
  pending,    \* ids committed by a request that has not called .delay() yet
  queue,      \* task messages in the broker
  pc,         \* per worker: the next step of its task
  job,        \* per worker: the release id it was called with
  host,       \* per worker: the machine its RemoteComposeRunner talks to
  failed,     \* per worker: a step of run_deploy_steps has failed
  got,        \* per worker: what image_digest() returned
  registry,   \* the image registry: what each tag stands for today
  assetHost,  \* server_asset: the machine an asset can be reached at, if any
  image,      \* per host: what each tag stands for in its local image store
  files,      \* per host: the ids n whose release-<n>.yml is on disk
  container,  \* per host and project: the web container that is up
  orphans,    \* commands still running after their connection was given up
  crossed     \* history: the workers whose container, or the image it was
              \* started from, another task has replaced since they started it

dbVars     == <<rel, lastId>>
callVars   == <<chosen, pending, queue>>
workerVars == <<pc, job, host, failed, got>>
hostVars   == <<image, files, container, orphans, crossed>>
envVars    == <<registry, assetHost>>
vars       == <<dbVars, callVars, workerVars, hostVars, envVars>>

Ledger == INSTANCE ReleaseLedger WITH
  row  <- [i \in Id |-> [status |-> rel[i].status, kind |-> rel[i].kind,
                         project |-> rel[i].project, point |-> rel[i].target]],
  seen <- chosen,
  open <- {job[w] : w \in {v \in Worker : job[v] # NoId}}

Kind   == {"deploy", "rollback"}
Status == {"absent", "requested", "running", "succeeded", "failed",
           "rollback_succeeded", "rollback_failed"}
Step   == {"idle", "begin", "load", "pull", "up", "compose", "rollback",
           "healthcheck", "digest", "save", "return", "rescue"}
RemoteStep == {"pull", "up", "compose", "rollback", "healthcheck"}

\* target and undoes are "rollback_to" and "rollback_release" of the result
\* document; the rest of that document is text.
Release == [status : Status, kind : Kind, project : Project, tag : Tag,
            target : MaybeId, undoes : MaybeId, digest : Digest \cup {NoDigest}]

Container == [release : MaybeId, digest : Digest \cup {NoDigest}]

Success(i) == IF rel[i].kind = "deploy" THEN "succeeded" ELSE "rollback_succeeded"
Failure(i) == IF rel[i].kind = "deploy" THEN "failed" ELSE "rollback_failed"

\* Mutation of ComposeId: the kind of the task is not looked at.
TargetComposeId(i) == rel[i].target

\* The release-<n>.yml a task works with: its own, or that of its target.
ComposeId(i) == IF rel[i].kind = "deploy" THEN i ELSE rel[i].target

Init ==
  /\ \E p \in Project, t \in Tag :
       rel = [i \in Id |-> [status |-> "absent", kind |-> "deploy", project |-> p,
                            tag |-> t, target |-> NoId, undoes |-> NoId,
                            digest |-> NoDigest]]
  /\ lastId = 0
  /\ chosen = {} /\ pending = {} /\ queue = {}
  /\ pc = [w \in Worker |-> "idle"]
  /\ job = [w \in Worker |-> NoId]
  /\ host = [w \in Worker |-> NoHost]
  /\ failed = [w \in Worker |-> FALSE]
  /\ got = [w \in Worker |-> NoDigest]
  /\ registry \in [Tag -> Digest \cup {NoDigest}]
  /\ assetHost \in [Asset -> Host \cup {NoHost}]
  /\ image = [h \in Host |-> [t \in Tag |-> NoDigest]]
  /\ files = [h \in Host |-> {}]
  /\ container = [h \in Host |-> [p \in Project |->
                    [release |-> NoId, digest |-> NoDigest]]]
  /\ orphans = {}
  /\ crossed = {}

-----------------------------------------------------------------------------
(* The API.                                                                *)

\* POST /releases up to db.commit(): a row with the plan of this project.
CreateRelease(p, t) ==
  /\ lastId < MaxRelease
  /\ lastId' = lastId + 1
  /\ rel' = [rel EXCEPT ![lastId + 1] =
       [status |-> "requested", kind |-> "deploy", project |-> p, tag |-> t,
        target |-> NoId, undoes |-> NoId, digest |-> NoDigest]]
  /\ pending' = pending \cup {lastId + 1}
  /\ UNCHANGED <<chosen, queue, workerVars, hostVars, envVars>>

\* Mutations of ValidPoints: before_id is included; other projects count.
PointsUpTo(i) == {j \in Id : /\ j <= i
                             /\ rel[j].project = rel[i].project
                             /\ rel[j].status = "succeeded"}

PointsOfAnyProject(i) == {j \in Id : j < i /\ rel[j].status = "succeeded"}

\* last_valid_release(project, before_id = i): the rows it chooses among.
ValidPoints(i) == {j \in Id : /\ j < i
                              /\ rel[j].project = rel[i].project
                              /\ rel[j].status = "succeeded"}

\* POST /releases/{i}/rollback finds its point; with none it answers 400.
ChoosePoint(i) ==
  /\ i <= lastId
  /\ lastId < MaxRelease
  /\ \E point \in ValidPoints(i) :
       /\ \A j \in ValidPoints(i) : j <= point
       /\ chosen' = chosen \cup {<<i, point>>}
  /\ UNCHANGED <<dbVars, pending, queue, workerVars, hostVars, envVars>>

\* The same up to db.commit().  Any number of requests may have found this
\* point, and by now it may have been downgraded, or another may be newer.
RequestRollback(i, point) ==
  /\ <<i, point>> \in chosen
  /\ lastId < MaxRelease
  /\ rel' = [rel EXCEPT ![lastId + 1] =
       [status |-> "requested", kind |-> "rollback",
        project |-> rel[i].project, tag |-> rel[point].tag,
        target |-> point, undoes |-> i, digest |-> NoDigest]]
  /\ lastId' = lastId + 1
  /\ pending' = pending \cup {lastId + 1}
  /\ UNCHANGED <<chosen, queue, workerVars, hostVars, envVars>>

\* run_*_release.delay(id) of either request.
Delay(i) ==
  /\ i \in pending
  /\ pending' = pending \ {i}
  /\ queue' = queue \cup {i}
  /\ UNCHANGED <<dbVars, chosen, workerVars, hostVars, envVars>>

\* .delay() raises: the client sees a 500, the committed row stays.
DelayFails(i) ==
  /\ "broker" \in Events
  /\ i \in pending
  /\ pending' = pending \ {i}
  /\ UNCHANGED <<dbVars, chosen, queue, workerVars, hostVars, envVars>>

-----------------------------------------------------------------------------
(* The tasks.  Both run the same skeleton: mark the row running, resolve   *)
(* the runner, run the fixed steps until the first failure, save.          *)

At(w, s) == pc[w] = s
Go(w, s) == pc' = [pc EXCEPT ![w] = s]

AfterSteps(w) == IF rel[job[w]].kind = "deploy" THEN "digest" ELSE "save"

\* Mutation of Take: the message stays in the broker while the task runs.
TakeUnacknowledged(w, i) ==
  /\ At(w, "idle")
  /\ i \in queue
  /\ job' = [job EXCEPT ![w] = i]
  /\ failed' = [failed EXCEPT ![w] = FALSE]
  /\ got' = [got EXCEPT ![w] = NoDigest]
  /\ Go(w, "begin")
  /\ UNCHANGED <<dbVars, callVars, host, hostVars, envVars>>

\* A message is acknowledged on receipt, so it is gone whatever happens next.
Take(w, i) ==
  /\ At(w, "idle")
  /\ i \in queue
  /\ queue' = queue \ {i}
  /\ job' = [job EXCEPT ![w] = i]
  /\ failed' = [failed EXCEPT ![w] = FALSE]
  /\ got' = [got EXCEPT ![w] = NoDigest]
  /\ Go(w, "begin")
  /\ UNCHANGED <<dbVars, chosen, pending, host, hostVars, envVars>>

Begin(w) ==
  /\ At(w, "begin")
  /\ rel' = [rel EXCEPT ![job[w]].status = "running"]
  /\ Go(w, "load")
  /\ UNCHANGED <<lastId, callVars, job, host, failed, got, hostVars, envVars>>

\* _load_plan and _resolve_runner: the asset is read once; an asset that is
\* unreachable or has no host key makes the task fail closed (see Raise).
Load(w) ==
  LET h == assetHost[ProjectAsset[rel[job[w]].project]] IN
  /\ At(w, "load")
  /\ h # NoHost
  /\ host' = [host EXCEPT ![w] = h]
  /\ Go(w, IF rel[job[w]].kind = "deploy" THEN "pull" ELSE "rollback")
  /\ UNCHANGED <<dbVars, callVars, job, failed, got, hostVars, envVars>>

\* The workers that have started their container on h and not saved yet.
Serving(h) == {v \in Worker : host[v] = h /\ pc[v] \in {"healthcheck", "digest", "save"}}

\* pull (and build, which runs nothing): the tag now means what the registry
\* says it means.
Pull(w) ==
  LET t == rel[job[w]].tag IN
  /\ At(w, "pull")
  /\ registry[t] # NoDigest
  /\ image' = [image EXCEPT ![host[w]][t] = registry[t]]
  /\ crossed' = crossed \cup {v \in Serving(host[w]) : rel[job[v]].tag = t}
  /\ Go(w, "up")
  /\ UNCHANGED <<dbVars, callVars, job, host, failed, got,
                 files, container, orphans, envVars>>

\* First half of the up command: release-<id>.yml is written.
Up(w) ==
  /\ At(w, "up")
  /\ files' = [files EXCEPT ![host[w]] = @ \cup {job[w]}]
  /\ Go(w, "compose")
  /\ UNCHANGED <<dbVars, callVars, job, host, failed, got,
                 image, container, orphans, crossed, envVars>>

\* Mutation of ComposeUp: no -p, all projects of a host share a compose project.
ComposeUpUnnamed(h, i) ==
  LET t == rel[i].tag
      d == IF image[h][t] # NoDigest THEN image[h][t] ELSE registry[t]
  IN /\ i \in files[h]
     /\ d # NoDigest
     /\ image' = [image EXCEPT ![h][t] = d]
     /\ container' = [container EXCEPT ![h] =
                        [p \in Project |-> [release |-> i, digest |-> d]]]

\* docker compose -p easyops-p<project> -f release-<i>.yml up -d: whatever
\* container the project had is replaced; a missing image is fetched first.
ComposeUp(h, i) ==
  LET t == rel[i].tag
      d == IF image[h][t] # NoDigest THEN image[h][t] ELSE registry[t]
  IN /\ i \in files[h]
     /\ d # NoDigest
     /\ image' = [image EXCEPT ![h][t] = d]
     /\ container' = [container EXCEPT ![h][rel[i].project] =
                        [release |-> i, digest |-> d]]

\* Second half of up (after docker image inspect), and the rollback command.
Compose(w) ==
  /\ \/ At(w, "compose") /\ image[host[w]][rel[job[w]].tag] # NoDigest
     \/ At(w, "rollback")
  /\ ComposeUp(host[w], ComposeId(job[w]))
  /\ crossed' = (crossed \ {w}) \cup
       {v \in Serving(host[w]) : rel[job[v]].project = rel[job[w]].project}
  /\ Go(w, "healthcheck")
  /\ UNCHANGED <<dbVars, callVars, job, host, failed, got,
                 files, orphans, envVars>>

\* Mutation of Healthcheck: a container that is up is taken for healthy.
HealthcheckUpOnly(w) ==
  /\ At(w, "healthcheck")
  /\ container[host[w]][rel[job[w]].project].release # NoId
  /\ Go(w, AfterSteps(w))
  /\ UNCHANGED <<dbVars, callVars, job, host, failed, got, hostVars, envVars>>

\* The healthcheck asks for the container of the compose project, whichever
\* release put it there.
Healthcheck(w) ==
  LET c == container[host[w]][rel[job[w]].project] IN
  /\ At(w, "healthcheck")
  /\ c.release # NoId
  /\ c.digest \notin Broken
  /\ Go(w, AfterSteps(w))
  /\ UNCHANGED <<dbVars, callVars, job, host, failed, got, hostVars, envVars>>

\* Mutation of StepFails: the failure is skipped over, not recorded.
StepFailsUnnoticed(w) ==
  /\ pc[w] \in RemoteStep
  /\ Go(w, AfterSteps(w))
  /\ UNCHANGED <<dbVars, callVars, job, host, failed, got, hostVars, envVars>>

\* A step raises (command failed, connection lost, timed out, soft limit):
\* run_deploy_steps records it and skips the steps that are left.
StepFails(w) ==
  /\ pc[w] \in RemoteStep
  /\ failed' = [failed EXCEPT ![w] = TRUE]
  /\ Go(w, AfterSteps(w))
  /\ UNCHANGED <<dbVars, callVars, job, host, got, hostVars, envVars>>

\* The same, while the command that was given up goes on on the host.
StepLingers(w) ==
  /\ "linger" \in Events
  /\ pc[w] \in {"compose", "rollback"}
  /\ failed' = [failed EXCEPT ![w] = TRUE]
  /\ orphans' = orphans \cup {<<host[w], ComposeId(job[w])>>}
  /\ Go(w, AfterSteps(w))
  /\ UNCHANGED <<dbVars, callVars, job, host, got,
                 image, files, container, crossed, envVars>>

\* Mutation of ImageDigest: the registry is asked, not the host.
RegistryDigest(w) ==
  LET d == registry[rel[job[w]].tag] IN
  /\ At(w, "digest")
  /\ d # NoDigest
  /\ got' = [got EXCEPT ![w] = d]
  /\ Go(w, "save")
  /\ UNCHANGED <<dbVars, callVars, job, host, failed, hostVars, envVars>>

\* runner.image_digest(): asked even when a step failed; it raises when the
\* host does not know the image.
ImageDigest(w) ==
  LET d == image[host[w]][rel[job[w]].tag] IN
  /\ At(w, "digest")
  /\ d # NoDigest
  /\ got' = [got EXCEPT ![w] = d]
  /\ Go(w, "save")
  /\ UNCHANGED <<dbVars, callVars, job, host, failed, hostVars, envVars>>

\* _apply_results, the assignments after it, and the commit.
Save(w) ==
  LET i == job[w] IN
  /\ At(w, "save")
  /\ rel' = [rel EXCEPT
       ![i].status = IF failed[w] THEN Failure(i) ELSE Success(i),
       ![i].digest = IF failed[w] THEN NoDigest ELSE got[w]]
  /\ Go(w, "return")
  /\ UNCHANGED <<lastId, callVars, job, host, failed, got, hostVars, envVars>>

Idle(w) == /\ Go(w, "idle")
           /\ job' = [job EXCEPT ![w] = NoId]
           /\ host' = [host EXCEPT ![w] = NoHost]
           /\ UNCHANGED <<failed, got>>

Return(w) ==
  /\ At(w, "return")
  /\ Idle(w)
  /\ UNCHANGED <<dbVars, callVars, hostVars, envVars>>

\* Outside the steps an exception reaches the task's handler: the soft time
\* limit, a database error (the return statement reads the row again), an
\* asset that cannot be resolved, image_digest().
Raise(w) ==
  /\ pc[w] \in {"begin", "load", "digest", "save", "return"}
  /\ Go(w, "rescue")
  /\ UNCHANGED <<dbVars, callVars, job, host, failed, got, hostVars, envVars>>

\* Mutation of Rescue: the handler forgets the status.
RescueUnmarked(w) ==
  LET i == job[w] IN
  /\ At(w, "rescue")
  /\ rel' = [rel EXCEPT ![i].target = NoId, ![i].undoes = NoId]
  /\ Idle(w)
  /\ UNCHANGED <<lastId, callVars, hostVars, envVars>>

\* Mutation of Rescue: both tasks write the status of a deployment.
RescueAsDeploy(w) ==
  LET i == job[w] IN
  /\ At(w, "rescue")
  /\ rel' = [rel EXCEPT ![i].status = "failed",
                        ![i].target = NoId, ![i].undoes = NoId]
  /\ Idle(w)
  /\ UNCHANGED <<lastId, callVars, hostVars, envVars>>

\* The handler: failed, and {"error": ...} in place of the result document.
Rescue(w) ==
  LET i == job[w] IN
  /\ At(w, "rescue")
  /\ rel' = [rel EXCEPT ![i].status = Failure(i),
                        ![i].target = NoId, ![i].undoes = NoId]
  /\ Idle(w)
  /\ UNCHANGED <<lastId, callVars, hostVars, envVars>>

\* The handler's own write fails and the error is swallowed.
RescueFails(w) ==
  /\ "db" \in Events
  /\ At(w, "rescue")
  /\ Idle(w)
  /\ UNCHANGED <<dbVars, callVars, hostVars, envVars>>

\* The process dies; nothing in the system looks for such releases.
Kill(w) ==
  /\ "kill" \in Events
  /\ pc[w] # "idle"
  /\ \/ UNCHANGED orphans
     \/ /\ "linger" \in Events
        /\ pc[w] \in {"compose", "rollback"}
        /\ orphans' = orphans \cup {<<host[w], ComposeId(job[w])>>}
  /\ Idle(w)
  /\ UNCHANGED <<dbVars, callVars, image, files, container, crossed, envVars>>

-----------------------------------------------------------------------------
(* The environment.                                                        *)

OrphanLands(o) ==
  /\ o \in orphans
  /\ orphans' = orphans \ {o}
  /\ ComposeUp(o[1], o[2])
  /\ crossed' = crossed \cup
       {v \in Serving(o[1]) : rel[job[v]].project = rel[o[2]].project}
  /\ UNCHANGED <<dbVars, callVars, workerVars, files, envVars>>

Push(t, d) ==
  /\ "push" \in Events
  /\ registry' = [registry EXCEPT ![t] = d]
  /\ UNCHANGED <<dbVars, callVars, workerVars, hostVars, assetHost>>

\* PUT /assets/{id}; an asset a project is bound to cannot be deleted
\* (foreign key of migration 0006).
Retarget(a, h) ==
  /\ "retarget" \in Events
  /\ assetHost' = [assetHost EXCEPT ![a] = h]
  /\ UNCHANGED <<dbVars, callVars, workerVars, hostVars, registry>>

Api == \/ \E p \in Project, t \in Tag : CreateRelease(p, t)
       \/ \E i \in Id : ChoosePoint(i) \/ Delay(i) \/ DelayFails(i)
       \/ \E i, point \in Id : RequestRollback(i, point)

WorkerStep(w) ==
  \/ \E i \in Id : Take(w, i)
  \/ Begin(w) \/ Load(w) \/ Pull(w) \/ Up(w) \/ Compose(w) \/ Healthcheck(w)
  \/ StepFails(w) \/ StepLingers(w) \/ ImageDigest(w) \/ Save(w) \/ Return(w)
  \/ Raise(w) \/ Rescue(w) \/ RescueFails(w)

Environment ==
  \/ \E w \in Worker : Kill(w)
  \/ \E o \in Host \X Id : OrphanLands(o)
  \/ \E t \in Tag, d \in Digest : Push(t, d)
  \/ \E a \in Asset, h \in Host \cup {NoHost} : Retarget(a, h)

Next == Api \/ (\E w \in Worker : WorkerStep(w)) \/ Environment

Spec == Init /\ [][Next]_vars

\* A worker process that is up keeps executing what it took and taking more.
FairSpec == Spec /\ \A w \in Worker : WF_vars(WorkerStep(w))

-----------------------------------------------------------------------------
(* Correctness.                                                            *)

\* Types of every variable; what run_deploy_release and run_rollback_release
\* keep of a release id never leaves the table.
TypeOK ==
  /\ rel \in [Id -> Release]
  /\ lastId \in MaybeId
  /\ chosen \in SUBSET (Id \X Id)
  /\ pending \in SUBSET Id /\ queue \in SUBSET Id
  /\ pc \in [Worker -> Step]
  /\ job \in [Worker -> MaybeId]
  /\ host \in [Worker -> Host \cup {NoHost}]
  /\ failed \in [Worker -> BOOLEAN]
  /\ got \in [Worker -> Digest \cup {NoDigest}]
  /\ registry \in [Tag -> Digest \cup {NoDigest}]
  /\ assetHost \in [Asset -> Host \cup {NoHost}]
  /\ image \in [Host -> [Tag -> Digest \cup {NoDigest}]]
  /\ files \in [Host -> SUBSET Id]
  /\ container \in [Host -> [Project -> Container]]
  /\ orphans \in SUBSET (Host \X Id)
  /\ crossed \in SUBSET Worker

\* However requests, the broker and worker deaths interleave, a release is
\* executed by at most one worker, and once: an id waiting in the broker has
\* no worker and its row still says "requested" (.delay() is called once per
\* row, early acknowledgement, max_retries=0).
NoDoubleExecution ==
  /\ pending \cap queue = {}
  /\ \A i \in pending \cup queue : /\ rel[i].status = "requested"
                                   /\ \A w \in Worker : job[w] # i
  /\ \A v, w \in Worker : job[v] = job[w] => v = w \/ job[v] = NoId

\* A row that says "succeeded" can be rolled back to: the release-<n>.yml
\* that the rollback command tests for was really written, on some host,
\* by run_deploy_release (steps stop at the first failure).
SucceededHasComposeFile ==
  \A i \in Id : rel[i].status = "succeeded" => \E h \in Host : i \in files[h]

\* A rollback row points at a deployment, never at a rollback or at a release
\* that did not get as far as its compose file, of the same project and older
\* than the release being undone, even if the point was chosen while other
\* releases were still running, or was downgraded to "failed" afterwards, even
\* before the rollback's own row was committed.
RollbackPointSound ==
  \A i \in Id : rel[i].target # NoId =>
    LET t == rel[i].target IN
    /\ t < rel[i].undoes /\ rel[i].undoes < i
    /\ rel[t].project = rel[i].project /\ rel[rel[i].undoes].project = rel[i].project
    /\ rel[t].kind = "deploy"
    /\ rel[t].tag = rel[i].tag
    /\ \E h \in Host : t \in files[h]

\* The container of compose project easyops-p<p> always comes from a compose
\* file of a release of p that is on that host, also when the command that
\* started it outlived its worker or the asset was moved to another machine.
ContainerTraceable ==
  \A h \in Host, p \in Project :
    LET n == container[h][p].release IN
    n # NoId => /\ n \in files[h]
                /\ rel[n].project = p
                /\ rel[n].kind = "deploy"
                /\ container[h][p].digest # NoDigest

\* When a task is about to save a success, what runs on its host is what it
\* deployed: its own (or its target's) compose file, an image that gets healthy
\* and, for a deployment, the one whose digest it is about to record.  This
\* holds whatever other workers and lingering commands do on the host, unless
\* one of them started another container of the project, or pulled the tag
\* anew, since the task started its own.
SavedSuccessIsRunning ==
  \A w \in Worker \ crossed : (pc[w] = "save" /\ ~failed[w]) =>
    LET i == job[w]
        c == container[host[w]][rel[i].project]
    IN /\ c.release = ComposeId(i)
       /\ c.digest \notin Broken
       /\ rel[i].kind = "deploy" => c.digest = got[w]

\* "healthcheck failed is still failed" (_apply_results): a release whose
\* image never gets healthy is not recorded as succeeded.
SucceededImageGetsHealthy ==
  \A i \in Id : rel[i].status = "succeeded" => rel[i].digest \notin Broken

\* A rollback that reports success has put back the image that the release
\* it rolls back to had deployed and recorded.
RollbackRestoresImage ==
  \A w \in Worker :
    (pc[w] = "save" /\ ~failed[w] /\ rel[job[w]].kind = "rollback") =>
      container[host[w]][rel[job[w]].project].digest = rel[rel[job[w]].target].digest

\* The table behaves as ReleaseLedger promises its readers.
RefinesLedger == Ledger!LedgerSpec

\* A release whose task message is in the broker is concluded, if workers
\* keep working and neither they nor the database die under a task.
QueuedIsConcluded ==
  \A i \in Id : i \in queue ~> rel[i].status \notin {"requested", "running"}
=============================================================================
