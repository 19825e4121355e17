------------------------- MODULE DeployReleaseProofs -------------------------
(***************************************************************************)
(* Theorems about DeployRelease for every value of its constants.          *)
(*                                                                         *)
(* The safety properties are not inductive as they stand: what a worker    *)
(* may save depends on where it is in its task.  DeployInv says, for each  *)
(* step of a task, what has already been established for its release.      *)
(***************************************************************************)
EXTENDS DeployRelease, TLAPS

Waiting == pending \cup queue

\* The table is filled from 1 upwards, and every id that is waiting or being
\* executed has been inserted; only deployments write compose files.
Numbering ==
  /\ \A i \in Id : i > lastId => rel[i].status = "absent" /\ rel[i].target = NoId
  /\ \A i \in Waiting : i <= lastId
  /\ \A w \in Worker : job[w] <= lastId
  /\ \A h \in Host : \A i \in files[h] : i <= lastId /\ rel[i].kind = "deploy"

\* A worker has a release exactly when it is not idle, and a machine once it
\* has resolved its runner; deployments and rollbacks keep to their own steps.
WorkerOK(w) ==
  /\ pc[w] = "idle" <=> job[w] = NoId
  /\ pc[w] \in RemoteStep \cup {"digest", "save"} => host[w] \in Host
  /\ pc[w] \in {"pull", "up", "compose", "digest"} => rel[job[w]].kind = "deploy"
  /\ pc[w] = "rollback" => rel[job[w]].kind = "rollback"

Working == \A w \in Worker : WorkerOK(w)

\* A rollback that has not been concluded still knows its target.
Targeted ==
  /\ \A i \in Waiting : rel[i].kind = "rollback" => rel[i].target # NoId
  /\ \A w \in Worker : (pc[w] # "idle" /\ rel[job[w]].kind = "rollback")
                        => rel[job[w]].target # NoId

\* A deployment that has got past "up" has its compose file on its host.
DeployOK(w) ==
    (/\ pc[w] \in {"compose", "healthcheck", "digest", "save"}
     /\ rel[job[w]].kind = "deploy"
     /\ pc[w] \in {"digest", "save"} => ~failed[w])
      => job[w] \in files[host[w]]

Deploying == \A w \in Worker : DeployOK(w)

\* A point that a request for a rollback has found can be rolled back to.
PointOK(i, t) == /\ t < i /\ i <= lastId
                 /\ rel[t].project = rel[i].project
                 /\ rel[t].kind = "deploy"
                 /\ \E h \in Host : t \in files[h]

Choices == \A i, t \in Id : <<i, t>> \in chosen => PointOK(i, t)

\* Only a deployment ever says "succeeded".
Concluded ==
  \A i \in Id : rel[i].status = "succeeded" => rel[i].kind = "deploy"

DeployInv == /\ TypeOK
             /\ Numbering
             /\ NoDoubleExecution
             /\ Working
             /\ Targeted
             /\ Deploying
             /\ Concluded
             /\ Choices
             /\ SucceededHasComposeFile
             /\ RollbackPointSound
             /\ ContainerTraceable

-----------------------------------------------------------------------------
(* Types.                                                                  *)

\* A worker that is not idle works on a release of the table.
LEMMA JobKnown ==
  ASSUME TypeOK, Working, NEW w \in Worker, pc[w] # "idle"
  PROVE  job[w] \in Id /\ rel[job[w]] \in Release
BY DeployAssumption DEF TypeOK, Working, WorkerOK, MaybeId, Id, NoId

\* What the tasks write into a row leaves it a row.
LEMMA RowUpdate ==
  ASSUME NEW r \in Release, NEW s \in Status, NEW d \in Digest \cup {NoDigest}
  PROVE  /\ [r EXCEPT !.status = s] \in Release
         /\ [r EXCEPT !.status = s, !.digest = d] \in Release
         /\ [r EXCEPT !.status = s, !.target = NoId, !.undoes = NoId] \in Release
<1>1. [r EXCEPT !.status = s] \in Release
  BY DEF Release
<1>2. [r EXCEPT !.status = s, !.digest = d] \in Release
  BY DEF Release
<1>3. NoId \in MaybeId
  BY DeployAssumption DEF MaybeId, NoId
<1>4. [r EXCEPT !.status = s, !.target = NoId, !.undoes = NoId] \in Release
  BY <1>3 DEF Release
<1>5. QED
  BY <1>1, <1>2, <1>4

\* The types are kept by every step of a worker that knows its release and,
\* where it acts on a machine, its machine.
LEMMA TypeStep ==
  ASSUME TypeOK, Working, Targeted, [Next]_vars
  PROVE  TypeOK'
<1> USE DeployAssumption DEF TypeOK, Id, MaybeId, NoId, Step, Go, At,
        dbVars, callVars, workerVars, hostVars, envVars
<1>1. ASSUME NEW p \in Project, NEW t \in Tag, CreateRelease(p, t) PROVE TypeOK'
  <2>1. [status |-> "requested", kind |-> "deploy", project |-> p, tag |-> t,
         target |-> NoId, undoes |-> NoId, digest |-> NoDigest] \in Release
    BY DEF Release, Status, Kind
  <2>2. rel' \in [Id -> Release]
    BY <1>1, <2>1 DEF CreateRelease
  <2>3. lastId' \in MaybeId /\ pending' \in SUBSET Id
    BY <1>1 DEF CreateRelease
  <2>4. QED
    BY <1>1, <2>2, <2>3 DEF CreateRelease
<1>2. ASSUME NEW i \in Id, NEW point \in Id, RequestRollback(i, point) PROVE TypeOK'
  <2>1. rel[point] \in Release /\ rel[i] \in Release
    OBVIOUS
  <2>2. [status |-> "requested", kind |-> "rollback",
         project |-> rel[i].project, tag |-> rel[point].tag,
         target |-> point, undoes |-> i, digest |-> NoDigest] \in Release
    BY <2>1 DEF Release, Status, Kind
  <2>3. rel' \in [Id -> Release]
    BY <1>2, <2>2 DEF RequestRollback
  <2>4. lastId' \in MaybeId /\ pending' \in SUBSET Id
    BY <1>2 DEF RequestRollback
  <2>5. QED
    BY <1>2, <2>3, <2>4 DEF RequestRollback
<1>2a. ASSUME NEW i \in Id, ChoosePoint(i) PROVE TypeOK'
  <2>1. chosen' \in SUBSET (Id \X Id)
    BY <1>2a DEF ChoosePoint, ValidPoints
  <2>2. QED
    BY <1>2a, <2>1 DEF ChoosePoint
<1>3. ASSUME NEW i \in Id, Delay(i) \/ DelayFails(i) PROVE TypeOK'
  BY <1>3 DEF Delay, DelayFails
<1>4. ASSUME NEW w \in Worker, NEW i \in Id, Take(w, i) PROVE TypeOK'
  BY <1>4 DEF Take
<1>5. ASSUME NEW w \in Worker, Begin(w) PROVE TypeOK'
  <2>1. rel' \in [Id -> Release]
    BY <1>5, JobKnown, RowUpdate DEF Begin, Status
  <2>2. QED
    BY <1>5, <2>1 DEF Begin
<1>6. ASSUME NEW w \in Worker, Load(w) PROVE TypeOK'
  <2>1. host' \in [Worker -> Host \cup {NoHost}]
    BY <1>6, JobKnown DEF Load, Release
  <2>2. QED
    BY <1>6, <2>1 DEF Load
<1>7. ASSUME NEW w \in Worker, Pull(w) PROVE TypeOK'
  <2>1. image' \in [Host -> [Tag -> Digest \cup {NoDigest}]]
    BY <1>7, JobKnown DEF Pull, Release
  <2>2. QED
    BY <1>7, <2>1 DEF Pull, Serving
<1>8. ASSUME NEW w \in Worker, Up(w) PROVE TypeOK'
  <2>1. job[w] \in 1 .. MaxRelease
    BY <1>8, JobKnown DEF Up, Id
  <2>2. files' \in [Host -> SUBSET (1 .. MaxRelease)]
    BY <1>8, <2>1 DEF Up
  <2>3. QED
    BY <1>8, <2>2 DEF Up
<1>9. ASSUME NEW h \in Host, NEW i \in Id, ComposeUp(h, i)
      PROVE  /\ image' \in [Host -> [Tag -> Digest \cup {NoDigest}]]
             /\ container' \in [Host -> [Project -> Container]]
  <2> DEFINE t == rel[i].tag
             d == IF image[h][t] # NoDigest THEN image[h][t] ELSE registry[t]
  <2>1. t \in Tag /\ rel[i].project \in Project /\ d \in Digest \cup {NoDigest}
    BY DEF Release
  <2>2. image' = [image EXCEPT ![h][t] = d]
    BY <1>9 DEF ComposeUp
  <2>3. container' = [container EXCEPT ![h][rel[i].project] = [release |-> i, digest |-> d]]
    BY <1>9 DEF ComposeUp
  <2>4. [release |-> i, digest |-> d] \in Container
    BY <2>1 DEF Container
  <2> HIDE DEF t, d
  <2>5. QED
    BY <2>1, <2>2, <2>3, <2>4
<1>10. ASSUME NEW w \in Worker, Compose(w) PROVE TypeOK'
  <2>1. host[w] \in Host /\ job[w] \in Id
    BY <1>10, JobKnown DEF Compose, Working, WorkerOK, RemoteStep
  <2>2. ComposeId(job[w]) \in Id
    BY <1>10, <2>1 DEF Compose, ComposeUp, ComposeId
  <2>3. QED
    BY <1>9, <1>10, <2>1, <2>2 DEF Compose, Serving
<1>11. ASSUME NEW w \in Worker, Healthcheck(w) \/ StepFails(w) PROVE TypeOK'
  BY <1>11 DEF Healthcheck, StepFails, AfterSteps
<1>12. ASSUME NEW w \in Worker, NEW o, o = <<host[w], ComposeId(job[w])>>,
              pc[w] \in {"compose", "rollback"}, orphans' = orphans \cup {o}
       PROVE  orphans' \in SUBSET (Host \X Id)
  <2>1. host[w] \in Host /\ job[w] \in Id
    BY <1>12, JobKnown DEF Working, WorkerOK, RemoteStep
  <2>2. ComposeId(job[w]) \in Id
    BY <1>12, <2>1 DEF ComposeId, Targeted, Release, Kind
  <2>3. QED
    BY <1>12, <2>1, <2>2
<1>13. ASSUME NEW w \in Worker, StepLingers(w) PROVE TypeOK'
  <2>1. orphans' \in SUBSET (Host \X Id)
    BY <1>12, <1>13 DEF StepLingers
  <2>2. QED
    BY <1>13, <2>1 DEF StepLingers, AfterSteps
<1>14. ASSUME NEW w \in Worker, ImageDigest(w) PROVE TypeOK'
  <2>1. got' \in [Worker -> Digest \cup {NoDigest}]
    <3>1. host[w] \in Host
      BY <1>14 DEF ImageDigest, Working, WorkerOK
    <3>2. rel[job[w]].tag \in Tag
      BY <1>14, JobKnown DEF ImageDigest, Release
    <3>3. QED
      BY <1>14, <3>1, <3>2 DEF ImageDigest
  <2>2. QED
    BY <1>14, <2>1 DEF ImageDigest
<1>15. ASSUME NEW w \in Worker, Save(w) PROVE TypeOK'
  <2>1. rel' \in [Id -> Release]
    <3> DEFINE i == job[w]
               s == IF failed[w] THEN Failure(i) ELSE Success(i)
               d == IF failed[w] THEN NoDigest ELSE got[w]
    <3>1. s \in Status /\ d \in Digest \cup {NoDigest}
      BY DEF Failure, Success, Status
    <3>2. i \in Id /\ rel[i] \in Release
      BY <1>15, JobKnown DEF Save
    <3>3. rel' = [rel EXCEPT ![i] = [rel[i] EXCEPT !.status = s, !.digest = d]]
      BY <1>15, <3>2 DEF Save
    <3> HIDE DEF i, s, d
    <3>4. QED
      BY <3>1, <3>2, <3>3, RowUpdate
  <2>2. QED
    BY <1>15, <2>1 DEF Save
<1>16. ASSUME NEW w \in Worker, Return(w) \/ Raise(w) \/ RescueFails(w) PROVE TypeOK'
  <2>1. CASE Return(w) \/ RescueFails(w)
    <3>1. /\ pc' \in [Worker -> Step]
          /\ job' \in [Worker -> 0 .. MaxRelease]
          /\ host' \in [Worker -> Host \cup {NoHost}]
          /\ UNCHANGED <<failed, got>>
      <4>1. Idle(w)
        BY <2>1 DEF Return, RescueFails
      <4>2. QED
        BY <4>1 DEF Idle
    <3>2. UNCHANGED <<dbVars, callVars, hostVars, envVars>>
      BY <2>1 DEF Return, RescueFails
    <3>3. QED
      BY <3>1, <3>2
  <2>2. CASE Raise(w)
    <3>1. pc' \in [Worker -> Step]
      BY <2>2 DEF Raise
    <3>2. QED
      BY <2>2, <3>1 DEF Raise
  <2>3. QED
    BY <1>16, <2>1, <2>2
<1>17. ASSUME NEW w \in Worker, Rescue(w) PROVE TypeOK'
  <2>1. rel' \in [Id -> Release]
    <3>1. Failure(job[w]) \in Status
      BY DEF Failure, Status
    <3>2. QED
      BY <1>17, <3>1, JobKnown, RowUpdate DEF Rescue
  <2>2. QED
    BY <1>17, <2>1 DEF Rescue, Idle
<1>18. ASSUME NEW w \in Worker, Kill(w) PROVE TypeOK'
  <2>1. orphans' \in SUBSET (Host \X Id)
    BY <1>12, <1>18 DEF Kill
  <2>2. QED
    BY <1>18, <2>1 DEF Kill, Idle
<1>19. ASSUME NEW o \in Host \X Id, OrphanLands(o) PROVE TypeOK'
  <2>1. o[1] \in Host /\ o[2] \in Id
    OBVIOUS
  <2>2. QED
    BY <1>9, <1>19, <2>1 DEF OrphanLands, Serving
<1>20. ASSUME NEW t \in Tag, NEW d \in Digest, Push(t, d) PROVE TypeOK'
  BY <1>20 DEF Push
<1>21. ASSUME NEW a \in Asset, NEW h \in Host \cup {NoHost}, Retarget(a, h) PROVE TypeOK'
  BY <1>21 DEF Retarget
<1>22. CASE UNCHANGED vars
  BY <1>22 DEF vars
<1>23. QED
  BY <1>1, <1>2, <1>2a, <1>3, <1>4, <1>5, <1>6, <1>7, <1>8, <1>10, <1>11, <1>13, <1>14, <1>15,
     <1>16, <1>17, <1>18, <1>19, <1>20, <1>21, <1>22
     DEF Next, Api, WorkerStep, Environment

-----------------------------------------------------------------------------
(* What no step undoes.                                                    *)

\* Only five actions write the table, and only one writes the compose files.
LEMMA TableSteps ==
  ASSUME [Next]_vars
  PROVE  /\ \/ \E p \in Project, t \in Tag : CreateRelease(p, t)
            \/ \E j, point \in Id : RequestRollback(j, point)
            \/ \E w \in Worker : Begin(w) \/ Save(w) \/ Rescue(w)
            \/ UNCHANGED dbVars
         /\ (\E w \in Worker : Up(w)) \/ UNCHANGED files
BY DEF Next, Api, WorkerStep, Environment, vars, hostVars, CreateRelease, ChoosePoint,
       RequestRollback,
       Delay, DelayFails, Take, Begin, Load, Pull, Up, Compose, Healthcheck, StepFails,
       StepLingers, ImageDigest, Save, Return, Raise, Rescue, RescueFails, Kill,
       OrphanLands, Push, Retarget

\* The facts of a row that are fixed when it is inserted.
SameRow(i) == /\ rel'[i].kind = rel[i].kind
              /\ rel'[i].project = rel[i].project
              /\ rel'[i].tag = rel[i].tag

\* A step inserts the next row, or lets one worker write into its own row, or
\* leaves the table alone; rows keep what they are about.
LEMMA RowsKept ==
  ASSUME TypeOK, [Next]_vars
  PROVE  /\ lastId <= lastId'
         /\ \A i \in Id : i <= lastId =>
              /\ SameRow(i)
              /\ \/ rel'[i].target = rel[i].target /\ rel'[i].undoes = rel[i].undoes
                 \/ rel'[i].target = NoId
<1> DEFINE Kept(i) ==
      /\ SameRow(i)
      /\ \/ rel'[i].target = rel[i].target /\ rel'[i].undoes = rel[i].undoes
         \/ rel'[i].target = NoId
<1>1. ASSUME NEW i \in Id, rel'[i] = rel[i] PROVE Kept(i)
  BY <1>1 DEF SameRow
<1>2. ASSUME NEW r, lastId' = lastId + 1, rel' = [rel EXCEPT ![lastId + 1] = r]
      PROVE  lastId <= lastId' /\ \A i \in Id : i <= lastId => rel'[i] = rel[i]
  BY <1>2, DeployAssumption DEF TypeOK, Id, MaybeId
<1>3. ASSUME NEW w \in Worker, Begin(w) \/ Save(w) \/ Rescue(w)
      PROVE  lastId' = lastId /\ \A i \in Id : Kept(i)
  <2> USE DEF TypeOK, SameRow, Release
  <2>1. CASE Begin(w)
    BY <2>1 DEF Begin
  <2>2. CASE Save(w)
    BY <2>2 DEF Save
  <2>3. CASE Rescue(w)
    BY <2>3 DEF Rescue
  <2>4. QED
    BY <1>3, <2>1, <2>2, <2>3
<1>4. lastId <= lastId
  BY DeployAssumption DEF TypeOK, MaybeId
<1> HIDE DEF Kept
<1>5. lastId <= lastId' /\ \A i \in Id : i <= lastId => Kept(i)
  <2>1. CASE \E w \in Worker : Begin(w) \/ Save(w) \/ Rescue(w)
    BY <1>3, <1>4, <2>1
  <2>2. CASE UNCHANGED dbVars
    BY <1>1, <1>4, <2>2 DEF dbVars
  <2>3. CASE \E p \in Project, t \in Tag : CreateRelease(p, t)
    BY <1>1, <1>2, <2>3 DEF CreateRelease
  <2>4. CASE \E j, point \in Id : RequestRollback(j, point)
    BY <1>1, <1>2, <2>4 DEF RequestRollback
  <2>5. QED
    BY <2>1, <2>2, <2>3, <2>4, TableSteps
<1>6. QED
  BY <1>5 DEF Kept

\* Nothing deletes a compose file.
LEMMA FilesKept ==
  ASSUME TypeOK, Working, [Next]_vars, NEW h \in Host
  PROVE  files[h] \subseteq files'[h]
<1>1. CASE \E w \in Worker : Up(w)
  BY <1>1 DEF Up, TypeOK
<1>2. QED
  BY <1>1, TableSteps

-----------------------------------------------------------------------------
(* The numbering of the table, and who owns which release.                 *)

\* Ids enter a queue, a worker or a directory only once they are in the table.
LEMMA NumberingStep ==
  ASSUME TypeOK, Working, Numbering, [Next]_vars, TypeOK'
  PROVE  Numbering'
<1> USE DeployAssumption DEF TypeOK, Id, MaybeId, NoId
<1>1. \A i \in Id : i > lastId' => rel'[i].status = "absent" /\ rel'[i].target = NoId
  <2>1. CASE \E p \in Project, t \in Tag : CreateRelease(p, t)
    BY <2>1 DEF CreateRelease, Numbering
  <2>2. CASE \E j, point \in Id : RequestRollback(j, point)
    BY <2>2 DEF RequestRollback, Numbering
  <2>3. CASE \E w \in Worker : Begin(w) \/ Save(w) \/ Rescue(w)
    <3>1. PICK w \in Worker : Begin(w) \/ Save(w) \/ Rescue(w)
      BY <2>3
    <3>2. lastId' = lastId /\ \A i \in Id : i # job[w] => rel'[i] = rel[i]
      BY <3>1 DEF Begin, Save, Rescue
    <3>3. job[w] <= lastId /\ job[w] \in 0 .. MaxRelease
      BY DEF Numbering
    <3>4. ASSUME NEW i \in Id, i > lastId'
          PROVE  rel'[i].status = "absent" /\ rel'[i].target = NoId
      <4>1. i > lastId /\ rel'[i] = rel[i]
        BY <3>2, <3>3, <3>4
      <4>2. QED
        BY <4>1 DEF Numbering
    <3>5. QED
      BY <3>4
  <2>4. CASE UNCHANGED dbVars
    BY <2>4 DEF dbVars, Numbering
  <2>5. QED
    BY <2>1, <2>2, <2>3, <2>4, TableSteps
<1>2. lastId <= lastId'
  BY RowsKept
<1>3. \A i \in Waiting' : i \in Waiting \/ i = lastId'
  BY DEF Waiting, Next, Api, WorkerStep, Environment, vars, callVars, CreateRelease,
         ChoosePoint, RequestRollback, Delay, DelayFails, Take, Begin, Load, Pull, Up, Compose,
         Healthcheck, StepFails, StepLingers, ImageDigest, Save, Return, Raise, Rescue,
         RescueFails, Kill, OrphanLands, Push, Retarget
<1>4. \A w \in Worker : job'[w] = job[w] \/ job'[w] = NoId \/ job'[w] \in queue
  <2>1. \/ UNCHANGED job
        \/ \E w \in Worker : Idle(w) \/ \E i \in Id : Take(w, i)
    BY DEF Next, Api, WorkerStep, Environment, vars, workerVars, CreateRelease, ChoosePoint,
       RequestRollback, Delay, DelayFails, Begin, Load, Pull, Up, Compose, Healthcheck, StepFails,
       StepLingers, ImageDigest, Save, Return, Raise, Rescue, RescueFails, Kill, OrphanLands, Push,
       Retarget
  <2> QED BY <2>1 DEF Idle, Take
<1>5. ASSUME NEW h \in Host, NEW i \in files'[h]
      PROVE  i <= lastId' /\ rel'[i].kind = "deploy"
  <2>1. CASE i \in files[h]
    <3>1. i \in Id /\ i <= lastId /\ rel[i].kind = "deploy"
      BY <2>1 DEF Numbering
    <3>2. SameRow(i)
      BY <3>1, RowsKept
    <3>3. QED
      BY <1>2, <3>1, <3>2 DEF SameRow
  <2>2. CASE i \notin files[h]
    <3>1. PICK w \in Worker : Up(w) /\ i = job[w]
      <4>1. PICK w \in Worker : Up(w)
        BY <2>2, TableSteps
      <4>2. files' = [files EXCEPT ![host[w]] = @ \cup {job[w]}]
        BY <4>1 DEF Up
      <4>3. i = job[w]
        BY <2>2, <4>2
      <4>4. QED
        BY <4>1, <4>3
    <3>2. i <= lastId /\ i \in Id /\ rel[i].kind = "deploy"
      BY <3>1, JobKnown DEF Up, At, Working, WorkerOK, Numbering
    <3>3. SameRow(i)
      BY <3>2, RowsKept
    <3>4. QED
      BY <1>2, <3>2, <3>3 DEF SameRow
  <2>3. QED
    BY <2>1, <2>2
<1>6. \A i \in Waiting' : i <= lastId'
  <2>1. lastId \in Nat /\ lastId' \in Nat /\ Waiting \subseteq Nat
    BY DEF Waiting
  <2>2. \A i \in Waiting : i <= lastId
    BY DEF Numbering
  <2>3. ASSUME NEW i \in Waiting PROVE i <= lastId'
    BY <1>2, <2>1, <2>2
  <2>4. lastId' <= lastId'
    BY <2>1
  <2> QED BY <1>3, <2>3, <2>4
<1>7. \A w \in Worker : job'[w] <= lastId'
  <2>1. \A i \in queue : i <= lastId'
    BY <1>2 DEF Numbering, Waiting
  <2>2. \A w \in Worker : job[w] <= lastId' /\ NoId <= lastId'
    BY <1>2 DEF Numbering
  <2>3. QED
    BY <1>4, <2>1, <2>2
<1>8. QED
  BY <1>1, <1>5, <1>6, <1>7 DEF Numbering

\* An id moves from pending to the queue to one worker, and never back.
LEMMA OwnerStep ==
  ASSUME TypeOK, Working, Numbering, NoDoubleExecution, [Next]_vars
  PROVE  NoDoubleExecution'
<1> USE DeployAssumption DEF TypeOK, Id, MaybeId, NoId
<1>1. ASSUME lastId < MaxRelease, rel'[lastId + 1].status = "requested",
             \A i \in Id : i # lastId + 1 => rel'[i] = rel[i],
             pending' = pending \cup {lastId + 1}, UNCHANGED <<queue, job>>
      PROVE  NoDoubleExecution'
  <2>1. lastId + 1 \notin Waiting /\ \A w \in Worker : job[w] # lastId + 1
    BY DEF Numbering
  <2>2. \A i \in Waiting' : rel'[i].status = "requested" /\ \A w \in Worker : job'[w] # i
    BY <1>1, <2>1 DEF NoDoubleExecution, Waiting
  <2>3. pending' \cap queue' = {}
    BY <1>1, <2>1 DEF NoDoubleExecution, Waiting
  <2>4. QED
    BY <1>1, <2>2, <2>3 DEF NoDoubleExecution, Waiting
<1>2. ASSUME NEW p \in Project, NEW t \in Tag, CreateRelease(p, t) PROVE NoDoubleExecution'
  <2>1. rel'[lastId + 1].status = "requested" /\ \A i \in Id : i # lastId + 1 => rel'[i] = rel[i]
    BY <1>2 DEF CreateRelease
  <2>2. QED
    BY <1>1, <1>2, <2>1 DEF CreateRelease, workerVars
<1>3. ASSUME NEW j \in Id, NEW t \in Id, RequestRollback(j, t) PROVE NoDoubleExecution'
  <2>1. rel'[lastId + 1].status = "requested" /\ \A i \in Id : i # lastId + 1 => rel'[i] = rel[i]
    BY <1>3 DEF RequestRollback
  <2>2. QED
    BY <1>1, <1>3, <2>1 DEF RequestRollback, workerVars
<1>4. ASSUME NEW i \in Id, Delay(i) \/ DelayFails(i) PROVE NoDoubleExecution'
  BY <1>4 DEF Delay, DelayFails, NoDoubleExecution, dbVars, workerVars
<1>5. ASSUME NEW w \in Worker, NEW i \in Id, Take(w, i) PROVE NoDoubleExecution'
  BY <1>5 DEF Take, NoDoubleExecution, dbVars
<1>6. ASSUME NEW w \in Worker, pc[w] # "idle",
             \A i \in Id : i # job[w] => rel'[i] = rel[i],
             job' = job \/ job' = [job EXCEPT ![w] = NoId], UNCHANGED callVars
      PROVE  NoDoubleExecution'
  <2>1. pending' = pending /\ queue' = queue
    BY <1>6 DEF callVars
  <2>2. \A i \in pending \cup queue : i # job[w] /\ rel'[i] = rel[i]
    BY <1>6, <2>1 DEF NoDoubleExecution
  <2>3. \A i \in pending \cup queue : \A v \in Worker : job'[v] # i
    BY <1>6, <2>1 DEF NoDoubleExecution
  <2>4. \A u, v \in Worker : job'[u] = job'[v] => u = v \/ job'[u] = NoId
    BY <1>6 DEF NoDoubleExecution
  <2>5. QED
    BY <2>1, <2>2, <2>3, <2>4 DEF NoDoubleExecution
<1>7. ASSUME NEW w \in Worker, Begin(w) \/ Save(w) \/ Rescue(w) \/ Return(w)
               \/ RescueFails(w) \/ Kill(w)
      PROVE  NoDoubleExecution'
  <2>1. UNCHANGED callVars /\ pc[w] # "idle"
    BY <1>7 DEF Begin, Save, Rescue, Return, RescueFails, Kill, At
  <2>2. \A i \in Id : i # job[w] => rel'[i] = rel[i]
    BY <1>7 DEF Begin, Save, Rescue, Return, RescueFails, Kill, dbVars
  <2>3. job' = job \/ job' = [job EXCEPT ![w] = NoId]
    BY <1>7 DEF Begin, Save, Rescue, Return, RescueFails, Kill, Idle
  <2>4. QED
    BY <1>6, <2>1, <2>2, <2>3
<1>8. CASE UNCHANGED <<rel, job, pending, queue>>
  BY <1>8 DEF NoDoubleExecution
<1>9. QED
  BY <1>2, <1>3, <1>4, <1>5, <1>7, <1>8
     DEF Next, Api, WorkerStep, Environment, vars, dbVars, callVars, workerVars, ChoosePoint, Load,
         Pull, Up, Compose, Healthcheck, StepFails, StepLingers, ImageDigest, Raise, OrphanLands,
         Push, Retarget

-----------------------------------------------------------------------------
(* Where a worker is, and what it has established for its release.         *)

SameWorker(v) == /\ pc'[v] = pc[v]
                 /\ job'[v] = job[v]
                 /\ host'[v] = host[v]
                 /\ failed'[v] = failed[v]
                 /\ got'[v] = got[v]

\* A step moves one worker at most.
LEMMA OneWorkerActs ==
  ASSUME TypeOK, [Next]_vars
  PROVE  \/ \A v \in Worker : SameWorker(v)
         \/ \E w \in Worker : /\ WorkerStep(w) \/ Kill(w)
                            /\ \A v \in Worker \ {w} : SameWorker(v)
<1> USE DEF TypeOK, SameWorker, workerVars, Go, Idle
<1>1. CASE Api \/ UNCHANGED vars
  BY <1>1 DEF Api, CreateRelease, ChoosePoint, RequestRollback, Delay, DelayFails, vars
<1>2. ASSUME NEW w \in Worker, WorkerStep(w) \/ Kill(w)
      PROVE  \A v \in Worker \ {w} : SameWorker(v)
  <2>1. ASSUME NEW i \in Id, Take(w, i) PROVE \A v \in Worker \ {w} : SameWorker(v)
    BY <2>1 DEF Take
  <2>2. CASE Begin(w) \/ Load(w) \/ Pull(w) \/ Up(w) \/ Compose(w) \/ Healthcheck(w)
    BY <2>2 DEF Begin, Load, Pull, Up, Compose, Healthcheck
  <2>3. CASE StepFails(w) \/ StepLingers(w) \/ ImageDigest(w) \/ Save(w) \/ Return(w)
    BY <2>3 DEF StepFails, StepLingers, ImageDigest, Save, Return
  <2>4. CASE Raise(w) \/ Rescue(w) \/ RescueFails(w) \/ Kill(w)
    BY <2>4 DEF Raise, Rescue, RescueFails, Kill
  <2>5. QED
    BY <1>2, <2>1, <2>2, <2>3, <2>4 DEF WorkerStep
<1>3. CASE \/ \E o \in Host \X Id : OrphanLands(o)
           \/ \E t \in Tag, d \in Digest : Push(t, d)
           \/ \E a \in Asset, h \in Host \cup {NoHost} : Retarget(a, h)
  BY <1>3 DEF OrphanLands, Push, Retarget
<1>4. QED
  BY <1>1, <1>2, <1>3 DEF Next, Environment

\* The rows workers are executing keep what they are about.
LEMMA JobRowsKept ==
  ASSUME TypeOK, Working, Numbering, [Next]_vars, NEW v \in Worker, pc[v] # "idle"
  PROVE  job[v] \in Id /\ SameRow(job[v])
<1>1. job[v] \in Id /\ job[v] <= lastId
  BY JobKnown DEF Numbering
<1>2. QED
  BY <1>1, RowsKept

\* A worker follows the steps of its kind of task and knows its machine.
LEMMA WorkingStep ==
  ASSUME TypeOK, Working, Numbering, [Next]_vars
  PROVE  Working'
<1> USE DeployAssumption DEF TypeOK, Id, MaybeId, NoId, Go, At, RemoteStep
<1>1. ASSUME NEW v \in Worker, SameWorker(v) PROVE WorkerOK(v)'
  <2>1. CASE pc[v] = "idle"
    BY <1>1, <2>1 DEF SameWorker, Working, WorkerOK
  <2>2. CASE pc[v] # "idle"
    <3>1. rel'[job[v]].kind = rel[job[v]].kind
      BY <2>2, JobRowsKept DEF SameRow
    <3>2. QED
      BY <1>1, <3>1 DEF SameWorker, Working, WorkerOK
  <2>3. QED
    BY <2>1, <2>2
<1>2. ASSUME NEW w \in Worker, WorkerStep(w) \/ Kill(w) PROVE WorkerOK(w)'
  <2>1. ASSUME NEW i \in Id, Take(w, i) PROVE WorkerOK(w)'
    BY <2>1 DEF Take, WorkerOK
  <2>2. CASE pc[w] # "idle"
    <3>1. WorkerOK(w) /\ job[w] # NoId /\ rel'[job[w]].kind = rel[job[w]].kind
      BY <2>2, JobRowsKept DEF SameRow, Working, WorkerOK
    <3>2. rel[job[w]].kind \in {"deploy", "rollback"}
      BY <2>2, JobKnown DEF Release, Kind
    <3>3. CASE Begin(w)
      BY <3>1, <3>3 DEF Begin, WorkerOK
    <3>4. CASE Load(w)
      <4>1. host'[w] \in Host
        BY <3>4, <2>2, JobKnown DEF Load, Release
      <4>2. QED
        BY <3>1, <3>2, <3>4, <4>1 DEF Load, WorkerOK, dbVars
    <3>5. CASE Pull(w) \/ Up(w) \/ Compose(w)
      BY <3>1, <3>5 DEF Pull, Up, Compose, WorkerOK
    <3>6. CASE Healthcheck(w) \/ StepFails(w) \/ StepLingers(w)
      BY <3>1, <3>2, <3>6 DEF Healthcheck, StepFails, StepLingers, AfterSteps, WorkerOK
    <3>7. CASE ImageDigest(w) \/ Save(w) \/ Raise(w)
      BY <3>1, <3>7 DEF ImageDigest, Save, Raise, WorkerOK
    <3>8. CASE Return(w) \/ Rescue(w) \/ RescueFails(w) \/ Kill(w)
      <4>1. Idle(w)
        BY <3>8 DEF Return, Rescue, RescueFails, Kill
      <4>2. QED
        BY <4>1 DEF Idle, WorkerOK
    <3>9. QED
      BY <1>2, <2>1, <3>3, <3>4, <3>5, <3>6, <3>7, <3>8 DEF WorkerStep
  <2>3. CASE pc[w] = "idle"
    BY <1>2, <2>1, <2>3 DEF WorkerStep, Begin, Load, Pull, Up, Compose, Healthcheck, StepFails,
       StepLingers, ImageDigest, Save, Return, Raise, Rescue, RescueFails, Kill
  <2>4. QED
    BY <2>2, <2>3
<1>3. QED
  BY <1>1, <1>2, OneWorkerActs DEF Working

\* A row changes only when it is inserted or when its own worker writes it.
LEMMA RowWritten ==
  ASSUME TypeOK, [Next]_vars, NEW i \in Id
  PROVE  \/ rel'[i] = rel[i]
         \/ i = lastId + 1 /\ rel'[i].status = "requested"
         \/ \E w \in Worker : job[w] = i /\ (Begin(w) \/ Save(w) \/ Rescue(w))
<1> USE DEF TypeOK
<1>1. CASE \E p \in Project, t \in Tag : CreateRelease(p, t)
  BY <1>1 DEF CreateRelease
<1>2. CASE \E j, point \in Id : RequestRollback(j, point)
  BY <1>2 DEF RequestRollback
<1>3. ASSUME NEW w \in Worker, Begin(w) \/ Save(w) \/ Rescue(w), job[w] # i
      PROVE  rel'[i] = rel[i]
  <2>1. CASE Begin(w)
    BY <1>3, <2>1 DEF Begin
  <2>2. CASE Save(w)
    BY <1>3, <2>2 DEF Save
  <2>3. CASE Rescue(w)
    BY <1>3, <2>3 DEF Rescue
  <2>4. QED
    BY <1>3, <2>1, <2>2, <2>3
<1>4. CASE UNCHANGED dbVars
  BY <1>4 DEF dbVars
<1>5. QED
  BY <1>1, <1>2, <1>3, <1>4, TableSteps

\* The row of a worker that is not moved stays as it is: nobody else has it.
LEMMA JobRowStays ==
  ASSUME TypeOK, Working, Numbering, NoDoubleExecution, [Next]_vars,
         NEW v \in Worker, pc[v] # "idle", SameWorker(v)
  PROVE  rel'[job[v]] = rel[job[v]]
<1>1. job[v] \in Id /\ job[v] <= lastId /\ job[v] # NoId
  BY JobKnown DEF Numbering, Id, NoId
<1>2. job[v] # lastId + 1
  BY <1>1, DeployAssumption DEF TypeOK, MaybeId, Id
<1>3. ASSUME NEW w \in Worker, job[w] = job[v], Begin(w) \/ Save(w) \/ Rescue(w) PROVE FALSE
  <2>1. w = v
    BY <1>1, <1>3 DEF NoDoubleExecution
  <2>2. pc'[v] # pc[v]
    BY <1>3, <2>1 DEF Begin, Save, Rescue, Idle, Go, At, TypeOK
  <2> QED BY <2>2 DEF SameWorker
<1> QED BY <1>1, <1>2, <1>3, RowWritten

\* The target of a waiting or executing rollback survives every step but the
\* error handler's, after which the worker is idle.
LEMMA TargetedStep ==
  ASSUME TypeOK, Working, Numbering, NoDoubleExecution, Targeted, [Next]_vars, Working'
  PROVE  Targeted'
<1> USE DeployAssumption DEF TypeOK, Id, MaybeId, NoId
<1>1. ASSUME NEW i \in Waiting, rel[i].kind = "rollback" => rel[i].target # NoId
      PROVE  rel'[i].kind = "rollback" => rel'[i].target # NoId
  <2>1. i \in Id /\ i <= lastId
    BY DEF Numbering, Waiting
  <2>2. \A w \in Worker : job[w] # i
    BY DEF NoDoubleExecution, Waiting
  <2>3. i # lastId + 1
    BY <2>1
  <2>4. rel'[i] = rel[i]
    BY <2>1, <2>2, <2>3, RowWritten
  <2>5. QED
    BY <1>1, <2>4
<1>2. ASSUME NEW i \in Waiting', i \notin Waiting
      PROVE  rel'[i].kind = "rollback" => rel'[i].target # NoId
  <2>1. \/ i = lastId + 1 /\ \E p \in Project, t \in Tag : CreateRelease(p, t)
        \/ i = lastId + 1 /\ \E j, point \in Id : RequestRollback(j, point)
    BY <1>2 DEF Waiting, Next, Api, WorkerStep, Environment, vars, callVars, CreateRelease,
       ChoosePoint, RequestRollback, Delay, DelayFails, Take, Begin, Load, Pull, Up, Compose,
       Healthcheck, StepFails, StepLingers, ImageDigest, Save, Return, Raise, Rescue,
       RescueFails, Kill, OrphanLands, Push, Retarget
  <2>2. CASE i = lastId + 1 /\ \E p \in Project, t \in Tag : CreateRelease(p, t)
    <3>1. rel'[i].kind = "deploy"
      BY <2>2 DEF CreateRelease
    <3>2. QED
      BY <3>1
  <2>3. CASE i = lastId + 1 /\ \E j, point \in Id : RequestRollback(j, point)
    <3>1. i \in Id
      BY <2>3 DEF RequestRollback
    <3>2. PICK j, point \in Id : RequestRollback(j, point)
      BY <2>3
    <3>3. rel'[i].target = point
      BY <2>3, <3>1, <3>2 DEF RequestRollback
    <3>4. QED
      BY <3>2, <3>3
  <2>4. QED
    BY <2>1, <2>2, <2>3
<1>3. ASSUME NEW w \in Worker, pc'[w] # "idle", rel'[job'[w]].kind = "rollback"
      PROVE  rel'[job'[w]].target # NoId
  <2>1. CASE \E i \in Id : Take(w, i)
    BY <1>1, <1>3, <2>1 DEF Take, Waiting, Targeted, dbVars
  <2>2. CASE pc[w] # "idle" /\ ~ \E i \in Id : Take(w, i)
    <3>1. job'[w] = job[w]
      BY <1>3, <2>2, OneWorkerActs DEF SameWorker, WorkerStep, Begin, Load, Pull, Up, Compose,
         Healthcheck, StepFails, StepLingers, ImageDigest, Save, Return, Raise, Rescue,
         RescueFails, Kill, Idle, Go
    <3>2. job[w] \in Id /\ job[w] <= lastId /\ SameRow(job[w])
      BY <2>2, JobRowsKept DEF Numbering
    <3>3. rel[job[w]].target # NoId
      BY <1>3, <2>2, <3>1, <3>2 DEF Targeted, SameRow
    <3>4. ~ Rescue(w)
      BY <1>3 DEF Rescue, Idle, Go
    <3>5. \A v \in Worker \ {w} : job[v] # job[w]
      BY <3>2 DEF NoDoubleExecution
    <3>6. rel'[job[w]].target = rel[job[w]].target
      <4>1. CASE Begin(w)
        BY <3>2, <4>1 DEF Begin, Release
      <4>2. CASE Save(w)
        BY <3>2, <4>2 DEF Save, Release
      <4>3. job[w] # lastId + 1
        BY <3>2
      <4>4. QED
        BY <3>2, <3>4, <3>5, <4>1, <4>2, <4>3, RowWritten
    <3>7. QED
      BY <3>1, <3>3, <3>6
  <2>3. CASE pc[w] = "idle" /\ ~ \E i \in Id : Take(w, i)
    BY <1>3, <2>3, OneWorkerActs DEF SameWorker, WorkerStep, At, Begin, Load, Pull, Up, Compose,
         Healthcheck, StepFails, StepLingers, ImageDigest, Save, Return, Raise, Rescue,
         RescueFails, Kill, RemoteStep
  <2>4. QED
    BY <2>1, <2>2, <2>3
<1>4. QED
  BY <1>1, <1>2, <1>3 DEF Targeted

\* A deployment goes past "up" only with its compose file written.
LEMMA DeployingStep ==
  ASSUME TypeOK, Working, Numbering, Deploying, [Next]_vars
  PROVE  Deploying'
<1> USE DeployAssumption DEF TypeOK, Go, At
<1>1. ASSUME NEW v \in Worker, SameWorker(v) PROVE DeployOK(v)'
  <2>1. CASE pc[v] \in {"compose", "healthcheck", "digest", "save"}
    <3>1. host[v] \in Host /\ SameRow(job[v])
      BY <2>1, JobRowsKept DEF Working, WorkerOK, RemoteStep
    <3>2. files[host[v]] \subseteq files'[host[v]]
      BY <3>1, FilesKept
    <3>3. QED
      BY <1>1, <3>1, <3>2 DEF SameWorker, SameRow, Deploying, DeployOK
  <2>2. QED
    BY <1>1, <2>1 DEF SameWorker, DeployOK
<1>2. ASSUME NEW w \in Worker, WorkerStep(w) \/ Kill(w) PROVE DeployOK(w)'
  <2>1. CASE (\E i \in Id : Take(w, i)) \/ Begin(w) \/ Load(w) \/ Pull(w) \/ Return(w)
             \/ Raise(w) \/ Rescue(w) \/ RescueFails(w) \/ Kill(w)
    <3>1. pc'[w] \in {"begin", "load", "pull", "rollback", "up", "idle", "rescue"}
      BY <2>1 DEF Take, Begin, Load, Pull, Return, Raise, Rescue, RescueFails, Kill, Idle
    <3>2. QED
      BY <3>1 DEF DeployOK
  <2>2. CASE Up(w)
    BY <2>2 DEF Up, DeployOK, Working, WorkerOK, RemoteStep
  <2>3. CASE Compose(w)
    BY <2>3 DEF Compose, DeployOK, Deploying, Working, WorkerOK, dbVars
  <2>4. CASE StepFails(w) \/ StepLingers(w)
    <3>1. failed'[w] = TRUE /\ pc'[w] \in {"digest", "save"}
      BY <2>4 DEF StepFails, StepLingers, AfterSteps
    <3>2. QED
      BY <3>1 DEF DeployOK
  <2>5. CASE Healthcheck(w) \/ ImageDigest(w)
    BY <2>5 DEF Healthcheck, ImageDigest, AfterSteps, DeployOK, Deploying, dbVars, hostVars
  <2>6. CASE Save(w)
    BY <2>6 DEF Save, DeployOK
  <2>7. QED
    BY <1>2, <2>1, <2>2, <2>3, <2>4, <2>5, <2>6 DEF WorkerStep
<1>3. QED
  BY <1>1, <1>2, OneWorkerActs DEF Deploying

-----------------------------------------------------------------------------
(* Successes, rollback points and containers.                              *)

\* The only way a row comes to say "succeeded" is a deployment task saving
\* after steps none of which failed.
LEMMA NewSuccess ==
  ASSUME TypeOK, Working, Numbering, [Next]_vars,
         NEW i \in Id, rel'[i].status = "succeeded"
  PROVE  /\ i <= lastId
         /\ \/ rel[i].status = "succeeded"
            \/ \E w \in Worker : /\ pc[w] = "save" /\ job[w] = i /\ ~failed[w]
                               /\ rel[i].kind = "deploy"
<1> USE DeployAssumption DEF TypeOK, Id, MaybeId, NoId
<1>1. CASE rel'[i] = rel[i]
  BY <1>1 DEF Numbering
<1>2. CASE i = lastId + 1 /\ rel'[i].status = "requested"
  BY <1>2
<1>3. ASSUME NEW w \in Worker, job[w] = i, Begin(w) \/ Save(w) \/ Rescue(w)
      PROVE  i <= lastId /\ pc[w] = "save" /\ ~failed[w] /\ rel[i].kind = "deploy"
  <2>1. i <= lastId
    BY <1>3 DEF Numbering
  <2>2. CASE Begin(w)
    BY <1>3, <2>2 DEF Begin, Release
  <2>3. CASE Rescue(w)
    BY <1>3, <2>3 DEF Rescue, Release, Failure
  <2>4. CASE Save(w)
    BY <1>3, <2>1, <2>4 DEF Save, At, Release, Success, Failure
  <2>5. QED
    BY <1>3, <2>1, <2>2, <2>3, <2>4
<1>4. QED
  BY <1>1, <1>2, <1>3, RowWritten

\* Only deployments come to say "succeeded".
LEMMA ConcludedStep ==
  ASSUME TypeOK, Working, Numbering, Concluded, [Next]_vars
  PROVE  Concluded'
<1>1. ASSUME NEW i \in Id, rel'[i].status = "succeeded" PROVE rel'[i].kind = "deploy"
  <2>1. i <= lastId /\ rel[i].kind = "deploy"
    BY <1>1, NewSuccess DEF Concluded
  <2>2. QED
    BY <2>1, RowsKept DEF SameRow
<1>2. QED
  BY <1>1 DEF Concluded

\* A new success has its compose file on the host of the worker that saves it.
LEMMA FileStep ==
  ASSUME TypeOK, Working, Numbering, Deploying, SucceededHasComposeFile, [Next]_vars
  PROVE  SucceededHasComposeFile'
<1>1. ASSUME NEW i \in Id, rel'[i].status = "succeeded"
      PROVE  \E h \in Host : i \in files'[h]
  <2>1. CASE rel[i].status = "succeeded"
    <3>1. PICK h \in Host : i \in files[h]
      BY <2>1 DEF SucceededHasComposeFile
    <3>2. QED
      BY <3>1, FilesKept
  <2>2. ASSUME NEW w \in Worker, pc[w] = "save", job[w] = i, ~failed[w],
               rel[i].kind = "deploy"
        PROVE  \E h \in Host : i \in files'[h]
    <3>1. host[w] \in Host /\ i \in files[host[w]]
      BY <2>2 DEF Working, WorkerOK, Deploying, DeployOK
    <3>2. QED
      BY <3>1, FilesKept
  <2>3. QED
    BY <1>1, <2>1, <2>2, NewSuccess
<1>2. QED
  BY <1>1 DEF SucceededHasComposeFile

\* What a request has found stays a deployment that can be rolled back to.
LEMMA ChoicesStep ==
  ASSUME TypeOK, Working, Numbering, Concluded, SucceededHasComposeFile, Choices, [Next]_vars,
         TypeOK'
  PROVE  Choices'
<1> USE DeployAssumption DEF TypeOK, Id, MaybeId
<1>1. ASSUME NEW i \in Id, NEW t \in Id, PointOK(i, t) PROVE PointOK(i, t)'
  <2>1. t < i /\ i <= lastId /\ t <= lastId /\ i <= lastId'
    BY <1>1, RowsKept DEF PointOK
  <2>2. SameRow(i) /\ SameRow(t)
    BY <2>1, RowsKept
  <2>3. \E h \in Host : t \in files'[h]
    BY <1>1, FilesKept DEF PointOK
  <2> QED BY <1>1, <2>1, <2>2, <2>3 DEF PointOK, SameRow
<1>2. ASSUME NEW i \in Id, NEW t \in ValidPoints(i), i <= lastId PROVE PointOK(i, t)
  BY <1>2 DEF ValidPoints, PointOK, Concluded, SucceededHasComposeFile
<1>3. \/ chosen' = chosen
      \/ \E i \in Id, t \in Id : /\ i <= lastId /\ t \in ValidPoints(i)
                                /\ chosen' = chosen \cup {<<i, t>>}
  BY DEF Next, Api, WorkerStep, Environment, vars, callVars, CreateRelease, ChoosePoint,
     ValidPoints, RequestRollback, Delay, DelayFails, Take, Begin, Load, Pull, Up, Compose,
     Healthcheck, StepFails, StepLingers, ImageDigest, Save, Return, Raise, Rescue,
     RescueFails, Kill, OrphanLands, Push, Retarget
<1>4. ASSUME NEW i \in Id, NEW t \in Id, <<i, t>> \in chosen' PROVE PointOK(i, t)
  BY <1>2, <1>3, <1>4 DEF Choices
<1> QED BY <1>1, <1>4 DEF Choices

\* A rollback row keeps the point it was inserted with or loses it whole, and
\* the point was one that its request had found.
LEMMA PointStep ==
  ASSUME TypeOK, Working, Numbering, Choices, RollbackPointSound, [Next]_vars,
         TypeOK', Numbering'
  PROVE  RollbackPointSound'
<1> USE DeployAssumption DEF TypeOK, Id, MaybeId, NoId
<1> DEFINE Sound(i) ==
      /\ rel[i].target < rel[i].undoes /\ rel[i].undoes < i
      /\ rel[rel[i].target].project = rel[i].project
      /\ rel[rel[i].undoes].project = rel[i].project
      /\ rel[rel[i].target].kind = "deploy"
      /\ rel[rel[i].target].tag = rel[i].tag
      /\ \E h \in Host : rel[i].target \in files[h]
<1>1. ASSUME NEW i \in Id, i <= lastId, rel'[i].target # NoId PROVE Sound(i)'
  <2>1. rel'[i].target = rel[i].target /\ rel'[i].undoes = rel[i].undoes
    BY <1>1, RowsKept
  <2>2. Sound(i)
    BY <1>1, <2>1 DEF RollbackPointSound
  <2>3. rel[i].target \in 0 .. MaxRelease /\ rel[i].undoes \in 0 .. MaxRelease
    BY DEF Release
  <2>4. /\ rel[i].target \in Id /\ rel[i].target <= lastId
        /\ rel[i].undoes \in Id /\ rel[i].undoes <= lastId
    BY <1>1, <2>1, <2>2, <2>3
  <2>5. SameRow(i) /\ SameRow(rel[i].target) /\ SameRow(rel[i].undoes)
    BY <1>1, <2>4, RowsKept
  <2>6. \E h \in Host : rel[i].target \in files'[h]
    BY <2>2, FilesKept
  <2>7. QED
    BY <2>1, <2>2, <2>5, <2>6 DEF SameRow
<1>2. ASSUME NEW i \in Id, i > lastId, rel'[i].target # NoId PROVE Sound(i)'
  <2>1. i <= lastId'
    <3>1. ~ (i > lastId')
      BY <1>2 DEF Numbering
    <3>2. i \in Nat /\ lastId' \in Nat
      OBVIOUS
    <3>3. QED
      BY <3>1, <3>2
  <2>2. CASE \E p \in Project, t \in Tag : CreateRelease(p, t)
    <3>1. i = lastId + 1 /\ rel'[i].target = NoId
      BY <1>2, <2>1, <2>2 DEF CreateRelease
    <3>2. QED
      BY <1>2, <3>1
  <2>3. ASSUME NEW j \in Id, NEW point \in Id, RequestRollback(j, point) PROVE Sound(i)'
    <3>1. i = lastId + 1
      BY <1>2, <2>1, <2>3 DEF RequestRollback
    <3>2. PointOK(j, point)
      BY <2>3 DEF RequestRollback, Choices
    <3>3. point < j /\ j < i
      BY <3>1, <3>2 DEF PointOK
    <3>4. \E h \in Host : point \in files'[h]
      BY <3>2, FilesKept DEF PointOK
    <3>5. rel'[point] = rel[point] /\ rel'[j] = rel[j]
      BY <2>3, <3>1, <3>3 DEF RequestRollback
    <3>6. /\ rel'[i].target = point /\ rel'[i].undoes = j
          /\ rel'[i].project = rel[j].project /\ rel'[i].tag = rel[point].tag
      BY <2>3, <3>1 DEF RequestRollback
    <3>7. QED
      BY <3>2, <3>3, <3>4, <3>5, <3>6 DEF PointOK
  <2>4. CASE \E w \in Worker : Begin(w) \/ Save(w) \/ Rescue(w)
    BY <1>2, <2>1, <2>4 DEF Begin, Save, Rescue
  <2>5. CASE UNCHANGED dbVars
    BY <1>2, <2>1, <2>5 DEF dbVars
  <2>6. QED
    BY <2>2, <2>3, <2>4, <2>5, TableSteps
<1>3. QED
  BY <1>1, <1>2 DEF RollbackPointSound

\* Containers are only ever started from a compose file that is on the host.
LEMMA ContainerSteps ==
  ASSUME TypeOK, Working, [Next]_vars
  PROVE  \/ UNCHANGED container
         \/ \E h \in Host, i \in Id : ComposeUp(h, i) /\ UNCHANGED <<dbVars, files>>
<1>1. ASSUME NEW w \in Worker, Compose(w)
      PROVE  \E h \in Host, i \in Id : ComposeUp(h, i) /\ UNCHANGED <<dbVars, files>>
  <2>1. host[w] \in Host
    BY <1>1 DEF Compose, At, Working, WorkerOK, RemoteStep
  <2>2. ComposeUp(host[w], ComposeId(job[w])) /\ UNCHANGED <<dbVars, files>>
    BY <1>1 DEF Compose
  <2>3. ComposeId(job[w]) \in Id
    BY <2>1, <2>2 DEF ComposeUp, TypeOK
  <2>4. QED
    BY <2>1, <2>2, <2>3
<1>2. ASSUME NEW o \in Host \X Id, OrphanLands(o)
      PROVE  \E h \in Host, i \in Id : ComposeUp(h, i) /\ UNCHANGED <<dbVars, files>>
  BY <1>2 DEF OrphanLands
<1>3. QED
  BY <1>1, <1>2 DEF Next, Api, WorkerStep, Environment, vars, hostVars, CreateRelease,
     ChoosePoint, RequestRollback, Delay, DelayFails, Take, Begin, Load, Pull, Up, Healthcheck,
     StepFails, StepLingers, ImageDigest, Save, Return, Raise, Rescue, RescueFails, Kill, Push,
     Retarget

\* What a host runs stays traceable: a container that is left alone keeps its
\* release row and file, a new one is started from a file of its project.
LEMMA ContainerStep ==
  ASSUME TypeOK, Working, Numbering, ContainerTraceable, [Next]_vars
  PROVE  ContainerTraceable'
<1> USE DeployAssumption DEF TypeOK, Id, MaybeId, NoId
<1> DEFINE Traced(h, p) ==
      /\ container[h][p].release \in files[h]
      /\ rel[container[h][p].release].project = p
      /\ rel[container[h][p].release].kind = "deploy"
      /\ container[h][p].digest # NoDigest
<1>1. ASSUME NEW h \in Host, NEW p \in Project, container'[h][p] = container[h][p],
             container[h][p].release # NoId
      PROVE  Traced(h, p)'
  <2>1. Traced(h, p)
    BY <1>1 DEF ContainerTraceable
  <2>2. container[h][p].release \in Id /\ container[h][p].release <= lastId
    BY <2>1 DEF Numbering
  <2>3. SameRow(container[h][p].release)
    BY <2>2, RowsKept
  <2>4. container[h][p].release \in files'[h]
    BY <2>1, FilesKept
  <2>5. QED
    BY <1>1, <2>1, <2>3, <2>4 DEF SameRow
<1>2. ASSUME NEW g \in Host, NEW i \in Id, ComposeUp(g, i), UNCHANGED <<dbVars, files>>,
             NEW h \in Host, NEW p \in Project, container'[h][p].release # NoId
      PROVE  Traced(h, p)'
  <2>1. CASE h = g /\ p = rel[i].project
    <3>1. container'[h][p].release = i /\ container'[h][p].digest # NoDigest
      BY <1>2, <2>1 DEF ComposeUp
    <3>2. i \in files'[h] /\ rel' = rel /\ rel[i].kind = "deploy"
      BY <1>2, <2>1 DEF ComposeUp, Numbering, dbVars
    <3>3. QED
      BY <2>1, <3>1, <3>2
  <2>2. CASE ~(h = g /\ p = rel[i].project)
    <3>1. container'[h][p] = container[h][p]
      BY <1>2, <2>2 DEF ComposeUp
    <3>2. QED
      BY <1>1, <1>2, <3>1
  <2>3. QED
    BY <2>1, <2>2
<1>3. QED
  BY <1>1, <1>2, ContainerSteps DEF ContainerTraceable

-----------------------------------------------------------------------------
(* The invariant and the properties it carries.                            *)

\* The empty table, idle workers and bare hosts satisfy the invariant.
LEMMA InitInv == Init => DeployInv
<1> SUFFICES ASSUME Init PROVE DeployInv
  OBVIOUS
<1> USE DeployAssumption DEF Init, Id, MaybeId, NoId
<1>1. rel \in [Id -> Release]
  BY DEF Release, Status, Kind
<1>2. TypeOK
  <2>1. [release |-> 0, digest |-> NoDigest] \in Container
    BY DEF Container
  <2>2. container \in [Host -> [Project -> Container]]
    BY <2>1
  <2>3. image \in [Host -> [Tag -> Digest \cup {NoDigest}]]
    OBVIOUS
  <2>4. /\ pc \in [Worker -> Step] /\ job \in [Worker -> MaybeId]
        /\ host \in [Worker -> Host \cup {NoHost}]
        /\ failed \in [Worker -> BOOLEAN] /\ got \in [Worker -> Digest \cup {NoDigest}]
    BY DEF Step
  <2>5. lastId \in MaybeId /\ files \in [Host -> SUBSET Id]
    OBVIOUS
  <2>6. QED
    BY <1>1, <2>2, <2>3, <2>4, <2>5 DEF TypeOK
<1>3. \A i \in Id : rel[i].status = "absent" /\ rel[i].target = NoId
  OBVIOUS
<1>4. Numbering /\ NoDoubleExecution /\ Working /\ Targeted /\ Deploying
  BY <1>3 DEF Numbering, NoDoubleExecution, Working, WorkerOK, Targeted, Deploying,
     DeployOK, Waiting, RemoteStep
<1>5. Concluded /\ Choices /\ SucceededHasComposeFile /\ RollbackPointSound
      /\ ContainerTraceable
  BY <1>3 DEF Concluded, Choices, SucceededHasComposeFile, RollbackPointSound, ContainerTraceable
<1>6. QED
  BY <1>2, <1>4, <1>5 DEF DeployInv

\* One lemma per conjunct: every step keeps the invariant.
LEMMA StepInv == DeployInv /\ [Next]_vars => DeployInv'
<1> SUFFICES ASSUME DeployInv, [Next]_vars PROVE DeployInv'
  OBVIOUS
<1> USE DEF DeployInv
<1>1. TypeOK'
  BY TypeStep
<1>2. Numbering'
  BY <1>1, NumberingStep
<1>3. NoDoubleExecution'
  BY OwnerStep
<1>4. Working'
  BY WorkingStep
<1>5. Targeted'
  BY <1>4, TargetedStep
<1>6. Deploying'
  BY DeployingStep
<1>7. Concluded'
  BY ConcludedStep
<1>8. SucceededHasComposeFile'
  BY FileStep
<1>9. RollbackPointSound'
  BY <1>1, <1>2, PointStep
<1>10. ContainerTraceable'
  BY ContainerStep
<1>11. Choices'
  BY <1>1, ChoicesStep
<1>12. QED
  BY <1>1, <1>2, <1>3, <1>4, <1>5, <1>6, <1>7, <1>8, <1>9, <1>10, <1>11

\* The inductive invariant of the deployment subsystem.
THEOREM DeployInvariant == Spec => []DeployInv
BY InitInv, StepInv, PTL DEF Spec

\* Type correctness of every reachable state.
THEOREM TypeCorrect == Spec => []TypeOK
<1>1. DeployInv => TypeOK
  BY DEF DeployInv
<1>2. QED
  BY <1>1, DeployInvariant, PTL

\* No release is ever executed by two workers, or twice.
THEOREM ExecutedOnce == Spec => []NoDoubleExecution
<1>1. DeployInv => NoDoubleExecution
  BY DEF DeployInv
<1>2. QED
  BY <1>1, DeployInvariant, PTL

\* Every row that says "succeeded" left the compose file a rollback needs.
THEOREM SuccessCanBeRolledBackTo == Spec => []SucceededHasComposeFile
<1>1. DeployInv => SucceededHasComposeFile
  BY DEF DeployInv
<1>2. QED
  BY <1>1, DeployInvariant, PTL

\* Every rollback names an older deployment of its own project.
THEOREM RollbackPointsAreSound == Spec => []RollbackPointSound
<1>1. DeployInv => RollbackPointSound
  BY DEF DeployInv
<1>2. QED
  BY <1>1, DeployInvariant, PTL

\* Every container of a compose project comes from a release of its project.
THEOREM ContainersAreTraceable == Spec => []ContainerTraceable
<1>1. DeployInv => ContainerTraceable
  BY DEF DeployInv
<1>2. QED
  BY <1>1, DeployInvariant, PTL

-----------------------------------------------------------------------------
(* What runs is what the task started, unless another task crossed it.     *)

\* From the health check on, what the task has started is what runs.
RunningOK(w) ==
  LET i == job[w]
      c == container[host[w]][rel[i].project]
      good == pc[w] \in {"digest", "save"} /\ ~failed[w]
  IN /\ pc[w] = "healthcheck" \/ good =>
          /\ c.release = ComposeId(i)
          /\ rel[i].kind = "deploy" => c.digest = image[host[w]][rel[i].tag]
     /\ good => c.digest \notin Broken
     /\ good /\ pc[w] = "save" /\ rel[i].kind = "deploy" => got[w] = c.digest

Running == \A w \in Worker \ crossed : RunningOK(w)

\* The compose file of a release or of its target is of the same project.
LEMMA ComposeProject ==
  ASSUME DeployInv, NEW w \in Worker, pc[w] # "idle", ComposeId(job[w]) \in Id
  PROVE  rel[ComposeId(job[w])].project = rel[job[w]].project
<1>1. CASE rel[job[w]].kind = "deploy"
  BY <1>1 DEF ComposeId
<1>2. CASE rel[job[w]].kind # "deploy"
  BY <1>2, JobKnown, DeployAssumption DEF ComposeId, DeployInv, RollbackPointSound, Id, NoId
<1> QED BY <1>1, <1>2

\* Another task that starts a container of the project crosses the worker; the
\* images that are there stay, unless their tag is pulled, which crosses it too.
LEMMA HostSteps ==
  ASSUME DeployInv, [Next]_vars, NEW v \in Worker, SameWorker(v), v \notin crossed',
         pc[v] \in {"healthcheck", "digest", "save"}
  PROVE  LET p == rel[job[v]].project
             t == rel[job[v]].tag
         IN /\ v \notin crossed
            /\ container'[host[v]][p] = container[host[v]][p]
            /\ image[host[v]][t] # NoDigest => image'[host[v]][t] = image[host[v]][t]
<1> DEFINE p == rel[job[v]].project
           t == rel[job[v]].tag
           Kept == /\ v \notin crossed
                   /\ container'[host[v]][p] = container[host[v]][p]
                   /\ image[host[v]][t] # NoDigest => image'[host[v]][t] = image[host[v]][t]
<1> USE DEF DeployInv, TypeOK
<1>0. /\ job[v] \in Id /\ rel[job[v]] \in Release /\ host[v] \in Host
      /\ p \in Project /\ t \in Tag
  BY JobKnown DEF Working, WorkerOK, RemoteStep, Release
<1>1. ASSUME NEW h \in Host, NEW i \in Id, ComposeUp(h, i), v \notin crossed,
             host[v] # h \/ p # rel[i].project
      PROVE  Kept
  <2> DEFINE u == rel[i].tag
             d == IF image[h][u] # NoDigest THEN image[h][u] ELSE registry[u]
  <2>1. /\ image' = [image EXCEPT ![h][u] = d]
        /\ container' = [container EXCEPT ![h][rel[i].project] = [release |-> i, digest |-> d]]
        /\ u \in Tag /\ rel[i].project \in Project
    BY <1>1 DEF ComposeUp, Release
  <2>2. image[h][u] # NoDigest => d = image[h][u]
    OBVIOUS
  <2> HIDE DEF p, t, u, d
  <2>3. container'[host[v]][p] = container[host[v]][p]
    BY <1>0, <1>1, <2>1
  <2>4. image[host[v]][t] # NoDigest => image'[host[v]][t] = image[host[v]][t]
    BY <1>0, <2>1, <2>2
  <2> QED BY <1>1, <2>3, <2>4
<1>2. ASSUME NEW w \in Worker, Compose(w) PROVE Kept
  <2>1. w # v /\ pc[w] # "idle" /\ host[w] \in Host /\ ComposeUp(host[w], ComposeId(job[w]))
    BY <1>2 DEF Compose, At, Working, WorkerOK, RemoteStep
  <2>2. ComposeId(job[w]) \in Id
    BY <2>1 DEF ComposeUp
  <2>3. rel[ComposeId(job[w])].project = rel[job[w]].project
    BY <2>1, <2>2, ComposeProject
  <2>4. v \notin crossed /\ (host[v] # host[w] \/ p # rel[job[w]].project)
    BY <1>2, <2>1 DEF Compose, Serving
  <2> QED BY <1>1, <2>1, <2>2, <2>3, <2>4
<1>3. ASSUME NEW o \in Host \X Id, OrphanLands(o) PROVE Kept
  <2>1. o[1] \in Host /\ o[2] \in Id /\ ComposeUp(o[1], o[2])
    BY <1>3 DEF OrphanLands
  <2>2. v \notin crossed /\ (host[v] # o[1] \/ p # rel[o[2]].project)
    BY <1>3 DEF OrphanLands, Serving
  <2> QED BY <1>1, <2>1, <2>2
<1>4. ASSUME NEW w \in Worker, Pull(w) PROVE Kept
  <2>1. /\ image' = [image EXCEPT ![host[w]][rel[job[w]].tag] = registry[rel[job[w]].tag]]
        /\ container' = container
    BY <1>4 DEF Pull
  <2>2. v \notin crossed /\ (host[v] # host[w] \/ t # rel[job[w]].tag)
    BY <1>4 DEF Pull, Serving
  <2>3. host[w] \in Host /\ rel[job[w]].tag \in Tag
    BY <1>4, JobKnown DEF Pull, At, Working, WorkerOK, RemoteStep, Release
  <2> HIDE DEF p, t
  <2>4. image'[host[v]][t] = image[host[v]][t]
    BY <1>0, <2>1, <2>2, <2>3
  <2> QED BY <2>1, <2>2, <2>4
<1>5. ASSUME UNCHANGED <<image, container, crossed>> PROVE Kept
  BY <1>5
<1>6. \/ UNCHANGED <<image, container, crossed>>
      \/ \E w \in Worker : Compose(w) \/ Pull(w)
      \/ \E o \in Host \X Id : OrphanLands(o)
  BY DEF Next, Api, WorkerStep, Environment, vars, hostVars, CreateRelease,
     ChoosePoint, RequestRollback, Delay, DelayFails, Take, Begin, Load, Up, Healthcheck,
     StepFails, StepLingers, ImageDigest, Save, Return, Raise, Rescue, RescueFails, Kill, Push,
     Retarget
<1> HIDE DEF Kept
<1>7. Kept
  BY <1>2, <1>3, <1>4, <1>5, <1>6
<1> QED BY <1>7 DEF Kept

\* So a worker that is not moved and not crossed keeps what it has started.
LEMMA RunningKept ==
  ASSUME DeployInv, Running, [Next]_vars, NEW v \in Worker, SameWorker(v), v \notin crossed'
  PROVE  RunningOK(v)'
<1> USE DEF DeployInv
<1>1. CASE pc[v] \notin {"healthcheck", "digest", "save"}
  BY <1>1 DEF SameWorker, RunningOK
<1>2. CASE pc[v] \in {"healthcheck", "digest", "save"}
  <2> DEFINE i == job[v]
             c == container[host[v]][rel[i].project]
  <2>1. /\ rel'[i] = rel[i] /\ i \in Id /\ rel[i] \in Release /\ host[v] \in Host
    BY <1>2, JobRowStays, JobKnown DEF Working, WorkerOK, RemoteStep
  <2>2. /\ v \notin crossed /\ c' = c
        /\ image[host[v]][rel[i].tag] # NoDigest =>
             image'[host[v]][rel[i].tag] = image[host[v]][rel[i].tag]
    BY <1>2, <2>1, HostSteps DEF SameWorker
  <2>3. RunningOK(v)
    BY <2>2 DEF Running
  <2>4. ComposeId(i)' = ComposeId(i) /\ ComposeId(i) # NoId
    BY <1>2, <2>1 DEF SameWorker, ComposeId, Targeted, Release, Kind, Id, NoId
  <2>5. c.release # NoId => c.digest # NoDigest
    BY <2>1 DEF ContainerTraceable, Release
  <2> QED BY <1>2, <2>1, <2>2, <2>3, <2>4, <2>5 DEF RunningOK, SameWorker
<1> QED BY <1>1, <1>2

\* The command that starts a container starts that of the task.
LEMMA ComposeRuns ==
  ASSUME DeployInv, NEW w \in Worker, Compose(w)
  PROVE  RunningOK(w)'
<1> USE DEF DeployInv, TypeOK
<1>1. /\ job[w] \in Id /\ rel[job[w]] \in Release /\ host[w] \in Host /\ pc[w] # "idle"
      /\ rel' = rel /\ job' = job /\ host' = host /\ pc'[w] = "healthcheck"
  BY JobKnown DEF Compose, At, Go, dbVars, Working, WorkerOK, RemoteStep
<1> DEFINE n == ComposeId(job[w])
           t == rel[n].tag
           d == IF image[host[w]][t] # NoDigest THEN image[host[w]][t] ELSE registry[t]
<1>2. /\ n \in files[host[w]]
      /\ image' = [image EXCEPT ![host[w]][t] = d]
      /\ container' = [container EXCEPT ![host[w]][rel[n].project] = [release |-> n, digest |-> d]]
  BY DEF Compose, ComposeUp
<1>3. n \in Id /\ rel[n] \in Release
  BY <1>1, <1>2
<1>4. rel[n].project = rel[job[w]].project
  BY <1>1, <1>3, ComposeProject
<1>5. rel[job[w]].kind = "deploy" => n = job[w]
  BY DEF ComposeId
<1>6. ComposeId(job[w])' = n
  BY <1>1 DEF ComposeId
<1>7. t \in Tag /\ rel[n].project \in Project
  BY <1>3 DEF Release
<1> HIDE DEF n, t, d
<1>8. container'[host[w]][rel[job[w]].project] = [release |-> n, digest |-> d]
  BY <1>1, <1>2, <1>4, <1>7
<1>9. rel[job[w]].kind = "deploy" => image'[host[w]][rel[job[w]].tag] = d
  BY <1>1, <1>2, <1>5, <1>7 DEF t
<1>10. rel'[job'[w]] = rel[job[w]] /\ host'[w] = host[w]
  BY <1>1
<1> QED BY <1>1, <1>6, <1>8, <1>9, <1>10 DEF RunningOK

\* What a worker starts, checks and records is what runs while nobody crosses it.
LEMMA RunningStep ==
  ASSUME DeployInv, Running, [Next]_vars
  PROVE  Running'
<1> USE DEF DeployInv, TypeOK, Go, At
<1>1. ASSUME NEW w \in Worker, WorkerStep(w) \/ Kill(w), w \notin crossed' PROVE RunningOK(w)'
  <2>1. ASSUME NEW i \in Id, Take(w, i) PROVE RunningOK(w)'
    BY <2>1 DEF Take, RunningOK
  <2>2. CASE Begin(w) \/ Load(w) \/ Pull(w) \/ Up(w) \/ Save(w) \/ Return(w) \/ Raise(w)
             \/ Rescue(w) \/ RescueFails(w) \/ Kill(w)
    <3>1. pc'[w] \in {"load", "pull", "rollback", "up", "compose", "return", "idle", "rescue"}
      BY <2>2 DEF Begin, Load, Pull, Up, Save, Return, Raise, Rescue, RescueFails, Kill, Idle
    <3> QED BY <3>1 DEF RunningOK
  <2>3. CASE StepFails(w) \/ StepLingers(w)
    <3>1. failed'[w] /\ pc'[w] \in {"digest", "save"}
      BY <2>3 DEF StepFails, StepLingers, AfterSteps
    <3> QED BY <3>1 DEF RunningOK
  <2>4. CASE Compose(w)
    BY <2>4, ComposeRuns
  <2>5. CASE Healthcheck(w)
    <3>1. /\ rel' = rel /\ job' = job /\ host' = host /\ container' = container
          /\ image' = image /\ pc[w] = "healthcheck" /\ pc'[w] = AfterSteps(w)
          /\ container[host[w]][rel[job[w]].project].digest \notin Broken /\ crossed' = crossed
      BY <2>5 DEF Healthcheck, dbVars, hostVars
    <3>2. RunningOK(w)
      BY <1>1, <3>1 DEF Running
    <3> QED BY <3>1, <3>2 DEF RunningOK, ComposeId, AfterSteps
  <2>6. CASE ImageDigest(w)
    <3>1. /\ rel' = rel /\ job' = job /\ host' = host /\ container' = container
          /\ image' = image /\ failed' = failed /\ pc[w] = "digest" /\ pc'[w] = "save"
          /\ got'[w] = image[host[w]][rel[job[w]].tag] /\ crossed' = crossed
      BY <2>6 DEF ImageDigest, dbVars, hostVars
    <3>2. RunningOK(w)
      BY <1>1, <3>1 DEF Running
    <3> QED BY <3>1, <3>2 DEF RunningOK, ComposeId
  <2> QED BY <1>1, <2>1, <2>2, <2>3, <2>4, <2>5, <2>6 DEF WorkerStep
<1>2. \A w \in Worker : w \notin crossed' => RunningOK(w)'
  BY <1>1, RunningKept, OneWorkerActs
<1> QED BY <1>2 DEF Running

\* For any number of workers, and whatever lingering commands, moving tags and
\* dying workers do: a task that is about to save a success has what it deployed
\* running, healthy and with the digest it records, unless another task started
\* a container of the project, or pulled the tag, since it started its own.
THEOREM SuccessIsRunning == Spec => []SavedSuccessIsRunning
<1>1. Init => Running
  BY DEF Init, Running, RunningOK
<1>2. DeployInv /\ Running /\ [Next]_vars => Running'
  BY RunningStep
<1>3. Running => SavedSuccessIsRunning
  BY DEF Running, RunningOK, SavedSuccessIsRunning
<1> QED BY <1>1, <1>2, <1>3, DeployInvariant, PTL DEF Spec
=============================================================================
