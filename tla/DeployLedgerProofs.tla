------------------------- MODULE DeployLedgerProofs -------------------------
(***************************************************************************)
(* The deployment subsystem implements ReleaseLedger, proved for any       *)
(* number of projects, hosts, tags, workers and releases and every fault   *)
(* that is modelled.                                                       *)
(*                                                                         *)
(* DeployInv says nothing of a row's status while its task is executed.    *)
(* Staged adds that: the status follows the steps of the task, as no other *)
(* task writes the row, and no row between 1 and lastId is absent.         *)
(***************************************************************************)
EXTENDS DeployReleaseProofs

\* The status of the row a worker executes, at each step before the last commit.
StageOK(w) ==
  /\ pc[w] = "begin" => rel[job[w]].status = "requested"
  /\ pc[w] \in RemoteStep \cup {"load", "digest", "save"} => rel[job[w]].status = "running"

Staged == /\ \A i \in Id : i <= lastId => rel[i].status # "absent"
          /\ \A w \in Worker : StageOK(w)

-----------------------------------------------------------------------------
(* The status of a row follows its task.                                   *)

\* A row that was inserted is never absent again.
LEMMA PresentStep ==
  ASSUME TypeOK, Staged, [Next]_vars, NEW i \in Id, i <= lastId'
  PROVE  rel'[i].status # "absent"
<1> USE DeployAssumption DEF TypeOK, Id, MaybeId
<1>1. CASE \E p \in Project, t \in Tag : CreateRelease(p, t)
  BY <1>1 DEF CreateRelease, Staged
<1>2. CASE \E j, point \in Id : RequestRollback(j, point)
  BY <1>2 DEF RequestRollback, Staged
<1>3. ASSUME NEW w \in Worker, Begin(w) \/ Save(w) \/ Rescue(w)
      PROVE  rel'[i].status # "absent"
  <2>1. rel[i] \in Release /\ lastId' = lastId /\ rel[i].status # "absent"
    BY <1>3 DEF Begin, Save, Rescue, Staged
  <2>2. CASE Begin(w)
    BY <2>1, <2>2 DEF Begin, Release
  <2>3. CASE Save(w)
    BY <2>1, <2>3 DEF Save, Release, Success, Failure
  <2>4. CASE Rescue(w)
    BY <2>1, <2>4 DEF Rescue, Release, Failure
  <2> QED BY <1>3, <2>2, <2>3, <2>4
<1>4. CASE UNCHANGED dbVars
  BY <1>4 DEF dbVars, Staged
<1> QED BY <1>1, <1>2, <1>3, <1>4, TableSteps

\* The status follows the steps of the task.
LEMMA StagedStep ==
  ASSUME DeployInv, Staged, [Next]_vars
  PROVE  Staged'
<1> USE DEF DeployInv
<1>1. ASSUME NEW v \in Worker, SameWorker(v) PROVE StageOK(v)'
  <2>1. CASE pc[v] = "idle"
    BY <1>1, <2>1 DEF SameWorker, StageOK, RemoteStep
  <2>2. CASE pc[v] # "idle"
    BY <1>1, <2>2, JobRowStays DEF SameWorker, StageOK, Staged
  <2> QED BY <2>1, <2>2
<1>2. ASSUME NEW w \in Worker, WorkerStep(w) \/ Kill(w) PROVE StageOK(w)'
  <2> USE DEF TypeOK, Go, At, RemoteStep
  <2>1. ASSUME NEW i \in Id, Take(w, i) PROVE StageOK(w)'
    BY <2>1 DEF Take, StageOK, NoDoubleExecution, dbVars
  <2>2. CASE Begin(w)
    <3>1. job[w] \in Id /\ rel[job[w]] \in Release
      BY <2>2, JobKnown DEF Begin
    <3>2. rel'[job[w]].status = "running" /\ job'[w] = job[w] /\ pc'[w] = "load"
      BY <2>2, <3>1 DEF Begin, Release
    <3> QED BY <3>2 DEF StageOK
  <2>3. CASE Load(w) \/ Pull(w) \/ Up(w) \/ Compose(w)
    <3>1. /\ rel' = rel /\ job'[w] = job[w] /\ pc'[w] \in RemoteStep
          /\ pc[w] \in RemoteStep \cup {"load"}
      BY <2>3 DEF Load, Pull, Up, Compose, dbVars
    <3> QED BY <3>1 DEF StageOK, Staged
  <2>4. CASE Healthcheck(w) \/ StepFails(w) \/ StepLingers(w) \/ ImageDigest(w)
    <3>1. /\ rel' = rel /\ job'[w] = job[w] /\ pc'[w] \in {"digest", "save"}
          /\ pc[w] \in RemoteStep \cup {"digest"}
      BY <2>4 DEF Healthcheck, StepFails, StepLingers, ImageDigest, AfterSteps, dbVars
    <3> QED BY <3>1 DEF StageOK, Staged
  <2>5. CASE Save(w) \/ Return(w) \/ Raise(w) \/ Rescue(w) \/ RescueFails(w) \/ Kill(w)
    <3>1. pc'[w] \in {"idle", "return", "rescue"}
      BY <2>5 DEF Save, Return, Raise, Rescue, RescueFails, Kill, Idle
    <3> QED BY <3>1 DEF StageOK
  <2> QED BY <1>2, <2>1, <2>2, <2>3, <2>4, <2>5 DEF WorkerStep
<1>3. \A w \in Worker : StageOK(w)'
  BY <1>1, <1>2, OneWorkerActs
<1> QED BY <1>3, PresentStep DEF Staged

-----------------------------------------------------------------------------
(* What readers see of the table and of the workers.                       *)

View(r) == [status |-> r.status, kind |-> r.kind, project |-> r.project, point |-> r.target]
Row     == [i \in Id |-> View(rel[i])]
Open    == {job[w] : w \in {v \in Worker : job[v] # NoId}}

\* A write of one row is a write of what readers see of it.
LEMMA RowSeen ==
  ASSUME TypeOK, NEW i \in Id, NEW r, rel' = [rel EXCEPT ![i] = r]
  PROVE  Row' = [Row EXCEPT ![i] = View(r)] /\ Row[i] = View(rel[i])
<1>1. rel'[i] = r /\ \A j \in Id \ {i} : rel'[j] = rel[j]
  BY DEF TypeOK
<1>2. DOMAIN Row = Id /\ \A j \in Id : Row[j] = View(rel[j])
  BY DEF Row
<1>3. Row' = [j \in Id |-> View(rel'[j])]
  BY DEF Row
<1> DEFINE x == View(r)
<1>4. \A j \in Id : View(rel'[j]) = IF j = i THEN x ELSE Row[j]
  BY <1>1, <1>2
<1>5. Row' = [j \in Id |-> IF j = i THEN x ELSE Row[j]]
  BY <1>3, <1>4
<1> HIDE DEF x
<1>6. Row' = [Row EXCEPT ![i] = x]
  BY <1>2, <1>5
<1> QED BY <1>2, <1>6 DEF x

\* Taking a message opens its release, ...
LEMMA OpenAdded ==
  ASSUME TypeOK, Working, NEW w \in Worker, NEW i \in Id, Take(w, i)
  PROVE  Open' = Open \cup {i}
<1>1. job[w] = NoId /\ i # NoId
  BY DEF Take, At, Working, WorkerOK, Id, NoId
<1>2. job'[w] = i /\ \A v \in Worker \ {w} : job'[v] = job[v]
  BY DEF Take, TypeOK
<1> QED BY <1>1, <1>2 DEF Open

\* ... and the end of a task closes it.
LEMMA OpenRemoved ==
  ASSUME TypeOK, Working, NoDoubleExecution, NEW w \in Worker, pc[w] # "idle", Idle(w)
  PROVE  job[w] \in Open /\ Open' = Open \ {job[w]}
<1>1. job[w] # NoId /\ \A v \in Worker : job[v] = job[w] => v = w
  BY DEF Working, WorkerOK, NoDoubleExecution
<1>2. job'[w] = NoId /\ \A v \in Worker \ {w} : job'[v] = job[v]
  BY DEF Idle, TypeOK
<1> QED BY <1>1, <1>2 DEF Open

-----------------------------------------------------------------------------
(* Every step is a step of the ledger, or invisible to its readers.        *)

\* The next id is free.
LEMMA NextIsFree ==
  ASSUME DeployInv, Staged, lastId < MaxRelease
  PROVE  lastId + 1 \in Id /\ Ledger!NextFree(lastId + 1)
<1> USE DeployAssumption DEF DeployInv, TypeOK, Id, MaybeId, NoId
<1>1. lastId + 1 \in Id /\ rel[lastId + 1].status = "absent"
  BY DEF Numbering
<1>2. \A j \in Id : j < lastId + 1 => rel[j].status # "absent"
  BY DEF Staged
<1> QED BY <1>1, <1>2 DEF Ledger!NextFree, Ledger!Id

\* Requests are requests: the row of a deployment, ...
LEMMA CreateRefines ==
  ASSUME DeployInv, Staged, NEW p \in Project, NEW t \in Tag, CreateRelease(p, t)
  PROVE  Ledger!LedgerNext
<1> DEFINE n == lastId + 1
           r == [status |-> "requested", kind |-> "deploy", project |-> p, tag |-> t,
                 target |-> NoId, undoes |-> NoId, digest |-> NoDigest]
<1>1. n \in Id /\ Ledger!NextFree(n) /\ rel' = [rel EXCEPT ![n] = r]
      /\ UNCHANGED <<job, chosen>>
  BY NextIsFree DEF CreateRelease, workerVars
<1>2. View(r) = [status |-> "requested", kind |-> "deploy", project |-> p, point |-> 0]
  BY DEF View, NoId
<1> HIDE DEF n, r
<1>3. Row' = [Row EXCEPT ![n] = View(r)]
  BY <1>1, RowSeen DEF DeployInv
<1>4. Open' = Open
  BY <1>1 DEF Open
<1>5. Ledger!Request(n, p)
  BY <1>1, <1>2, <1>3, <1>4 DEF Ledger!Request, Row, Open, View
<1> QED BY <1>1, <1>5 DEF Ledger!LedgerNext, Ledger!Id, Id

\* ... the point of a rollback, the newest success there is when it is asked ...
LEMMA ChooseRefines ==
  ASSUME NEW i \in Id, ChoosePoint(i)
  PROVE  Ledger!LedgerNext
<1>1. PICK point \in ValidPoints(i) :
        /\ \A j \in ValidPoints(i) : j <= point
        /\ chosen' = chosen \cup {<<i, point>>}
  BY DEF ChoosePoint
<1>2. \A j \in Id : Ledger!IsPoint(j, i) <=> j \in ValidPoints(i)
  BY DEF Ledger!IsPoint, ValidPoints
<1>3. point \in Id /\ Ledger!IsPoint(point, i) /\ \A s \in Id : Ledger!IsPoint(s, i) => s <= point
  BY <1>1, <1>2 DEF ValidPoints
<1>4. Row' = Row /\ Open' = Open
  BY DEF ChoosePoint, dbVars, workerVars, Row, Open
<1>5. Ledger!Choose(i, point)
  BY <1>1, <1>3, <1>4 DEF Ledger!Choose, Ledger!Id, Id, Row, Open, View
<1> QED BY <1>3, <1>5 DEF Ledger!LedgerNext, Ledger!Id, Id

\* ... and the row of the rollback.
LEMMA UndoRefines ==
  ASSUME DeployInv, Staged, NEW i \in Id, NEW point \in Id, RequestRollback(i, point)
  PROVE  Ledger!LedgerNext
<1> DEFINE n == lastId + 1
           r == [status |-> "requested", kind |-> "rollback",
                 project |-> rel[i].project, tag |-> rel[point].tag,
                 target |-> point, undoes |-> i, digest |-> NoDigest]
<1>1. /\ n \in Id /\ Ledger!NextFree(n) /\ UNCHANGED job /\ rel' = [rel EXCEPT ![n] = r]
      /\ <<i, point>> \in chosen /\ chosen' = chosen
  BY NextIsFree DEF RequestRollback, workerVars
<1>2. i < n
  BY <1>1, DeployAssumption DEF DeployInv, Choices, PointOK, TypeOK, MaybeId, Id
<1>3. View(r) = [status |-> "requested", kind |-> "rollback", project |-> rel[i].project,
                 point |-> point]
  BY DEF View
<1> HIDE DEF n, r
<1>4. Row' = [Row EXCEPT ![n] = View(r)]
  BY <1>1, RowSeen DEF DeployInv
<1>5. Open' = Open
  BY <1>1 DEF Open
<1>6. Ledger!RequestUndo(n, i, point)
  BY <1>1, <1>2, <1>3, <1>4, <1>5 DEF Ledger!RequestUndo, Row, Open, View
<1> QED BY <1>1, <1>6 DEF Ledger!LedgerNext, Ledger!Id, Id

\* A task takes a release, ...
LEMMA TakeRefines ==
  ASSUME DeployInv, NEW w \in Worker, NEW i \in Id, Take(w, i)
  PROVE  Ledger!LedgerNext
<1>1. Open' = Open \cup {i}
  BY OpenAdded DEF DeployInv
<1>2. Row' = Row /\ rel[i].status = "requested" /\ chosen' = chosen
  BY DEF Take, dbVars, Row, DeployInv, NoDoubleExecution
<1>3. Ledger!Take(i)
  BY <1>1, <1>2 DEF Ledger!Take, Row, Open, View
<1> QED BY <1>3 DEF Ledger!LedgerNext, Ledger!Id, Id

\* What the ledger asks of an open release, in terms of what readers see.
LEMMA OpenSteps ==
  ASSUME NEW i \in Id, i \in Open, UNCHANGED chosen
  PROVE  /\ UNCHANGED Row /\ Open' = Open \ {i} => Ledger!Leave(i)
         /\ Row[i].status = "requested" /\ Row' = [Row EXCEPT ![i].status = "running"]
            /\ UNCHANGED Open => Ledger!Begin(i)
         /\ Row[i].status = "running"
            /\ (\E s \in {Ledger!Success(Row[i].kind), Ledger!Failure(Row[i].kind)} :
                  Row' = [Row EXCEPT ![i].status = s])
            /\ UNCHANGED Open => Ledger!Conclude(i)
         /\ Row' = [Row EXCEPT ![i].status = Ledger!Failure(Row[i].kind), ![i].point = 0]
            /\ Open' = Open \ {i} => Ledger!Interrupt(i)
<1>1. UNCHANGED Row /\ Open' = Open \ {i} => Ledger!Leave(i)
  BY DEF Ledger!Leave, Row, Open, View
<1>2. Row[i].status = "requested" /\ Row' = [Row EXCEPT ![i].status = "running"]
      /\ UNCHANGED Open => Ledger!Begin(i)
  BY DEF Ledger!Begin, Row, Open, View
<1>3. /\ Row[i].status = "running"
      /\ \E s \in {Ledger!Success(Row[i].kind), Ledger!Failure(Row[i].kind)} :
           Row' = [Row EXCEPT ![i].status = s]
      /\ UNCHANGED Open
      => Ledger!Conclude(i)
  BY DEF Ledger!Conclude, Row, Open, View
<1>4. Row' = [Row EXCEPT ![i].status = Ledger!Failure(Row[i].kind), ![i].point = 0]
      /\ Open' = Open \ {i} => Ledger!Interrupt(i)
  BY DEF Ledger!Interrupt, Row, Open, View
<1> QED BY <1>1, <1>2, <1>3, <1>4

\* The release of a worker is open.
LEMMA JobIsOpen ==
  ASSUME DeployInv, NEW w \in Worker, pc[w] # "idle"
  PROVE  job[w] \in Id /\ job[w] \in Open /\ rel[job[w]] \in Release
BY JobKnown DEF DeployInv, Working, WorkerOK, Open

\* ... says that it runs, ...
LEMMA BeginRefines ==
  ASSUME DeployInv, Staged, NEW w \in Worker, Begin(w)
  PROVE  Ledger!LedgerNext
<1>0. PICK i \in Id : i = job[w]
  BY JobIsOpen DEF Begin, At
<1> DEFINE r == [rel[i] EXCEPT !.status = "running"]
<1>1. i \in Id /\ i \in Open /\ rel[i] \in Release /\ rel[i].status = "requested"
  BY <1>0, JobIsOpen DEF Begin, At, Staged, StageOK
<1>2. rel' = [rel EXCEPT ![i] = r] /\ Open' = Open /\ UNCHANGED chosen
  BY <1>0, <1>1 DEF Begin, Open, callVars
<1>3. View(r) = [View(rel[i]) EXCEPT !.status = "running"]
  BY <1>1 DEF View, Release
<1> HIDE DEF r
<1>4. Row' = [Row EXCEPT ![i] = View(r)] /\ Row[i] = View(rel[i])
  BY <1>1, <1>2, RowSeen DEF DeployInv
<1>5. Row' = [Row EXCEPT ![i].status = "running"]
  BY <1>3, <1>4
<1>6. Row[i].status = "requested"
  BY <1>1, <1>4 DEF View
<1>7. Ledger!Begin(i)
  BY <1>1, <1>2, <1>5, <1>6, OpenSteps
<1> QED BY <1>1, <1>7 DEF Ledger!LedgerNext, Ledger!Id, Id

\* ... and concludes it.
LEMMA SaveRefines ==
  ASSUME DeployInv, Staged, NEW w \in Worker, Save(w)
  PROVE  Ledger!LedgerNext
<1>0. PICK i \in Id : i = job[w]
  BY JobIsOpen DEF Save, At
<1> DEFINE s == IF failed[w] THEN Failure(i) ELSE Success(i)
           d == IF failed[w] THEN NoDigest ELSE got[w]
           r == [rel[i] EXCEPT !.status = s, !.digest = d]
<1>1. i \in Id /\ i \in Open /\ rel[i] \in Release /\ rel[i].status = "running"
  BY <1>0, JobIsOpen DEF Save, At, Staged, StageOK
<1>2. rel' = [rel EXCEPT ![i] = r] /\ Open' = Open /\ UNCHANGED chosen
  BY <1>0, <1>1 DEF Save, Open, callVars
<1>3. s \in {Ledger!Success(rel[i].kind), Ledger!Failure(rel[i].kind)}
  BY DEF Ledger!Success, Ledger!Failure, Success, Failure
<1> HIDE DEF s, d
<1>4. View(r) = [View(rel[i]) EXCEPT !.status = s]
  BY <1>1 DEF View, Release
<1> HIDE DEF r
<1>5. Row' = [Row EXCEPT ![i] = View(r)] /\ Row[i] = View(rel[i])
  BY <1>1, <1>2, RowSeen DEF DeployInv
<1>6. Row' = [Row EXCEPT ![i].status = s]
  BY <1>4, <1>5
<1>7. Row[i].status = "running" /\ Row[i].kind = rel[i].kind
  BY <1>1, <1>5 DEF View
<1>8. Ledger!Conclude(i)
  BY <1>1, <1>2, <1>3, <1>6, <1>7, OpenSteps
<1> QED BY <1>1, <1>8 DEF Ledger!LedgerNext, Ledger!Id, Id

\* The error handler interrupts it, ...
LEMMA RescueRefines ==
  ASSUME DeployInv, NEW w \in Worker, Rescue(w)
  PROVE  Ledger!LedgerNext
<1>0. PICK i \in Id : i = job[w]
  BY JobIsOpen DEF Rescue, At
<1> DEFINE s == Failure(i)
           r == [rel[i] EXCEPT !.status = s, !.target = NoId, !.undoes = NoId]
<1>1. i \in Id /\ i \in Open /\ rel[i] \in Release
  BY <1>0, JobIsOpen DEF Rescue, At
<1>2. rel' = [rel EXCEPT ![i] = r] /\ UNCHANGED chosen
  BY <1>0, <1>1 DEF Rescue, callVars
<1>3. Open' = Open \ {i}
  BY <1>0, OpenRemoved DEF Rescue, At, DeployInv
<1>4. s = Ledger!Failure(rel[i].kind)
  BY DEF Ledger!Failure, Failure
<1> HIDE DEF s
<1>5. View(r) = [View(rel[i]) EXCEPT !.status = s, !.point = 0]
  <2>1. r.status = s /\ r.target = 0 /\ r.kind = rel[i].kind /\ r.project = rel[i].project
    BY <1>1 DEF Release, NoId
  <2> HIDE DEF r
  <2>2. View(r) = [status |-> s, kind |-> rel[i].kind, project |-> rel[i].project, point |-> 0]
    BY <2>1 DEF View
  <2> DEFINE y == [View(rel[i]) EXCEPT !.status = s, !.point = 0]
  <2>3. y.status = s /\ y.kind = rel[i].kind /\ y.project = rel[i].project /\ y.point = 0
    BY DEF View
  <2>4. y \in [status : {y.status}, kind : {y.kind}, project : {y.project}, point : {y.point}]
    BY DEF View
  <2> HIDE DEF y
  <2>5. y = [status |-> s, kind |-> rel[i].kind, project |-> rel[i].project, point |-> 0]
    BY <2>3, <2>4
  <2> QED BY <2>2, <2>5 DEF y
<1> HIDE DEF r
<1>6. Row' = [Row EXCEPT ![i] = View(r)] /\ Row[i] = View(rel[i])
  BY <1>1, <1>2, RowSeen DEF DeployInv
<1>7. Row' = [Row EXCEPT ![i].status = s, ![i].point = 0]
  <2>1. DOMAIN Row = Id
    BY DEF Row
  <2> QED BY <1>1, <1>5, <1>6, <2>1
<1>8. s = Ledger!Failure(Row[i].kind)
  <2>1. Row[i].kind = rel[i].kind
    BY <1>6 DEF View
  <2> QED BY <1>4, <2>1
<1>9. Ledger!Interrupt(i)
  BY <1>1, <1>2, <1>3, <1>7, <1>8, OpenSteps
<1> QED BY <1>1, <1>9 DEF Ledger!LedgerNext, Ledger!Id, Id

\* ... and any other end leaves the row as it is.
LEMMA LeaveRefines ==
  ASSUME DeployInv, NEW w \in Worker, Return(w) \/ RescueFails(w) \/ Kill(w)
  PROVE  Ledger!LedgerNext
<1>1. pc[w] # "idle" /\ Idle(w) /\ Row' = Row /\ UNCHANGED chosen
  BY DEF Return, RescueFails, Kill, At, dbVars, callVars, Row
<1>2. job[w] \in Id /\ job[w] \in Open /\ Open' = Open \ {job[w]}
  BY <1>1, JobIsOpen, OpenRemoved DEF DeployInv
<1>3. PICK i \in Id : i = job[w]
  BY <1>2
<1>4. Ledger!Leave(i)
  BY <1>1, <1>2, <1>3, OpenSteps
<1> QED BY <1>4 DEF Ledger!LedgerNext, Ledger!Id, Id

\* So is every step.
LEMMA StepRefines ==
  DeployInv /\ Staged /\ [Next]_vars => [Ledger!LedgerNext]_(Ledger!ledgerVars)
<1> SUFFICES ASSUME DeployInv, Staged, [Next]_vars
             PROVE  Ledger!LedgerNext \/ UNCHANGED Ledger!ledgerVars
  OBVIOUS
<1>1. CASE UNCHANGED <<rel, job, chosen>>
  BY <1>1 DEF Ledger!ledgerVars
<1>2. CASE ~UNCHANGED <<rel, job, chosen>>
  <2>1. \/ \E p \in Project, t \in Tag : CreateRelease(p, t)
        \/ \E i \in Id : ChoosePoint(i)
        \/ \E i, point \in Id : RequestRollback(i, point)
        \/ \E w \in Worker : \/ \E i \in Id : Take(w, i)
                            \/ Begin(w) \/ Save(w) \/ Rescue(w)
                            \/ Return(w) \/ RescueFails(w) \/ Kill(w)
    BY <1>2 DEF Next, Api, WorkerStep, Environment, vars, dbVars, callVars, workerVars, Delay, DelayFails,
       Load, Pull, Up, Compose, Healthcheck, StepFails, StepLingers, ImageDigest, Raise,
       OrphanLands, Push, Retarget
  <2> QED BY <2>1, CreateRefines, ChooseRefines, UndoRefines, TakeRefines, BeginRefines, SaveRefines,
             RescueRefines, LeaveRefines
<1> QED BY <1>1, <1>2

\* Deployment is what ReleaseLedger says to the readers of its table: rows are
\* numbered as they are requested, executed once and then concluded, a rollback
\* goes to the newest success before the release it undoes, and only the error
\* handler takes a success back, however requests, workers and faults interleave.
THEOREM DeploymentRefinesLedger == Spec => RefinesLedger
<1>1. Init => Staged
  BY DeployAssumption DEF Init, Staged, StageOK, RemoteStep, Id
<1>2. Init => Ledger!LedgerInit
  <2> SUFFICES ASSUME Init PROVE Ledger!LedgerInit
    OBVIOUS
  <2>1. rel \in [Id -> Release] /\ Open = {} /\ chosen = {}
    BY InitInv DEF DeployInv, TypeOK, Init, Open
  <2>2. \A i \in Id : rel[i].status = "absent" /\ rel[i].target = 0
    BY DEF Init, NoId
  <2>3. \A i \in Id : View(rel[i]) \in Ledger!LedgerRow
    BY <2>1 DEF View, Release, Status, Kind, MaybeId, Ledger!LedgerRow, Ledger!Status, Ledger!Kind,
       Ledger!Won, Ledger!Lost
  <2>4. Row \in [Ledger!Id -> Ledger!LedgerRow]
    BY <2>3 DEF Row, Ledger!Id, Id
  <2>5. \A i \in Id : Row[i].status = "absent" /\ Row[i].point = 0
    BY <2>2 DEF Row, View
  <2> QED BY <2>1, <2>4, <2>5 DEF Ledger!LedgerInit, Ledger!LedgerType, Ledger!Id, Id, Row, Open, View
<1>3. DeployInv /\ Staged /\ [Next]_vars => Staged'
  BY StagedStep
<1> QED BY <1>1, <1>2, <1>3, StepRefines, DeployInvariant, PTL
        DEF Spec, RefinesLedger, Ledger!LedgerSpec
=============================================================================
