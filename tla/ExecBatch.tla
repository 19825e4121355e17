------------------------------ MODULE ExecBatch ------------------------------
(***************************************************************************)
(* Controlled batch execution: the handlers batch_exec and retry_failed    *)
(* (api/v1/exec_task.py), which run in the API's thread pool, and the      *)
(* Celery task exec_host_result with its aggregation (tasks/exec_tasks.py).*)
(*                                                                         *)
(* The sessions do not lock.  SQLAlchemy's UPDATE names only the columns   *)
(* that differ from what the session read, so an UPDATE is a function from *)
(* those columns to values: see Changed.                                   *)
(***************************************************************************)
EXTENDS Integers, Sequences, FiniteSets, Bags

CONSTANTS
  Handler,     \* threads of the API that serve requests
  Worker,      \* celery worker processes
  Asset,       \* servers
  Batches,     \* the asset_ids of the requests: sequences of assets
  Key,         \* idempotency keys, each with the user that sends it; NoKey too
  PassTwice,   \* TRUE, as in the code: the dispatch passes the ids by position and by
               \* name.  FALSE: it does not, so that the tasks can be checked
  MaxRecord,   \* bound: rows of exec_record
  MaxRetry,    \* bound: retry requests of a batch of one host, one less per further host
  Events       \* what the environment does: see EventKinds

EventKinds == {"broker",  \* publishing a message raises
               "crash",   \* the API process restarts in the middle of a request
               "kill",    \* a worker process dies (time_limit, OOM, restart)
               "delete"}  \* somebody deletes an asset

ASSUME ExecAssumption ==
  /\ Batches \subseteq Seq(Asset) \ {<<>>}
  /\ PassTwice \in BOOLEAN
  /\ MaxRecord \in Nat /\ MaxRetry \in Nat
  /\ Events \subseteq EventKinds

Id      == 1 .. MaxRecord
NoId    == 0
NoKey   == "none"   \* an empty key: no look-up
NoAsset == "none"
Message == [record : Id, asset : Asset]

VARIABLES
  record,   \* exec_record: its columns per id
  lastId,   \* its auto-increment counter
  row,      \* exec_host_result: per record id, its rows in the order of theirs
  assets,   \* server_asset: the assets that exist
  queue,    \* the bag of task messages in the broker
  retries,  \* number of retry requests so far
  call,     \* per handler: where its request is, and its variables
  task,     \* per worker: where its task is, and its variables
  lost,     \* history: the records that lost a message, request, task or asset
  stale,    \* history: the records of which a retry requeued hosts that had not,
            \* or no longer, failed when it committed
  undone    \* history: the records of which a committed success was taken back

history == <<lost, stale, undone>>
vars == <<record, lastId, row, assets, queue, retries, call, task, history>>

RowStatus == {"queued", "running", "succeeded", "failed", "timed_out"}
Status    == {"absent", "running", "done", "partial"}
Row       == [asset : Asset, status : RowStatus]
Record    == [key : Key \cup {NoKey}, status : Status, total : Nat, succeeded : Nat,
              failed : Nat, timed_out : Nat, running : Nat]

Blank  == [key |-> NoKey, status |-> "absent", total |-> 0, succeeded |-> 0,
           failed |-> 0, timed_out |-> 0, running |-> 0]
NoCall == [at |-> "idle", key |-> NoKey, list |-> << >>, record |-> NoId,
           rows |-> {}, update |-> << >>]
NoTask == [at |-> "idle", record |-> NoId, asset |-> NoAsset, update |-> << >>]

\* The columns of an UPDATE, given what was read and what was assigned.
Changed(old, new) == [c \in {d \in DOMAIN new : new[d] # old[d]} |-> new[c]]
Flush(r, u) == record' = [record EXCEPT ![r] =
                 [c \in DOMAIN @ |-> IF c \in DOMAIN u THEN u[c] ELSE @[c]]]

RowsIn(r, S) == {i \in DOMAIN row[r] : row[r][i].status \in S}
SetRows(r, I, s) ==
  row' = [row EXCEPT ![r] =
            [i \in DOMAIN @ |-> IF i \in I THEN [@[i] EXCEPT !.status = s] ELSE @[i]]]

\* The rows of a record name different assets.  Nobody checks that asset_ids do.
Unique(r) == \A i, j \in DOMAIN row[r] : row[r][i].asset = row[r][j].asset => i = j

Init ==
  /\ record = [r \in Id |-> Blank]
  /\ lastId = 0
  /\ row = [r \in Id |-> << >>]
  /\ assets = Asset
  /\ queue = EmptyBag
  /\ retries = 0
  /\ call = [h \in Handler |-> NoCall]
  /\ task = [w \in Worker |-> NoTask]
  /\ lost = {} /\ stale = {} /\ undone = {}

-----------------------------------------------------------------------------
(* POST /batch and POST /records/{id}/retry.                               *)

Called(h, s) == call[h].at = s

Known(k) == k # NoKey /\ \E r \in 1 .. lastId : record[r].key = k

\* A known key answers with its record; a request that names an asset that
\* does not exist, or is otherwise refused, changes nothing.
Submit(h, k, list) ==
  /\ Called(h, "idle")
  /\ lastId + Cardinality({g \in Handler : Called(g, "insert")}) < MaxRecord
  /\ ~Known(k)
  /\ \A i \in DOMAIN list : list[i] \in assets
  /\ call' = [call EXCEPT ![h] = [NoCall EXCEPT !.at = "insert", !.key = k, !.list = list]]
  /\ UNCHANGED <<record, lastId, row, assets, queue, retries, task, history>>

InsertRecord(h) ==
  /\ Called(h, "insert")
  /\ lastId' = lastId + 1
  /\ record' = [record EXCEPT ![lastId'] =
                  [Blank EXCEPT !.key = call[h].key, !.status = "running",
                                !.total = Len(call[h].list)]]
  /\ call' = [call EXCEPT ![h].at = "rows", ![h].record = lastId']
  /\ UNCHANGED <<row, assets, queue, retries, task, history>>

\* The commits expire the assets of a batch: they are read again before its
\* rows are inserted, and before the first message is built.
Readable(h) == \A i \in DOMAIN call[h].list : call[h].list[i] \in assets
Rereads(h)  == \/ Called(h, "rows")
               \/ Called(h, "dispatch") /\ call[h].rows = DOMAIN call[h].list

InsertRows(h) ==
  /\ Called(h, "rows")
  /\ Readable(h)
  /\ row' = [row EXCEPT ![call[h].record] =
               [i \in DOMAIN call[h].list |->
                  [asset |-> call[h].list[i], status |-> "queued"]]]
  /\ call' = [call EXCEPT ![h].at = "dispatch", ![h].rows = DOMAIN call[h].list]
  /\ UNCHANGED <<record, lastId, assets, queue, retries, task, history>>

\* Mutation of Retriable: a retry takes every row that is concluded.
Concluded(r) == RowsIn(r, {"succeeded", "failed", "timed_out"})

\* A retry reads the record and its failed rows ...
Retriable(r) == RowsIn(r, {"failed", "timed_out"})

Select(h, r) ==
  /\ Called(h, "idle")
  /\ r <= lastId /\ Retriable(r) # {}
  /\ retries + Len(row[r]) <= MaxRetry
  /\ retries' = retries + 1
  /\ call' = [call EXCEPT ![h] =
                [NoCall EXCEPT !.at = "requeue", !.record = r, !.rows = Retriable(r),
                   !.update = Changed(record[r], [record[r] EXCEPT !.status = "running"])]]
  /\ UNCHANGED <<record, lastId, row, assets, queue, task, history>>

\* ... and commits what it assigned to them, whatever they are by then.
Requeue(h) ==
  /\ Called(h, "requeue")
  /\ SetRows(call[h].record, call[h].rows, "queued")
  /\ Flush(call[h].record, call[h].update)
  /\ call' = [call EXCEPT ![h].at = "dispatch", ![h].update = << >>]
  /\ stale' = IF call[h].rows \subseteq Retriable(call[h].record) THEN stale
              ELSE stale \cup {call[h].record}
  /\ UNCHANGED <<lastId, assets, queue, retries, task, lost, undone>>

\* The messages of the group are published one by one.
Publish(h, i) ==
  /\ Called(h, "dispatch")
  /\ i \in call[h].rows
  /\ Rereads(h) => Readable(h)
  /\ LET r == call[h].record IN
       queue' = queue (+) SetToBag({[record |-> r, asset |-> row[r][i].asset]})
  /\ call' = IF call[h].rows = {i} THEN [call EXCEPT ![h] = NoCall]
             ELSE [call EXCEPT ![h].rows = @ \ {i}]
  /\ UNCHANGED <<record, lastId, row, assets, retries, task, history>>

\* A request ends where it is: what it committed stays.
Abandon(h) ==
  /\ call' = [call EXCEPT ![h] = NoCall]
  /\ lost' = lost \cup ({call[h].record} \ {NoId})
  /\ UNCHANGED <<record, lastId, row, assets, queue, retries, task, stale, undone>>

AssetGone(h) == Rereads(h) /\ ~Readable(h) /\ Abandon(h)

GiveUp(h) == /\ \/ "broker" \in Events /\ Called(h, "dispatch")
                \/ "crash" \in Events /\ ~Called(h, "idle")
             /\ Abandon(h)

-----------------------------------------------------------------------------
(* exec_host_result.                                                       *)

At(w, s) == task[w].at = s

\* The row a task works on: the query takes the first of its asset.
RowOf(w) == LET hosts == row[task[w].record] IN
  {i \in DOMAIN hosts : /\ hosts[i].asset = task[w].asset
                        /\ \A j \in 1 .. i - 1 : hosts[j].asset # task[w].asset}

\* Mutation of Take: the message stays in the broker while the task runs.
TakeUnacknowledged(w, m) ==
  /\ At(w, "idle")
  /\ BagIn(m, queue)
  /\ task' = [task EXCEPT ![w] =
                IF PassTwice THEN NoTask
                ELSE [at |-> "begin", record |-> m.record, asset |-> m.asset, update |-> << >>]]
  /\ UNCHANGED <<record, lastId, row, assets, queue, retries, call, history>>

\* A message is acknowledged before its task runs.  Ids that come by position
\* and by name do not bind to the task's parameters: TypeError.
Take(w, m) ==
  /\ At(w, "idle")
  /\ BagIn(m, queue)
  /\ queue' = queue (-) SetToBag({m})
  /\ task' = [task EXCEPT ![w] =
                IF PassTwice THEN NoTask
                ELSE [at |-> "begin", record |-> m.record, asset |-> m.asset, update |-> << >>]]
  /\ UNCHANGED <<record, lastId, row, assets, retries, call, history>>

Begin(w) ==
  /\ At(w, "begin")
  /\ IF task[w].asset \in assets
     THEN /\ SetRows(task[w].record, RowOf(w), "running")
          /\ task' = [task EXCEPT ![w].at = "run"]
          /\ UNCHANGED lost
     ELSE /\ task' = [task EXCEPT ![w].at = "aggregate"]
          /\ lost' = lost \cup {task[w].record}
          /\ UNCHANGED row
  /\ UNCHANGED <<record, lastId, assets, queue, retries, call, stale, undone>>

\* Mutation of Conclude: a failed host gets a status that nobody knows.
ConcludeTimeout(w, s) ==
  /\ At(w, "run")
  /\ s \in {"succeeded", "failed"}
  /\ SetRows(task[w].record, RowOf(w), IF s = "failed" THEN "timeout" ELSE s)
  /\ task' = [task EXCEPT ![w].at = IF s = "succeeded" THEN "return" ELSE "aggregate"]
  /\ UNCHANGED <<record, lastId, assets, queue, retries, call, history>>

\* The command ran, or an exception ended it: the soft time limit is one.
Conclude(w, s) ==
  /\ At(w, "run")
  /\ s \in {"succeeded", "failed"}
  /\ SetRows(task[w].record, RowOf(w), s)
  /\ task' = [task EXCEPT ![w].at = IF s = "succeeded" THEN "return" ELSE "aggregate"]
  /\ UNCHANGED <<record, lastId, assets, queue, retries, call, history>>

\* After the commit of a success the row is read again, in the same try.
Return(w) ==
  /\ At(w, "return")
  /\ task' = [task EXCEPT ![w].at = "aggregate"]
  /\ UNCHANGED <<record, lastId, row, assets, queue, retries, call, history>>

\* If that raises, the handler commits that the host failed.
Rescue(w) ==
  /\ At(w, "return")
  /\ SetRows(task[w].record, RowOf(w), "failed")
  /\ task' = [task EXCEPT ![w].at = "aggregate"]
  /\ undone' = undone \cup {task[w].record}
  /\ UNCHANGED <<record, lastId, assets, queue, retries, call, lost, stale>>

\* Mutations of Aggregate: queued hosts are not counted as open; a batch is
\* concluded only if a host succeeded.
AggregateRunning(r) ==
  LET n(S)  == Cardinality(RowsIn(r, S))
      open  == n({"running"})
      bad   == n({"failed", "timed_out"})
  IN [record[r] EXCEPT
        !.total = Len(row[r]), !.succeeded = n({"succeeded"}), !.running = open,
        !.failed = n({"failed"}), !.timed_out = n({"timed_out"}),
        !.status = IF open > 0 \/ row[r] = << >> THEN @
                   ELSE IF bad > 0 /\ n({"succeeded"}) > 0 THEN "partial" ELSE "done"]
AggregateSomeSucceeded(r) ==
  LET n(S)  == Cardinality(RowsIn(r, S))
      open  == n({"queued", "running"})
      bad   == n({"failed", "timed_out"})
  IN [record[r] EXCEPT
        !.total = Len(row[r]), !.succeeded = n({"succeeded"}), !.running = open,
        !.failed = n({"failed"}), !.timed_out = n({"timed_out"}),
        !.status = IF open > 0 \/ n({"succeeded"}) = 0 THEN @
                   ELSE IF bad > 0 THEN "partial" ELSE "done"]

Aggregate(r) ==
  LET n(S)  == Cardinality(RowsIn(r, S))
      open  == n({"queued", "running"})
      bad   == n({"failed", "timed_out"})
  IN [record[r] EXCEPT
        !.total = Len(row[r]), !.succeeded = n({"succeeded"}), !.running = open,
        !.failed = n({"failed"}), !.timed_out = n({"timed_out"}),
        !.status = IF open > 0 \/ row[r] = << >> THEN @
                   ELSE IF bad > 0 /\ n({"succeeded"}) > 0 THEN "partial" ELSE "done"]

\* _recompute_record reads the record and its rows in one snapshot ...
Recompute(w) ==
  /\ At(w, "aggregate")
  /\ LET r == task[w].record IN
       task' = [task EXCEPT ![w].at = "save", ![w].update = Changed(record[r], Aggregate(r))]
  /\ UNCHANGED <<record, lastId, row, assets, queue, retries, call, history>>

\* ... and commits the columns that differ from it.
Save(w) ==
  /\ At(w, "save")
  /\ Flush(task[w].record, task[w].update)
  /\ task' = [task EXCEPT ![w] = NoTask]
  /\ UNCHANGED <<lastId, row, assets, queue, retries, call, history>>

Kill(w) ==
  /\ "kill" \in Events
  /\ ~At(w, "idle")
  /\ task' = [task EXCEPT ![w] = NoTask]
  /\ lost' = lost \cup {task[w].record}
  /\ UNCHANGED <<record, lastId, row, assets, queue, retries, call, stale, undone>>

DeleteAsset(a) ==
  /\ "delete" \in Events
  /\ a \in assets
  /\ assets' = assets \ {a}
  /\ UNCHANGED <<record, lastId, row, queue, retries, call, task, history>>

-----------------------------------------------------------------------------
Request(h) == \/ \E k \in Key, list \in Batches : Submit(h, k, list)
              \/ \E r \in Id : Select(h, r)
Serve(h)   == \/ InsertRecord(h) \/ InsertRows(h) \/ Requeue(h)
              \/ \E i \in call[h].rows : Publish(h, i)
              \/ AssetGone(h)
RunTask(w) == \/ \E m \in BagToSet(queue) : Take(w, m)
              \/ Begin(w)
              \/ \E s \in RowStatus : Conclude(w, s)
              \/ Return(w) \/ Rescue(w)
              \/ Recompute(w) \/ Save(w)

Next == \/ \E h \in Handler : Request(h) \/ Serve(h) \/ GiveUp(h)
        \/ \E w \in Worker : RunTask(w) \/ Kill(w)
        \/ \E a \in Asset : DeleteAsset(a)

Spec == Init /\ [][Next]_vars

\* A request that was accepted is served to its end, and the worker processes
\* keep consuming the queue and run their tasks on.
FairSpec == /\ Spec
            /\ \A h \in Handler : WF_vars(Serve(h))
            /\ \A w \in Worker : WF_vars(RunTask(w))

-----------------------------------------------------------------------------
(* Properties.                                                             *)

\* Every variable has its type: the columns of exec_record and
\* exec_host_result hold the values their models document, and requests and
\* tasks are at a step of theirs.
TypeOK ==
  /\ record \in [Id -> Record]
  /\ lastId \in 0 .. MaxRecord
  /\ DOMAIN row = Id /\ \A r \in Id : row[r] \in Seq(Row)
  /\ assets \subseteq Asset
  /\ IsABag(queue) /\ BagToSet(queue) \subseteq Message
  /\ retries \in 0 .. MaxRetry
  /\ DOMAIN call = Handler
  /\ \A h \in Handler :
       /\ call[h].at \in {"idle", "insert", "rows", "requeue", "dispatch"}
       /\ call[h].key \in Key \cup {NoKey}
       /\ call[h].record \in 0 .. lastId
       /\ call[h].rows \subseteq Nat
  /\ DOMAIN task = Worker
  /\ \A w \in Worker :
       /\ task[w].at \in {"idle", "begin", "run", "return", "aggregate", "save"}
       /\ ~At(w, "idle") => [record |-> task[w].record, asset |-> task[w].asset] \in Message
  /\ lost \cup stale \cup undone \subseteq Id

\* What breaks the promises below: a retry that commits what it read as failed
\* and was not any more, and a request that names an asset twice.
Sound(r) == r \notin stale /\ Unique(r)

\* No two workers run the same command on the same host of a batch at once,
\* although messages are lost, workers die, and failed hosts are retried by
\* requests that overlap.
OneWorkerPerRow ==
  \A v, w \in Worker :
    v # w /\ At(v, "run") /\ At(w, "run") /\ Sound(task[v].record)
      => <<task[v].record, task[v].asset>> # <<task[w].record, task[w].asset>>

\* A retry leaves a host alone that succeeded (retry_failed: "only hosts that
\* failed or timed out"): its row never changes again, unless the task that
\* committed the success takes it back before it returns.
KeepsSucceeded ==
  \A r \in Id : Sound(r)' => \A i \in RowsIn(r, {"succeeded"}) :
    \/ row'[r][i] = row[r][i]
    \/ \E w \in Worker : /\ At(w, "return") /\ task[w].record = r
                        /\ task[w].asset = row[r][i].asset
SucceededIsFinal == [][KeepsSucceeded]_vars

\* To a reader of its tables a batch is what BatchLedger says, although retries
\* and aggregations overlap: a host is executed once until it is retried, a
\* success is not executed again, and "done" and "partial" were true of all
\* hosts when they were computed, however late they are written.
Reckoned(r) == {w \in Worker : /\ At(w, "save") /\ task[w].record = r
                               /\ "status" \in DOMAIN task[w].update}
Ledger == INSTANCE BatchLedger WITH
            host    <- [r \in Id |-> [i \in DOMAIN row[r] |-> row[r][i].status]],
            status  <- [r \in Id |-> record[r].status],
            verdict <- [r \in Id |-> {task[w].update.status : w \in Reckoned(r)}],
            void    <- {r \in Id : ~Sound(r)},
            Sizes   <- {Len(list) : list \in Batches}
RefinesLedger == Ledger!LedgerSpec

\* A batch that was not retried says "done" or "partial" only when every host
\* of it has concluded, and "partial" exactly when some succeeded and some did
\* not, whatever the order in which the aggregations of its tasks are written
\* (_recompute_record).  The second half does not hold of a batch one of whose
\* successes was taken back after another task had counted it.
DoneIsConcluded ==
  retries = 0 => \A r \in 1 .. lastId : record[r].status \in {"done", "partial"} =>
    /\ row[r] # << >> /\ RowsIn(r, {"queued", "running"}) = {}
    /\ r \notin undone => (record[r].status = "partial"
                             <=> RowsIn(r, {"succeeded"}) # {} /\ Retriable(r) # {})

\* Every batch, and every retry of one, is eventually concluded, unless it names
\* an asset twice, or a message, its request, one of its tasks or one of its
\* assets was lost: aggregations and retries that overwrite each other do not
\* keep a batch from it.
BatchConcludes ==
  \A r \in Id :
    record[r].status = "running" ~>
      record[r].status \in {"done", "partial"} \/ r \in lost \/ ~Unique(r)
=============================================================================
