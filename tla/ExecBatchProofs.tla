--------------------------- MODULE ExecBatchProofs ---------------------------
(***************************************************************************)
(* Batch execution, proved for any number of threads, workers, servers,    *)
(* records, retries and faults:                                            *)
(*                                                                         *)
(*  - the types (TypeInv adds to them what the steps of requests rely on); *)
(*  - a host of a batch is run by one worker at a time, and a success is   *)
(*    changed only by the task that committed it (ExecInv: each row is     *)
(*    held by at most one of the requests, messages and tasks);            *)
(*  - a batch that says it is concluded is, as long as nobody retried      *)
(*    (Verdicts: so are the updates that are not yet written).             *)
(*                                                                         *)
(* Nothing is assumed of requests.  What two of them can spoil, by a retry *)
(* that commits what it read too early, is a set of records: the second    *)
(* result is about the others (Sound).                                     *)
(***************************************************************************)
EXTENDS ExecBatch, Collections, FiniteSetTheorems, TLAPS

-----------------------------------------------------------------------------
(* The operators the model is built from.                                  *)

\* The UPDATEs of exec_record: none, or the columns in which two rows differ.
Updates == {Changed(x, y) : x, y \in Record} \cup {<< >>}

\* The row an UPDATE leaves: Flush assigns it.
Flushed(x, u) == [c \in DOMAIN x |-> IF c \in DOMAIN u THEN u[c] ELSE x[c]]

\* An UPDATE leaves a row of exec_record (_recompute_record, retry_failed).
LEMMA FlushedIsRecord ==
  ASSUME NEW x \in Record, NEW u \in Updates
  PROVE  Flushed(x, u) \in Record
<1>1. CASE u = << >>
  <2>1. Flushed(x, u) = [c \in DOMAIN x |-> x[c]]
    BY <1>1 DEF Flushed
  <2> QED BY <2>1 DEF Record
<1>2. ASSUME NEW y \in Record, NEW z \in Record, u = Changed(y, z)
      PROVE  Flushed(x, u) \in Record
  <2>1. DOMAIN x = DOMAIN z /\ DOMAIN u \subseteq DOMAIN z /\ \A c \in DOMAIN u : u[c] = z[c]
    BY <1>2 DEF Changed, Record
  <2>2. \A c \in DOMAIN x : Flushed(x, u)[c] \in {x[c], z[c]}
    BY <2>1 DEF Flushed
  <2>3. Flushed(x, u) = [key |-> Flushed(x, u).key, status |-> Flushed(x, u).status,
                         total |-> Flushed(x, u).total, succeeded |-> Flushed(x, u).succeeded,
                         failed |-> Flushed(x, u).failed, timed_out |-> Flushed(x, u).timed_out,
                         running |-> Flushed(x, u).running]
    BY DEF Flushed, Record
  <2> QED BY <2>2, <2>3 DEF Record
<1> QED BY <1>1, <1>2 DEF Updates

\* The rows of a record with given statuses are finitely many.
LEMMA RowsAreCounted ==
  ASSUME NEW r, row[r] \in Seq(Row)
  PROVE  \A S : /\ Cardinality(RowsIn(r, S)) \in Nat
                /\ Cardinality(RowsIn(r, S)) = 0 <=> RowsIn(r, S) = {}
<1>1. IsFiniteSet(DOMAIN row[r])
  <2>1. DOMAIN row[r] = 1 .. Len(row[r]) /\ Len(row[r]) \in Nat
    OBVIOUS
  <2> QED BY <2>1, FS_Interval
<1>2. \A S : RowsIn(r, S) \in SUBSET DOMAIN row[r]
  BY DEF RowsIn
<1>3. \A S : IsFiniteSet(RowsIn(r, S))
  BY <1>1, <1>2, FS_Subset
<1> HIDE DEF RowsIn
<1> QED BY <1>3, FS_CardinalityType, FS_EmptySet

\* _recompute_record assigns values of the columns' types.
LEMMA AggregateIsRecord ==
  ASSUME NEW r \in Id, record[r] \in Record, row[r] \in Seq(Row)
  PROVE  Aggregate(r) \in Record
<1>1. \A S : Cardinality(RowsIn(r, S)) \in Nat
  BY RowsAreCounted
<1>2. Len(row[r]) \in Nat
  OBVIOUS
<1> HIDE DEF RowsIn
<1> QED BY <1>1, <1>2 DEF Aggregate, Record, Status

\* The rows I of record r got status s; all others are what they were.
Rewritten(r, I, s) ==
  /\ row' \in [Id -> Seq(Row)]
  /\ \A q \in Id : DOMAIN row'[q] = DOMAIN row[q]
  /\ \A q \in Id \ {r} : row'[q] = row[q]
  /\ \A i \in DOMAIN row[r] : /\ row'[r][i].asset = row[r][i].asset
                              /\ i \in I => row'[r][i].status = s
                              /\ i \notin I => row'[r][i] = row[r][i]

\* SetRows does that (exec_host_result, retry_failed).
LEMMA SetRowsRewrites ==
  ASSUME row \in [Id -> Seq(Row)], NEW r \in Id, NEW I, NEW s \in RowStatus, SetRows(r, I, s)
  PROVE  Rewritten(r, I, s)
<1> DEFINE t == [i \in DOMAIN row[r] |->
                   IF i \in I THEN [row[r][i] EXCEPT !.status = s] ELSE row[r][i]]
<1>1. row' = [row EXCEPT ![r] = t]
  BY DEF SetRows
<1>2. \A i \in DOMAIN row[r] : /\ t[i] \in Row /\ t[i].asset = row[r][i].asset
                               /\ i \in I => t[i].status = s
                               /\ i \notin I => t[i] = row[r][i]
  <2> SUFFICES ASSUME NEW i \in DOMAIN row[r]
               PROVE  /\ t[i] \in Row /\ t[i].asset = row[r][i].asset
                      /\ i \in I => t[i].status = s
                      /\ i \notin I => t[i] = row[r][i]
    OBVIOUS
  <2>1. row[r][i] \in Row
    OBVIOUS
  <2>2. t[i] = IF i \in I THEN [row[r][i] EXCEPT !.status = s] ELSE row[r][i]
    OBVIOUS
  <2> QED BY <2>1, <2>2 DEF Row
<1>3. t \in Seq(Row) /\ DOMAIN t = DOMAIN row[r]
  BY <1>2
<1> HIDE DEF t
<1> QED BY <1>1, <1>2, <1>3 DEF Rewritten

-----------------------------------------------------------------------------
(* Types.                                                                  *)

\* Types of the requests and tasks, with those of their variables TypeOK leaves
\* out: the list of assets and the pending UPDATE.
CallType == [at : {"idle", "insert", "rows", "requeue", "dispatch"}, key : Key \cup {NoKey},
             list : Seq(Asset), record : 0 .. MaxRecord, rows : SUBSET Nat, update : Updates]
TaskType == [at : {"idle", "begin", "run", "return", "aggregate", "save"}, record : 0 .. MaxRecord,
             asset : Asset \cup {NoAsset}, update : Updates]

Typing ==
  /\ record \in [Id -> Record]
  /\ lastId \in 0 .. MaxRecord
  /\ row \in [Id -> Seq(Row)]
  /\ assets \subseteq Asset
  /\ IsABag(queue) /\ BagToSet(queue) \subseteq Message
  /\ retries \in 0 .. MaxRetry
  /\ call \in [Handler -> CallType]
  /\ task \in [Worker -> TaskType]
  /\ \A w \in Worker : ~At(w, "idle") => task[w].record \in Id /\ task[w].asset \in Asset
  /\ lost \cup stale \cup undone \subseteq Id

\* Ids are left for the requests that are about to insert: Submit counts them.
Inserting == {h \in Handler : Called(h, "insert")}

Room == IsFiniteSet(Inserting) /\ lastId + Cardinality(Inserting) <= MaxRecord

\* A request that inserted works on a record that exists, and on rows of it.
Callers ==
  \A h \in Handler :
    /\ call[h].record <= lastId
    /\ call[h].at \in {"rows", "requeue", "dispatch"} => call[h].record \in Id
    /\ call[h].at \in {"requeue", "dispatch"} => call[h].rows \subseteq DOMAIN row[call[h].record]

\* The rows of a record are inserted once: until then it has none, and no other
\* request is about to insert them.
Unwritten ==
  /\ \A r \in Id : r > lastId => row[r] = << >>
  /\ \A h \in Handler : Called(h, "rows") => row[call[h].record] = << >>
  /\ \A g, h \in Handler : g # h /\ Called(g, "rows") /\ Called(h, "rows")
                             => call[g].record # call[h].record

TypeInv == Typing /\ Room /\ Callers /\ Unwritten

\* What the actions make of a request has the type of a request ...
LEMMA CallTypes ==
  /\ NoCall \in CallType
  /\ \A x \in CallType :
       /\ \A k \in Key, s \in Seq(Asset) :
            [x EXCEPT !.at = "insert", !.key = k, !.list = s] \in CallType
       /\ \A n \in 0 .. MaxRecord : [x EXCEPT !.at = "rows", !.record = n] \in CallType
       /\ \A I \in SUBSET Nat : [x EXCEPT !.at = "dispatch", !.rows = I] \in CallType
       /\ \A n \in 0 .. MaxRecord, I \in SUBSET Nat, u \in Updates :
            [x EXCEPT !.at = "requeue", !.record = n, !.rows = I, !.update = u] \in CallType
       /\ [x EXCEPT !.at = "dispatch", !.update = << >>] \in CallType
       /\ \A i : [x EXCEPT !.rows = @ \ {i}] \in CallType
<1>1. << >> \in Updates
  BY DEF Updates
<1>2. 0 \in 0 .. MaxRecord
  BY ExecAssumption DEF ExecAssumption
<1>3. NoCall \in CallType
  BY <1>1, <1>2 DEF CallType, NoCall, NoId
<1> QED BY <1>1, <1>3 DEF CallType

\* ... and what they make of a task that of a task.
LEMMA TaskTypes ==
  /\ NoTask \in TaskType
  /\ \A r \in 0 .. MaxRecord, a \in Asset :
       [at |-> "begin", record |-> r, asset |-> a, update |-> << >>] \in TaskType
  /\ \A x \in TaskType :
       /\ \A s \in {"run", "return", "aggregate"} : [x EXCEPT !.at = s] \in TaskType
       /\ \A u \in Updates : [x EXCEPT !.at = "save", !.update = u] \in TaskType
<1>1. << >> \in Updates /\ 0 \in 0 .. MaxRecord
  BY ExecAssumption DEF Updates, ExecAssumption
<1> QED BY <1>1 DEF TaskType, NoTask, NoId

\* The rows that batch_exec inserts for a list of servers.
LEMMA QueuedRows ==
  ASSUME NEW s \in Seq(Asset)
  PROVE  /\ [i \in DOMAIN s |-> [asset |-> s[i], status |-> "queued"]] \in Seq(Row)
         /\ DOMAIN s \in SUBSET Nat
<1>1. Len(s) \in Nat /\ DOMAIN s = 1 .. Len(s) /\ \A i \in 1 .. Len(s) : s[i] \in Asset
  OBVIOUS
<1>2. \A i \in 1 .. Len(s) : [asset |-> s[i], status |-> "queued"] \in Row
  BY <1>1 DEF Row, RowStatus
<1>3. [i \in 1 .. Len(s) |-> [asset |-> s[i], status |-> "queued"]] \in [1 .. Len(s) -> Row]
  BY <1>2
<1>4. [i \in 1 .. Len(s) |-> [asset |-> s[i], status |-> "queued"]] \in Seq(Row)
  BY <1>1, <1>3
<1> QED BY <1>1, <1>4

\* The types are inductive with the other parts of TypeInv.
LEMMA TypingStep == TypeInv /\ [Next]_vars => Typing'
<1> SUFFICES ASSUME TypeInv, [Next]_vars PROVE Typing'
  OBVIOUS
<1> USE ExecAssumption DEF ExecAssumption, TypeInv, Typing, Id, NoId, Called, At, history
<1>1. CASE UNCHANGED vars
  BY <1>1 DEF vars
<1>2. /\ \A h \in Handler : call[h] \in CallType
      /\ \A w \in Worker : task[w] \in TaskType
      /\ \A x, y \in Record : Changed(x, y) \in Updates
  BY DEF Updates
<1>3. ASSUME NEW h \in Handler, NEW k \in Key, NEW list \in Batches, Submit(h, k, list)
      PROVE  Typing'
  BY <1>3, CallTypes DEF Submit
<1>4. ASSUME NEW h \in Handler, InsertRecord(h) PROVE Typing'
  <2>1. lastId + 1 \in Id
    <3>1. h \in Inserting
      BY <1>4 DEF InsertRecord, Inserting
    <3>2. Cardinality(Inserting) \in Nat /\ Cardinality(Inserting) # 0
      BY <3>1, FS_EmptySet, FS_CardinalityType DEF Room
    <3> QED BY <3>2 DEF Room
  <2>2. [Blank EXCEPT !.key = call[h].key, !.status = "running", !.total = Len(call[h].list)] \in Record
    <3>1. call[h].key \in Key \cup {NoKey} /\ Len(call[h].list) \in Nat
      BY <1>2 DEF CallType
    <3> QED BY <3>1 DEF Blank, Record, Status
  <2>3. lastId' = lastId + 1 /\ lastId' \in 0 .. MaxRecord
    BY <1>4, <2>1 DEF InsertRecord
  <2>4. [call[h] EXCEPT !.at = "rows", !.record = lastId'] \in CallType
    BY <1>2, <2>3, CallTypes
  <2> QED BY <1>4, <2>1, <2>2, <2>3, <2>4 DEF InsertRecord
<1>5. ASSUME NEW h \in Handler, InsertRows(h) PROVE Typing'
  <2>1. PICK s \in Seq(Asset) : call[h].list = s
    BY <1>2 DEF CallType
  <2> DEFINE t == [i \in DOMAIN s |-> [asset |-> s[i], status |-> "queued"]]
  <2>3. t \in Seq(Row) /\ DOMAIN s \in SUBSET Nat
    BY QueuedRows
  <2>4. [call[h] EXCEPT !.at = "dispatch", !.rows = DOMAIN call[h].list] \in CallType
    BY <1>2, <2>1, <2>3, CallTypes
  <2> QED BY <1>5, <2>1, <2>3, <2>4 DEF InsertRows
<1>6. ASSUME NEW h \in Handler, NEW r \in Id, Select(h, r) PROVE Typing'
  <2>1. [record[r] EXCEPT !.status = "running"] \in Record
    <3>1. record[r] \in Record
      OBVIOUS
    <3> QED BY <3>1 DEF Record, Status
  <2>2. Retriable(r) \subseteq Nat
    BY DEF Retriable, RowsIn
  <2> DEFINE u == Changed(record[r], [record[r] EXCEPT !.status = "running"])
  <2>3. u \in Updates /\ r \in 0 .. MaxRecord
    BY <1>2, <2>1
  <2>4. call' = [call EXCEPT ![h] = [NoCall EXCEPT !.at = "requeue", !.record = r,
                                                   !.rows = Retriable(r), !.update = u]]
    BY <1>6 DEF Select
  <2> HIDE DEF u
  <2>5. call' \in [Handler -> CallType]
    BY <2>2, <2>3, <2>4, CallTypes
  <2>6. retries' \in 0 .. MaxRetry
    <3>1. Len(row[r]) \in Nat /\ DOMAIN row[r] = 1 .. Len(row[r])
      OBVIOUS
    <3>2. DOMAIN row[r] # {}
      BY <1>6 DEF Select, Retriable, RowsIn
    <3> QED BY <1>6, <3>1, <3>2 DEF Select
  <2> QED BY <1>6, <2>5, <2>6 DEF Select
<1>7. ASSUME NEW h \in Handler, Requeue(h) PROVE Typing'
  <2>1. call[h].record \in Id /\ call[h].update \in Updates
    BY <1>2, <1>7 DEF Requeue, Callers, CallType
  <2>2. row' \in [Id -> Seq(Row)]
    BY <1>7, <2>1, SetRowsRewrites DEF Rewritten, Requeue, RowStatus
  <2>3. record' \in [Id -> Record]
    BY <1>7, <2>1, FlushedIsRecord DEF Requeue, Flush, Flushed
  <2>4. [call[h] EXCEPT !.at = "dispatch", !.update = << >>] \in CallType
    BY <1>2, CallTypes
  <2>5. stale' \subseteq Id /\ UNCHANGED <<lost, undone>>
    BY <1>7, <2>1 DEF Requeue
  <2>6. call' \in [Handler -> CallType] /\ UNCHANGED <<lastId, assets, queue, retries, task>>
    BY <1>7, <2>4 DEF Requeue
  <2> QED BY <2>2, <2>3, <2>5, <2>6
<1>8. ASSUME NEW h \in Handler, NEW i \in call[h].rows, Publish(h, i) PROVE Typing'
  <2> DEFINE m == [record |-> call[h].record, asset |-> row[call[h].record][i].asset]
  <2>1. m \in Message
    <3>1. call[h].record \in Id /\ i \in DOMAIN row[call[h].record]
      BY <1>8 DEF Publish, Callers
    <3>2. row[call[h].record][i] \in Row
      BY <3>1
    <3> QED BY <3>1, <3>2 DEF Message, Row
  <2>2. queue' = queue (+) SetToBag({m})
    BY <1>8 DEF Publish
  <2>3. IsABag(queue') /\ BagToSet(queue') = BagToSet(queue) \cup {m}
    <3> HIDE DEF m
    <3> QED BY <2>2, BagAdded
  <2>4. [call[h] EXCEPT !.rows = @ \ {i}] \in CallType
    BY <1>2, CallTypes
  <2>5. call' \in [Handler -> CallType]
    BY <1>8, <2>4, CallTypes DEF Publish
  <2> QED BY <1>8, <2>1, <2>3, <2>5 DEF Publish
<1>9. ASSUME NEW h \in Handler, AssetGone(h) \/ GiveUp(h) PROVE Typing'
  <2>1. call[h].record \in Id \cup {NoId}
    BY <1>2 DEF CallType
  <2> QED BY <1>9, <2>1, CallTypes DEF AssetGone, GiveUp, Abandon
<1>10. ASSUME NEW w \in Worker, NEW m \in BagToSet(queue), Take(w, m) PROVE Typing'
  <2>1. m \in Message /\ IsABag(queue') /\ BagToSet(queue') \subseteq Message
    BY <1>10, BagTaken DEF Take
  <2>2. m.record \in Id /\ m.asset \in Asset
    BY <2>1 DEF Message
  <2>3. task' \in [Worker -> TaskType]
    <3>1. m.record \in 0 .. MaxRecord
      BY <2>2
    <3>2. [at |-> "begin", record |-> m.record, asset |-> m.asset, update |-> << >>] \in TaskType
      BY <2>2, <3>1, TaskTypes
    <3> QED BY <1>10, <3>2, TaskTypes DEF Take
  <2>4. \A v \in Worker : task'[v].at # "idle" => task'[v].record \in Id /\ task'[v].asset \in Asset
    BY <1>10, <2>2 DEF Take, NoTask
  <2> QED BY <1>10, <2>1, <2>3, <2>4 DEF Take
<1>11. ASSUME NEW w \in Worker, Begin(w) PROVE Typing'
  <2>1. task[w].record \in Id
    BY <1>11 DEF Begin
  <2>2. row' \in [Id -> Seq(Row)]
    BY <1>11, <2>1, SetRowsRewrites DEF Rewritten, Begin, RowStatus
  <2>3. PICK s \in {"run", "aggregate"} : task' = [task EXCEPT ![w].at = s]
    BY <1>11 DEF Begin
  <2>4. task' \in [Worker -> TaskType]
    BY <1>2, <2>3, TaskTypes
  <2>5. \A v \in Worker : task'[v].record = task[v].record /\ task'[v].asset = task[v].asset
    BY <2>3
  <2>6. \A v \in Worker : task'[v].at = "idle" <=> task[v].at = "idle"
    BY <1>11, <2>3 DEF Begin
  <2> QED BY <1>11, <2>1, <2>2, <2>4, <2>5, <2>6 DEF Begin
<1>12. ASSUME NEW w \in Worker, NEW s \in RowStatus, Conclude(w, s) PROVE Typing'
  <2>1. row' \in [Id -> Seq(Row)]
    BY <1>12, SetRowsRewrites DEF Rewritten, Conclude
  <2>2. PICK t \in {"return", "aggregate"} : task' = [task EXCEPT ![w].at = t] /\ task[w].at = "run"
    BY <1>12 DEF Conclude
  <2>3. task' \in [Worker -> TaskType]
    BY <1>2, <2>2, TaskTypes
  <2> QED BY <1>12, <2>1, <2>2, <2>3 DEF Conclude
<1>17. ASSUME NEW w \in Worker, Return(w) \/ Rescue(w) PROVE Typing'
  <2>1. task[w].record \in Id
    BY <1>17 DEF Return, Rescue
  <2>2. row' \in [Id -> Seq(Row)]
    BY <1>17, <2>1, SetRowsRewrites DEF Rewritten, Return, Rescue, RowStatus
  <2>3. task' = [task EXCEPT ![w].at = "aggregate"] /\ task[w].at = "return"
    BY <1>17 DEF Return, Rescue
  <2>4. task' \in [Worker -> TaskType]
    BY <1>2, <2>3, TaskTypes
  <2> QED BY <1>17, <2>1, <2>2, <2>3, <2>4 DEF Return, Rescue
<1>13. ASSUME NEW w \in Worker, Recompute(w) PROVE Typing'
  <2> DEFINE u == Changed(record[task[w].record], Aggregate(task[w].record))
  <2>1. u \in Updates
    BY <1>2, <1>13, AggregateIsRecord DEF Recompute
  <2>2. task' = [task EXCEPT ![w].at = "save", ![w].update = u]
    BY <1>13 DEF Recompute
  <2> HIDE DEF u
  <2>3. task' \in [Worker -> TaskType]
    BY <1>2, <2>1, <2>2, TaskTypes
  <2> QED BY <1>13, <2>2, <2>3 DEF Recompute
<1>14. ASSUME NEW w \in Worker, Save(w) PROVE Typing'
  <2>1. task[w].record \in Id /\ task[w].update \in Updates
    BY <1>2, <1>14 DEF Save, TaskType
  <2>2. record' \in [Id -> Record]
    BY <1>14, <2>1, FlushedIsRecord DEF Save, Flush, Flushed
  <2> QED BY <1>14, <2>2, TaskTypes DEF Save, NoTask
<1>15. ASSUME NEW w \in Worker, Kill(w) PROVE Typing'
  BY <1>15, TaskTypes DEF Kill, NoTask
<1>16. ASSUME NEW a \in Asset, DeleteAsset(a) PROVE Typing'
  BY <1>16 DEF DeleteAsset
<1> QED BY <1>1, <1>3, <1>4, <1>5, <1>6, <1>7, <1>8, <1>9, <1>10, <1>11, <1>12, <1>13, <1>14,
           <1>15, <1>16, <1>17 DEF Next, Request, Serve, RunTask

\* The step a request is at after each action of it.
LEMMA AtMoves ==
  ASSUME Typing, NEW h \in Handler
  PROVE  /\ \A k \in Key, list \in Batches : Submit(h, k, list) => call'[h].at = "insert"
         /\ InsertRecord(h) => call'[h].at = "rows"
         /\ InsertRows(h) => call'[h].at = "dispatch"
         /\ \A r \in Id : Select(h, r) => call'[h].at = "requeue"
         /\ Requeue(h) => call'[h].at = "dispatch"
         /\ \A i \in call[h].rows : Publish(h, i) => call'[h].at \in {"dispatch", "idle"}
         /\ AssetGone(h) \/ GiveUp(h) => call'[h].at = "idle"
<1> USE DEF Typing, CallType, NoCall, Called
<1>1. \A k \in Key, list \in Batches : Submit(h, k, list) => call'[h].at = "insert"
  BY DEF Submit
<1>2. InsertRecord(h) => call'[h].at = "rows"
  BY DEF InsertRecord
<1>3. InsertRows(h) => call'[h].at = "dispatch"
  BY DEF InsertRows
<1>4. \A r \in Id : Select(h, r) => call'[h].at = "requeue"
  BY DEF Select
<1>5. Requeue(h) => call'[h].at = "dispatch"
  BY DEF Requeue
<1>6. \A i \in call[h].rows : Publish(h, i) => call'[h].at \in {"dispatch", "idle"}
  BY DEF Publish
<1>7. AssetGone(h) \/ GiveUp(h) => call'[h].at = "idle"
  BY DEF AssetGone, GiveUp, Abandon
<1> QED BY <1>1, <1>2, <1>3, <1>4, <1>5, <1>6, <1>7

\* The same of a task.
LEMMA AtTaskMoves ==
  ASSUME Typing, NEW w \in Worker
  PROVE  /\ \A m \in BagToSet(queue) : Take(w, m) => task'[w].at \in {"idle", "begin"}
         /\ Begin(w) => task'[w].at \in {"run", "aggregate"}
         /\ \A s \in RowStatus : Conclude(w, s) => task'[w].at \in {"return", "aggregate"}
         /\ Return(w) \/ Rescue(w) => task'[w].at = "aggregate"
         /\ Recompute(w) => task'[w].at = "save"
         /\ Save(w) \/ Kill(w) => task'[w].at = "idle"
<1> USE DEF Typing, TaskType, NoTask
<1>1. \A m \in BagToSet(queue) : Take(w, m) => task'[w].at \in {"idle", "begin"}
  BY DEF Take
<1>2. Begin(w) => task'[w].at \in {"run", "aggregate"}
  BY DEF Begin
<1>3. \A s \in RowStatus : Conclude(w, s) => task'[w].at \in {"return", "aggregate"}
  BY DEF Conclude
<1>6. Return(w) \/ Rescue(w) => task'[w].at = "aggregate"
  BY DEF Return, Rescue
<1>4. Recompute(w) => task'[w].at = "save"
  BY DEF Recompute
<1>5. Save(w) \/ Kill(w) => task'[w].at = "idle"
  BY DEF Save, Kill
<1> QED BY <1>1, <1>2, <1>3, <1>4, <1>5, <1>6

\* A step of a request leaves the other requests and all tasks alone ...
LEMMA OtherCalls ==
  ASSUME Typing, NEW h \in Handler, Request(h) \/ Serve(h) \/ GiveUp(h)
  PROVE  task' = task /\ \A g \in Handler \ {h} : call'[g] = call[g]
BY DEF Request, Serve, GiveUp, Submit, InsertRecord, InsertRows, Requeue, Select, Publish, AssetGone,
       Abandon, Typing

\* ... and a step of a task the other tasks and all requests.
LEMMA OtherTasks ==
  ASSUME Typing, NEW w \in Worker, RunTask(w) \/ Kill(w)
  PROVE  call' = call /\ \A v \in Worker \ {w} : task'[v] = task[v]
BY DEF RunTask, Take, Begin, Conclude, Return, Rescue, Recompute, Save, Kill, Typing

\* An asset that is deleted changes neither.
LEMMA NoOthers ==
  ASSUME UNCHANGED vars \/ \E a \in Asset : DeleteAsset(a)
  PROVE  call' = call /\ task' = task /\ queue' = queue /\ row' = row
BY DEF vars, DeleteAsset

\* One step keeps the ids that are promised: the count of inserting requests
\* grows only by Submit, which checks the room.
LEMMA RoomStep == TypeInv /\ [Next]_vars => Room'
<1> SUFFICES ASSUME TypeInv, [Next]_vars PROVE Room'
  OBVIOUS
<1> USE DEF TypeInv, Called
<1>1. IsFiniteSet(Inserting) /\ Cardinality(Inserting) \in Nat /\ lastId \in Nat
  BY FS_CardinalityType, ExecAssumption DEF Room, Typing, ExecAssumption
<1>2. ASSUME Inserting' \in SUBSET Inserting, lastId' = lastId PROVE Room'
  BY <1>1, <1>2, FS_Subset, FS_CardinalityType, ExecAssumption DEF Room, ExecAssumption
<1>3. CASE UNCHANGED vars
  BY <1>2, <1>3 DEF vars, Inserting
<1>4. ASSUME NEW h \in Handler, NEW k \in Key, NEW list \in Batches, Submit(h, k, list)
      PROVE  Room'
  <2>1. Inserting' = Inserting \cup {h} /\ lastId' = lastId
    BY <1>4 DEF Submit, Inserting, Typing, CallType
  <2>2. lastId + Cardinality(Inserting) < MaxRecord
    BY <1>4 DEF Submit, Inserting
  <2>3. /\ IsFiniteSet(Inserting \cup {h})
        /\ Cardinality(Inserting \cup {h}) \in {Cardinality(Inserting), Cardinality(Inserting) + 1}
    <3>1. IsFiniteSet(Inserting)
      BY <1>1
    <3> HIDE DEF Inserting
    <3> QED BY <3>1, FS_AddElement
  <2>4. Cardinality(Inserting') \in {Cardinality(Inserting), Cardinality(Inserting) + 1}
    BY <2>1, <2>3
  <2> QED BY <1>1, <2>1, <2>2, <2>3, <2>4, ExecAssumption DEF Room, ExecAssumption
<1>5. ASSUME NEW h \in Handler, InsertRecord(h) PROVE Room'
  <2>1. Inserting' = Inserting \ {h} /\ lastId' = lastId + 1 /\ h \in Inserting
    BY <1>5 DEF InsertRecord, Inserting, Typing, CallType
  <2>2. IsFiniteSet(Inserting') /\ Cardinality(Inserting') = Cardinality(Inserting) - 1
    BY <1>1, <2>1, FS_RemoveElement
  <2> QED BY <1>1, <2>1, <2>2, ExecAssumption DEF Room, ExecAssumption
<1>6. ASSUME NEW h \in Handler, \/ InsertRows(h) \/ Requeue(h) \/ AssetGone(h) \/ GiveUp(h)
                                \/ (\E r \in Id : Select(h, r))
                                \/ (\E i \in call[h].rows : Publish(h, i))
      PROVE  Room'
  <2>1. lastId' = lastId /\ \A g \in Handler \ {h} : call'[g] = call[g]
    BY <1>6 DEF InsertRows, Requeue, AssetGone, GiveUp, Abandon, Select, Publish, Typing
  <2>2. call'[h].at # "insert"
    BY <1>6, AtMoves
  <2> QED BY <1>2, <2>1, <2>2 DEF Inserting
<1>7. ASSUME NEW w \in Worker, RunTask(w) \/ Kill(w) PROVE Room'
  BY <1>2, <1>7 DEF Inserting, RunTask, Kill, Take, Begin, Conclude, Return, Rescue,
                        Recompute, Save
<1>8. ASSUME NEW a \in Asset, DeleteAsset(a) PROVE Room'
  BY <1>2, <1>8 DEF Inserting, DeleteAsset
<1> QED BY <1>3, <1>4, <1>5, <1>6, <1>7, <1>8 DEF Next, Request, Serve

\* How a step changes exec_host_result.
RowMove ==
  \/ row' = row
  \/ \E h \in Handler : InsertRows(h)
  \/ \E h \in Handler : /\ Requeue(h) /\ call[h].record \in Id
                        /\ Rewritten(call[h].record, call[h].rows, "queued")
  \/ \E w \in Worker : /\ Begin(w) /\ task[w].asset \in assets /\ task[w].record \in Id
                       /\ Rewritten(task[w].record, RowOf(w), "running")
  \/ \E w \in Worker, s \in {"succeeded", "failed"} :
       /\ Conclude(w, s) /\ task[w].record \in Id
       /\ Rewritten(task[w].record, RowOf(w), s)
  \/ \E w \in Worker : /\ Rescue(w) /\ task[w].record \in Id
                       /\ Rewritten(task[w].record, RowOf(w), "failed")

\* Every step changes it in one of these ways.
LEMMA RowMoves == TypeInv /\ [Next]_vars => RowMove
<1> SUFFICES ASSUME TypeInv, [Next]_vars PROVE RowMove
  OBVIOUS
<1>1. row \in [Id -> Seq(Row)]
  BY DEF TypeInv, Typing
<1>2. ASSUME NEW h \in Handler, Requeue(h) PROVE RowMove
  <2>1. call[h].record \in Id /\ SetRows(call[h].record, call[h].rows, "queued")
    BY <1>2 DEF Requeue, TypeInv, Callers, Called
  <2>2. Rewritten(call[h].record, call[h].rows, "queued")
    BY <1>1, <2>1, SetRowsRewrites DEF RowStatus
  <2> QED BY <1>2, <2>1, <2>2 DEF RowMove
<1>3. ASSUME NEW w \in Worker, Begin(w), row' # row PROVE RowMove
  <2>1. /\ task[w].record \in Id /\ task[w].asset \in assets
        /\ SetRows(task[w].record, RowOf(w), "running")
    BY <1>3 DEF Begin, TypeInv, Typing, At
  <2>2. Rewritten(task[w].record, RowOf(w), "running")
    BY <1>1, <2>1, SetRowsRewrites DEF RowStatus
  <2> QED BY <1>3, <2>1, <2>2 DEF RowMove
<1>4. ASSUME NEW w \in Worker, NEW s \in RowStatus, Conclude(w, s) PROVE RowMove
  <2>1. /\ task[w].record \in Id /\ s \in {"succeeded", "failed"}
        /\ SetRows(task[w].record, RowOf(w), s)
    BY <1>4 DEF Conclude, TypeInv, Typing, At
  <2>2. Rewritten(task[w].record, RowOf(w), s)
    BY <1>1, <2>1, SetRowsRewrites DEF RowStatus
  <2> QED BY <1>4, <2>1, <2>2 DEF RowMove
<1>8. ASSUME NEW w \in Worker, Rescue(w) PROVE RowMove
  <2>1. task[w].record \in Id /\ SetRows(task[w].record, RowOf(w), "failed")
    BY <1>8 DEF Rescue, TypeInv, Typing, At
  <2>2. Rewritten(task[w].record, RowOf(w), "failed")
    BY <1>1, <2>1, SetRowsRewrites DEF RowStatus
  <2> QED BY <1>8, <2>1, <2>2 DEF RowMove
<1>5. ASSUME NEW h \in Handler, Request(h) \/ Serve(h) \/ GiveUp(h), ~InsertRows(h), ~Requeue(h)
      PROVE  row' = row
  BY <1>5 DEF Request, Serve, GiveUp, Submit, InsertRecord, Select, Publish, AssetGone, Abandon
<1>6. ASSUME NEW w \in Worker, RunTask(w) \/ Kill(w), ~Begin(w), ~Rescue(w),
             \A s \in RowStatus : ~Conclude(w, s)
      PROVE  row' = row
  BY <1>6 DEF RunTask, Kill, Take, Return, Recompute, Save
<1>7. ASSUME UNCHANGED vars \/ (\E a \in Asset : DeleteAsset(a)) PROVE row' = row
  BY <1>7 DEF vars, DeleteAsset
<1> QED BY <1>2, <1>3, <1>4, <1>5, <1>6, <1>7, <1>8 DEF Next, RowMove

\* Rows keep their assets, and a record without rows gets them from InsertRows.
RowsKept ==
  \A r \in Id :
    IF row[r] = << >> THEN row'[r] = << >> \/ \E h \in Handler : InsertRows(h) /\ call[h].record = r
    ELSE DOMAIN row'[r] = DOMAIN row[r] /\ \A i \in DOMAIN row[r] : row'[r][i].asset = row[r][i].asset

\* Every step keeps the rows in this sense: the code deletes none.
LEMMA RowsKeptStep == TypeInv /\ [Next]_vars => RowsKept
<1> SUFFICES ASSUME TypeInv, [Next]_vars PROVE RowsKept
  OBVIOUS
<1>1. CASE row' = row
  BY <1>1 DEF RowsKept
<1>2. ASSUME NEW h \in Handler, InsertRows(h) PROVE RowsKept
  <2>1. call[h].record \in Id /\ row[call[h].record] = << >>
    BY <1>2 DEF InsertRows, TypeInv, Callers, Unwritten, Called
  <2>2. \A r \in Id : r # call[h].record => row'[r] = row[r]
    BY <1>2 DEF InsertRows, TypeInv, Typing
  <2> QED BY <1>2, <2>1, <2>2 DEF RowsKept
<1>3. ASSUME NEW r \in Id, NEW I, NEW s, Rewritten(r, I, s) PROVE RowsKept
  <2> SUFFICES ASSUME NEW q \in Id
               PROVE  /\ DOMAIN row'[q] = DOMAIN row[q]
                      /\ \A i \in DOMAIN row[q] : row'[q][i].asset = row[q][i].asset
                      /\ row[q] = << >> => row'[q] = << >>
    BY DEF RowsKept
  <2>1. row'[q] \in Seq(Row) /\ row[q] \in Seq(Row) /\ DOMAIN row'[q] = DOMAIN row[q]
    BY <1>3 DEF Rewritten, TypeInv, Typing
  <2>2. row[q] = << >> => row'[q] = << >>
    BY <2>1
  <2>3. \A i \in DOMAIN row[q] : row'[q][i].asset = row[q][i].asset
    BY <1>3, <2>1 DEF Rewritten
  <2> QED BY <2>1, <2>2, <2>3
<1> QED BY <1>1, <1>2, <1>3, RowMoves DEF RowMove

\* A request keeps working on rows that exist.
LEMMA CallersStep == TypeInv /\ [Next]_vars => Callers'
<1> SUFFICES ASSUME TypeInv, [Next]_vars PROVE Callers'
  OBVIOUS
<1> USE ExecAssumption DEF ExecAssumption, TypeInv, Callers, Called
<1>1. RowsKept /\ Typing /\ Typing'
  BY RowsKeptStep, TypingStep
<1>2. lastId' \in {lastId, lastId + 1} /\ lastId \in Nat
  <2>1. lastId \in Nat
    BY <1>1 DEF Typing
  <2>2. ASSUME NEW h \in Handler, Request(h) \/ Serve(h) \/ GiveUp(h)
        PROVE  lastId' \in {lastId, lastId + 1}
    BY <2>2 DEF Request, Serve, GiveUp, Submit, InsertRecord, InsertRows, Requeue, Select, Publish,
                AssetGone, Abandon
  <2>3. ASSUME NEW w \in Worker, RunTask(w) \/ Kill(w) PROVE lastId' = lastId
    BY <2>3 DEF RunTask, Take, Begin, Conclude, Return, Rescue, Recompute, Save, Kill
  <2> QED BY <2>1, <2>2, <2>3 DEF Next, vars, DeleteAsset
<1>3. ASSUME NEW g \in Handler, call'[g] = call[g]
      PROVE  /\ call'[g].record <= lastId'
             /\ call'[g].at \in {"rows", "requeue", "dispatch"} => call'[g].record \in Id
             /\ call'[g].at \in {"requeue", "dispatch"}
                  => call'[g].rows \subseteq DOMAIN row'[call'[g].record]
  <2>1. call[g].record \in Nat /\ call'[g].record <= lastId'
    BY <1>1, <1>2, <1>3 DEF Typing, CallType
  <2>2. ASSUME call[g].at \in {"requeue", "dispatch"}
        PROVE  call[g].rows \subseteq DOMAIN row'[call[g].record]
    BY <1>1, <2>2 DEF RowsKept
  <2> QED BY <1>3, <2>1, <2>2
<1>4. CASE UNCHANGED vars
  BY <1>3, <1>4 DEF vars
<1>5. ASSUME NEW h \in Handler, NEW k \in Key, NEW list \in Batches, Submit(h, k, list)
      PROVE  Callers'
  BY <1>1, <1>2, <1>3, <1>5 DEF Submit, NoCall, NoId, Typing
<1>6. ASSUME NEW h \in Handler, InsertRecord(h) PROVE Callers'
  <2>1. /\ call'[h].at = "rows" /\ call'[h].record = lastId'
        /\ \A g \in Handler \ {h} : call'[g] = call[g]
    BY <1>1, <1>6 DEF InsertRecord, Typing, CallType
  <2>2. lastId' \in Id
    BY <1>1, <1>2, <1>6 DEF InsertRecord, Typing, Id
  <2> QED BY <1>2, <1>3, <2>1, <2>2
<1>7. ASSUME NEW h \in Handler, InsertRows(h) PROVE Callers'
  <2>1. /\ call'[h].at = "dispatch" /\ call'[h].record = call[h].record
        /\ call'[h].rows = DOMAIN call[h].list /\ call[h].record \in Id
        /\ \A g \in Handler \ {h} : call'[g] = call[g]
    BY <1>1, <1>7 DEF InsertRows, Typing, CallType
  <2>2. DOMAIN row'[call[h].record] = DOMAIN call[h].list
    BY <1>1, <1>7, <2>1 DEF InsertRows, Typing
  <2> QED BY <1>2, <1>3, <1>7, <2>1, <2>2 DEF InsertRows
<1>8. ASSUME NEW h \in Handler, NEW r \in Id, Select(h, r) PROVE Callers'
  <2>1. /\ call'[h].at = "requeue" /\ call'[h].record = r /\ call'[h].rows = Retriable(r)
        /\ \A g \in Handler \ {h} : call'[g] = call[g]
        /\ r <= lastId /\ row' = row /\ lastId' = lastId
    BY <1>1, <1>8 DEF Select, Typing, NoCall
  <2>2. Retriable(r) \subseteq DOMAIN row[r]
    BY DEF Retriable, RowsIn
  <2> QED BY <1>2, <1>3, <2>1, <2>2
<1>9. ASSUME NEW h \in Handler, Requeue(h) PROVE Callers'
  <2>1. /\ call'[h].at = "dispatch" /\ call'[h].record = call[h].record
        /\ call'[h].rows = call[h].rows /\ call[h].at = "requeue" /\ lastId' = lastId
        /\ \A g \in Handler \ {h} : call'[g] = call[g]
    BY <1>1, <1>9 DEF Requeue, Typing, CallType
  <2>2. \A r \in Id : DOMAIN row'[r] = DOMAIN row[r]
    BY <1>1, <1>9, SetRowsRewrites DEF Rewritten, Requeue, Typing, RowStatus
  <2> QED BY <1>3, <2>1, <2>2
<1>10. ASSUME NEW h \in Handler, NEW i \in call[h].rows, Publish(h, i) PROVE Callers'
  <2>1. \A g \in Handler \ {h} : call'[g] = call[g]
    BY <1>1, <1>10 DEF Publish, Typing
  <2>2. \/ call'[h] = NoCall
        \/ /\ call'[h].at = "dispatch" /\ call'[h].record = call[h].record
           /\ call'[h].rows \subseteq call[h].rows /\ call[h].at = "dispatch"
    BY <1>1, <1>10 DEF Publish, Typing, CallType
  <2>3. row' = row /\ lastId' = lastId
    BY <1>10 DEF Publish
  <2> QED BY <1>2, <1>3, <2>1, <2>2, <2>3 DEF NoCall, NoId
<1>11. ASSUME NEW h \in Handler, AssetGone(h) \/ GiveUp(h) PROVE Callers'
  BY <1>1, <1>2, <1>3, <1>11 DEF AssetGone, GiveUp, Abandon, NoCall, NoId, Typing
<1>12. ASSUME NEW w \in Worker, RunTask(w) \/ Kill(w) PROVE Callers'
  <2>1. call' = call /\ lastId' = lastId
    BY <1>12 DEF RunTask, Kill, Take, Begin, Conclude, Return, Rescue, Recompute, Save
  <2> QED BY <1>3, <2>1
<1>13. ASSUME NEW a \in Asset, DeleteAsset(a) PROVE Callers'
  BY <1>3, <1>13 DEF DeleteAsset
<1> QED BY <1>4, <1>5, <1>6, <1>7, <1>8, <1>9, <1>10, <1>11, <1>12, <1>13 DEF Next, Request, Serve

\* Ids are new (auto-increment), so that two requests never insert rows of one.
LEMMA UnwrittenStep == TypeInv /\ [Next]_vars => Unwritten'
<1> SUFFICES ASSUME TypeInv, [Next]_vars PROVE Unwritten'
  OBVIOUS
<1> USE ExecAssumption DEF ExecAssumption, TypeInv, Unwritten, Called, Id
<1>1. Typing /\ Callers /\ Typing' /\ RowsKept
  BY TypingStep, RowsKeptStep
<1>2. \A h \in Handler : /\ call[h].record \in Nat /\ call[h].record <= lastId
                         /\ call[h].at = "rows" => call[h].record \in Id
  BY <1>1 DEF Callers, Typing, CallType
<1>3. ASSUME NEW h \in Handler, InsertRecord(h) PROVE Unwritten'
  <2>1. /\ call'[h].record = lastId' /\ row' = row /\ lastId' = lastId + 1 /\ lastId \in Nat
        /\ \A g \in Handler \ {h} : call'[g] = call[g]
    BY <1>1, <1>3 DEF InsertRecord, Typing, CallType
  <2>2. lastId' \in Id
    BY <1>1, <2>1 DEF Typing
  <2>3. \A g \in Handler \ {h} : call'[g].record # lastId'
    BY <1>2, <2>1
  <2> QED BY <1>1, <2>1, <2>2, <2>3
<1>4. ASSUME NEW h \in Handler, InsertRows(h) PROVE Unwritten'
  <2>1. /\ call'[h].at = "dispatch" /\ \A g \in Handler \ {h} : call'[g] = call[g]
        /\ call[h].at = "rows" /\ lastId' = lastId /\ lastId \in Nat
        /\ \A r \in Id : r # call[h].record => row'[r] = row[r]
    BY <1>1, <1>4 DEF InsertRows, Typing, CallType
  <2>2. \A r \in Id : r > lastId => r # call[h].record
    BY <1>2, <2>1
  <2> QED BY <1>2, <2>1, <2>2
<1>5. ASSUME NEW h \in Handler, \/ Requeue(h) \/ AssetGone(h) \/ GiveUp(h) \/ Request(h)
                                \/ (\E i \in call[h].rows : Publish(h, i))
      PROVE  lastId' = lastId /\ \A g \in Handler : call'[g].at = "rows" => call'[g] = call[g]
  <2>1. lastId' = lastId /\ \A g \in Handler \ {h} : call'[g] = call[g]
    BY <1>1, <1>5 DEF Requeue, AssetGone, GiveUp, Abandon, Request, Submit, Select, Publish, Typing
  <2>2. call'[h].at # "rows"
    BY <1>1, <1>5, AtMoves DEF Request
  <2> QED BY <2>1, <2>2
<1>6. ASSUME \/ \E w \in Worker : RunTask(w) \/ Kill(w)
             \/ \E a \in Asset : DeleteAsset(a)
             \/ UNCHANGED vars
      PROVE  lastId' = lastId /\ call' = call
  BY <1>6 DEF RunTask, Take, Begin, Conclude, Return, Rescue, Recompute, Save, Kill, DeleteAsset, vars
<1>7. ASSUME lastId' = lastId, \A g \in Handler : call'[g].at = "rows" => call'[g] = call[g],
             \A h \in Handler : ~InsertRows(h)
      PROVE  Unwritten'
  BY <1>1, <1>2, <1>7 DEF RowsKept
<1> QED BY <1>3, <1>4, <1>5, <1>6, <1>7 DEF Next, Request, Serve

\* TypeInv holds at the start, is kept, and implies the types.
LEMMA TypeInvInit == Init => TypeInv
<1> SUFFICES ASSUME Init PROVE TypeInv
  OBVIOUS
<1> USE ExecAssumption DEF ExecAssumption, Init, Id, NoId, Called, At
<1>1. Blank \in Record
  BY DEF Blank, Record, Status
<1>2. Typing
  <2>1. IsABag(queue) /\ BagToSet(queue) \subseteq Message
    BY DEF EmptyBag, SetToBag, IsABag, BagToSet
  <2>2. record \in [Id -> Record] /\ row \in [Id -> Seq(Row)]
    BY <1>1
  <2>3. call \in [Handler -> CallType] /\ task \in [Worker -> TaskType]
    BY CallTypes, TaskTypes
  <2>4. \A w \in Worker : task[w].at = "idle"
    BY DEF NoTask
  <2> QED BY <2>1, <2>2, <2>3, <2>4 DEF Typing
<1>3. Inserting = {}
  BY DEF Inserting, NoCall
<1>4. Room
  BY <1>3, FS_EmptySet DEF Room
<1>5. Callers /\ Unwritten
  BY DEF Callers, Unwritten, NoCall
<1> QED BY <1>2, <1>4, <1>5 DEF TypeInv

\* The four lemmas above, together.
LEMMA TypeInvStep == TypeInv /\ [Next]_vars => TypeInv'
BY TypingStep, RoomStep, CallersStep, UnwrittenStep DEF TypeInv

\* TypeOK leaves out what only the steps of requests rely on.
LEMMA TypeInvTypes == TypeInv => TypeOK
<1> SUFFICES ASSUME TypeInv PROVE TypeOK
  OBVIOUS
<1>1. ASSUME NEW h \in Handler
      PROVE  /\ call[h].at \in {"idle", "insert", "rows", "requeue", "dispatch"}
             /\ call[h].key \in Key \cup {NoKey}
             /\ call[h].record \in 0 .. lastId
             /\ call[h].rows \subseteq Nat
  <2>1. call[h] \in CallType /\ lastId \in 0 .. MaxRecord
    BY DEF TypeInv, Typing
  <2> QED BY <2>1, ExecAssumption DEF CallType, TypeInv, Callers, ExecAssumption
<1>2. ASSUME NEW w \in Worker
      PROVE  /\ task[w].at \in {"idle", "begin", "run", "return", "aggregate", "save"}
             /\ ~At(w, "idle") => [record |-> task[w].record, asset |-> task[w].asset] \in Message
  <2>1. task[w] \in TaskType
    BY DEF TypeInv, Typing
  <2> QED BY <2>1 DEF TaskType, TypeInv, Typing, Message
<1> QED BY <1>1, <1>2 DEF TypeOK, TypeInv, Typing

\* TypeInv, for the lemmas of the other invariants.
LEMMA TypeInvHolds == Spec => []TypeInv
BY TypeInvInit, TypeInvStep, PTL DEF Spec

\* Every variable has its type in every reachable state.
THEOREM BatchTypes == Spec => []TypeOK
BY TypeInvHolds, TypeInvTypes, PTL

-----------------------------------------------------------------------------
(* One task per host.                                                      *)

\* A host of a sound record is in the hands of a request that still has to send
\* its message, of the queue, or of a task: Sending, Waiting, Doing.
Msg(r, a)  == [record |-> r, asset |-> a]
Sending(h) == {Msg(call[h].record, row[call[h].record][i].asset) :
                 i \in IF Called(h, "dispatch") /\ Sound(call[h].record) THEN call[h].rows ELSE {}}
Waiting    == {m \in BagToSet(queue) : Sound(m.record)}
Doing(w)   == IF task[w].at \in {"begin", "run", "return"} /\ Sound(task[w].record)
              THEN {Msg(task[w].record, task[w].asset)} ELSE {}

\* The record of message m has a row for its asset, with status s.
Host(m, s) == \E i \in DOMAIN row[m.record] :
                row[m.record][i].asset = m.asset /\ row[m.record][i].status = s

\* The status of the row that a task works on.
Left(w) == IF At(w, "begin") THEN "queued" ELSE IF At(w, "run") THEN "running" ELSE "succeeded"

\* What is to be sent, or waits, is queued; the row a task works on says what the
\* task wrote last.
Backed ==
  /\ \A h \in Handler : \A m \in Sending(h) : Host(m, "queued")
  /\ \A m \in Waiting : Host(m, "queued")
  /\ \A w \in Worker : \A m \in Doing(w) : Host(m, Left(w))

\* A host is in one hand at a time.
Tokens ==
  /\ \A m \in Waiting : queue[m] = 1
  /\ \A g, h \in Handler : g # h => Sending(g) \cap Sending(h) = {}
  /\ \A h \in Handler : Sending(h) \cap Waiting = {}
  /\ \A h \in Handler, w \in Worker : Sending(h) \cap Doing(w) = {}
  /\ \A w \in Worker : Doing(w) \cap Waiting = {}
  /\ \A v, w \in Worker : v # w => Doing(v) \cap Doing(w) = {}

\* Tokens alone is not inductive: a retry must not put a host into a second hand,
\* which it does not because whatever is in a hand has not failed (Backed).
ExecInv == TypeInv /\ Backed /\ Tokens

\* A record that is not sound never becomes it: rows keep their assets, and what a
\* retry spoiled stays spoiled.
LEMMA SoundKept ==
  ASSUME TypeInv, [Next]_vars, NEW r \in Id, Sound(r)'
  PROVE  Sound(r)
<1>1. stale \subseteq stale'
  <2>1. ASSUME NEW h \in Handler, Request(h) \/ Serve(h) \/ GiveUp(h) PROVE stale \subseteq stale'
    BY <2>1 DEF Request, Serve, GiveUp, Submit, InsertRecord, InsertRows, Requeue, Select, Publish,
                AssetGone, Abandon, history
  <2>2. ASSUME NEW w \in Worker, RunTask(w) \/ Kill(w) PROVE stale' = stale
    BY <2>2 DEF RunTask, Take, Begin, Conclude, Return, Rescue, Recompute, Save, Kill, history
  <2> QED BY <2>1, <2>2 DEF Next, vars, DeleteAsset, history
<1>2. Unique(r)
  <2>1. CASE row[r] = << >>
    BY <2>1 DEF Unique
  <2>2. CASE row[r] # << >>
    BY <2>2, RowsKeptStep DEF RowsKept, Sound, Unique
  <2> QED BY <2>1, <2>2
<1> QED BY <1>1, <1>2 DEF Sound

\* The query of a task finds the row its message was built from, and no other
\* (exec_host_result).
LEMMA RowOfRight ==
  ASSUME TypeInv, Backed, NEW w \in Worker, task[w].at \in {"begin", "run", "return"},
         Sound(task[w].record)
  PROVE  \E i \in DOMAIN row[task[w].record] :
           /\ RowOf(w) = {i}
           /\ row[task[w].record][i].asset = task[w].asset
           /\ row[task[w].record][i].status = Left(w)
<1> DEFINE r == task[w].record
           a == task[w].asset
<1>1. r \in Id /\ row[r] \in Seq(Row)
  BY DEF TypeInv, Typing, At
<1>2. Host(Msg(r, a), Left(w))
  BY DEF Backed, Doing
<1>3. PICK i \in DOMAIN row[r] : row[r][i].asset = a /\ row[r][i].status = Left(w)
  BY <1>2 DEF Host, Msg
<1>4. \A j \in 1 .. i - 1 : row[r][j].asset # a
  <2>1. \A j \in 1 .. i - 1 : j \in DOMAIN row[r] /\ j # i
    BY <1>1, <1>3
  <2> QED BY <1>1, <1>3, <2>1 DEF Sound, Unique
<1>5. i \in RowOf(w) /\ \A j \in RowOf(w) : j \in DOMAIN row[r] /\ row[r][j].asset = a
  BY <1>3, <1>4 DEF RowOf
<1>6. RowOf(w) = {i}
  BY <1>1, <1>3, <1>5 DEF Sound, Unique
<1> QED BY <1>3, <1>6

\* A row keeps its status under the steps of those that do not hold it.
LEMMA HostKept ==
  ASSUME ExecInv, [Next]_vars, NEW m \in Message, NEW s \in {"queued", "running", "succeeded"},
         Host(m, s), Sound(m.record)',
         \A w \in Worker : Begin(w) \/ Rescue(w) \/ (\E t \in RowStatus : Conclude(w, t))
                             => m \notin Doing(w)
  PROVE  Host(m, s)'
<1> USE DEF ExecInv
<1> DEFINE r == m.record
<1>1. PICK i \in DOMAIN row[r] : row[r][i].asset = m.asset /\ row[r][i].status = s
  BY DEF Host
<1>2. r \in Id /\ m = Msg(r, m.asset)
  BY DEF Message, Msg
<1>0. Sound(r)
  BY <1>2, SoundKept
<1>3. DOMAIN row'[r] = DOMAIN row[r] /\ row'[r][i].asset = m.asset
  <2>1. row[r] # << >>
    BY <1>1
  <2> QED BY <1>1, <1>2, <2>1, RowsKeptStep DEF RowsKept
<1>4. ASSUME NEW w \in Worker, task[w].at \in {"begin", "run", "return"}, m \notin Doing(w),
             NEW t, Rewritten(task[w].record, RowOf(w), t), task[w].record \in Id
      PROVE  row'[r][i] = row[r][i]
  <2>1. CASE r # task[w].record
    BY <1>2, <1>4, <2>1 DEF Rewritten
  <2>2. CASE r = task[w].record
    <3>1. m.asset # task[w].asset
      BY <1>0, <1>2, <1>4, <2>2 DEF Doing
    <3>2. i \notin RowOf(w)
      BY <1>1, <2>2, <3>1 DEF RowOf
    <3> QED BY <1>1, <1>4, <2>2, <3>2 DEF Rewritten
  <2> QED BY <2>1, <2>2
<1>5. row'[r][i].status = s
  <2>1. CASE row' = row
    BY <1>1, <2>1
  <2>2. ASSUME NEW h \in Handler, InsertRows(h) PROVE row'[r] = row[r]
    <3>1. row[call[h].record] = << >>
      BY <2>2 DEF InsertRows, TypeInv, Unwritten, Called
    <3> QED BY <1>1, <1>2, <2>2, <3>1 DEF InsertRows, TypeInv, Typing
  <2>3. ASSUME NEW h \in Handler, Requeue(h), call[h].record \in Id,
               Rewritten(call[h].record, call[h].rows, "queued")
        PROVE  row'[r][i] = row[r][i]
    <3>1. CASE r # call[h].record
      BY <1>2, <2>3, <3>1 DEF Rewritten
    <3>2. CASE r = call[h].record
      <4>1. call[h].rows \subseteq Retriable(r)
        BY <2>3, <3>2 DEF Requeue, Sound
      <4>2. i \notin call[h].rows
        BY <1>1, <4>1 DEF Retriable, RowsIn
      <4> QED BY <1>1, <2>3, <3>2, <4>2 DEF Rewritten
    <3> QED BY <3>1, <3>2
  <2>4. ASSUME NEW w \in Worker, Begin(w), task[w].record \in Id,
               Rewritten(task[w].record, RowOf(w), "running")
        PROVE  row'[r][i] = row[r][i]
    BY <1>4, <2>4 DEF Begin, At
  <2>5. ASSUME NEW w \in Worker, NEW t \in {"succeeded", "failed"}, Conclude(w, t),
               task[w].record \in Id, Rewritten(task[w].record, RowOf(w), t)
        PROVE  row'[r][i] = row[r][i]
    BY <1>4, <2>5 DEF Conclude, At, RowStatus
  <2>6. ASSUME NEW w \in Worker, Rescue(w), task[w].record \in Id,
               Rewritten(task[w].record, RowOf(w), "failed")
        PROVE  row'[r][i] = row[r][i]
    BY <1>4, <2>6 DEF Rescue, At
  <2>7. RowMove
    BY RowMoves
  <2> QED BY <1>1, <2>1, <2>2, <2>3, <2>4, <2>5, <2>6, <2>7 DEF RowMove
<1> QED BY <1>1, <1>3, <1>5 DEF Host

\* No hand of H or W gets hold of anything.
Fewer(H, W) == /\ \A h \in H : Sending(h)' \subseteq Sending(h)
               /\ \A w \in W : Doing(w)' \subseteq Doing(w)

\* m is in no hand: Backed says what status it would have.
Free(m) == \A s \in {"queued", "running", "succeeded"} : ~Host(m, s)

\* The ways hosts move between hands: they are dropped, published, taken by a
\* worker, or come into the hand of a request (InsertRows, Requeue).
Lose    == /\ Fewer(Handler, Worker)
           /\ Waiting' \subseteq Waiting /\ \A m \in Waiting' : queue'[m] = queue[m]
Sent    == \E h \in Handler : \E m \in Sending(h) :
             /\ Fewer(Handler, Worker) /\ m \notin Sending(h)'
             /\ queue' = queue (+) SetToBag({m})
Taken   == \E w \in Worker : \E m \in Waiting :
             /\ Fewer(Handler, Worker \ {w}) /\ Doing(w)' \subseteq {m}
             /\ queue' = queue (-) SetToBag({m})
Entered == \E h \in Handler :
             /\ Fewer(Handler \ {h}, Worker) /\ queue' = queue
             /\ \A m \in Sending(h)' : Free(m)

\* A message waits that waited before, or was added to the queue.
LEMMA WaitingKept ==
  ASSUME TypeInv, [Next]_vars, NEW m \in Waiting', m \in BagToSet(queue)
  PROVE  m \in Waiting
<1>1. m.record \in Id /\ Sound(m.record)'
  BY DEF TypeInv, Typing, Message, Waiting
<1> QED BY <1>1, SoundKept DEF Waiting

\* None of them puts a host into two hands.
LEMMA TokensStep ==
  ASSUME ExecInv, [Next]_vars, Lose \/ Sent \/ Taken \/ Entered
  PROVE  Tokens'
<1>0. IsABag(queue) /\ Tokens /\ Backed /\ TypeInv
  BY DEF ExecInv, TypeInv, Typing
<1>1. CASE Lose
  BY <1>0, <1>1 DEF Lose, Fewer, Tokens
<1>2. CASE Sent
  <2> PICK h \in Handler : \E m \in Sending(h) :
        /\ Fewer(Handler, Worker) /\ m \notin Sending(h)'
        /\ queue' = queue (+) SetToBag({m})
    BY <1>2 DEF Sent
  <2>1. PICK m \in Sending(h) :
          /\ Fewer(Handler, Worker) /\ m \notin Sending(h)'
          /\ queue' = queue (+) SetToBag({m})
    OBVIOUS
  <2>2. /\ BagToSet(queue') = BagToSet(queue) \cup {m}
        /\ \A n \in BagToSet(queue) : n # m => queue'[n] = queue[n]
        /\ m \notin BagToSet(queue) => queue'[m] = 1
    <3>1. queue' = queue (+) SetToBag({m}) /\ IsABag(queue)
      BY <1>0, <2>1
    <3> HIDE DEF Sending
    <3>2. BagToSet(queue') = BagToSet(queue) \cup {m} /\ (m \notin BagToSet(queue) => queue'[m] = 1)
      BY <3>1, BagAdded
    <3>3. ASSUME NEW n \in BagToSet(queue), n # m PROVE queue'[n] = queue[n]
      BY <3>1, <3>3 DEF IsABag, BagToSet, SetToBag, (+)
    <3> QED BY <3>2, <3>3
  <2>3. m \notin Waiting /\ \A g \in Handler : m \notin Sending(g)'
    BY <1>0, <2>1 DEF Tokens, Fewer
  <2>4. \A w \in Worker : m \notin Doing(w)'
    BY <1>0, <2>1 DEF Tokens, Fewer
  <2>8. m \notin BagToSet(queue)
    BY <2>3 DEF Waiting, Sending, Msg
  <2>9. \A n \in Waiting' : n = m \/ n \in Waiting
    BY <1>0, <2>2, WaitingKept DEF Waiting
  <2>5. \A n \in Waiting' : queue'[n] = 1
    <3>1. \A n \in Waiting : n \in BagToSet(queue) /\ queue[n] = 1
      BY <1>0 DEF Tokens, Waiting
    <3> QED BY <2>2, <2>8, <2>9, <3>1
  <2>6. \A g \in Handler : Sending(g)' \subseteq Sending(g) \ {m}
    BY <2>1, <2>3 DEF Fewer
  <2>7. \A w \in Worker : Doing(w)' \subseteq Doing(w) \ {m}
    BY <2>1, <2>4 DEF Fewer
  <2> HIDE DEF Sending, Waiting, Doing
  <2> QED BY <1>0, <2>5, <2>6, <2>7, <2>9 DEF Tokens
<1>3. CASE Taken
  <2>1. PICK w \in Worker, m \in Waiting :
          /\ Fewer(Handler, Worker \ {w}) /\ Doing(w)' \subseteq {m}
          /\ queue' = queue (-) SetToBag({m})
    BY <1>3 DEF Taken
  <2>2. /\ BagToSet(queue') = BagToSet(queue) \ {m}
        /\ \A n \in BagToSet(queue') \ {m} : queue'[n] = queue[n]
    <3>1. queue[m] = 1 /\ m \in BagToSet(queue)
      BY <1>0 DEF Tokens, Waiting
    <3> QED BY <1>0, <2>1, <3>1, BagTaken
  <2>10. Waiting' \subseteq Waiting \ {m} /\ \A n \in Waiting' : queue'[n] = 1
    <3>1. \A n \in Waiting' : n \in BagToSet(queue) /\ n # m /\ n \in BagToSet(queue')
      BY <2>2 DEF Waiting
    <3>2. \A n \in Waiting' : n \in Waiting
      BY <1>0, <3>1, WaitingKept
    <3> QED BY <1>0, <2>2, <3>1, <3>2 DEF Tokens
  <2>3. \A h \in Handler : m \notin Sending(h)'
    BY <1>0, <2>1 DEF Tokens, Fewer
  <2>4. \A v \in Worker \ {w} : m \notin Doing(v)'
    BY <1>0, <2>1 DEF Tokens, Fewer
  <2>5. \A h \in Handler : Sending(h)' \subseteq Sending(h) \ {m}
    BY <2>1, <2>3 DEF Fewer
  <2>6. \A v \in Worker \ {w} : Doing(v)' \subseteq Doing(v) \ {m}
    BY <2>1, <2>4 DEF Fewer
  <2>7. \A v \in Worker : Doing(v)' \cap Waiting' = {}
    BY <1>0, <2>1, <2>6, <2>10 DEF Tokens
  <2>8. \A u, v \in Worker : u # v => Doing(u)' \cap Doing(v)' = {}
    BY <1>0, <2>1, <2>6 DEF Tokens
  <2>9. \A h \in Handler, v \in Worker : Sending(h)' \cap Doing(v)' = {}
    BY <1>0, <2>1, <2>5, <2>6 DEF Tokens
  <2> QED BY <1>0, <2>5, <2>7, <2>8, <2>9, <2>10 DEF Tokens
<1>4. CASE Entered
  <2>1. PICK h \in Handler :
          /\ Fewer(Handler \ {h}, Worker) /\ queue' = queue
          /\ \A m \in Sending(h)' : Free(m)
    BY <1>4 DEF Entered
  <2>2. ASSUME NEW m \in Sending(h)'
        PROVE  /\ m \notin Waiting
               /\ \A g \in Handler : m \notin Sending(g)
               /\ \A w \in Worker : m \notin Doing(w)
    BY <1>0, <2>1 DEF Backed, Free, Left
  <2>3. Waiting' \subseteq Waiting
    <3>1. \A m \in Waiting' : m \in BagToSet(queue)
      BY <2>1 DEF Waiting
    <3> QED BY <1>0, <3>1, WaitingKept
  <2> QED BY <1>0, <2>1, <2>2, <2>3 DEF Tokens, Fewer
<1> QED BY <1>1, <1>2, <1>3, <1>4

\* What a request has to send does not grow by the steps of others.
LEMMA SendingKept ==
  ASSUME TypeInv, [Next]_vars, NEW h \in Handler, call'[h] = call[h]
  PROVE  Sending(h)' \subseteq Sending(h)
<1>1. CASE ~(Called(h, "dispatch")' /\ Sound(call[h].record)')
  BY <1>1 DEF Sending
<1>2. CASE Called(h, "dispatch")' /\ Sound(call[h].record)'
  <2>1. /\ Called(h, "dispatch") /\ call[h].record \in Id
        /\ call[h].rows \subseteq DOMAIN row[call[h].record]
    BY <1>2 DEF TypeInv, Callers, Called
  <2>2. \A i \in call[h].rows : row'[call[h].record][i].asset = row[call[h].record][i].asset
    BY <2>1, RowsKeptStep DEF RowsKept
  <2>3. Sound(call[h].record)
    BY <1>2, <2>1, SoundKept
  <2> QED BY <2>1, <2>2, <2>3 DEF Sending, Called
<1> QED BY <1>1, <1>2

\* Nor does what a task holds.
LEMMA DoingKept ==
  ASSUME TypeInv, [Next]_vars, NEW w \in Worker,
         task'[w].at \in {"begin", "run", "return"} => task[w].at \in {"begin", "run", "return"},
         ~At(w, "idle") => task'[w].record = task[w].record /\ task'[w].asset = task[w].asset
  PROVE  Doing(w)' \subseteq Doing(w)
<1>1. CASE ~(task'[w].at \in {"begin", "run", "return"} /\ Sound(task[w].record)')
  BY <1>1 DEF Doing
<1>2. CASE task'[w].at \in {"begin", "run", "return"} /\ Sound(task[w].record)'
  <2>1. PICK r \in Id : r = task[w].record
    BY <1>2 DEF TypeInv, Typing, At
  <2>2. task'[w].record = r /\ task'[w].asset = task[w].asset
    BY <1>2, <2>1 DEF At
  <2>3. Sound(r)'
    BY <1>2, <2>2 DEF Sound, Unique
  <2> QED BY <1>2, <2>1, <2>2, <2>3, SoundKept DEF Doing, Msg
<1> QED BY <1>1, <1>2

\* Every step moves hosts in one of these ways.
LEMMA TokenMoves ==
  ASSUME ExecInv, [Next]_vars
  PROVE  Lose \/ Sent \/ Taken \/ Entered
<1> USE DEF ExecInv
<1>1. Typing
  BY DEF TypeInv
<1>2. ASSUME NEW h \in Handler, Request(h) \/ Serve(h) \/ GiveUp(h)
      PROVE  Fewer(Handler \ {h}, Worker)
  <2>1. \A g \in Handler \ {h} : Sending(g)' \subseteq Sending(g)
    BY <1>1, <1>2, OtherCalls, SendingKept
  <2>2. \A w \in Worker : Doing(w)' \subseteq Doing(w)
    BY <1>1, <1>2, OtherCalls, DoingKept
  <2> QED BY <2>1, <2>2 DEF Fewer
<1>3. ASSUME NEW w \in Worker, RunTask(w) \/ Kill(w)
      PROVE  Fewer(Handler, Worker \ {w})
  <2>1. \A h \in Handler : Sending(h)' \subseteq Sending(h)
    BY <1>1, <1>3, OtherTasks, SendingKept
  <2>2. \A v \in Worker \ {w} : Doing(v)' \subseteq Doing(v)
    BY <1>1, <1>3, OtherTasks, DoingKept
  <2> QED BY <2>1, <2>2 DEF Fewer
<1>0. ASSUME queue' = queue, Fewer(Handler, Worker) PROVE Lose
  <2>1. \A m \in Waiting' : m \in BagToSet(queue)
    BY <1>0 DEF Waiting
  <2>2. Waiting' \subseteq Waiting
    BY <2>1, WaitingKept
  <2> QED BY <1>0, <2>2 DEF Lose
<1>4. ASSUME UNCHANGED vars \/ \E a \in Asset : DeleteAsset(a) PROVE Lose
  <2>1. \A h \in Handler : Sending(h)' \subseteq Sending(h)
    BY <1>4, NoOthers, SendingKept
  <2>2. \A w \in Worker : Doing(w)' \subseteq Doing(w)
    BY <1>4, NoOthers, DoingKept
  <2> QED BY <1>0, <1>4, <2>1, <2>2, NoOthers DEF Fewer
<1>5. ASSUME NEW h \in Handler, Request(h) \/ InsertRecord(h) \/ AssetGone(h) \/ GiveUp(h)
      PROVE  Lose
  <2>1. call'[h].at # "dispatch"
    BY <1>1, <1>5, AtMoves DEF Request
  <2>2. Sending(h)' = {}
    BY <2>1 DEF Sending, Called
  <2>3. queue' = queue
    BY <1>5 DEF Request, Submit, Select, InsertRecord, AssetGone, GiveUp, Abandon
  <2>4. Fewer(Handler, Worker)
    BY <1>2, <1>5, <2>2 DEF Fewer, Serve
  <2> QED BY <1>0, <2>3, <2>4
<1>6. ASSUME NEW h \in Handler, InsertRows(h) PROVE Entered
  <2>1. call'[h].record = call[h].record /\ queue' = queue
    BY <1>1, <1>6 DEF InsertRows, Typing, CallType
  <2>2. row[call[h].record] = << >>
    BY <1>6 DEF InsertRows, TypeInv, Unwritten, Called
  <2>3. \A m \in Sending(h)' : Free(m)
    BY <2>1, <2>2 DEF Sending, Free, Host, Msg
  <2> QED BY <1>2, <1>6, <2>1, <2>3 DEF Entered, Serve
<1>7. ASSUME NEW h \in Handler, Requeue(h) PROVE Entered
  <2>0. PICK r \in Id : r = call[h].record
    BY <1>7 DEF Requeue, TypeInv, Callers, Called
  <2>1. /\ call'[h].record = r /\ call'[h].rows = call[h].rows /\ queue' = queue
        /\ call[h].rows \subseteq DOMAIN row[r]
    BY <1>1, <1>7, <2>0 DEF Requeue, Typing, CallType, TypeInv, Callers, Called
  <2>2. ASSUME Sound(r)', NEW i \in call[h].rows PROVE Free(Msg(r, row'[r][i].asset))
    <3>1. row'[r][i].asset = row[r][i].asset
      BY <2>1, RowsKeptStep DEF RowsKept
    <3>2. call[h].rows \subseteq Retriable(r)
      BY <1>7, <2>0, <2>2 DEF Requeue, Sound
    <3>3. row[r][i].status \in {"failed", "timed_out"}
      BY <2>2, <3>2 DEF Retriable, RowsIn
    <3>4. \A j \in DOMAIN row[r] : row[r][j].asset = row[r][i].asset => j = i
      BY <2>1, <2>2, SoundKept DEF Sound, Unique
    <3> QED BY <3>1, <3>3, <3>4 DEF Free, Host, Msg
  <2>3. \A m \in Sending(h)' : Sound(call[h].record)' /\ \E i \in call[h].rows : m = Msg(r, row'[r][i].asset)
    BY <2>1 DEF Sending
  <2>4. Sound(call[h].record)' => Sound(r)'
    BY <2>1 DEF Sound, Unique
  <2> QED BY <1>2, <1>7, <2>1, <2>2, <2>3, <2>4 DEF Entered, Serve
<1>8. ASSUME NEW h \in Handler, NEW i \in call[h].rows, Publish(h, i) PROVE Sent \/ Lose
  <2>0. PICK r \in Id : r = call[h].record
    BY <1>8 DEF Publish, TypeInv, Callers, Called
  <2> DEFINE m == Msg(r, row[r][i].asset)
  <2>1. /\ call[h].rows \subseteq DOMAIN row[r] /\ Called(h, "dispatch") /\ row' = row /\ stale' = stale
    BY <1>8, <2>0 DEF Publish, TypeInv, Callers, Called, history
  <2>2. \/ call'[h].at = "idle"
        \/ call'[h].record = r /\ call'[h].rows = call[h].rows \ {i}
    BY <1>1, <1>8, <2>0 DEF Publish, Typing, CallType, NoCall
  <2>3. queue' = queue (+) SetToBag({m})
    BY <1>8, <2>0, <2>1 DEF Publish, Msg
  <2>4. CASE Sound(r)
    <3>1. m \in Sending(h)
      BY <2>0, <2>1, <2>4 DEF Sending
    <3>2. \A j \in call[h].rows : row[r][j].asset = row[r][i].asset => j = i
      BY <2>1, <2>4 DEF Sound, Unique
    <3>3. Sending(h)' \subseteq Sending(h) \ {m}
      BY <2>0, <2>1, <2>2, <2>4, <3>2 DEF Sending, Called, Msg
    <3> HIDE DEF m
    <3>4. Fewer(Handler, Worker)
      BY <1>2, <1>8, <3>3 DEF Fewer, Serve
    <3> QED BY <2>3, <3>1, <3>3, <3>4 DEF Sent
  <2>5. CASE ~Sound(r)
    <3>1. ~Sound(r)'
      BY <2>1, <2>5 DEF Sound, Unique
    <3>2. Sending(h)' = {}
      <4>1. CASE call'[h].at = "idle"
        BY <4>1 DEF Sending, Called
      <4>2. CASE call'[h].record = r
        <5>1. ~Sound(call[h].record)'
          BY <3>1, <4>2 DEF Sound, Unique
        <5> QED BY <5>1 DEF Sending
      <4> QED BY <2>2, <4>1, <4>2
    <3>3. Fewer(Handler, Worker)
      BY <1>2, <1>8, <3>2 DEF Fewer, Serve
    <3>4. m \notin Waiting'
      BY <3>1 DEF Waiting, Msg
    <3> HIDE DEF m
    <3>5. IsABag(queue)
      BY <1>1 DEF Typing
    <3>6. BagToSet(queue') = BagToSet(queue) \cup {m}
      BY <2>3, <3>5, BagAdded
    <3>7. ASSUME NEW n \in BagToSet(queue), n # m PROVE queue'[n] = queue[n]
      BY <2>3, <3>5, <3>7 DEF IsABag, BagToSet, SetToBag, (+)
    <3>8. \A n \in Waiting' : n \in BagToSet(queue) /\ n # m
      BY <3>4, <3>6 DEF Waiting
    <3>9. \A n \in Waiting' : n \in Waiting
      BY <3>8, WaitingKept
    <3> QED BY <3>3, <3>7, <3>8, <3>9 DEF Lose
  <2> QED BY <2>4, <2>5
<1>9. ASSUME NEW w \in Worker, NEW m \in BagToSet(queue), Take(w, m) PROVE Taken \/ Lose
  <2>1. m \in Message /\ IsABag(queue)
    BY <1>1 DEF Typing
  <2>2. row' = row /\ stale' = stale /\ queue' = queue (-) SetToBag({m})
    BY <1>9 DEF Take, history
  <2>3. Doing(w)' \subseteq {m}
    BY <1>1, <1>9, <2>1 DEF Take, Doing, Msg, Message, NoTask, Typing
  <2>4. CASE Sound(m.record)
    <3>1. m \in Waiting
      BY <2>4 DEF Waiting
    <3> QED BY <1>3, <1>9, <2>2, <2>3, <3>1 DEF Taken, RunTask
  <2>5. CASE ~Sound(m.record)
    <3>1. ~Sound(m.record)'
      BY <2>2, <2>5 DEF Sound, Unique
    <3>2. Doing(w)' = {}
      <4>1. CASE task'[w].at # "begin"
        BY <1>1, <1>9, <4>1, AtTaskMoves DEF Doing
      <4>2. CASE task'[w].at = "begin"
        <5>1. task'[w].record = m.record
          BY <1>1, <1>9, <4>2 DEF Take, NoTask, Typing
        <5>2. ~Sound(task[w].record)'
          BY <3>1, <5>1 DEF Sound, Unique
        <5> QED BY <5>2 DEF Doing
      <4> QED BY <4>1, <4>2
    <3>3. Fewer(Handler, Worker)
      BY <1>3, <1>9, <3>2 DEF Fewer, RunTask
    <3>4. m \notin Waiting'
      BY <3>1 DEF Waiting
    <3>5. BagToSet(queue') \subseteq BagToSet(queue) /\ \A n \in BagToSet(queue') \ {m} : queue'[n] = queue[n]
      <4>1. BagToSet(queue') \subseteq BagToSet(queue)
        BY <2>1, <2>2, BagTaken
      <4>2. ASSUME NEW n \in BagToSet(queue'), n # m PROVE queue'[n] = queue[n]
        BY <2>1, <2>2, <4>2 DEF IsABag, BagToSet, SetToBag, (-)
      <4> QED BY <4>1, <4>2
    <3>6. \A n \in Waiting' : n \in BagToSet(queue) /\ queue'[n] = queue[n]
      BY <3>4, <3>5 DEF Waiting
    <3>7. \A n \in Waiting' : n \in Waiting
      BY <3>6, WaitingKept
    <3> QED BY <3>3, <3>6, <3>7 DEF Lose
  <2> QED BY <2>4, <2>5
<1>10. ASSUME NEW w \in Worker, Begin(w) \/ Return(w) \/ Rescue(w) \/ Recompute(w) \/ Save(w) \/ Kill(w)
                                \/ \E s \in RowStatus : Conclude(w, s)
       PROVE  Lose
  <2>1. queue' = queue
    BY <1>10 DEF Begin, Return, Rescue, Recompute, Save, Kill, Conclude
  <2>2. ASSUME \/ Begin(w) \/ Return(w) \/ Rescue(w) \/ Recompute(w)
               \/ \E s \in RowStatus : Conclude(w, s)
        PROVE  Doing(w)' \subseteq Doing(w)
    <3>1. task'[w].record = task[w].record /\ task'[w].asset = task[w].asset
      BY <1>1, <2>2 DEF Begin, Return, Rescue, Recompute, Conclude, Typing, TaskType
    <3>2. task'[w].at \in {"begin", "run", "return"} => task[w].at \in {"begin", "run", "return"}
      BY <1>1, <2>2, AtTaskMoves DEF Begin, Conclude, At
    <3> QED BY <3>1, <3>2, DoingKept
  <2>3. ASSUME Save(w) \/ Kill(w) PROVE Doing(w)' = {}
    <3>1. task'[w].at = "idle"
      BY <1>1, <2>3, AtTaskMoves
    <3> QED BY <3>1 DEF Doing
  <2>4. Fewer(Handler, Worker)
    BY <1>3, <1>10, <2>2, <2>3 DEF Fewer, RunTask
  <2> QED BY <1>0, <2>1, <2>4
<1> QED BY <1>4, <1>5, <1>6, <1>7, <1>8, <1>9, <1>10 DEF Next, Serve, RunTask

\* Whoever holds a host finds its row in the status it left it in.
LEMMA BackedStep ==
  ASSUME ExecInv, [Next]_vars
  PROVE  Backed'
<1> USE DEF ExecInv
<1>1. Typing /\ Typing'
  BY TypingStep DEF TypeInv
<1>2. ASSUME NEW m \in Message, Host(m, "queued"), Sound(m.record)',
             \A w \in Worker : m \notin Doing(w)
      PROVE  Host(m, "queued")'
  BY <1>2, HostKept
<1>3. ASSUME NEW h \in Handler, NEW m \in Sending(h) PROVE m \in Message
  <2>1. call[h].record \in Id /\ call[h].rows \subseteq DOMAIN row[call[h].record]
    BY <1>3 DEF Sending, TypeInv, Callers, Called
  <2>2. \A i \in call[h].rows : row[call[h].record][i] \in Row
    BY <1>1, <2>1 DEF Typing
  <2> QED BY <1>3, <2>1, <2>2 DEF Sending, Msg, Message, Row
<1>4. ASSUME NEW h \in Handler, NEW m \in Sending(h), Sound(m.record)' PROVE Host(m, "queued")'
  BY <1>2, <1>3, <1>4 DEF Backed, Tokens
<1>5. ASSUME NEW m \in Waiting, Sound(m.record)' PROVE Host(m, "queued")'
  <2>1. m \in Message
    BY <1>1 DEF Typing, Waiting
  <2> QED BY <1>2, <1>5, <2>1 DEF Backed, Tokens
<1>a. ASSUME NEW h \in Handler, NEW m \in Sending(h)' PROVE Sound(m.record)'
  <2>1. Sound(call[h].record)' /\ m.record = call'[h].record
    BY <1>a DEF Sending, Msg
  <2> QED BY <2>1 DEF Sound, Unique
<1>6. ASSUME NEW h \in Handler, NEW m \in Sending(h)' PROVE Host(m, "queued")'
  <2>1. CASE m \in Sending(h)
    BY <1>4, <1>a, <2>1
  <2>2. CASE InsertRows(h)
    <3> DEFINE r == call[h].record
    <3>1. PICK i \in call'[h].rows : m = Msg(call'[h].record, row'[call'[h].record][i].asset)
      BY DEF Sending
    <3>2. call'[h].record = r /\ call'[h].rows = DOMAIN call[h].list /\ r \in Id
      BY <1>1, <2>2 DEF InsertRows, Typing, CallType, TypeInv, Callers, Called
    <3>3. row'[r] = [j \in DOMAIN call[h].list |-> [asset |-> call[h].list[j], status |-> "queued"]]
      BY <1>1, <2>2, <3>2 DEF InsertRows, Typing
    <3>4. i \in DOMAIN row'[r] /\ row'[r][i].status = "queued" /\ m = Msg(r, row'[r][i].asset)
      BY <3>1, <3>2, <3>3
    <3> QED BY <3>4 DEF Host, Msg
  <2>3. CASE Requeue(h)
    <3> DEFINE r == call[h].record
    <3>1. PICK i \in call'[h].rows : m = Msg(call'[h].record, row'[call'[h].record][i].asset)
      BY DEF Sending
    <3>2. /\ call'[h].record = r /\ call'[h].rows = call[h].rows /\ r \in Id
          /\ call[h].rows \subseteq DOMAIN row[r]
      BY <1>1, <2>3 DEF Requeue, Typing, CallType, TypeInv, Callers, Called
    <3>3. Rewritten(r, call[h].rows, "queued")
      BY <1>1, <2>3, <3>2, SetRowsRewrites DEF Requeue, Typing, RowStatus
    <3>4. DOMAIN row'[r] = DOMAIN row[r] /\ row'[r][i].status = "queued"
      BY <3>1, <3>2, <3>3 DEF Rewritten
    <3> QED BY <3>1, <3>2, <3>4 DEF Host, Msg
  <2>4. ASSUME call'[h] = call[h] PROVE Sending(h)' \subseteq Sending(h)
    BY <2>4, SendingKept
  <2>5. ASSUME NEW i \in call[h].rows, Publish(h, i) PROVE m \in Sending(h)
    <3>1. PICK j \in call'[h].rows : m = Msg(call'[h].record, row'[call'[h].record][j].asset)
      BY DEF Sending
    <3>2. call'[h].record = call[h].record /\ call'[h].rows \subseteq call[h].rows
      BY <1>1, <2>5, <3>1 DEF Publish, Typing, CallType, NoCall
    <3>3. row' = row /\ stale' = stale /\ Called(h, "dispatch")
      BY <2>5 DEF Publish, history
    <3>4. Sound(call[h].record)
      BY <1>a, <3>1, <3>2, <3>3 DEF Sound, Unique, Msg
    <3> QED BY <3>1, <3>2, <3>3, <3>4 DEF Sending
  <2>6. call'[h].at = "dispatch"
    BY DEF Sending, Called
  <2>7. ASSUME NEW g \in Handler, Request(g) \/ Serve(g) \/ GiveUp(g), g # h PROVE call'[h] = call[h]
    BY <1>1, <2>7, OtherCalls
  <2> QED BY <1>1, <2>1, <2>2, <2>3, <2>4, <2>5, <2>6, <2>7, AtMoves, OtherTasks, NoOthers
          DEF Next, Request, Serve
<1>7. ASSUME NEW m \in Waiting' PROVE Host(m, "queued")'
  <2>1. BagToSet(queue) \subseteq Message /\ IsABag(queue)
    BY <1>1 DEF Typing
  <2>2. m \in Waiting \/ \E h \in Handler : m \in Sending(h)
    <3>1. ASSUME NEW h \in Handler, NEW n \in Sending(h), queue' = queue (+) SetToBag({n}), m # n
          PROVE  m \in Waiting
      <4>1. BagToSet(queue') = BagToSet(queue) \cup {n}
        BY <2>1, <3>1, BagAdded
      <4>2. m \in BagToSet(queue)
        BY <3>1, <4>1 DEF Waiting
      <4> QED BY <4>2, WaitingKept
    <3>2. ASSUME NEW n \in Waiting, queue' = queue (-) SetToBag({n})
          PROVE  m \in Waiting
      <4>1. BagToSet(queue') \subseteq BagToSet(queue)
        BY <2>1, <3>2, BagTaken DEF Waiting
      <4>2. m \in BagToSet(queue)
        BY <3>2, <4>1 DEF Waiting
      <4> QED BY <4>2, WaitingKept
    <3>3. ASSUME queue' = queue PROVE m \in Waiting
      <4>1. m \in BagToSet(queue)
        BY <3>3 DEF Waiting
      <4> QED BY <4>1, WaitingKept
    <3> QED BY <3>1, <3>2, <3>3, TokenMoves DEF Lose, Sent, Taken, Entered
  <2>3. Sound(m.record)'
    BY DEF Waiting
  <2> QED BY <1>4, <1>5, <2>2, <2>3
<1>8. ASSUME NEW w \in Worker, NEW m \in Doing(w)'
      PROVE  Host(m, Left(w))'
  <2>0. /\ task'[w].at \in {"begin", "run", "return"} /\ m = Msg(task'[w].record, task'[w].asset)
        /\ Sound(task[w].record)'
    BY <1>8 DEF Doing
  <2>1. Sound(m.record)' /\ m \in Message
    <3>1. task'[w].record \in Id /\ task'[w].asset \in Asset
      BY <1>1, <2>0 DEF Typing, At
    <3> QED BY <2>0, <3>1 DEF Sound, Unique, Msg, Message
  <2>2. ASSUME NEW s \in {"queued", "running", "succeeded"}, Host(m, s), m \in Doing(w),
               task'[w] = task[w]
        PROVE  Host(m, s)'
    <3>1. \A v \in Worker : Begin(v) \/ Rescue(v) \/ (\E t \in RowStatus : Conclude(v, t)) => v # w
      BY <1>1, <2>2 DEF Begin, Rescue, Conclude, Typing, TaskType, At
    <3>2. \A v \in Worker : Begin(v) \/ Rescue(v) \/ (\E t \in RowStatus : Conclude(v, t)) => m \notin Doing(v)
      BY <2>2, <3>1 DEF Tokens
    <3> QED BY <2>1, <2>2, <3>2, HostKept
  <2>3. CASE task'[w] = task[w]
    <3>1. m \in Doing(w)
      BY <2>3, DoingKept
    <3>2. Left(w)' = Left(w) /\ Left(w) \in {"queued", "running", "succeeded"}
      BY <2>3 DEF Left, At
    <3>3. PICK s \in {"queued", "running", "succeeded"} : s = Left(w)
      BY <3>2
    <3>4. Host(m, s)
      BY <3>1, <3>3 DEF Backed
    <3>5. Host(m, s)'
      BY <2>2, <2>3, <3>1, <3>4
    <3>6. Left(w)' = s
      BY <3>2, <3>3
    <3> QED BY <3>5, <3>6 DEF Host
  <2>4. ASSUME NEW n \in BagToSet(queue), Take(w, n)
        PROVE  Host(m, Left(w))'
    <3>1. n \in Message
      BY <1>1 DEF Typing
    <3>2. m = n /\ task'[w].at = "begin"
      BY <1>1, <2>0, <2>4, <3>1 DEF Take, Msg, Message, NoTask, Typing
    <3>3. n \in Waiting
      BY <2>1, <3>2, SoundKept DEF Waiting, Message
    <3>4. Host(m, "queued")'
      BY <1>5, <2>1, <3>2, <3>3
    <3> QED BY <3>2, <3>4 DEF Left, At, Host
  <2>5. ASSUME NEW s \in {"running", "succeeded"}, NEW r \in Id, r = task[w].record,
               Rewritten(r, RowOf(w), s), task[w].at \in {"begin", "run"},
               task'[w].record = r, task'[w].asset = task[w].asset
        PROVE  Host(m, s)'
    <3>1. Sound(r)
      BY <2>1, <2>0, <2>5, SoundKept DEF Msg
    <3>2. PICK i \in DOMAIN row[r] : RowOf(w) = {i} /\ row[r][i].asset = task[w].asset
      BY <2>5, <3>1, RowOfRight
    <3>3. DOMAIN row'[r] = DOMAIN row[r]
      BY <2>5 DEF Rewritten
    <3>4. row'[r][i].asset = task[w].asset /\ row'[r][i].status = s
      BY <2>5, <3>2 DEF Rewritten
    <3> QED BY <2>0, <2>5, <3>2, <3>3, <3>4 DEF Host, Msg
  <2>6. PICK r \in Id : r = task[w].record \/ task[w].at = "idle"
    BY <1>1, <2>0 DEF Typing, At
  <2>7. CASE Begin(w)
    <3>1. /\ task'[w].record = task[w].record /\ task'[w].asset = task[w].asset
          /\ task'[w].at = "run" /\ task[w].asset \in assets /\ task[w].at = "begin" /\ r = task[w].record
      BY <1>1, <2>0, <2>6, <2>7 DEF Begin, Typing, TaskType, At
    <3>2. Rewritten(r, RowOf(w), "running")
      BY <1>1, <2>7, <3>1, SetRowsRewrites DEF Begin, Typing, RowStatus
    <3>3. Host(m, "running")'
      BY <2>5, <3>1, <3>2
    <3> QED BY <3>1, <3>3 DEF Left, At, Host
  <2>8. ASSUME NEW s \in RowStatus, Conclude(w, s) PROVE Host(m, Left(w))'
    <3>1. /\ task'[w].record = task[w].record /\ task'[w].asset = task[w].asset
          /\ task'[w].at = "return" /\ s = "succeeded" /\ task[w].at = "run" /\ r = task[w].record
      BY <1>1, <2>0, <2>6, <2>8 DEF Conclude, Typing, TaskType, At
    <3>2. Rewritten(r, RowOf(w), "succeeded")
      BY <1>1, <2>8, <3>1, SetRowsRewrites DEF Conclude, Typing, RowStatus
    <3>3. Host(m, "succeeded")'
      BY <2>5, <3>1, <3>2
    <3> QED BY <3>1, <3>3 DEF Left, At, Host
  <2>9. ASSUME Return(w) \/ Rescue(w) \/ Recompute(w) \/ Save(w) \/ Kill(w)
        PROVE  FALSE
    BY <1>1, <2>0, <2>9, AtTaskMoves
  <2>10. ASSUME NEW v \in Worker, RunTask(v) \/ Kill(v), v # w PROVE task'[w] = task[w]
    BY <1>1, <2>10, OtherTasks
  <2>11. ASSUME NEW h \in Handler, Request(h) \/ Serve(h) \/ GiveUp(h) PROVE task'[w] = task[w]
    BY <1>1, <2>11, OtherCalls
  <2> QED BY <2>3, <2>4, <2>7, <2>8, <2>9, <2>10, <2>11, NoOthers DEF Next, RunTask
<1> QED BY <1>6, <1>7, <1>8 DEF Backed

\* ExecInv is kept by every step.
LEMMA ExecInvStep == ExecInv /\ [Next]_vars => ExecInv'
<1> SUFFICES ASSUME ExecInv, [Next]_vars PROVE ExecInv'
  OBVIOUS
<1>1. TypeInv'
  BY TypeInvStep DEF ExecInv
<1>2. Backed' /\ Tokens'
  BY BackedStep, TokenMoves, TokensStep
<1> QED BY <1>1, <1>2 DEF ExecInv

\* Nothing is in any hand at the start.
LEMMA ExecInvInit == Init => ExecInv
<1> SUFFICES ASSUME Init PROVE ExecInv
  OBVIOUS
<1>1. /\ \A h \in Handler : call[h].at = "idle"
      /\ \A w \in Worker : task[w].at = "idle"
      /\ BagToSet(queue) = {}
  BY DEF Init, NoCall, NoTask, EmptyBag, SetToBag, BagToSet
<1>2. /\ \A h \in Handler : Sending(h) = {}
      /\ \A w \in Worker : Doing(w) = {}
      /\ Waiting = {}
  BY <1>1 DEF Sending, Doing, Waiting, Called
<1>3. Backed /\ Tokens
  BY <1>2 DEF Backed, Tokens
<1> QED BY <1>3, TypeInvInit DEF ExecInv

\* So it holds in every behaviour.
LEMMA ExecInvHolds == Spec => []ExecInv
BY ExecInvInit, ExecInvStep, PTL DEF Spec

\* No two workers run the same command on the same host of a batch at once,
\* whatever is lost, killed, deleted or retried, by however many requests at
\* once; a retry that commits what it read too early spoils this for its own
\* batch only (exec_host_result, retry_failed).
THEOREM HostHasOneWorker == Spec => []OneWorkerPerRow
<1>1. ExecInv => OneWorkerPerRow
  <2> SUFFICES ASSUME ExecInv, NEW v \in Worker, NEW w \in Worker, v # w,
                      At(v, "run"), At(w, "run"), Sound(task[v].record),
                      task[v].record = task[w].record, task[v].asset = task[w].asset
               PROVE  FALSE
    BY DEF OneWorkerPerRow
  <2>1. Sound(task[w].record)
    BY DEF Sound, Unique
  <2>2. Msg(task[v].record, task[v].asset) \in Doing(v) \cap Doing(w)
    BY <2>1 DEF Doing, At
  <2> QED BY <2>2 DEF ExecInv, Tokens
<1> QED BY <1>1, ExecInvHolds, PTL

\* A row that succeeded is in no hand but that of the task that committed it, and
\* no retry has selected it.
LEMMA SucceededKept ==
  ASSUME ExecInv, [Next]_vars, NEW r \in Id, Sound(r)', NEW i \in RowsIn(r, {"succeeded"})
  PROVE  \/ row'[r][i] = row[r][i]
         \/ \E w \in Worker : /\ At(w, "return") /\ task[w].record = r
                              /\ task[w].asset = row[r][i].asset
<1> USE DEF ExecInv
<1>0. Sound(r)
  BY SoundKept
<1>1. i \in DOMAIN row[r] /\ row[r][i].status = "succeeded"
  BY DEF RowsIn
<1>2. ASSUME NEW h \in Handler, InsertRows(h) PROVE row'[r] = row[r]
  <2>1. row[call[h].record] = << >>
    BY <1>2 DEF InsertRows, TypeInv, Unwritten, Called
  <2> QED BY <1>1, <1>2, <2>1 DEF InsertRows, TypeInv, Typing
<1>3. ASSUME NEW h \in Handler, Requeue(h), NEW t, Rewritten(call[h].record, call[h].rows, t)
      PROVE  row'[r][i] = row[r][i]
  <2>1. r = call[h].record => call[h].rows \subseteq Retriable(r)
    BY <1>3 DEF Requeue, Sound
  <2>2. r = call[h].record => i \notin call[h].rows
    BY <1>1, <2>1 DEF Retriable, RowsIn
  <2> QED BY <1>1, <1>3, <2>2 DEF Rewritten
<1>4. ASSUME NEW w \in Worker, task[w].at \in {"begin", "run"},
             NEW t, Rewritten(task[w].record, RowOf(w), t)
      PROVE  row'[r][i] = row[r][i]
  <2>1. CASE r # task[w].record
    BY <1>4, <2>1 DEF Rewritten
  <2>2. CASE r = task[w].record
    <3>1. PICK j \in DOMAIN row[r] : RowOf(w) = {j} /\ row[r][j].status = Left(w)
      BY <1>0, <1>4, <2>2, RowOfRight
    <3>2. i \notin RowOf(w)
      BY <1>1, <1>4, <3>1 DEF Left, At
    <3> QED BY <1>1, <1>4, <2>2, <3>2 DEF Rewritten
  <2> QED BY <2>1, <2>2
<1>5. ASSUME NEW w \in Worker, Rescue(w), task[w].record \in Id,
             Rewritten(task[w].record, RowOf(w), "failed")
      PROVE  \/ row'[r][i] = row[r][i]
             \/ /\ At(w, "return") /\ task[w].record = r
                /\ task[w].asset = row[r][i].asset
  <2>1. CASE r # task[w].record
    BY <1>5, <2>1 DEF Rewritten
  <2>2. CASE r = task[w].record /\ i \notin RowOf(w)
    BY <1>1, <1>5, <2>2 DEF Rewritten
  <2>3. CASE r = task[w].record /\ i \in RowOf(w)
    BY <1>5, <2>3 DEF Rescue, RowOf
  <2> QED BY <2>1, <2>2, <2>3
<1> QED BY <1>1, <1>2, <1>3, <1>4, <1>5, RowMoves DEF RowMove, Begin, Conclude, At

\* The row of a host that succeeded is changed by nobody but the task that
\* committed the success, before it returns (retry_failed, exec_host_result).
THEOREM SucceededHostIsFinal == Spec => SucceededIsFinal
<1>1. ExecInv /\ [Next]_vars => [KeepsSucceeded]_vars
  BY SucceededKept DEF KeepsSucceeded
<1> QED BY <1>1, ExecInvHolds, PTL DEF Spec, SucceededIsFinal

-----------------------------------------------------------------------------
(* A batch is concluded when it says so.                                   *)

\* A retry that is about to requeue was counted, and so was one that requeued what
\* it should not.
Counted == retries = 0 => stale = {} /\ \A h \in Handler : ~Called(h, "requeue")

\* A second row of an asset is never executed: tasks work on the first.
Seconds ==
  \A r \in Id : \A i \in DOMAIN row[r] :
    (\E j \in 1 .. i - 1 : row[r][j].asset = row[r][i].asset) => row[r][i].status = "queued"

\* Retries are counted and never forgotten.
LEMMA CountedStep ==
  ASSUME TypeInv, Counted, [Next]_vars
  PROVE  Counted' /\ (retries' = 0 => retries = 0)
<1>1. Typing /\ retries \in Nat
  BY ExecAssumption DEF TypeInv, Typing, ExecAssumption
<1>2. ASSUME NEW h \in Handler, NEW r \in Id, Select(h, r) PROVE retries' = retries + 1
  BY <1>2 DEF Select
<1>3. ASSUME NEW h \in Handler, Requeue(h) PROVE retries # 0 /\ retries' = retries
  BY <1>3 DEF Requeue, Counted
<1>4. ASSUME NEW h \in Handler, Request(h) \/ Serve(h) \/ GiveUp(h),
             \A r \in Id : ~Select(h, r), ~Requeue(h)
      PROVE  Counted' /\ retries' = retries
  <2>1. \A g \in Handler \ {h} : call'[g] = call[g]
    BY <1>1, <1>4, OtherCalls
  <2>2. call'[h].at # "requeue"
    BY <1>1, <1>4, AtMoves DEF Request, Serve
  <2>3. retries' = retries /\ stale' = stale
    BY <1>4 DEF Request, Serve, GiveUp, Submit, InsertRecord, InsertRows, Publish,
                AssetGone, Abandon, history
  <2> QED BY <2>1, <2>2, <2>3 DEF Counted, Called
<1>5. ASSUME NEW w \in Worker, RunTask(w) \/ Kill(w) PROVE Counted' /\ retries' = retries
  <2>1. UNCHANGED <<call, retries, stale>>
    BY <1>5 DEF RunTask, Kill, Take, Begin, Conclude, Return, Rescue, Recompute, Save, history
  <2> QED BY <2>1 DEF Counted, Called
<1>6. ASSUME UNCHANGED vars \/ \E a \in Asset : DeleteAsset(a) PROVE Counted' /\ retries' = retries
  <2>1. UNCHANGED <<call, retries, stale>>
    BY <1>6 DEF vars, DeleteAsset, history
  <2> QED BY <2>1 DEF Counted, Called
<1>7. \A h \in Handler, r \in Id : Select(h, r) => Counted' /\ retries' # 0
  BY <1>1, <1>2 DEF Counted
<1>8. \A h \in Handler : Requeue(h) => Counted' /\ retries' # 0
  BY <1>3 DEF Counted
<1> QED BY <1>4, <1>5, <1>6, <1>7, <1>8 DEF Next

\* Rows are inserted "queued", requeued to that, and otherwise written by a task
\* that found no earlier row of its asset.
LEMMA SecondsStep ==
  ASSUME TypeInv, Seconds, [Next]_vars
  PROVE  Seconds'
<1> SUFFICES ASSUME NEW r \in Id, NEW i \in DOMAIN row'[r], NEW j \in 1 .. i - 1,
                    row'[r][j].asset = row'[r][i].asset
             PROVE  row'[r][i].status = "queued"
  BY DEF Seconds
<1>1. Typing /\ Typing' /\ RowsKept
  BY TypingStep, RowsKeptStep DEF TypeInv
<1>2. j \in DOMAIN row'[r] /\ j < i
  <2>1. row'[r] \in Seq(Row)
    BY <1>1 DEF Typing
  <2> QED BY <2>1
<1>3. CASE row[r] = << >>
  <2>1. PICK h \in Handler : InsertRows(h) /\ call[h].record = r
    BY <1>1, <1>3 DEF RowsKept
  <2>2. row'[r] = [n \in DOMAIN call[h].list |-> [asset |-> call[h].list[n], status |-> "queued"]]
    BY <1>1, <2>1 DEF InsertRows, Typing
  <2> QED BY <2>2
<1>4. CASE row[r] # << >>
  <2>1. /\ DOMAIN row'[r] = DOMAIN row[r]
        /\ row[r][j].asset = row[r][i].asset
    BY <1>1, <1>2, <1>4 DEF RowsKept
  <2>2. row[r][i].status = "queued"
    BY <2>1 DEF Seconds
  <2>3. ASSUME NEW h \in Handler, InsertRows(h) PROVE row'[r] = row[r]
    <3>1. row[call[h].record] = << >>
      BY <2>3 DEF InsertRows, TypeInv, Unwritten, Called
    <3> QED BY <1>1, <1>4, <2>3, <3>1 DEF InsertRows, Typing
  <2>4. ASSUME NEW q \in Id, NEW I, Rewritten(q, I, "queued") PROVE row'[r][i].status = "queued"
    BY <2>1, <2>2, <2>4 DEF Rewritten
  <2>5. ASSUME NEW w \in Worker, task[w].record \in Id, NEW t, Rewritten(task[w].record, RowOf(w), t)
        PROVE  row'[r][i] = row[r][i]
    <3>1. r = task[w].record => i \notin RowOf(w)
      BY <2>1 DEF RowOf
    <3> QED BY <2>1, <2>5, <3>1 DEF Rewritten
  <2> QED BY <2>2, <2>3, <2>4, <2>5, RowMoves DEF RowMove
<1> QED BY <1>3, <1>4

\* The invariant on which the verdicts rest.
BatchInv == ExecInv /\ Counted /\ Seconds

\* It holds in every behaviour.
LEMMA BatchInvHolds == Spec => []BatchInv
<1>1. Init => Counted /\ Seconds
  BY DEF Init, Counted, Called, NoCall, Seconds
<1>2. TypeInv /\ Counted /\ Seconds /\ [Next]_vars => (Counted /\ Seconds)'
  BY CountedStep, SecondsStep
<1> QED BY <1>1, <1>2, TypeInvHolds, ExecInvHolds, PTL DEF Spec, BatchInv

\* Every host of a batch has concluded.
Shut(r) == row[r] # << >> /\ RowsIn(r, {"queued", "running"}) = {}

\* A status that a batch is given is right: "done" and "partial" say that it has
\* concluded, and which of both, unless a success of it was taken back.
Right(r, s) ==
  s \in {"done", "partial"} =>
    /\ Shut(r)
    /\ r \notin undone => (s = "partial" <=> RowsIn(r, {"succeeded"}) # {} /\ Retriable(r) # {})

\* The status of a record is right, and so is one that a task computed and has
\* not committed: it may be written long after its snapshot.
Verdicts ==
  /\ \A r \in Id : Right(r, record[r].status)
  /\ \A w \in Worker, r \in Id :
       At(w, "save") /\ task[w].record = r /\ "status" \in DOMAIN task[w].update
         => Right(r, task[w].update.status)

\* They are until somebody retries.
FirstRun == retries = 0 => Verdicts

\* The hosts of a batch that has concluded stay as they are until a retry, but for
\* a success that its own task takes back.
LEMMA ShutKept ==
  ASSUME BatchInv, retries = 0, [Next]_vars, NEW r \in Id, Shut(r)
  PROVE  /\ Shut(r)'
         /\ row'[r] = row[r] \/ r \in undone'
<1> USE DEF BatchInv, ExecInv
<1>1. row[r] \in Seq(Row) /\ row'[r] \in Seq(Row) /\ row[r] # << >>
  BY TypingStep DEF TypeInv, Typing, Shut
<1>2. \A i \in DOMAIN row[r] : row[r][i].status \notin {"queued", "running"}
  BY DEF Shut, RowsIn
<1>3. Unique(r)
  <2> SUFFICES ASSUME NEW i \in DOMAIN row[r], NEW j \in DOMAIN row[r],
                      row[r][i].asset = row[r][j].asset
               PROVE  ~(j < i)
    BY <1>1 DEF Unique
  <2> QED BY <1>1, <1>2 DEF Seconds
<1>4. Sound(r)
  BY <1>3 DEF Sound, Counted
<1>5. ASSUME NEW h \in Handler, InsertRows(h) PROVE row'[r] = row[r]
  <2>1. row[call[h].record] = << >>
    BY <1>5 DEF InsertRows, TypeInv, Unwritten, Called
  <2> QED BY <1>1, <1>5, <2>1 DEF InsertRows, TypeInv, Typing
<1>6. ASSUME NEW h \in Handler, Requeue(h) PROVE FALSE
  BY <1>6 DEF Requeue, Counted
<1>7. ASSUME NEW w \in Worker, task[w].at \in {"begin", "run"},
             NEW t, Rewritten(task[w].record, RowOf(w), t)
      PROVE  row'[r] = row[r]
  <2>1. r # task[w].record
    BY <1>2, <1>4, <1>7, RowOfRight DEF Left, At
  <2> QED BY <1>7, <2>1 DEF Rewritten
<1>8. ASSUME NEW w \in Worker, Rescue(w), task[w].record \in Id,
             Rewritten(task[w].record, RowOf(w), "failed")
      PROVE  /\ Shut(r)'
             /\ row'[r] = row[r] \/ r \in undone'
  <2>1. CASE r # task[w].record
    BY <1>8, <2>1 DEF Rewritten, Shut, RowsIn
  <2>2. CASE r = task[w].record
    <3>1. r \in undone'
      BY <1>8, <2>2 DEF Rescue
    <3>2. \A i \in DOMAIN row[r] : row'[r][i].status \notin {"queued", "running"}
      BY <1>2, <1>8, <2>2 DEF Rewritten
    <3>3. DOMAIN row'[r] = DOMAIN row[r] /\ row'[r] # << >>
      BY <1>1, <1>8 DEF Rewritten
    <3> QED BY <3>1, <3>2, <3>3 DEF Shut, RowsIn
  <2> QED BY <2>1, <2>2
<1>9. row'[r] = row[r] \/ \E w \in Worker : /\ Rescue(w) /\ task[w].record \in Id
                                            /\ Rewritten(task[w].record, RowOf(w), "failed")
  BY <1>5, <1>6, <1>7, RowMoves DEF RowMove, Begin, Conclude, At
<1> QED BY <1>8, <1>9 DEF Shut, RowsIn

\* A success that was taken back is never forgotten.
LEMMA UndoneKept ==
  ASSUME [Next]_vars
  PROVE  undone \subseteq undone'
BY DEF Next, vars, history, Request, Serve, GiveUp, RunTask, Kill, Submit, InsertRecord, InsertRows,
       Requeue, Select, Publish, AssetGone, Abandon, Take, Begin, Conclude, Return, Rescue,
       Recompute, Save, DeleteAsset

\* So a status that is right once stays right, however late it is written.
LEMMA VerdictKept ==
  ASSUME BatchInv, retries = 0, [Next]_vars, NEW r \in Id, NEW s, Right(r, s)
  PROVE  s \in {"done", "partial"} =>
           /\ Shut(r)'
           /\ r \notin undone' =>
                (s = "partial" <=> RowsIn(r, {"succeeded"})' # {} /\ Retriable(r)' # {})
<1> SUFFICES ASSUME s \in {"done", "partial"}
             PROVE  /\ Shut(r)'
                    /\ r \notin undone' =>
                         (s = "partial" <=> RowsIn(r, {"succeeded"})' # {} /\ Retriable(r)' # {})
  OBVIOUS
<1>1. Shut(r)' /\ (row'[r] = row[r] \/ r \in undone')
  BY ShutKept DEF Right
<1>2. r \notin undone' => r \notin undone
  BY UndoneKept
<1>3. row'[r] = row[r] => RowsIn(r, {"succeeded"})' = RowsIn(r, {"succeeded"}) /\ Retriable(r)' = Retriable(r)
  BY DEF RowsIn, Retriable
<1> QED BY <1>1, <1>2, <1>3 DEF Right

\* A status that _recompute_record changes is right for the snapshot it read.
LEMMA AggregateIsRight ==
  ASSUME NEW r \in Id, record[r] \in Record, row[r] \in Seq(Row), Aggregate(r).status # record[r].status
  PROVE  Right(r, Aggregate(r).status)
<1> DEFINE n(S) == Cardinality(RowsIn(r, S))
<1>1. \A S : n(S) \in Nat /\ (n(S) = 0 <=> RowsIn(r, S) = {})
  BY RowsAreCounted
<1>2. Aggregate(r).status =
        IF n({"queued", "running"}) > 0 \/ row[r] = << >> THEN record[r].status
        ELSE IF n({"failed", "timed_out"}) > 0 /\ n({"succeeded"}) > 0 THEN "partial" ELSE "done"
  BY DEF Aggregate, Record
<1> HIDE DEF n
<1>3. /\ n({"queued", "running"}) = 0 /\ row[r] # << >>
      /\ Aggregate(r).status =
           IF n({"failed", "timed_out"}) > 0 /\ n({"succeeded"}) > 0 THEN "partial" ELSE "done"
  BY <1>1, <1>2
<1> QED BY <1>1, <1>3 DEF Right, Shut, Retriable

\* Verdicts are right when they are computed and when they are written.
LEMMA VerdictsStep ==
  ASSUME BatchInv, Verdicts, retries = 0, [Next]_vars
  PROVE  Verdicts'
<1> USE DEF BatchInv, ExecInv
<1>1. Typing /\ Typing'
  BY TypingStep DEF TypeInv
<1>2. ASSUME NEW r \in Id PROVE Right(r, record[r].status)'
  <2>1. CASE record'[r].status = record[r].status
    BY <2>1, VerdictKept DEF Verdicts, Right
  <2>2. ASSUME NEW h \in Handler, InsertRecord(h)
        PROVE  record'[r].status \in {"running", record[r].status}
    BY <1>1, <2>2 DEF InsertRecord, Typing, Blank
  <2>3. ASSUME NEW w \in Worker, Save(w), record'[r].status # record[r].status
        PROVE  /\ r = task[w].record /\ "status" \in DOMAIN task[w].update
               /\ record'[r].status = task[w].update.status /\ At(w, "save")
    BY <1>1, <2>3 DEF Save, Flush, Typing, Record
  <2>4. ASSUME NEW h \in Handler, Requeue(h) PROVE FALSE
    BY <2>4 DEF Requeue, Counted
  <2>5. \/ record' = record
        \/ \E h \in Handler : InsertRecord(h) \/ Requeue(h)
        \/ \E w \in Worker : Save(w)
    BY DEF Next, vars, Request, Serve, GiveUp, RunTask, Kill, Submit, InsertRows, Select, Publish,
           AssetGone, Abandon, Take, Begin, Conclude, Return, Rescue, Recompute, DeleteAsset
  <2>6. ASSUME NEW w \in Worker, Save(w), record'[r].status # record[r].status
        PROVE  Right(r, record[r].status)'
    BY <2>3, <2>6, VerdictKept DEF Verdicts, Right
  <2>7. record'[r].status = "running" => Right(r, record[r].status)'
    BY DEF Right
  <2> QED BY <2>1, <2>2, <2>4, <2>5, <2>6, <2>7
<1>3. ASSUME NEW w \in Worker, NEW r \in Id, task'[w].at = "save", task'[w].record = r,
             "status" \in DOMAIN task'[w].update
      PROVE  Right(r, task[w].update.status)'
  <2>1. CASE task'[w] = task[w]
    BY <1>3, <2>1, VerdictKept DEF Verdicts, At, Right
  <2>2. CASE Recompute(w)
    <3>1. /\ task[w].record = r /\ row' = row
          /\ task'[w].update = Changed(record[r], Aggregate(r))
      BY <1>1, <1>3, <2>2 DEF Recompute, Typing, TaskType
    <3>2. Aggregate(r).status # record[r].status /\ task'[w].update.status = Aggregate(r).status
      BY <1>3, <3>1 DEF Changed
    <3>3. Right(r, Aggregate(r).status)
      BY <1>1, <3>2, AggregateIsRight DEF Typing
    <3> QED BY <3>2, <3>3, VerdictKept DEF Right
  <2>3. ASSUME \/ \E m \in BagToSet(queue) : Take(w, m)
               \/ Begin(w) \/ Return(w) \/ Rescue(w) \/ Save(w) \/ Kill(w)
               \/ \E s \in RowStatus : Conclude(w, s)
        PROVE  FALSE
    BY <1>1, <1>3, <2>3, AtTaskMoves
  <2>4. ASSUME NEW v \in Worker, RunTask(v) \/ Kill(v), v # w PROVE task'[w] = task[w]
    BY <1>1, <2>4, OtherTasks
  <2>5. ASSUME NEW h \in Handler, Request(h) \/ Serve(h) \/ GiveUp(h) PROVE task'[w] = task[w]
    BY <1>1, <2>5, OtherCalls
  <2> QED BY <2>1, <2>2, <2>3, <2>4, <2>5, NoOthers DEF Next, RunTask
<1> QED BY <1>2, <1>3 DEF Verdicts, At

\* A batch that was not retried says "done" or "partial" only when every host of
\* it has concluded, and, if no success of it was taken back, "partial" exactly
\* when some succeeded and some did not, for any number of requests and workers
\* (_recompute_record, exec_host_result).
THEOREM FirstRunIsConcluded == Spec => []DoneIsConcluded
<1>1. Init => FirstRun
  BY DEF Init, FirstRun, Verdicts, Right, Blank, NoTask, At
<1>2. BatchInv /\ FirstRun /\ [Next]_vars => FirstRun'
  BY CountedStep, VerdictsStep DEF FirstRun, BatchInv, ExecInv
<1>3. TypeInv /\ FirstRun => DoneIsConcluded
  <2> SUFFICES ASSUME TypeInv, FirstRun, retries = 0, NEW r \in 1 .. lastId,
                      record[r].status \in {"done", "partial"}
               PROVE  /\ row[r] # << >> /\ RowsIn(r, {"queued", "running"}) = {}
                      /\ r \notin undone =>
                           (record[r].status = "partial"
                              <=> RowsIn(r, {"succeeded"}) # {} /\ Retriable(r) # {})
    BY DEF DoneIsConcluded
  <2>1. r \in Id
    BY ExecAssumption DEF TypeInv, Typing, Id, ExecAssumption
  <2> QED BY <2>1 DEF FirstRun, Verdicts, Right, Shut
<1> QED BY <1>1, <1>2, <1>3, TypeInvHolds, BatchInvHolds, PTL DEF Spec
=============================================================================
