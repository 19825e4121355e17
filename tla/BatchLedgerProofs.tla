-------------------------- MODULE BatchLedgerProofs --------------------------
(***************************************************************************)
(* Batch execution implements BatchLedger, proved for any number of        *)
(* threads, workers, servers, records, retries and faults.                 *)
(*                                                                         *)
(* ExecInv says in whose hand a host is and what its row says then.        *)
(* Recorded adds what exec_record says before its hosts are listed, and    *)
(* what the UPDATEs that are not yet committed may do to it.  A batch that *)
(* a retry spoiled, or that names a server twice, is void to the ledger.   *)
(***************************************************************************)
EXTENDS ExecBatchProofs

\* A record says "running" until its hosts are listed: what tasks write of its
\* status they computed from hosts, and a retry has failed hosts.
Recorded ==
  /\ \A r \in Id : /\ r > lastId => record[r].status = "absent"
                   /\ r <= lastId /\ row[r] = << >> => record[r].status = "running"
  /\ \A r \in Id : \A w \in Reckoned(r) : row[r] # << >>
  /\ \A h \in Handler :
       /\ call[h].at \in {"insert", "rows"} => call[h].list \in Batches
       /\ Called(h, "requeue") =>
            /\ call[h].rows # {}
            /\ \A c \in DOMAIN call[h].update : c = "status" /\ call[h].update[c] = "running"

LedgerInv == ExecInv /\ Recorded

\* What readers see: the variables of the ledger.
Hosts    == [r \in Id |-> [i \in DOMAIN row[r] |-> row[r][i].status]]
Statuses == [r \in Id |-> record[r].status]
Due      == [r \in Id |-> {task[w].update.status : w \in Reckoned(r)}]
Void     == {r \in Id : ~Sound(r)}

-----------------------------------------------------------------------------
(* What the statuses of records do.                                        *)

\* A record is inserted with the status "running", ...
LEMMA RecordInserted ==
  ASSUME TypeInv, [Next]_vars, NEW h \in Handler, InsertRecord(h)
  PROVE  /\ lastId + 1 \in Id /\ lastId' = lastId + 1 /\ UNCHANGED <<row, task>>
         /\ \A r \in Id : record'[r].status = IF r = lastId + 1 THEN "running" ELSE record[r].status
<1>1. lastId' = lastId + 1 /\ UNCHANGED <<row, task>>
  BY DEF InsertRecord
<1>2. lastId + 1 \in Id
  BY <1>1, TypingStep, ExecAssumption DEF TypeInv, Typing, Id, ExecAssumption
<1>3. record' = [record EXCEPT ![lastId + 1] =
                   [Blank EXCEPT !.key = call[h].key, !.status = "running",
                                 !.total = Len(call[h].list)]]
  BY <1>1 DEF InsertRecord
<1> QED BY <1>1, <1>2, <1>3 DEF TypeInv, Typing, Blank

\* ... an UPDATE writes it if it is one of its columns, ...
LEMMA StatusFlushed ==
  ASSUME TypeInv, NEW q \in Id, NEW u, Flush(q, u)
  PROVE  /\ \A r \in Id \ {q} : record'[r].status = record[r].status
         /\ record'[q].status = IF "status" \in DOMAIN u THEN u["status"] ELSE record[q].status
<1>1. record \in [Id -> Record]
  BY DEF TypeInv, Typing
<1>2. record'[q] = [c \in DOMAIN record[q] |-> IF c \in DOMAIN u THEN u[c] ELSE record[q][c]]
  BY <1>1 DEF Flush
<1>3. "status" \in DOMAIN record[q]
  BY <1>1 DEF Record
<1> QED BY <1>1, <1>2, <1>3 DEF Flush

\* ... and nobody else writes it.
LEMMA RecordMoves ==
  ASSUME [Next]_vars
  PROVE  \/ UNCHANGED <<record, lastId>>
         \/ \E h \in Handler : InsertRecord(h) \/ Requeue(h)
         \/ \E w \in Worker : Save(w)
BY DEF Next, vars, Request, Serve, GiveUp, RunTask, Kill, Submit, InsertRows, Select, Publish,
       AssetGone, Abandon, Take, Begin, Conclude, Return, Rescue, Recompute, DeleteAsset

\* Rows that were listed stay.
LEMMA ListedKept ==
  ASSUME TypeInv, [Next]_vars, NEW r \in Id, row[r] # << >>
  PROVE  row'[r] # << >>
<1>1. DOMAIN row'[r] = DOMAIN row[r] /\ row[r] \in Seq(Row)
  BY RowsKeptStep DEF RowsKept, TypeInv, Typing
<1> QED BY <1>1

\* What readers see of the rows are their statuses.
LEMMA SaysRows == \A r \in Id : \A S : Ledger!Says(r, S) = RowsIn(r, S)
BY DEF Ledger!Says, RowsIn

\* A status that _recompute_record changes is the verdict on rows that are closed.
LEMMA AggregateIsVerdict ==
  ASSUME NEW r \in Id, record[r] \in Record, row[r] \in Seq(Row), Aggregate(r).status # record[r].status
  PROVE  row[r] # << >> /\ Ledger!Closed(r) /\ Aggregate(r).status = Ledger!Verdict(r)
<1> DEFINE n(S) == Cardinality(RowsIn(r, S))
<1>1. \A S : n(S) \in Nat /\ (n(S) = 0 <=> RowsIn(r, S) = {})
  BY RowsAreCounted
<1>2. Aggregate(r).status =
        IF n({"queued", "running"}) > 0 \/ row[r] = << >> THEN record[r].status
        ELSE IF n({"failed", "timed_out"}) > 0 /\ n({"succeeded"}) > 0 THEN "partial" ELSE "done"
  BY DEF Aggregate, Record
<1> HIDE DEF n
<1>3. /\ n({"queued", "running"}) = 0 /\ row[r] # << >>
      /\ Aggregate(r).status =
           IF n({"failed", "timed_out"}) > 0 /\ n({"succeeded"}) > 0 THEN "partial" ELSE "done"
  BY <1>1, <1>2
<1>4. RowsIn(r, {"queued", "running"}) = {}
      /\ Aggregate(r).status = IF RowsIn(r, {"succeeded"}) # {} /\ RowsIn(r, {"failed", "timed_out"}) # {}
                               THEN "partial" ELSE "done"
  BY <1>1, <1>3
<1>5. Ledger!Verdict(r) = IF RowsIn(r, {"succeeded"}) # {} /\ RowsIn(r, {"failed", "timed_out"}) # {}
                          THEN "partial" ELSE "done"
  BY SaysRows DEF Ledger!Verdict
<1>6. Ledger!Closed(r)
  <2>1. Ledger!Says(r, {"queued", "running"}) = {}
    BY <1>4, SaysRows
  <2>2. Hosts[r] # << >>
    <3>1. Len(row[r]) \in Nat /\ Len(row[r]) # 0 /\ DOMAIN row[r] = 1 .. Len(row[r])
      BY <1>3
    <3>2. 1 \in DOMAIN row[r]
      BY <3>1
    <3> QED BY <3>2 DEF Hosts
  <2> QED BY <2>1, <2>2 DEF Ledger!Closed, Hosts
<1> QED BY <1>3, <1>4, <1>5, <1>6

\* A status is computed from rows that were listed.
LEMMA ReckonedListed ==
  ASSUME TypeInv, Recorded, [Next]_vars, NEW r \in Id, NEW w \in Reckoned(r)'
  PROVE  row'[r] # << >>
<1>1. Typing /\ w \in Worker
  BY DEF TypeInv, Reckoned
<1>2. CASE task'[w] = task[w]
  BY <1>2, ListedKept DEF Recorded, Reckoned, At
<1>3. CASE Recompute(w)
  <2>1. task'[w].record = task[w].record /\ r = task[w].record /\ row' = row
    BY <1>1, <1>3 DEF Recompute, Typing, TaskType, Reckoned
  <2>2. task'[w].update = Changed(record[r], Aggregate(r))
    BY <1>1, <1>3, <2>1 DEF Recompute, Typing, TaskType
  <2>3. Aggregate(r).status # record[r].status
    BY <2>2 DEF Changed, Reckoned
  <2>4. row[r] # << >>
    BY <1>1, <2>3, AggregateIsVerdict DEF Typing
  <2> QED BY <2>1, <2>4
<1>4. ASSUME \/ \E m \in BagToSet(queue) : Take(w, m)
             \/ Begin(w) \/ Return(w) \/ Rescue(w) \/ Save(w) \/ Kill(w)
             \/ \E s \in RowStatus : Conclude(w, s)
      PROVE  FALSE
  BY <1>1, <1>4, AtTaskMoves DEF Reckoned, At
<1>5. ASSUME NEW v \in Worker, RunTask(v) \/ Kill(v), v # w PROVE task'[w] = task[w]
  BY <1>1, <1>5, OtherTasks
<1>6. ASSUME NEW h \in Handler, Request(h) \/ Serve(h) \/ GiveUp(h) PROVE task'[w] = task[w]
  BY <1>1, <1>6, OtherCalls
<1> QED BY <1>1, <1>2, <1>3, <1>4, <1>5, <1>6, NoOthers DEF Next, RunTask

\* So Recorded is kept.
LEMMA RecordedStep == TypeInv /\ Recorded /\ [Next]_vars => Recorded'
<1> SUFFICES ASSUME TypeInv, Recorded, [Next]_vars PROVE Recorded'
  OBVIOUS
<1> USE DEF Called
<1>1. Typing /\ Typing' /\ Unwritten /\ lastId \in Nat
  BY TypingStep, ExecAssumption DEF TypeInv, Typing, ExecAssumption
<1>2. ASSUME NEW r \in Id
      PROVE  /\ r > lastId' => record'[r].status = "absent"
             /\ r <= lastId' /\ row'[r] = << >> => record'[r].status = "running"
  <2>1. row'[r] = << >> => row[r] = << >>
    BY ListedKept
  <2>2. CASE UNCHANGED <<record, lastId>>
    BY <2>1, <2>2 DEF Recorded
  <2>3. ASSUME NEW h \in Handler, InsertRecord(h)
        PROVE  /\ r > lastId' => record'[r].status = "absent"
               /\ r <= lastId' /\ row'[r] = << >> => record'[r].status = "running"
    <3>1. r <= lastId' => r <= lastId \/ r = lastId + 1
      BY <1>1, <2>3, RecordInserted DEF Id
    <3>2. r > lastId' => r > lastId /\ r # lastId + 1
      BY <1>1, <2>3, RecordInserted DEF Id
    <3> QED BY <2>1, <2>3, <3>1, <3>2, RecordInserted DEF Recorded
  <2>4. ASSUME NEW h \in Handler, Requeue(h)
        PROVE  /\ lastId' = lastId
               /\ record'[r].status = record[r].status \/ (r <= lastId /\ record'[r].status = "running")
    <3> DEFINE u == call[h].update
    <3>1. PICK q \in Id : q = call[h].record /\ q <= lastId
      BY <2>4 DEF Requeue, TypeInv, Callers
    <3>2. "status" \in DOMAIN u => u["status"] = "running"
      BY <2>4 DEF Requeue, Recorded
    <3>3. Flush(q, u) /\ lastId' = lastId
      BY <2>4, <3>1 DEF Requeue
    <3> HIDE DEF u
    <3>4. /\ r # q => record'[r].status = record[r].status
          /\ record'[q].status \in {"running", record[q].status}
      BY <3>1, <3>2, <3>3, StatusFlushed
    <3>5. CASE r = q
      BY <3>1, <3>3, <3>4, <3>5
    <3> QED BY <3>3, <3>4, <3>5
  <2>5. ASSUME NEW w \in Worker, Save(w)
        PROVE  /\ lastId' = lastId
               /\ record'[r].status = record[r].status \/ row[r] # << >>
    <3> DEFINE q == task[w].record
               u == task[w].update
    <3>1. q \in Id /\ ("status" \in DOMAIN u => row[q] # << >>)
      BY <1>1, <2>5 DEF Save, Typing, At, Recorded, Reckoned
    <3>2. Flush(q, u) /\ lastId' = lastId
      BY <2>5 DEF Save
    <3> HIDE DEF q, u
    <3> QED BY <3>1, <3>2, StatusFlushed
  <2>6. row[r] # << >> => r <= lastId /\ row'[r] # << >>
    BY <1>1, ListedKept DEF Unwritten, Id
  <2> QED BY <1>1, <2>1, <2>2, <2>3, <2>4, <2>5, <2>6, RecordMoves DEF Recorded, Id
<1>3. ASSUME NEW h \in Handler
      PROVE  /\ call'[h].at \in {"insert", "rows"} => call'[h].list \in Batches
             /\ call'[h].at = "requeue" =>
                  /\ call'[h].rows # {}
                  /\ \A c \in DOMAIN call'[h].update : c = "status" /\ call'[h].update[c] = "running"
  <2>1. CASE call'[h] = call[h]
    BY <2>1 DEF Recorded
  <2>2. ASSUME NEW k \in Key, NEW list \in Batches, Submit(h, k, list)
        PROVE  call'[h].at = "insert" /\ call'[h].list \in Batches
    BY <1>1, <2>2 DEF Submit, Typing, NoCall
  <2>3. ASSUME InsertRecord(h) PROVE call'[h].at = "rows" /\ call'[h].list \in Batches
    BY <1>1, <2>3 DEF InsertRecord, Typing, CallType, Recorded
  <2>4. ASSUME NEW r \in Id, Select(h, r)
        PROVE  /\ call'[h].at = "requeue" /\ call'[h].rows # {}
               /\ \A c \in DOMAIN call'[h].update : c = "status" /\ call'[h].update[c] = "running"
    <3> DEFINE u == Changed(record[r], [record[r] EXCEPT !.status = "running"])
    <3>1. call'[h].at = "requeue" /\ call'[h].rows = Retriable(r) /\ call'[h].update = u
      BY <1>1, <2>4 DEF Select, Typing, NoCall
    <3>2. \A c \in DOMAIN u : c = "status" /\ u[c] = "running"
      <4>1. record[r] \in Record
        BY <1>1 DEF Typing
      <4> QED BY <4>1 DEF Changed, Record
    <3>3. Retriable(r) # {}
      BY <2>4 DEF Select
    <3> HIDE DEF u
    <3> QED BY <3>1, <3>2, <3>3
  <2>5. ASSUME InsertRows(h) \/ Requeue(h) \/ AssetGone(h) \/ GiveUp(h)
               \/ \E i \in call[h].rows : Publish(h, i)
        PROVE  call'[h].at \in {"dispatch", "idle"}
    BY <1>1, <2>5, AtMoves
  <2>6. ASSUME NEW g \in Handler, Request(g) \/ Serve(g) \/ GiveUp(g), g # h PROVE call'[h] = call[h]
    BY <1>1, <2>6, OtherCalls
  <2> QED BY <1>1, <2>1, <2>2, <2>3, <2>4, <2>5, <2>6, OtherTasks, NoOthers
          DEF Next, Request, Serve
<1>4. \A r \in Id : \A w \in Reckoned(r)' : row'[r] # << >>
  BY ReckonedListed
<1> QED BY <1>2, <1>3, <1>4 DEF Recorded

\* LedgerInv holds in every behaviour.
LEMMA LedgerInvHolds == Spec => []LedgerInv
<1>1. Init => Recorded
  BY ExecAssumption DEF Init, Recorded, Reckoned, Blank, NoCall, NoTask, At, Called, Id, ExecAssumption
<1>2. ExecInv /\ Recorded /\ [Next]_vars => Recorded'
  BY RecordedStep DEF ExecInv
<1>3. Spec /\ []ExecInv => []Recorded
  BY <1>1, <1>2, PTL DEF Spec
<1> QED BY <1>3, ExecInvHolds, PTL DEF LedgerInv

-----------------------------------------------------------------------------
(* How the variables of the ledger change.                                 *)

\* A write of rows is a write of what readers see of them.
LEMMA HostsRewritten ==
  ASSUME NEW q \in Id, NEW I, NEW s, Rewritten(q, I, s)
  PROVE  Hosts' = [Hosts EXCEPT ![q] = [i \in DOMAIN Hosts[q] |-> IF i \in I THEN s ELSE Hosts[q][i]]]
<1> DEFINE t == [i \in DOMAIN Hosts[q] |-> IF i \in I THEN s ELSE Hosts[q][i]]
<1>1. DOMAIN Hosts[q] = DOMAIN row[q] /\ \A i \in DOMAIN row[q] : Hosts[q][i] = row[q][i].status
  BY DEF Hosts
<1>2. [i \in DOMAIN row'[q] |-> row'[q][i].status] = t
  BY <1>1 DEF Rewritten
<1>3. \A r \in Id \ {q} : row'[r] = row[r]
  BY DEF Rewritten
<1> HIDE DEF t
<1>4. Hosts' = [r \in Id |-> IF r = q THEN t ELSE Hosts[r]]
  BY <1>2, <1>3 DEF Hosts
<1>5. Hosts' = [Hosts EXCEPT ![q] = t]
  BY <1>4 DEF Hosts
<1> QED BY <1>5 DEF t

\* The pending verdicts change only with the tasks that are about to save.
LEMMA DueKept ==
  ASSUME \A w \in Worker : task'[w] = task[w] \/ (task[w].at # "save" /\ task'[w].at # "save")
  PROVE  Due' = Due
<1>1. \A r \in Id : Reckoned(r)' = Reckoned(r)
  BY DEF Reckoned, At
<1>2. \A r \in Id : \A w \in Reckoned(r) : task'[w] = task[w]
  BY DEF Reckoned, At
<1>3. \A r \in Id : {task'[w].update.status : w \in Reckoned(r)'} = {task[w].update.status : w \in Reckoned(r)}
  BY <1>1, <1>2
<1> QED BY <1>3 DEF Due

\* A task that ends takes its verdict along.
LEMMA DueLost ==
  ASSUME Typing, NEW w \in Worker, task' = [task EXCEPT ![w] = NoTask], NEW q \in Id, q = task[w].record
  PROVE  Due'[q] \in SUBSET Due[q] /\ Due' = [Due EXCEPT ![q] = Due'[q]]
<1>1. task'[w].at = "idle" /\ \A v \in Worker \ {w} : task'[v] = task[v]
  BY DEF Typing, NoTask
<1>2. \A r \in Id : \A v \in Reckoned(r)' : v \in Reckoned(r) /\ task'[v] = task[v]
  BY <1>1 DEF Reckoned, At
<1>3. \A r \in Id \ {q} : Reckoned(r)' = Reckoned(r)
  BY <1>1 DEF Reckoned, At
<1>4. Due'[q] \in SUBSET Due[q]
  BY <1>2 DEF Due
<1>5. \A r \in Id \ {q} : Due'[r] = Due[r]
  <2> SUFFICES ASSUME NEW r \in Id \ {q} PROVE Due'[r] = Due[r]
    OBVIOUS
  <2>1. {task'[v].update.status : v \in Reckoned(r)'} = {task[v].update.status : v \in Reckoned(r)}
    BY <1>2, <1>3
  <2> QED BY <2>1 DEF Due
<1>6. DOMAIN Due = Id /\ DOMAIN Due' = Id
  BY DEF Due
<1> DEFINE V == Due'[q]
<1>7. \A r \in Id : Due'[r] = IF r = q THEN V ELSE Due[r]
  BY <1>5
<1>8. Due' = [r \in Id |-> Due'[r]]
  BY DEF Due
<1> HIDE DEF V
<1>9. Due' = [Due EXCEPT ![q] = V]
  BY <1>6, <1>7, <1>8
<1> QED BY <1>4, <1>9 DEF V

\* A batch becomes void when its hosts are listed or requeued, ...
LEMMA VoidKept ==
  ASSUME TypeInv, [Next]_vars, stale' = stale, NEW r \in Id, row[r] # << >> \/ row'[r] = row[r]
  PROVE  r \in Void' <=> r \in Void
<1>1. Unique(r)' <=> Unique(r)
  <2>1. CASE row'[r] = row[r]
    BY <2>1 DEF Unique
  <2>2. CASE row[r] # << >>
    BY <2>2, RowsKeptStep DEF RowsKept, Unique
  <2> QED BY <2>1, <2>2
<1> QED BY <1>1 DEF Void, Sound

\* ... and by no step of a task.
LEMMA VoidOfOthers ==
  ASSUME TypeInv, [Next]_vars, \A h \in Handler : ~InsertRows(h) /\ ~Requeue(h)
  PROVE  Void' = Void
<1>1. stale' = stale
  BY DEF Next, vars, history, Request, Serve, GiveUp, RunTask, Kill, Submit, InsertRecord, Select,
         Publish, AssetGone, Abandon, Take, Begin, Conclude, Return, Rescue, Recompute, Save,
         DeleteAsset
<1>2. \A r \in Id : row[r] # << >> \/ row'[r] = row[r]
  BY RowsKeptStep DEF RowsKept
<1>3. \A r \in Id : r \in Void' <=> r \in Void
  BY <1>1, <1>2, VoidKept
<1> QED BY <1>3 DEF Void

-----------------------------------------------------------------------------
(* Every step is a step of the ledger, or invisible to its readers.        *)

\* What the ledger asks, in terms of what readers see.
LEMMA LedgerActs ==
  ASSUME NEW r \in Id
  PROVE  /\ Statuses[r] = "absent" /\ Statuses' = [Statuses EXCEPT ![r] = "running"]
            /\ UNCHANGED <<Hosts, Due, Void>> => Ledger!Begin(r)
         /\ \A n : Statuses[r] = "running" /\ Hosts[r] = << >>
                   /\ Hosts' = [Hosts EXCEPT ![r] = [i \in 1 .. n |-> "queued"]]
                   /\ Void' \in {Void, Void \cup {r}}
                   /\ UNCHANGED <<Statuses, Due>> => Ledger!List(r, n)
         /\ Ledger!Closed(r) /\ Due' = [Due EXCEPT ![r] = @ \cup {Ledger!Verdict(r)}]
            /\ UNCHANGED <<Hosts, Statuses, Void>> => Ledger!Reckon(r)
         /\ (\E V \in SUBSET Due[r] : Due' = [Due EXCEPT ![r] = V])
            /\ (\E s \in Due[r] : Statuses' = [Statuses EXCEPT ![r] = s])
            /\ UNCHANGED <<Hosts, Void>> => Ledger!Declare(r)
         /\ (\E V \in SUBSET Due[r] : Due' = [Due EXCEPT ![r] = V])
            /\ UNCHANGED <<Hosts, Statuses, Void>> => Ledger!Drop(r)
         /\ \A I : I # {} /\ (Statuses' = [Statuses EXCEPT ![r] = "running"] \/ UNCHANGED Statuses)
                   /\ Hosts' = [Hosts EXCEPT ![r] =
                                  [i \in DOMAIN Hosts[r] |-> IF i \in I THEN "queued" ELSE Hosts[r][i]]]
                   /\ Void' = (IF I \subseteq Ledger!Says(r, {"failed", "timed_out"}) THEN Void
                               ELSE Void \cup {r})
                   /\ UNCHANGED Due => Ledger!Requeue(r, I)
<1>1. Statuses[r] = "absent" /\ Statuses' = [Statuses EXCEPT ![r] = "running"]
      /\ UNCHANGED <<Hosts, Due, Void>> => Ledger!Begin(r)
  BY Zenon DEF Ledger!Begin, Hosts, Statuses, Due, Void
<1>2. \A n : Statuses[r] = "running" /\ Hosts[r] = << >>
             /\ Hosts' = [Hosts EXCEPT ![r] = [i \in 1 .. n |-> "queued"]]
             /\ Void' \in {Void, Void \cup {r}}
             /\ UNCHANGED <<Statuses, Due>> => Ledger!List(r, n)
  BY Zenon DEF Ledger!List, Hosts, Statuses, Due, Void
<1>3. Ledger!Closed(r) /\ Due' = [Due EXCEPT ![r] = @ \cup {Ledger!Verdict(r)}]
      /\ UNCHANGED <<Hosts, Statuses, Void>> => Ledger!Reckon(r)
  BY Zenon DEF Ledger!Reckon, Hosts, Statuses, Due, Void
<1>4. (\E V \in SUBSET Due[r] : Due' = [Due EXCEPT ![r] = V])
      /\ (\E s \in Due[r] : Statuses' = [Statuses EXCEPT ![r] = s])
      /\ UNCHANGED <<Hosts, Void>> => Ledger!Declare(r)
  BY Zenon DEF Ledger!Declare, Ledger!Forget, Hosts, Statuses, Due, Void
<1>5. (\E V \in SUBSET Due[r] : Due' = [Due EXCEPT ![r] = V])
      /\ UNCHANGED <<Hosts, Statuses, Void>> => Ledger!Drop(r)
  BY Zenon DEF Ledger!Drop, Ledger!Forget, Hosts, Statuses, Due, Void
<1>6. \A I : I # {} /\ (Statuses' = [Statuses EXCEPT ![r] = "running"] \/ UNCHANGED Statuses)
             /\ Hosts' = [Hosts EXCEPT ![r] =
                            [i \in DOMAIN Hosts[r] |-> IF i \in I THEN "queued" ELSE Hosts[r][i]]]
             /\ Void' = (IF I \subseteq Ledger!Says(r, {"failed", "timed_out"}) THEN Void
                         ELSE Void \cup {r})
             /\ UNCHANGED Due => Ledger!Requeue(r, I)
  BY Zenon DEF Ledger!Requeue, Hosts, Statuses, Due, Void
<1> QED BY <1>1, <1>2, <1>3, <1>4, <1>5, <1>6

\* What it asks of a host that gets a status s.
LEMMA HostActs ==
  ASSUME NEW r \in Id, NEW i \in DOMAIN row[r], NEW s,
         Hosts' = [Hosts EXCEPT ![r][i] = s], UNCHANGED <<Statuses, Due, Void>>
  PROVE  /\ row[r][i].status = "queued" /\ s = "running" => Ledger!Start(r, i)
         /\ row[r][i].status = "running" /\ s \in {"succeeded", "failed"} => Ledger!Finish(r, i)
         /\ row[r][i].status = "succeeded" /\ s = "failed" => Ledger!TakeBack(r, i)
         /\ ~Sound(r) /\ s \in {"running", "succeeded", "failed"} => Ledger!Stray(r, i)
<1>1. \A S : s \in S => Ledger!Becomes(r, i, S)
  BY Zenon DEF Ledger!Becomes, Hosts, Statuses, Due, Void
<1>2. \A S : row[r][i].status \in S => i \in Ledger!Says(r, S)
  BY SaysRows DEF RowsIn
<1> QED BY <1>1, <1>2 DEF Ledger!Start, Ledger!Finish, Ledger!TakeBack, Ledger!Stray

\* Requests and tasks that are not about to save leave the pending verdicts alone.
LEMMA DueOfOthers ==
  ASSUME TypeInv, [Next]_vars, \A w \in Worker : ~Recompute(w) /\ ~Save(w) /\ ~Kill(w)
  PROVE  Due' = Due
<1> USE DEF TypeInv
<1> SUFFICES ASSUME NEW w \in Worker
             PROVE  task'[w] = task[w] \/ (task[w].at # "save" /\ task'[w].at # "save")
  BY DueKept
<1>2. ASSUME \/ \E m \in BagToSet(queue) : Take(w, m)
             \/ Begin(w) \/ Return(w) \/ Rescue(w) \/ \E s \in RowStatus : Conclude(w, s)
      PROVE  task[w].at # "save" /\ task'[w].at # "save"
  BY <1>2, AtTaskMoves DEF Take, Begin, Conclude, Return, Rescue, At
<1>3. ASSUME NEW v \in Worker, RunTask(v) \/ Kill(v), v # w PROVE task'[w] = task[w]
  BY <1>3, OtherTasks
<1>4. ASSUME NEW h \in Handler, Request(h) \/ Serve(h) \/ GiveUp(h) PROVE task'[w] = task[w]
  BY <1>4, OtherCalls
<1> DEFINE Quiet == task'[w] = task[w] \/ (task[w].at # "save" /\ task'[w].at # "save")
<1>5. RunTask(w) => Quiet
  BY <1>2 DEF RunTask
<1>6. \A v \in Worker \ {w} : RunTask(v) \/ Kill(v) => Quiet
  BY <1>3
<1>7. \A h \in Handler : Request(h) \/ Serve(h) \/ GiveUp(h) => Quiet
  BY <1>4
<1>8. UNCHANGED task => Quiet
  OBVIOUS
<1> HIDE DEF Quiet
<1>9. Quiet
  BY <1>5, <1>6, <1>7, <1>8, NoOthers DEF Next
<1> QED BY <1>9 DEF Quiet

\* A step of a request is none of a task.
LEMMA OtherCallsOnly ==
  ASSUME TypeInv, NEW h \in Handler, InsertRows(h) \/ Requeue(h), NEW w \in Worker
  PROVE  ~Recompute(w) /\ ~Save(w) /\ ~Kill(w)
<1>1. task' = task
  BY DEF InsertRows, Requeue
<1>2. Recompute(w) => task'[w].at = "save" /\ At(w, "aggregate")
  BY AtTaskMoves DEF TypeInv, Recompute
<1>3. Save(w) \/ Kill(w) => task'[w].at = "idle" /\ ~At(w, "idle")
  BY AtTaskMoves DEF TypeInv, Save, Kill, At
<1> QED BY <1>1, <1>2, <1>3 DEF At

\* A record begins, ...
LEMMA InsertRecordRefines ==
  ASSUME LedgerInv, [Next]_vars, NEW h \in Handler, InsertRecord(h), UNCHANGED <<Due, Void>>
  PROVE  Ledger!LedgerNext
<1>0. PICK q \in Id : q = lastId + 1
  BY RecordInserted DEF LedgerInv, ExecInv
<1>1. UNCHANGED row
      /\ \A r \in Id : record'[r].status = IF r = q THEN "running" ELSE record[r].status
  BY <1>0, RecordInserted DEF LedgerInv, ExecInv
<1>2. record[q].status = "absent"
  BY <1>0 DEF LedgerInv, Recorded, ExecInv, TypeInv, Typing, Id
<1>3. Statuses' = [Statuses EXCEPT ![q] = "running"] /\ Statuses[q] = "absent"
  BY <1>1, <1>2 DEF Statuses
<1>4. UNCHANGED Hosts
  BY <1>1 DEF Hosts
<1>5. Ledger!Begin(q)
  BY <1>1, <1>3, <1>4, LedgerActs
<1> QED BY <1>1, <1>5 DEF Ledger!LedgerNext

\* ... its hosts are listed, ...
LEMMA InsertRowsRefines ==
  ASSUME LedgerInv, [Next]_vars, NEW h \in Handler, InsertRows(h), UNCHANGED Due
  PROVE  Ledger!LedgerNext
<1>0. PICK q \in Id, l \in Batches : q = call[h].record /\ l = call[h].list /\ l \in Seq(Asset)
  BY DEF InsertRows, LedgerInv, Recorded, ExecInv, TypeInv, Typing, CallType, Callers, Called
<1>3. PICK n \in {Len(list) : list \in Batches} : n = Len(l)
  OBVIOUS
<1> DEFINE t == [i \in DOMAIN l |-> [asset |-> l[i], status |-> "queued"]]
<1>1. row[q] = << >> /\ q <= lastId /\ row' = [row EXCEPT ![q] = t] /\ UNCHANGED record
  BY <1>0 DEF InsertRows, LedgerInv, ExecInv, TypeInv, Callers, Unwritten, Called
<1>4. DOMAIN t = 1 .. n /\ \A i \in DOMAIN t : t[i].status = "queued"
  BY <1>0, <1>3
<1>5. record[q].status = "running"
  BY <1>1 DEF LedgerInv, Recorded
<1> HIDE DEF t
<1>6. row'[q] = t /\ \A r \in Id \ {q} : row'[r] = row[r]
  BY <1>1 DEF LedgerInv, ExecInv, TypeInv, Typing
<1> DEFINE opened == [i \in 1 .. n |-> "queued"]
<1>7. [i \in DOMAIN row'[q] |-> row'[q][i].status] = opened
  BY <1>4, <1>6
<1> HIDE DEF opened
<1>8. Hosts' = [Hosts EXCEPT ![q] = opened]
  BY <1>6, <1>7 DEF Hosts
<1>9. Statuses[q] = "running" /\ UNCHANGED Statuses /\ Hosts[q] = << >>
  BY <1>1, <1>5 DEF Statuses, Hosts
<1>10. Void' \in {Void, Void \cup {q}}
  <2>1. stale' = stale
    BY DEF InsertRows, history
  <2>2. \A r \in Id \ {q} : r \in Void' <=> r \in Void
    BY <1>6, <2>1, VoidKept DEF LedgerInv, ExecInv
  <2>3. q \in Void => q \in Void'
    BY <1>1, <2>1 DEF Void, Sound, Unique
  <2> QED BY <1>1, <2>2, <2>3 DEF Void
<1>11. Ledger!List(q, n)
  BY <1>1, <1>8, <1>9, <1>10, LedgerActs DEF opened
<1> QED BY <1>1, <1>3, <1>11 DEF Ledger!LedgerNext

\* ... tasks start them, conclude them and take a success back, in this order
\* unless the batch is void, ...
LEMMA HostRefines ==
  ASSUME LedgerInv, NEW w \in Worker, NEW q \in Id, q = task[w].record, NEW s,
         \/ Begin(w) /\ s = "running"
         \/ (\E t \in RowStatus : Conclude(w, t)) /\ s \in {"succeeded", "failed"}
         \/ Rescue(w) /\ s = "failed",
         Rewritten(q, RowOf(w), s), row' # row, UNCHANGED <<record, Due, Void>>
  PROVE  Ledger!LedgerNext
<1>1. Typing /\ row[q] \in Seq(Row) /\ row \in [Id -> Seq(Row)] /\ UNCHANGED Statuses
  BY DEF LedgerInv, ExecInv, TypeInv, Typing, Statuses
<1>2. \A i \in RowOf(w) : RowOf(w) = {i}
  <2>1. \A i, j \in RowOf(w) : ~(i < j)
    BY <1>1 DEF RowOf
  <2>2. RowOf(w) \subseteq Nat
    BY <1>1 DEF RowOf
  <2> QED BY <2>1, <2>2
<1>3. RowOf(w) # {}
  <2> SUFFICES ASSUME RowOf(w) = {} PROVE row' = row
    OBVIOUS
  <2>1. \A r \in Id : row'[r] = row[r]
    <3>1. row'[q] \in Seq(Row) /\ DOMAIN row'[q] = DOMAIN row[q]
          /\ \A i \in DOMAIN row[q] : row'[q][i] = row[q][i]
      BY DEF Rewritten
    <3>2. row'[q] = row[q]
      BY <1>1, <3>1
    <3> QED BY <3>2 DEF Rewritten
  <2> QED BY <1>1, <2>1 DEF Rewritten
<1>4. PICK i \in DOMAIN row[q] : RowOf(w) = {i}
  BY <1>2, <1>3 DEF RowOf
<1>5. Rewritten(q, {i}, s)
  BY <1>4
<1>6. Hosts' = [Hosts EXCEPT ![q] = [j \in DOMAIN Hosts[q] |-> IF j \in {i} THEN s ELSE Hosts[q][j]]]
  BY <1>5, HostsRewritten
<1>7. i \in DOMAIN Hosts[q] /\ DOMAIN Hosts = Id
  BY DEF Hosts
<1>8. Hosts' = [Hosts EXCEPT ![q][i] = s]
  BY <1>6, <1>7
<1>9. Sound(q) => row[q][i].status = Left(w)
  BY <1>4, RowOfRight DEF LedgerInv, ExecInv, Begin, Conclude, Rescue, At
<1>10. \/ Ledger!Start(q, i) \/ Ledger!Finish(q, i) \/ Ledger!TakeBack(q, i) \/ Ledger!Stray(q, i)
  <2>1. CASE ~Sound(q)
    BY <1>1, <1>8, <2>1, HostActs
  <2>2. CASE Sound(q) /\ Begin(w)
    BY <1>1, <1>8, <1>9, <2>2, HostActs DEF Left, Begin, Conclude, Rescue, At
  <2>3. CASE Sound(q) /\ \E t \in RowStatus : Conclude(w, t)
    BY <1>1, <1>8, <1>9, <2>3, HostActs DEF Left, Begin, Conclude, Rescue, At
  <2>4. CASE Sound(q) /\ Rescue(w)
    BY <1>1, <1>8, <1>9, <2>4, HostActs DEF Left, Begin, Conclude, Rescue, At
  <2> QED BY <2>1, <2>2, <2>3, <2>4
<1> QED BY <1>7, <1>10 DEF Ledger!LedgerNext, Hosts

\* ... a retry queues hosts, which makes the batch void unless they had failed, ...
LEMMA RequeueRefines ==
  ASSUME LedgerInv, [Next]_vars, NEW h \in Handler, Requeue(h), UNCHANGED Due
  PROVE  Ledger!LedgerNext
<1> DEFINE u == call[h].update
<1>a. PICK q \in Id : q = call[h].record
  BY DEF Requeue, LedgerInv, ExecInv, TypeInv, Callers, Called
<1>b. PICK I : I = call[h].rows
  OBVIOUS
<1>0. q = call[h].record /\ I = call[h].rows
  BY <1>a, <1>b
<1>1. I # {} /\ I \subseteq DOMAIN row[q]
  BY <1>0 DEF Requeue, LedgerInv, Recorded, ExecInv, TypeInv, Callers, Called
<1>2. ("status" \in DOMAIN u => u["status"] = "running") /\ Flush(q, u)
  BY <1>0 DEF Requeue, LedgerInv, Recorded
<1>3. Rewritten(q, I, "queued")
  BY <1>0, <1>1, SetRowsRewrites DEF Requeue, LedgerInv, ExecInv, TypeInv, Typing, RowStatus
<1> HIDE DEF u
<1>4. Hosts' = [Hosts EXCEPT ![q] =
                 [i \in DOMAIN Hosts[q] |-> IF i \in I THEN "queued" ELSE Hosts[q][i]]]
  BY <1>1, <1>3, HostsRewritten
<1>5. Statuses' = [Statuses EXCEPT ![q] = "running"] \/ UNCHANGED Statuses
  <2>1. /\ \A r \in Id \ {q} : record'[r].status = record[r].status
        /\ record'[q].status \in {"running", record[q].status}
    BY <1>1, <1>2, StatusFlushed DEF LedgerInv, ExecInv
  <2> QED BY <1>1, <2>1 DEF Statuses
<1>6. Void' = IF I \subseteq RowsIn(q, {"failed", "timed_out"}) THEN Void ELSE Void \cup {q}
  <2>1. stale' = IF I \subseteq RowsIn(q, {"failed", "timed_out"}) THEN stale ELSE stale \cup {q}
    BY <1>0 DEF Requeue, Retriable
  <2>2. \A r \in Id : Unique(r)' <=> Unique(r)
    BY <1>3 DEF Rewritten, Unique
  <2> QED BY <1>1, <2>1, <2>2 DEF Void, Sound
<1>7. Ledger!Requeue(q, I)
  <2>1. Ledger!Says(q, {"failed", "timed_out"}) = RowsIn(q, {"failed", "timed_out"})
    BY SaysRows
  <2>2. Void' = IF I \subseteq Ledger!Says(q, {"failed", "timed_out"}) THEN Void ELSE Void \cup {q}
    BY <1>6, <2>1
  <2> QED BY <1>1, <1>4, <1>5, <2>2, LedgerActs, Zenon
<1>8. I \in SUBSET DOMAIN Hosts[q]
  BY <1>1 DEF Hosts
<1> QED BY <1>1, <1>7, <1>8 DEF Ledger!LedgerNext, Hosts

\* ... an aggregation finds all hosts closed, ...
LEMMA RecomputeRefines ==
  ASSUME LedgerInv, NEW w \in Worker, Recompute(w), UNCHANGED Void
  PROVE  [Ledger!LedgerNext]_(Ledger!ledgerVars)
<1>0. PICK q \in Id : q = task[w].record
  BY DEF Recompute, LedgerInv, ExecInv, TypeInv, Typing, At
<1> DEFINE u == Changed(record[q], Aggregate(q))
<1>1. Typing /\ UNCHANGED <<row, record>> /\ task[w].at = "aggregate"
  BY DEF Recompute, LedgerInv, ExecInv, TypeInv, At
<1>2. task' = [task EXCEPT ![w].at = "save", ![w].update = u]
  BY <1>0 DEF Recompute
<1>3. task'[w].at = "save" /\ task'[w].record = q /\ task'[w].update = u
      /\ \A v \in Worker \ {w} : task'[v] = task[v]
  BY <1>0, <1>1, <1>2 DEF Typing, TaskType
<1>4. UNCHANGED <<Hosts, Statuses>>
  BY <1>1 DEF Hosts, Statuses
<1>5. "status" \in DOMAIN u => /\ Aggregate(q).status # record[q].status
                               /\ u["status"] = Aggregate(q).status
  BY DEF Changed
<1> HIDE DEF u
<1>6. \A r \in Id : \A v \in Worker \ {w} : v \in Reckoned(r)' <=> v \in Reckoned(r)
  BY <1>3 DEF Reckoned, At
<1>7. \A r \in Id : w \notin Reckoned(r)
  BY <1>1 DEF Reckoned, At
<1>8. \A r \in Id : w \in Reckoned(r)' <=> r = q /\ "status" \in DOMAIN u
  BY <1>3 DEF Reckoned, At
<1>9. ASSUME NEW r \in Id, r # q \/ "status" \notin DOMAIN u PROVE Due'[r] = Due[r]
  <2>1. Reckoned(r)' = Reckoned(r)
    BY <1>6, <1>7, <1>8, <1>9 DEF Reckoned
  <2>2. \A v \in Reckoned(r) : task'[v] = task[v]
    BY <1>3, <1>7 DEF Reckoned
  <2>3. {task'[v].update.status : v \in Reckoned(r)'} = {task[v].update.status : v \in Reckoned(r)}
    BY <2>1, <2>2
  <2> QED BY <2>3 DEF Due
<1>10. CASE "status" \notin DOMAIN u
  <2>2. Due' = Due
    <3>1. \A r \in Id : Due'[r] = Due[r]
      BY <1>9, <1>10
    <3>2. Due = [r \in Id |-> Due[r]] /\ Due' = [r \in Id |-> Due'[r]]
      BY DEF Due
    <3> QED BY <3>1, <3>2
  <2> QED BY <1>4, <2>2 DEF Ledger!ledgerVars, Hosts, Statuses, Due, Void
<1>11. CASE "status" \in DOMAIN u
  <2>1. Ledger!Closed(q) /\ u["status"] = Ledger!Verdict(q)
    BY <1>1, <1>5, <1>11, AggregateIsVerdict DEF Typing
  <2>2. Due'[q] = Due[q] \cup {u["status"]}
    <3>1. Reckoned(q)' = Reckoned(q) \cup {w} /\ w \notin Reckoned(q)
      BY <1>6, <1>7, <1>8, <1>11 DEF Reckoned
    <3>2. \A v \in Reckoned(q) : task'[v] = task[v]
      BY <1>3, <3>1 DEF Reckoned
    <3>3. task'[w].update.status = u["status"]
      BY <1>3
    <3>4. {task'[v].update.status : v \in Reckoned(q)'}
            = {task[v].update.status : v \in Reckoned(q)} \cup {u["status"]}
      BY <3>1, <3>2, <3>3
    <3> QED BY <3>4 DEF Due
  <2> DEFINE s == u["status"]
             V == Due[q] \cup {s}
  <2>3. DOMAIN Due = Id /\ Due' = [r \in Id |-> Due'[r]]
    BY DEF Due
  <2>4. Due' = [Due EXCEPT ![q] = V]
    <3> HIDE DEF V
    <3>1. Due'[q] = V
      BY <2>2 DEF V
    <3> QED BY <1>9, <2>3, <3>1
  <2>5. Ledger!Reckon(q)
    <3>1. Due' = [Due EXCEPT ![q] = @ \cup {Ledger!Verdict(q)}]
      BY <1>1, <2>1, <2>3, <2>4
    <3> QED BY <1>1, <1>4, <2>1, <3>1, LedgerActs
  <2> QED BY <1>1, <2>5 DEF Ledger!LedgerNext
<1> QED BY <1>10, <1>11

\* ... and what it found is written, ...
LEMMA SaveRefines ==
  ASSUME LedgerInv, NEW w \in Worker, Save(w), UNCHANGED Void
  PROVE  Ledger!LedgerNext
<1> DEFINE u == task[w].update
<1>3. PICK q \in Id : q = task[w].record
  BY DEF Save, LedgerInv, ExecInv, TypeInv, Typing, At
<1>1. Typing /\ UNCHANGED row /\ task' = [task EXCEPT ![w] = NoTask]
      /\ Flush(q, u) /\ task[w].at = "save"
  BY <1>3 DEF Save, LedgerInv, ExecInv, TypeInv, At
<1>2. "status" \in DOMAIN u => u["status"] \in Due[q]
  BY <1>1, <1>3 DEF Due, Reckoned, At
<1> HIDE DEF u
<1>4. Due'[q] \in SUBSET Due[q] /\ Due' = [Due EXCEPT ![q] = Due'[q]]
  BY <1>1, <1>3, DueLost
<1>5. UNCHANGED Hosts
  BY <1>1 DEF Hosts
<1>6. /\ \A r \in Id \ {q} : record'[r].status = record[r].status
      /\ record'[q].status = IF "status" \in DOMAIN u THEN u["status"] ELSE record[q].status
  BY <1>1, StatusFlushed DEF LedgerInv, ExecInv
<1>7. CASE "status" \in DOMAIN u
  <2> DEFINE s == u["status"]
  <2>1. Statuses' = [Statuses EXCEPT ![q] = s]
    <3> HIDE DEF s
    <3>1. record'[q].status = s
      BY <1>6, <1>7 DEF s
    <3> QED BY <1>6, <3>1 DEF Statuses
  <2>2. Ledger!Declare(q)
    BY <1>1, <1>2, <1>4, <1>5, <1>7, <2>1, LedgerActs
  <2> QED BY <1>1, <2>2 DEF Ledger!LedgerNext
<1>8. CASE "status" \notin DOMAIN u
  <2>1. UNCHANGED Statuses
    BY <1>6, <1>8 DEF Statuses
  <2>2. Ledger!Drop(q)
    BY <1>1, <1>4, <1>5, <2>1, LedgerActs
  <2> QED BY <1>1, <2>2 DEF Ledger!LedgerNext
<1> QED BY <1>7, <1>8

\* ... or lost.
LEMMA KillRefines ==
  ASSUME LedgerInv, NEW w \in Worker, Kill(w), UNCHANGED Void
  PROVE  Ledger!LedgerNext
<1>1. PICK q \in Id : q = task[w].record
  BY DEF Kill, LedgerInv, ExecInv, TypeInv, Typing
<1>2. Typing /\ UNCHANGED <<row, record>> /\ task' = [task EXCEPT ![w] = NoTask]
  BY DEF Kill, LedgerInv, ExecInv, TypeInv
<1>3. Due'[q] \in SUBSET Due[q] /\ Due' = [Due EXCEPT ![q] = Due'[q]]
  BY <1>1, <1>2, DueLost
<1>4. UNCHANGED <<Hosts, Statuses>>
  BY <1>2 DEF Hosts, Statuses
<1>5. Ledger!Drop(q)
  BY <1>3, <1>4, LedgerActs
<1> QED BY <1>5 DEF Ledger!LedgerNext

\* Nothing else is visible.
LEMMA StepRefines == LedgerInv /\ [Next]_vars => [Ledger!LedgerNext]_(Ledger!ledgerVars)
<1> SUFFICES ASSUME LedgerInv, [Next]_vars PROVE [Ledger!LedgerNext]_(Ledger!ledgerVars)
  OBVIOUS
<1> USE DEF LedgerInv, ExecInv
<1>1. ASSUME NEW h \in Handler, NEW w \in Worker
      PROVE  InsertRows(h) \/ Requeue(h) => ~Recompute(w) /\ ~Save(w) /\ ~Kill(w)
  BY OtherCallsOnly
<1>2. CASE \E h \in Handler : InsertRows(h) \/ Requeue(h)
  <2>1. UNCHANGED Due
    BY <1>1, <1>2, DueOfOthers
  <2> QED BY <1>2, <2>1, InsertRowsRefines, RequeueRefines
<1>3. CASE ~\E h \in Handler : InsertRows(h) \/ Requeue(h)
  <2>1. UNCHANGED Void
    BY <1>3, VoidOfOthers
  <2>2. CASE \E w \in Worker : Recompute(w) \/ Save(w) \/ Kill(w)
    BY <2>1, <2>2, RecomputeRefines, SaveRefines, KillRefines
  <2>3. CASE \A w \in Worker : ~Recompute(w) /\ ~Save(w) /\ ~Kill(w)
    <3>1. UNCHANGED Due
      BY <2>3, DueOfOthers
    <3>2. CASE \E h \in Handler : InsertRecord(h)
      BY <2>1, <3>1, <3>2, InsertRecordRefines
    <3>3. CASE ~\E h \in Handler : InsertRecord(h)
      <4>1. UNCHANGED record
        BY <1>3, <2>3, <3>3, RecordMoves
      <4>2. CASE UNCHANGED row
        <5>1. UNCHANGED <<Hosts, Statuses>>
          BY <4>1, <4>2 DEF Hosts, Statuses
        <5> QED BY <2>1, <3>1, <5>1 DEF Ledger!ledgerVars, Hosts, Statuses, Due, Void
      <4>3. CASE row' # row
        BY <1>3, <2>1, <3>1, <4>1, <4>3, RowMoves, HostRefines DEF RowMove, RowStatus
      <4> QED BY <4>2, <4>3
    <3> QED BY <3>2, <3>3
  <2> QED BY <2>2, <2>3
<1> QED BY <1>2, <1>3

\* A batch is what BatchLedger says to the readers of its tables, however requests,
\* tasks, aggregations and faults interleave: hosts are listed once and executed
\* from "queued" to a result, a success is not executed again, and every "done"
\* and "partial" was once true of all hosts.  A retry that requeues hosts that had
\* not failed, and a server that is named twice, take the first two promises from
\* their own batch only (batch_exec, retry_failed, exec_host_result,
\* _recompute_record).
THEOREM BatchRefinesLedger == Spec => RefinesLedger
<1>1. Init => Ledger!LedgerInit
  <2> SUFFICES ASSUME Init PROVE Ledger!LedgerInit
    OBVIOUS
  <2>1. Hosts = [r \in Id |-> << >>] /\ Statuses = [r \in Id |-> "absent"]
    BY DEF Init, Hosts, Statuses, Blank
  <2>2. Due = [r \in Id |-> {}]
    BY DEF Init, Due, Reckoned, At, NoTask
  <2>3. Void = {}
    BY DEF Init, Void, Sound, Unique
  <2> QED BY <2>1, <2>2, <2>3 DEF Ledger!LedgerInit, Hosts, Statuses, Due, Void
<1> QED BY <1>1, StepRefines, LedgerInvHolds, PTL DEF Spec, RefinesLedger, Ledger!LedgerSpec
=============================================================================
