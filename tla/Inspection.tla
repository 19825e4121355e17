----------------------------- MODULE Inspection -----------------------------
(***************************************************************************)
(* Host inspection: the handlers collect and collect_sync and the rules    *)
(* they seed (api/v1/inspection.py), which run in the API's thread pool,   *)
(* and the Celery task inspect_host with its aggregation                   *)
(* (tasks/inspection_tasks.py).  Hosts answer and are judged as HostFacts  *)
(* and InspectionRules say.                                                *)
(*                                                                         *)
(* A transaction reads one snapshot of the database, and an UPDATE names   *)
(* only the columns that differ from what the session read.                *)
(***************************************************************************)
EXTENDS InspectionRules, Sequences, Bags

CONSTANTS
  Handler,     \* threads of the API that serve inspections
  Worker,      \* celery worker processes
  Asset,       \* servers
  Lists,       \* the asset_ids of the requests: sequences of assets
  Answer,      \* per asset: what it may answer to a collection, see HostFacts
  Seeds,       \* default_rules(), or some of them
  Installed,   \* what inspection_rule may hold at first: sets of rules
  Payload,     \* the rules that users send to the rule handlers
  PassTwice,   \* TRUE, as in the code: the dispatch passes the ids by position and by
               \* name.  FALSE: it does not, so that the tasks can be checked
  MaxRecord,   \* bound: rows of inspection_record
  MaxHosts,    \* BATCH_MAX_ASSETS
  MaxEdit,     \* bound: successful requests to the rule handlers
  Events       \* what the environment does: see EventKinds

EventKinds == {"broker",  \* publishing a message raises
               "crash",   \* the API process restarts in the middle of a request
               "kill",    \* a worker process dies (time_limit, OOM, restart)
               "delete"}  \* somebody deletes an asset

ASSUME InspectionAssumption ==
  /\ Handler \cap Worker = {}
  /\ \A list \in Lists : list \in Seq(Asset) /\ Len(list) \in 1 .. MaxHosts
  /\ \A a \in Asset : \A x \in Answer[a] :
       /\ x.conn \in Connection /\ x.broken \subseteq Probe
       /\ x.load_5 \in Int /\ x.memory \in Share /\ x.swap \in Share
       /\ x.disks \subseteq Disk /\ x.inodes \subseteq Disk
       /\ x.ports \subseteq STRING /\ x.services \subseteq STRING
  /\ Seeds \subseteq DefaultRules /\ Seeds # {}
  /\ \A S \in Installed : \A q, r \in S : q.name = r.name => q = r   \* unique=True
  /\ PassTwice \in BOOLEAN
  /\ MaxRecord \in Nat /\ MaxHosts \in Nat /\ MaxEdit \in Nat
  /\ Events \subseteq EventKinds

Id       == 1 .. MaxRecord
Message  == [record : Id, asset : Asset]
NoAnswer == "none"

VARIABLES
  record,   \* inspection_record: its columns per id
  lastId,   \* its auto-increment counter
  row,      \* host_inspection: per record id, its rows in the order of theirs
  rule,     \* inspection_rule: its rows
  edits,    \* number of successful requests to the rule handlers
  assets,   \* server_asset: the assets that exist
  queue,    \* the bag of task messages in the broker
  proc,     \* per handler and worker: where it is, and its variables
  lost      \* history: the records that lost a message, request or task

vars == <<record, lastId, row, rule, edits, assets, queue, proc, lost>>

Status  == {"absent", "running", "done"}
Record  == [status : Status, total : Nat, succeeded : Nat, unknown : Nat]
NoRecord == [status |-> "absent", total |-> 0, succeeded |-> 0, unknown |-> 0]

\* The column facts is a function of what the host answered: the row keeps that.
Opened(a) == [asset |-> a, status |-> "running", seen |-> NoAnswer, results |-> {}]

Idle == [at |-> "idle", sync |-> FALSE, list |-> << >>, record |-> 0,
         left |-> {}, asset |-> "none", rules |-> {}, update |-> << >>]

At(p, s) == proc[p].at = s

\* Mutation of Changed: all columns are written.
ChangedAll(old, new) == [c \in DOMAIN old |-> new[c]]

\* The columns of an UPDATE, given what was read and what was assigned.
Changed(old, new) == [c \in {d \in DOMAIN new : new[d] # old[d]} |-> new[c]]

\* The rows of one commit share a number; their names tell them apart.
Numbered(S, n) == {[id |-> n, def |-> r] : r \in S}

Init ==
  /\ record = [r \in Id |-> NoRecord]
  /\ lastId = 0
  /\ row = [r \in Id |-> << >>]
  /\ \E S \in Installed : rule = Numbered(S, 1)
  /\ edits = 0
  /\ assets = Asset
  /\ queue = EmptyBag
  /\ proc = [p \in Handler \cup Worker |-> Idle]
  /\ lost = {}

-----------------------------------------------------------------------------
(* POST /collect and POST /collect/sync.                                   *)

\* A request that names an unknown asset, no asset or too many is refused.
Start(h, sync, list) ==
  /\ At(h, "idle") /\ lastId < MaxRecord
  /\ \A i \in DOMAIN list : list[i] \in assets
  /\ proc' = [proc EXCEPT ![h] = [Idle EXCEPT
                !.at = IF rule = {} THEN "seed" ELSE "insert",
                !.sync = sync, !.list = list]]
  /\ UNCHANGED <<record, lastId, row, rule, edits, assets, queue, lost>>

Names(S) == {r.name : r \in S}
Defs(S)  == {r.def : r \in S}
NextRule == Max({0} \cup {r.id : r \in rule}) + 1

\* Mutation of Seed: names need not be unique.
SeedAgain(h) ==
  /\ At(h, "seed")
  /\ rule' = rule \cup Numbered(Seeds, NextRule)
  /\ proc' = [proc EXCEPT ![h].at = "reread"]
  /\ UNCHANGED <<record, lastId, row, edits, assets, queue, lost>>

\* _ensure_default_rules found no rule, and adds all of its own in one
\* transaction.  A name that exists by now ends the request.
Seed(h) ==
  /\ At(h, "seed")
  /\ IF Names(Seeds) \cap Names(Defs(rule)) = {}
     THEN /\ rule' = rule \cup Numbered(Seeds, NextRule)
          /\ proc' = [proc EXCEPT ![h].at = "reread"]
     ELSE /\ proc' = [proc EXCEPT ![h] = Idle]
          /\ UNCHANGED rule
  /\ UNCHANGED <<record, lastId, row, edits, assets, queue, lost>>

\* A commit expires the assets: they are read again when they are needed.
Rereads(h)  == At(h, "reread") \/ At(h, "rows")
Readable(h) == \A i \in DOMAIN proc[h].list : proc[h].list[i] \in assets

InsertRecord(h) ==
  /\ At(h, "insert") \/ (At(h, "reread") /\ Readable(h))
  /\ lastId < MaxRecord
  /\ lastId' = lastId + 1
  /\ record' = [record EXCEPT ![lastId'] =
                  [NoRecord EXCEPT !.status = "running", !.total = Len(proc[h].list)]]
  /\ proc' = [proc EXCEPT ![h].at = "rows", ![h].record = lastId']
  /\ UNCHANGED <<row, rule, edits, assets, queue, lost>>

InsertRows(h) ==
  /\ At(h, "rows") /\ Readable(h)
  /\ row' = [row EXCEPT ![proc[h].record] =
               [i \in DOMAIN proc[h].list |-> Opened(proc[h].list[i])]]
  /\ proc' = [proc EXCEPT ![h].at = IF proc[h].sync THEN "rules" ELSE "dispatch",
                          ![h].left = DOMAIN proc[h].list]
  /\ UNCHANGED <<record, lastId, rule, edits, assets, queue, lost>>

\* The messages of the group are published one by one.
Publish(h, i) ==
  /\ At(h, "dispatch") /\ i \in proc[h].left
  /\ queue' = queue (+) SetToBag({[record |-> proc[h].record, asset |-> proc[h].list[i]]})
  /\ proc' = IF proc[h].left = {i} THEN [proc EXCEPT ![h] = Idle]
             ELSE [proc EXCEPT ![h].left = @ \ {i}]
  /\ UNCHANGED <<record, lastId, row, rule, edits, assets, lost>>

\* What a host that answers x is judged by the rules R; without credentials
\* there is nothing to judge.
Facts == [x \in {y \in UNION {Answer[a] : a \in Asset} : y.conn # "locked"} |-> Collect(x)]
Judged(x, R) == IF x \notin DOMAIN Facts THEN [status |-> "unknown", results |-> {}]
                ELSE [status |-> Overall(Facts[x], R), results |-> Results(Facts[x], R)]
JudgingRaises(x, R) == x \in DOMAIN Facts /\ EvaluationRaises(Facts[x], R)

SetRow(r, i, x, v) ==
  row' = [row EXCEPT ![r][i] = [@ EXCEPT !.status = v.status, !.results = v.results,
                                         !.seen = x]]

\* collect_sync inspects the hosts itself: with the rules of this moment, ...
Enabled == {r \in Defs(rule) : r.enabled}

ReadRules(h) ==
  /\ At(h, "rules")
  /\ proc' = [proc EXCEPT ![h].at = "sync", ![h].rules = Enabled]
  /\ UNCHANGED <<record, lastId, row, rule, edits, assets, queue, lost>>

\* Mutation of SyncHost: the exception handler knows a status of its own.
SyncHostFailed(h, a, x) ==
  /\ At(h, "sync")
  /\ a = proc[h].list[Min(proc[h].left)]
  /\ LET i == Min(proc[h].left)
         v == IF JudgingRaises(x, proc[h].rules)
              THEN [status |-> "failed", results |-> {}]
              ELSE Judged(x, proc[h].rules)
     IN /\ SetRow(proc[h].record, i, x, v)
        /\ proc' = [proc EXCEPT ![h].left = @ \ {i},
                                ![h].at = IF proc[h].left = {i} THEN "aggregate" ELSE @]
  /\ UNCHANGED <<record, lastId, rule, edits, assets, queue, lost>>

\* ... in their order; an exception counts as an unknown host.
SyncHost(h, a, x) ==
  /\ At(h, "sync")
  /\ a = proc[h].list[Min(proc[h].left)]
  /\ LET i == Min(proc[h].left)
         v == IF JudgingRaises(x, proc[h].rules)
              THEN [status |-> "unknown", results |-> {}]
              ELSE Judged(x, proc[h].rules)
     IN /\ SetRow(proc[h].record, i, x, v)
        /\ proc' = [proc EXCEPT ![h].left = @ \ {i},
                                ![h].at = IF proc[h].left = {i} THEN "aggregate" ELSE @]
  /\ UNCHANGED <<record, lastId, rule, edits, assets, queue, lost>>

\* A request ends where it is: what it committed stays.
Abandon(p) ==
  /\ lost' = lost \cup ({proc[p].record} \ {0})
  /\ proc' = [proc EXCEPT ![p] = Idle]
  /\ UNCHANGED <<record, lastId, row, rule, edits, assets, queue>>

AssetGone(h) == Rereads(h) /\ ~Readable(h) /\ Abandon(h)

GiveUp(h) == /\ \/ "broker" \in Events /\ At(h, "dispatch")
                \/ "crash" \in Events /\ ~At(h, "idle")
             /\ Abandon(h)

-----------------------------------------------------------------------------
(* inspect_host.                                                           *)

\* Ids that come by position and by name, as collect passes them, do not bind to
\* the task's parameters: TypeError, and the message is gone.
Take(w, m) ==
  /\ At(w, "idle") /\ BagIn(m, queue)
  /\ queue' = queue (-) SetToBag({m})
  /\ proc' = [proc EXCEPT ![w] = IF PassTwice THEN Idle
                                 ELSE [Idle EXCEPT !.at = "begin", !.record = m.record,
                                                   !.asset = m.asset]]
  /\ UNCHANGED <<record, lastId, row, rule, edits, assets, lost>>

RowOf(w) == CHOOSE i \in DOMAIN row[proc[w].record] :
              row[proc[w].record][i].asset = proc[w].asset

\* Mutation of Aggregate: a host that is unknown is not concluded.
AggregateKnown(rec, rows) ==
  LET unknown == {i \in DOMAIN rows : rows[i].status = "unknown"}
      open    == {i \in DOMAIN rows : rows[i].status \in {"running", "unknown"}}
  IN [rec EXCEPT !.total = Len(rows), !.unknown = Cardinality(unknown),
                 !.succeeded = Len(rows) - Cardinality(unknown),
                 !.status = IF open = {} /\ rows # << >> THEN "done" ELSE @]

\* _recompute_record: a running host counts as succeeded.
Aggregate(rec, rows) ==
  LET unknown == {i \in DOMAIN rows : rows[i].status = "unknown"}
      open    == {i \in DOMAIN rows : rows[i].status = "running"}
  IN [rec EXCEPT !.total = Len(rows), !.unknown = Cardinality(unknown),
                 !.succeeded = Len(rows) - Cardinality(unknown),
                 !.status = IF open = {} /\ rows # << >> THEN "done" ELSE @]

\* The row says "running".  The transaction that starts now lasts until the
\* row is judged: it sees the rules of this moment, and so does the
\* aggregation of a task whose judging raises.
Begin(w) ==
  /\ At(w, "begin")
  /\ LET r == proc[w].record IN
       /\ row' = [row EXCEPT ![r][RowOf(w)].status = "running"]
       /\ proc' = [proc EXCEPT ![w].at = "judge", ![w].rules = Enabled,
                     ![w].update = Changed(record[r], Aggregate(record[r], row'[r]))]
  /\ UNCHANGED <<record, lastId, rule, edits, assets, queue, lost>>

\* Nothing handles an exception of the evaluation: the row stays as it is.
Judge(w, a, x) ==
  /\ At(w, "judge") /\ a = proc[w].asset
  /\ IF JudgingRaises(x, proc[w].rules)
     THEN /\ proc' = [proc EXCEPT ![w].at = "save"]
          /\ lost' = lost \cup {proc[w].record}
          /\ UNCHANGED row
     ELSE /\ SetRow(proc[w].record, RowOf(w), x, Judged(x, proc[w].rules))
          /\ proc' = [proc EXCEPT ![w].at = "aggregate"]
          /\ UNCHANGED lost
  /\ UNCHANGED <<record, lastId, rule, edits, assets, queue>>

\* A task, or a synchronous request, reads the record and its rows ...
Recompute(p) ==
  /\ At(p, "aggregate")
  /\ LET r == proc[p].record IN
       proc' = [proc EXCEPT ![p].at = "save",
                  ![p].update = Changed(record[r], Aggregate(record[r], row[r]))]
  /\ UNCHANGED <<record, lastId, row, rule, edits, assets, queue, lost>>

\* ... and commits the columns that differ.
Save(p) ==
  /\ At(p, "save")
  /\ record' = [record EXCEPT ![proc[p].record] =
       [c \in DOMAIN @ |-> IF c \in DOMAIN proc[p].update THEN proc[p].update[c] ELSE @[c]]]
  /\ proc' = [proc EXCEPT ![p] = Idle]
  /\ UNCHANGED <<lastId, row, rule, edits, assets, queue, lost>>

Kill(w) == "kill" \in Events /\ ~At(w, "idle") /\ Abandon(w)

-----------------------------------------------------------------------------
(* The rule handlers and the deletion of an asset.                         *)

Edit(S) == /\ edits < MaxEdit
           /\ edits' = edits + 1
           /\ rule' = S
           /\ UNCHANGED <<record, lastId, row, assets, queue, proc, lost>>

Whitelisted(p) == /\ p.metric \in Metric
                  /\ p.operator \in Numeric \cup Contains
                  /\ p.severity \in {"warning", "critical"}

CreateRule(p) == /\ Whitelisted(p)
                 /\ p.name \notin Names(Defs(rule))
                 /\ Edit(rule \cup Numbered({p}, NextRule))

\* The handler of PUT does not look at what it is sent.
UpdateRule(r, p) == /\ p.name \notin Names(Defs(rule \ {r}))
                    /\ Edit((rule \ {r}) \cup Numbered({p}, r.id))

DeleteRule(r) == Edit(rule \ {r})

\* host_inspection.asset_id refers to server_asset.
DeleteAsset(a) ==
  /\ "delete" \in Events
  /\ a \in assets
  /\ \A r \in Id : \A i \in DOMAIN row[r] : row[r][i].asset # a
  /\ assets' = assets \ {a}
  /\ UNCHANGED <<record, lastId, row, rule, edits, queue, proc, lost>>

-----------------------------------------------------------------------------
Serve(h) == \/ Seed(h) \/ InsertRecord(h) \/ InsertRows(h) \/ ReadRules(h)
            \/ \E i \in proc[h].left : Publish(h, i)
            \/ \E a \in Asset : \E x \in Answer[a] : SyncHost(h, a, x)
            \/ Recompute(h) \/ Save(h) \/ AssetGone(h)
RunTask(w) == \/ \E m \in BagToSet(queue) : Take(w, m)
              \/ Begin(w)
              \/ \E a \in Asset : \E x \in Answer[a] : Judge(w, a, x)
              \/ Recompute(w) \/ Save(w)

Next == \/ \E h \in Handler : \/ \E sync \in BOOLEAN, list \in Lists : Start(h, sync, list)
                              \/ Serve(h) \/ GiveUp(h)
        \/ \E w \in Worker : RunTask(w) \/ Kill(w)
        \/ \E p \in Payload : CreateRule(p) \/ \E r \in rule : UpdateRule(r, p)
        \/ \E r \in rule : DeleteRule(r)
        \/ \E a \in Asset : DeleteAsset(a)

Spec == Init /\ [][Next]_vars

\* A request that was accepted is served to its end, and the worker processes
\* keep consuming the queue and run their tasks on.
FairSpec == /\ Spec
            /\ \A h \in Handler : WF_vars(Serve(h))
            /\ \A w \in Worker : WF_vars(RunTask(w))

-----------------------------------------------------------------------------
(* Properties.                                                             *)

\* Every variable has its type: the columns hold the values their models
\* document, a verdict is one of the four, and requests and tasks are at a
\* step of theirs.
TypeOK ==
  /\ record \in [Id -> Record]
  /\ lastId \in 0 .. MaxRecord
  /\ DOMAIN row = Id
  /\ \A r \in Id : \A i \in DOMAIN row[r] :
       row[r][i].asset \in Asset /\ row[r][i].status \in Verdict \cup {"running"}
  /\ Defs(rule) \subseteq Seeds \cup Payload \cup UNION Installed
  /\ edits \in 0 .. MaxEdit
  /\ assets \subseteq Asset
  /\ IsABag(queue) /\ BagToSet(queue) \subseteq Message
  /\ \A p \in Handler \cup Worker :
       /\ proc[p].at \in {"idle", "aggregate", "save"} \cup
            (IF p \in Worker THEN {"begin", "judge"}
             ELSE {"seed", "insert", "reread", "rows", "rules", "sync", "dispatch"})
       /\ proc[p].record \in 0 .. lastId
  /\ lost \subseteq Id

\* To a reader of its tables an inspection is what HostLedger says: a host is
\* judged once and its verdict stands, and the record says "done" once, when
\* every host is judged, in whatever order aggregations are written.
Ledger == INSTANCE HostLedger WITH
            status <- [r \in Id |-> record[r].status],
            host   <- [r \in Id |-> [i \in DOMAIN row[r] |-> row[r][i].status]]
RefinesLedger == Ledger!LedgerSpec

\* Two first inspections that both find no rule leave one set of default
\* rules behind, all of it, and one of the two is refused; no name is ever
\* given twice (_ensure_default_rules).
SeededOnce ==
  /\ \A q, r \in rule : q.def.name = r.def.name => q = r
  /\ edits = 0 => Defs(rule) \in Installed \cup {Seeds}

\* A host is called healthy only on the word of some rule that judged it,
\* although rules are deleted between the seeding of a request and the
\* reading of the rules by its tasks (evaluate: no rule means unknown).
HealthyHasBasis ==
  \A r \in Id : \A i \in DOMAIN row[r] :
    row[r][i].status = "healthy" => row[r][i].results # {}

\* A rule alarms exactly when the host is in the state that it describes, if
\* the probes it reads worked and their parsers can read the answer, whatever
\* the other probes did; and no verdict is milder than an alarm
\* (collect_host_facts, evaluate).
AlarmsMatchHost ==
  \A r \in Id : \A i \in DOMAIN row[r] : \A e \in row[r][i].results :
    LET x == row[r][i].seen IN
    Describes(e.rule) /\ x.conn = "ok"
      /\ ProbesOf(e.rule.metric) \cap x.broken = {} /\ Legible(x, e.rule)
    =>
      /\ Alarm(x, e.rule) <=> e.status = e.rule.severity
      /\ Alarm(x, e.rule) /\ row[r][i].status \in Verdict
           => Order[row[r][i].status] >= Order[e.rule.severity]

\* A host about which some rule had no data is not called healthy.
MissingIsUnknown ==
  \A r \in Id : \A i \in DOMAIN row[r] :
    (\E e \in row[r][i].results : e.status = "unknown") => row[r][i].status # "healthy"

\* Every inspection that is answered at once is concluded, although hosts do not
\* answer, and the evaluation may raise; unless its request is lost, or one of its
\* assets is deleted under it (collect_sync).
InspectionConcludes ==
  \A r \in Id :
    (\E h \in Handler : proc[h].sync /\ proc[h].record = r)
      ~> record[r].status = "done" \/ r \in lost
=============================================================================
