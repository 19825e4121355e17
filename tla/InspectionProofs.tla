-------------------------- MODULE InspectionProofs --------------------------
(***************************************************************************)
(* Host inspection, proved for any number of requests, workers, servers,   *)
(* records and rules, whatever hosts answer, users edit and the            *)
(* environment breaks:                                                     *)
(*                                                                         *)
(*  - the types (TypeInv adds what the steps of requests rely on);         *)
(*  - a healthy host has a result (BasisStep);                             *)
(*  - rules alarm exactly when hosts are in the state they describe        *)
(*    (Follows: a row is what its answer and its rules make of it);        *)
(*  - the default rules are seeded once (Seeding);                         *)
(*  - the tables implement HostLedger (InspectInv: a host that is open is  *)
(*    held by at most one of the requests, messages and tasks, and only    *)
(*    its holder judges it; an update that says "done" was computed from   *)
(*    rows that were all judged, and judged rows stay so).                 *)
(*                                                                         *)
(* The last needs that the servers of a request differ (Distinct).         *)
(***************************************************************************)
EXTENDS Inspection, Collections, FiniteSetTheorems, TLAPS

-----------------------------------------------------------------------------
(* The rule engine.                                                        *)

\* The worst of some results has a verdict, which is at least as bad as each.
LEMMA WorstIsVerdict ==
  ASSUME NEW S \in SUBSET 0 .. 3
  PROVE  Worst(S) \in Verdict /\ \A k \in S : Order[Worst(S)] >= k
<1> DEFINE T == {Order["healthy"]} \cup S
<1>1. T \in SUBSET 0 .. 3 /\ 1 \in T /\ S \subseteq T
  BY DEF Order
<1>2. \E x \in T : \A y \in T : x >= y
  <2>1. CASE 3 \in T
    BY <1>1, <2>1
  <2>2. CASE 3 \notin T /\ 2 \in T
    BY <1>1, <2>2
  <2>3. CASE 3 \notin T /\ 2 \notin T
    BY <1>1, <2>3
  <2> QED BY <2>1, <2>2, <2>3
<1>3. Max(T) \in 0 .. 3 /\ \A k \in S : Max(T) >= k
  <2> HIDE DEF T
  <2> QED BY <1>1, <1>2 DEF Max
<1>4. Worst(S) = CHOOSE s \in Verdict : Order[s] = Max(T)
  BY DEF Worst
<1>5. \E s \in Verdict : Order[s] = Max(T)
  <2> HIDE DEF T
  <2> QED BY <1>3 DEF Verdict, Order
<1> HIDE DEF T
<1>6. Worst(S) \in Verdict /\ Order[Worst(S)] = Max(T)
  BY <1>4, <1>5
<1> QED BY <1>3, <1>6

\* A host that the rules judge gets one of the four verdicts, "healthy" only with
\* a result, and each result is about a rule that was used (evaluate).
LEMMA JudgedIsVerdict ==
  ASSUME NEW x, NEW R, ~JudgingRaises(x, R)
  PROVE  /\ Judged(x, R).status \in Verdict
         /\ Judged(x, R).status = "healthy" => Judged(x, R).results # {}
         /\ \A e \in Judged(x, R).results : e.status \in Verdict /\ e.rule \in R
<1>1. CASE x \notin DOMAIN Facts
  BY <1>1 DEF Judged, Verdict, Order
<1>2. CASE x \in DOMAIN Facts
  <2> DEFINE f == Facts[x]
  <2>1. /\ Judged(x, R).status = Overall(f, R) /\ Judged(x, R).results = Results(f, R)
        /\ ~EvaluationRaises(f, R)
    BY <1>2 DEF Judged, JudgingRaises
  <2> HIDE DEF f
  <2>2. CASE f.unavailable
    BY <2>1, <2>2 DEF Overall, Results, Verdict, Order
  <2>3. CASE ~f.unavailable
    <3>1. ASSUME NEW r \in {q \in R : q.enabled} PROVE RuleStatus(f, r) \in Verdict
      <4>1. ~Raises(f, r)
        BY <2>1, <2>3 DEF EvaluationRaises
      <4>2. CASE Missing(f, r)
        BY <4>2 DEF RuleStatus, Verdict, Order
      <4>3. CASE ~Missing(f, r)
        BY <4>1, <4>3 DEF Raises
      <4> QED BY <4>2, <4>3
    <3>2. \A e \in Results(f, R) : e.status \in Verdict /\ e.rule \in R
      BY <2>3, <3>1 DEF Results
    <3>3. {Order[e.status] : e \in Results(f, R)} \in SUBSET 0 .. 3
      BY <3>2 DEF Verdict, Order
    <3>4. CASE Results(f, R) = {}
      BY <2>1, <3>4 DEF Overall, Verdict, Order
    <3>5. CASE Results(f, R) # {}
      <4>1. Overall(f, R) = Worst({Order[e.status] : e \in Results(f, R)})
        BY <2>3, <3>5 DEF Overall
      <4> QED BY <2>1, <3>2, <3>3, <3>5, <4>1, WorstIsVerdict
    <3> QED BY <3>4, <3>5
  <2> QED BY <2>2, <2>3
<1> QED BY <1>1, <1>2

\* Min is one of the rows a synchronous inspection has left.
LEMMA LeastIsLeft ==
  ASSUME NEW S \in SUBSET Nat, S # {}, IsFiniteSet(S)
  PROVE  Min(S) \in S
<1>1. \E m \in S : \A n \in S : m <= n
  BY LeastNatural
<1> QED BY <1>1 DEF Min

-----------------------------------------------------------------------------
(* Types.                                                                  *)

\* What the tables and the variables of requests and tasks may hold.
Definition == Seeds \cup Payload \cup UNION Installed
Outcome    == [rule : Definition, status : Verdict]
Seen       == {NoAnswer} \cup UNION {Answer[a] : a \in Asset}
HostRow    == [asset : Asset, status : Verdict \cup {"running"}, seen : Seen,
               results : SUBSET Outcome]
Updates    == {Changed(x, y) : x, y \in Record} \cup {<< >>}

\* Where a request and where a task may be.
HandlerStep == {"idle", "seed", "insert", "reread", "rows", "dispatch", "rules", "sync",
                "aggregate", "save"}
WorkerStep  == {"idle", "begin", "judge", "aggregate", "save"}

ProcType == [at : HandlerStep \cup WorkerStep, sync : BOOLEAN, list : Seq(Asset),
             record : 0 .. MaxRecord, left : SUBSET Nat, asset : Asset \cup {"none"},
             rules : SUBSET Definition, update : Updates]

\* The types of the tables and of the queue, ...
Tables ==
  /\ record \in [Id -> Record]
  /\ lastId \in 0 .. MaxRecord
  /\ row \in [Id -> Seq(HostRow)]
  /\ Defs(rule) \subseteq Definition
  /\ edits \in 0 .. MaxEdit
  /\ assets \subseteq Asset
  /\ IsABag(queue) /\ BagToSet(queue) \subseteq Message
  /\ lost \subseteq Id

\* ... and of the requests and tasks: a task at work has its record and host.
Procs ==
  /\ proc \in [Handler \cup Worker -> ProcType]
  /\ \A h \in Handler : proc[h].at \in HandlerStep
  /\ \A w \in Worker : /\ proc[w].at \in WorkerStep
                       /\ proc[w].at # "idle" => /\ proc[w].record \in Id
                                                /\ proc[w].asset \in Asset

\* What a request or a task becomes when it moves on keeps its type.
LEMMA IdleTyped == Idle \in ProcType /\ Idle.at = "idle" /\ Idle.record = 0
<1>1. << >> \in Updates /\ 0 \in 0 .. MaxRecord
  BY InspectionAssumption DEF Updates, InspectionAssumption
<1> QED BY <1>1 DEF Idle, ProcType, HandlerStep

\* The same for a step, ...
LEMMA AtTyped ==
  ASSUME NEW x \in ProcType, NEW s \in HandlerStep \cup WorkerStep
  PROVE  LET y == [x EXCEPT !.at = s]
         IN y \in ProcType /\ y.at = s /\ y.record = x.record /\ y.asset = x.asset
BY DEF ProcType

\* ... the hosts that InsertRows lists, ...
LEMMA AllLeftTyped ==
  ASSUME NEW x \in ProcType, NEW s \in HandlerStep \cup WorkerStep, NEW I \in SUBSET Nat
  PROVE  LET y == [x EXCEPT !.at = s, !.left = I]
         IN y \in ProcType /\ y.at = s
BY DEF ProcType

\* ... those that SyncHost leaves, ...
LEMMA NextLeftTyped ==
  ASSUME NEW x \in ProcType, NEW s \in HandlerStep \cup WorkerStep, NEW I \in SUBSET Nat
  PROVE  LET y == [x EXCEPT !.left = I, !.at = s]
         IN y \in ProcType /\ y.at = s
BY DEF ProcType

\* ... or Publish, ...
LEMMA LeftTyped ==
  ASSUME NEW x \in ProcType, NEW I \in SUBSET Nat
  PROVE  LET y == [x EXCEPT !.left = I]
         IN y \in ProcType /\ y.at = x.at
BY DEF ProcType

\* ... the rules that ReadRules reads, ...
LEMMA RulesTyped ==
  ASSUME NEW x \in ProcType, NEW s \in HandlerStep \cup WorkerStep, NEW R \in SUBSET Definition
  PROVE  LET y == [x EXCEPT !.at = s, !.rules = R]
         IN y \in ProcType /\ y.at = s
BY DEF ProcType

\* ... a request that starts, ...
LEMMA StartedTyped ==
  ASSUME NEW s \in HandlerStep, NEW b \in BOOLEAN, NEW list \in Seq(Asset)
  PROVE  LET y == [Idle EXCEPT !.at = s, !.sync = b, !.list = list]
         IN y \in ProcType /\ y.at = s
<1> DEFINE x == Idle
<1>1. x \in ProcType
  BY IdleTyped
<1> HIDE DEF x
<1>2. LET y == [x EXCEPT !.at = s, !.sync = b, !.list = list] IN y \in ProcType /\ y.at = s
  BY <1>1 DEF ProcType
<1> QED BY <1>2 DEF x

\* ... and a task that does.
LEMMA TakenTyped ==
  ASSUME NEW n \in 0 .. MaxRecord, NEW a \in Asset
  PROVE  LET y == [Idle EXCEPT !.at = "begin", !.record = n, !.asset = a]
         IN y \in ProcType /\ y.at = "begin" /\ y.record = n /\ y.asset = a
<1> DEFINE x == Idle
<1>1. x \in ProcType
  BY IdleTyped
<1> HIDE DEF x
<1>2. LET y == [x EXCEPT !.at = "begin", !.record = n, !.asset = a]
      IN y \in ProcType /\ y.at = "begin" /\ y.record = n /\ y.asset = a
  BY <1>1 DEF ProcType, WorkerStep
<1> QED BY <1>2 DEF x

\* A request or a task moves on, and its new record has its type.
LEMMA HandlerMoves ==
  ASSUME Procs, NEW h \in Handler, NEW x \in ProcType, x.at \in HandlerStep,
         proc' = [proc EXCEPT ![h] = x]
  PROVE  Procs'
BY InspectionAssumption DEF Procs, InspectionAssumption

\* The same for a task.
LEMMA WorkerMoves ==
  ASSUME Procs, NEW w \in Worker, NEW x \in ProcType, x.at \in WorkerStep,
         x.at # "idle" => x.record \in Id /\ x.asset \in Asset,
         proc' = [proc EXCEPT ![w] = x]
  PROVE  Procs'
BY InspectionAssumption DEF Procs, InspectionAssumption

\* What Save leaves is a row of inspection_record.
LEMMA FlushedIsRecord ==
  ASSUME NEW x \in Record, NEW u \in Updates
  PROVE  [c \in DOMAIN x |-> IF c \in DOMAIN u THEN u[c] ELSE x[c]] \in Record
<1> DEFINE f == [c \in DOMAIN x |-> IF c \in DOMAIN u THEN u[c] ELSE x[c]]
<1>1. CASE u = << >>
  BY <1>1 DEF Record
<1>2. ASSUME NEW y \in Record, NEW z \in Record, u = Changed(y, z)
      PROVE  f \in Record
  <2>1. DOMAIN x = DOMAIN z /\ DOMAIN u \subseteq DOMAIN z /\ \A c \in DOMAIN u : u[c] = z[c]
    BY <1>2 DEF Changed, Record
  <2>2. \A c \in DOMAIN x : f[c] \in {x[c], z[c]}
    BY <2>1
  <2>3. f = [status |-> f.status, total |-> f.total, succeeded |-> f.succeeded,
             unknown |-> f.unknown]
    BY DEF Record
  <2> HIDE DEF f
  <2> QED BY <2>2, <2>3 DEF Record
<1> QED BY <1>1, <1>2 DEF Updates

\* So is what _recompute_record computes: its counts are natural numbers.
LEMMA AggregateIsRecord ==
  ASSUME NEW x \in Record, NEW s \in Seq(HostRow)
  PROVE  Aggregate(x, s) \in Record
<1> DEFINE U == {i \in DOMAIN s : s[i].status = "unknown"}
<1>1. DOMAIN s = 1 .. Len(s) /\ Len(s) \in Nat
  OBVIOUS
<1>2. IsFiniteSet(DOMAIN s) /\ Cardinality(DOMAIN s) = Len(s)
  BY <1>1, FS_Interval
<1>3. U \in SUBSET DOMAIN s
  OBVIOUS
<1>4. Cardinality(U) \in Nat /\ Cardinality(U) <= Len(s)
  <2> HIDE DEF U
  <2> QED BY <1>2, <1>3, FS_Subset, FS_CardinalityType
<1>5. Aggregate(x, s) = [x EXCEPT !.total = Len(s), !.unknown = Cardinality(U),
                                  !.succeeded = Len(s) - Cardinality(U),
                                  !.status = Aggregate(x, s).status]
  BY DEF Aggregate, Record
<1>6. Aggregate(x, s).status \in Status
  BY DEF Aggregate, Record, Status
<1>7. Len(s) - Cardinality(U) \in Nat
  <2> HIDE DEF U
  <2> QED BY <1>1, <1>4
<1> HIDE DEF U
<1> DEFINE A == Aggregate(x, s).status
<1>8. A \in Status
  BY <1>6
<1> HIDE DEF A
<1>9. [x EXCEPT !.total = Len(s), !.unknown = Cardinality(U),
                !.succeeded = Len(s) - Cardinality(U), !.status = A] \in Record
  BY <1>1, <1>4, <1>7, <1>8 DEF Record
<1> QED BY <1>5, <1>9 DEF A

\* What judging a host does to the rows: row i of record r says v.
Ruled(r, i, v) ==
  /\ row' \in [Id -> Seq(HostRow)]
  /\ \A q \in Id : DOMAIN row'[q] = DOMAIN row[q]
  /\ \A q \in Id \ {r} : row'[q] = row[q]
  /\ \A j \in DOMAIN row[r] : /\ row'[r][j].asset = row[r][j].asset
                              /\ IF j = i THEN /\ row'[r][j].status = v.status
                                              /\ row'[r][j].results = v.results
                                 ELSE row'[r][j] = row[r][j]

\* SetRow does that.
LEMMA SetRowRules ==
  ASSUME row \in [Id -> Seq(HostRow)], NEW r \in Id, NEW i, NEW x \in Seen,
         NEW v, v.status \in Verdict, v.results \in SUBSET Outcome, SetRow(r, i, x, v)
  PROVE  Ruled(r, i, v)
<1> DEFINE new == [row[r][i] EXCEPT !.status = v.status, !.results = v.results, !.seen = x]
           t == [row[r] EXCEPT ![i] = new]
<1>1. row' = [row EXCEPT ![r] = t]
  BY DEF SetRow
<1>2. i \in DOMAIN row[r] => /\ new \in HostRow /\ new.asset = row[r][i].asset
                             /\ new.status = v.status /\ new.results = v.results
  <2>1. i \in DOMAIN row[r] => row[r][i] \in HostRow
    OBVIOUS
  <2> QED BY <2>1 DEF HostRow
<1> HIDE DEF new
<1>3. t \in Seq(HostRow) /\ DOMAIN t = DOMAIN row[r]
  <2>1. row[r] \in Seq(HostRow)
    OBVIOUS
  <2>2. CASE i \in DOMAIN row[r]
    BY <1>2, <2>1, <2>2
  <2>3. CASE i \notin DOMAIN row[r]
    <3>1. t = row[r]
      BY <2>1, <2>3
    <3> QED BY <2>1, <3>1
  <2> QED BY <2>2, <2>3
<1>4. \A j \in DOMAIN row[r] : t[j] = IF j = i THEN new ELSE row[r][j]
  OBVIOUS
<1> HIDE DEF t
<1> QED BY <1>1, <1>2, <1>3, <1>4 DEF Ruled

\* The results of a judgement have their type.
LEMMA JudgedIsOutcome ==
  ASSUME NEW x, NEW R \in SUBSET Definition, ~JudgingRaises(x, R)
  PROVE  Judged(x, R).status \in Verdict /\ Judged(x, R).results \subseteq Outcome
<1>1. \A e \in Judged(x, R).results : e \in Outcome
  <2>1. CASE x \notin DOMAIN Facts
    BY <2>1 DEF Judged
  <2>2. CASE x \in DOMAIN Facts
    <3>1. \A e \in Judged(x, R).results : e = [rule |-> e.rule, status |-> e.status]
      BY <2>2 DEF Judged, Results
    <3> QED BY <3>1, JudgedIsVerdict DEF Outcome
  <2> QED BY <2>1, <2>2
<1> QED BY <1>1, JudgedIsVerdict

\* What Begin does to the rows: one of them says "running".
Reopened(r, i) ==
  /\ row' \in [Id -> Seq(HostRow)]
  /\ \A q \in Id : DOMAIN row'[q] = DOMAIN row[q]
  /\ \A q \in Id \ {r} : row'[q] = row[q]
  /\ \A j \in DOMAIN row[r] : /\ row'[r][j].asset = row[r][j].asset
                              /\ IF j = i THEN row'[r][j] = [row[r][j] EXCEPT !.status = "running"]
                                 ELSE row'[r][j] = row[r][j]

\* The assignment of Begin does that.
LEMMA RunningIsTyped ==
  ASSUME row \in [Id -> Seq(HostRow)], NEW r \in Id, NEW i,
         row' = [row EXCEPT ![r][i].status = "running"]
  PROVE  Reopened(r, i)
<1> DEFINE new == [row[r][i] EXCEPT !.status = "running"]
           t == [row[r] EXCEPT ![i] = new]
<1>1. row' = [row EXCEPT ![r] = t]
  OBVIOUS
<1>2. i \in DOMAIN row[r] => /\ new \in HostRow /\ new.asset = row[r][i].asset
                             /\ new = [row[r][i] EXCEPT !.status = "running"]
  <2>1. i \in DOMAIN row[r] => row[r][i] \in HostRow
    OBVIOUS
  <2> QED BY <2>1 DEF HostRow
<1> HIDE DEF new
<1>3. t \in Seq(HostRow) /\ DOMAIN t = DOMAIN row[r]
  <2>1. row[r] \in Seq(HostRow)
    OBVIOUS
  <2>2. CASE i \in DOMAIN row[r]
    BY <1>2, <2>1, <2>2
  <2>3. CASE i \notin DOMAIN row[r]
    <3>1. t = row[r]
      BY <2>1, <2>3
    <3> QED BY <2>1, <3>1
  <2> QED BY <2>2, <2>3
<1>4. \A j \in DOMAIN row[r] : t[j] = IF j = i THEN new ELSE row[r][j]
  OBVIOUS
<1> HIDE DEF t
<1> QED BY <1>1, <1>2, <1>3, <1>4 DEF Reopened

\* A request is about a list that was accepted, and what it has left is in the
\* list and in the rows of its record.
Calling(h) ==
  /\ proc[h].at # "idle" => proc[h].list \in Lists
  /\ proc[h].at \in {"rows", "dispatch", "rules", "sync", "aggregate", "save"}
       => proc[h].record \in Id
  /\ proc[h].at \in {"dispatch", "rules", "sync"} =>
       /\ proc[h].left \subseteq DOMAIN proc[h].list /\ proc[h].left # {}
       /\ DOMAIN row[proc[h].record] = DOMAIN proc[h].list
       /\ \A i \in DOMAIN proc[h].list : row[proc[h].record][i].asset = proc[h].list[i]

\* So are all requests.
Callers == \A h \in Handler : Calling(h)

\* Records are opened in the order of their ids, by a request each, which
\* alone writes their rows.
Opening ==
  /\ \A r \in Id : r > lastId => row[r] = << >>
  /\ \A p \in Handler \cup Worker : proc[p].record <= lastId
  /\ \A m \in BagToSet(queue) : m.record <= lastId
  /\ \A h \in Handler : At(h, "rows") => row[proc[h].record] = << >>
  /\ \A g, h \in Handler : g # h /\ At(g, "rows") /\ At(h, "rows")
                             => proc[g].record # proc[h].record

\* What types, callers and record ids keep together.
TypeInv == Tables /\ Procs /\ Callers /\ Opening

\* A step of one request or task leaves the others where they are.
LEMMA OtherProcs ==
  ASSUME Procs, NEW p \in Handler \cup Worker,
         \/ \E sync \in BOOLEAN, list \in Lists : Start(p, sync, list)
         \/ Serve(p) \/ GiveUp(p) \/ RunTask(p) \/ Kill(p)
  PROVE  \A q \in (Handler \cup Worker) \ {p} : proc'[q] = proc[q]
<1>1. CASE \/ \E sync \in BOOLEAN, list \in Lists : Start(p, sync, list)
           \/ Serve(p) \/ GiveUp(p)
  BY <1>1 DEF Procs, Start, Serve, GiveUp, Seed, InsertRecord, InsertRows, ReadRules, Publish,
              SyncHost, Recompute, Save, AssetGone, Abandon
<1>2. CASE RunTask(p) \/ Kill(p)
  BY <1>2 DEF Procs, RunTask, Kill, Take, Begin, Judge, Recompute, Save, Abandon
<1> QED BY <1>1, <1>2

\* The handlers of rules and assets.
EditStep == \/ \E p \in Payload : CreateRule(p) \/ \E r \in rule : UpdateRule(r, p)
            \/ \E r \in rule : DeleteRule(r)

\* They change no table of the inspections and no request.
LEMMA EditsRulesOnly ==
  ASSUME EditStep \/ (\E a \in Asset : DeleteAsset(a)) \/ UNCHANGED vars
  PROVE  UNCHANGED <<record, lastId, row, queue, proc, lost>>
BY DEF EditStep, CreateRule, UpdateRule, DeleteRule, Edit, DeleteAsset, vars

\* The three steps that write a row of an open record.  A verdict is one of
\* the four, and "healthy" rests on some result.
Basis(v) == v.status \in Verdict /\ (v.status = "healthy" => v.results # {})

\* A synchronous request judges the next row it has left, ...
LEMMA SyncHostRules ==
  ASSUME TypeInv, NEW h \in Handler, NEW a \in Asset, NEW x \in Answer[a], SyncHost(h, a, x)
  PROVE  /\ proc[h].record \in Id /\ At(h, "sync")
         /\ \E v : Basis(v) /\ Ruled(proc[h].record, Min(proc[h].left), v)
<1> DEFINE R == proc[h].rules
           i == Min(proc[h].left)
           v == IF JudgingRaises(x, R) THEN [status |-> "unknown", results |-> {}]
                ELSE Judged(x, R)
<1>1. At(h, "sync") /\ SetRow(proc[h].record, i, x, v)
  BY DEF SyncHost
<1>2. proc[h].record \in Id /\ x \in Seen /\ R \subseteq Definition /\ Tables
  BY <1>1 DEF TypeInv, Procs, ProcType, Callers, Calling, Seen, At
<1>3. Basis(v) /\ v.results \in SUBSET Outcome
  <2> HIDE DEF R
  <2>1. "unknown" \in Verdict
    BY DEF Verdict, Order
  <2>2. CASE JudgingRaises(x, R)
    BY <2>1, <2>2 DEF Basis
  <2>3. CASE ~JudgingRaises(x, R)
    BY <1>2, <2>3, JudgedIsOutcome, JudgedIsVerdict DEF Basis
  <2> QED BY <2>2, <2>3
<1> HIDE DEF R, i, v
<1>4. Ruled(proc[h].record, i, v)
  BY <1>1, <1>2, <1>3, SetRowRules DEF Tables, Basis
<1> QED BY <1>1, <1>2, <1>3, <1>4 DEF i

\* ... a task judges the row it finds, unless the rules raise, ...
LEMMA JudgeRules ==
  ASSUME TypeInv, NEW w \in Worker, NEW a \in Asset, NEW x \in Answer[a], Judge(w, a, x)
  PROVE  /\ proc[w].record \in Id /\ At(w, "judge")
         /\ \/ UNCHANGED row
            \/ UNCHANGED lost /\ \E v : Basis(v) /\ Ruled(proc[w].record, RowOf(w), v)
<1> DEFINE R == proc[w].rules
<1>1. At(w, "judge")
  BY DEF Judge
<1>2. proc[w].record \in Id /\ x \in Seen /\ R \subseteq Definition /\ Tables
  BY <1>1 DEF TypeInv, Procs, ProcType, Seen, At
<1>3. CASE JudgingRaises(x, R)
  BY <1>1, <1>2, <1>3 DEF Judge
<1>4. CASE ~JudgingRaises(x, R)
  <2>1. SetRow(proc[w].record, RowOf(w), x, Judged(x, R)) /\ UNCHANGED lost
    BY <1>4 DEF Judge
  <2> HIDE DEF R
  <2>2. Basis(Judged(x, R)) /\ Judged(x, R).results \in SUBSET Outcome
    BY <1>2, <1>4, JudgedIsOutcome, JudgedIsVerdict DEF Basis
  <2>3. Ruled(proc[w].record, RowOf(w), Judged(x, R))
    BY <1>2, <2>1, <2>2, SetRowRules DEF Tables, Basis
  <2> QED BY <1>1, <1>2, <2>1, <2>2, <2>3
<1> QED BY <1>3, <1>4

\* ... and before that says that it is running.
LEMMA BeginReopens ==
  ASSUME TypeInv, NEW w \in Worker, Begin(w)
  PROVE  proc[w].record \in Id /\ At(w, "begin") /\ Reopened(proc[w].record, RowOf(w))
<1>1. proc[w].record \in Id /\ At(w, "begin")
  BY DEF TypeInv, Begin, At, Procs
<1> QED BY <1>1, RunningIsTyped DEF TypeInv, Begin, Tables

\* Every step keeps the types of the requests and tasks.
LEMMA ProcsStep == TypeInv /\ [Next]_vars => Procs'
<1> SUFFICES ASSUME TypeInv, [Next]_vars PROVE Procs'
  OBVIOUS
<1>1. /\ Procs /\ Tables /\ Callers
      /\ \A p \in Handler \cup Worker : proc[p] \in ProcType
      /\ \A x, y \in Record : Changed(x, y) \in Updates
      /\ \A list \in Lists : list \in Seq(Asset)
      /\ Enabled \subseteq Definition
  BY InspectionAssumption DEF TypeInv, Procs, Updates, InspectionAssumption, Enabled, Tables
<1>2. ASSUME NEW h \in Handler, NEW sync \in BOOLEAN, NEW list \in Lists, Start(h, sync, list)
      PROVE  Procs'
  <2>1. PICK s \in {"seed", "insert"} :
          proc' = [proc EXCEPT ![h] = [Idle EXCEPT !.at = s, !.sync = sync, !.list = list]]
    BY <1>2 DEF Start
  <2> DEFINE x == [Idle EXCEPT !.at = s, !.sync = sync, !.list = list]
  <2>2. s \in HandlerStep /\ list \in Seq(Asset)
    BY <1>1 DEF HandlerStep
  <2>3. x \in ProcType /\ x.at = s
    BY <2>2, StartedTyped
  <2> HIDE DEF x
  <2> QED BY <1>1, <2>1, <2>2, <2>3, HandlerMoves DEF x
<1>3. ASSUME NEW h \in Handler, Seed(h) PROVE Procs'
  <2> DEFINE y == [proc[h] EXCEPT !.at = "reread"]
  <2>1. PICK x \in {Idle, y} : proc' = [proc EXCEPT ![h] = x]
    BY <1>3 DEF Seed
  <2>2. "reread" \in HandlerStep /\ "idle" \in HandlerStep
    BY DEF HandlerStep
  <2>3. y \in ProcType /\ y.at = "reread"
    BY <1>1, <2>2, AtTyped
  <2> HIDE DEF y
  <2>4. x \in ProcType /\ x.at \in HandlerStep
    BY <2>1, <2>2, <2>3, IdleTyped
  <2> QED BY <1>1, <2>1, <2>4, HandlerMoves
<1>4. ASSUME NEW h \in Handler, InsertRecord(h) PROVE Procs'
  <2>1. PICK n \in 0 .. MaxRecord :
          proc' = [proc EXCEPT ![h] = [proc[h] EXCEPT !.at = "rows", !.record = n]]
    <3>1. lastId' \in 0 .. MaxRecord
      BY <1>1, <1>4, InspectionAssumption DEF InsertRecord, Tables, InspectionAssumption
    <3> QED BY <1>4, <3>1 DEF InsertRecord
  <2> DEFINE x == [proc[h] EXCEPT !.at = "rows", !.record = n]
  <2>2. "rows" \in HandlerStep /\ proc[h] \in ProcType
    BY <1>1 DEF HandlerStep
  <2>3. x \in ProcType /\ x.at = "rows"
    <3> DEFINE z == proc[h]
    <3>1. z \in ProcType /\ "rows" \in HandlerStep \cup WorkerStep
      BY <2>2
    <3> HIDE DEF z
    <3>2. LET y == [z EXCEPT !.at = "rows", !.record = n] IN y \in ProcType /\ y.at = "rows"
      BY <3>1 DEF ProcType
    <3> QED BY <3>2 DEF z
  <2>4. proc' = [proc EXCEPT ![h] = x]
    BY <2>1
  <2> HIDE DEF x
  <2>5. Procs /\ x.at \in HandlerStep
    BY <1>1, <2>2, <2>3
  <2> QED BY <2>3, <2>4, <2>5, HandlerMoves
<1>5. ASSUME NEW h \in Handler, InsertRows(h) PROVE Procs'
  <2>1. PICK s \in {"rules", "dispatch"} :
          proc' = [proc EXCEPT ![h] = [proc[h] EXCEPT !.at = s, !.left = DOMAIN proc[h].list]]
    BY <1>5 DEF InsertRows
  <2> DEFINE x == [proc[h] EXCEPT !.at = s, !.left = DOMAIN proc[h].list]
  <2>2. DOMAIN proc[h].list \in SUBSET Nat /\ s \in HandlerStep
    <3>1. proc[h].list \in Seq(Asset)
      BY <1>1 DEF ProcType
    <3> QED BY <3>1 DEF HandlerStep
  <2>3. x \in ProcType /\ x.at = s
    <3> DEFINE I == DOMAIN proc[h].list
    <3>1. proc[h] \in ProcType
      BY <1>1
    <3>2. I \in SUBSET Nat /\ s \in HandlerStep \cup WorkerStep
      BY <2>2
    <3> HIDE DEF I
    <3>3. LET z == [proc[h] EXCEPT !.at = s, !.left = I] IN z \in ProcType /\ z.at = s
      BY <3>1, <3>2, AllLeftTyped
    <3> QED BY <3>3 DEF I
  <2>4. proc' = [proc EXCEPT ![h] = x]
    BY <2>1
  <2> HIDE DEF x
  <2> QED BY <1>1, <2>2, <2>3, <2>4, HandlerMoves
<1>6. ASSUME NEW h \in Handler, ReadRules(h) PROVE Procs'
  <2> DEFINE x == [proc[h] EXCEPT !.at = "sync", !.rules = Enabled]
  <2>1. "sync" \in HandlerStep /\ << >> \in Updates
    BY DEF HandlerStep, Updates
  <2>2. x \in ProcType /\ x.at = "sync"
    BY <1>1, <2>1, RulesTyped
  <2>3. proc' = [proc EXCEPT ![h] = x]
    BY <1>6 DEF ReadRules
  <2> HIDE DEF x
  <2> QED BY <1>1, <2>1, <2>2, <2>3, HandlerMoves
<1>7. ASSUME NEW h \in Handler, NEW i \in proc[h].left, Publish(h, i) PROVE Procs'
  <2> DEFINE y == [proc[h] EXCEPT !.left = @ \ {i}]
  <2>1. PICK x \in {Idle, y} : proc' = [proc EXCEPT ![h] = x]
    BY <1>7 DEF Publish
  <2>2. proc[h].left \ {i} \in SUBSET Nat /\ proc[h].at \in HandlerStep /\ "idle" \in HandlerStep
    BY <1>1 DEF ProcType, Procs, HandlerStep
  <2>3. y \in ProcType /\ y.at = proc[h].at
    BY <1>1, <2>2, LeftTyped
  <2> HIDE DEF y
  <2>4. x \in ProcType /\ x.at \in HandlerStep
    BY <2>1, <2>2, <2>3, IdleTyped
  <2> QED BY <1>1, <2>1, <2>4, HandlerMoves
<1>8. ASSUME NEW h \in Handler, NEW a \in Asset, NEW x \in Answer[a], SyncHost(h, a, x)
      PROVE  Procs'
  <2>1. PICK s \in {"aggregate", "sync"}, I \in SUBSET proc[h].left :
          proc' = [proc EXCEPT ![h] = [proc[h] EXCEPT !.left = I, !.at = s]]
    <3> DEFINE i == Min(proc[h].left)
               s == IF proc[h].left = {i} THEN "aggregate" ELSE "sync"
               I == proc[h].left \ {i}
    <3>1. proc' = [proc EXCEPT ![h] = [proc[h] EXCEPT !.left = I, !.at = s]]
      BY <1>8 DEF SyncHost, At
    <3> HIDE DEF i
    <3> QED BY <3>1
  <2> DEFINE y == [proc[h] EXCEPT !.left = I, !.at = s]
  <2>2. I \in SUBSET Nat /\ s \in HandlerStep
    <3>1. proc[h].left \in SUBSET Nat
      BY <1>1 DEF ProcType
    <3> QED BY <3>1 DEF HandlerStep
  <2>3. y \in ProcType /\ y.at = s
    BY <1>1, <2>2, NextLeftTyped
  <2>4. proc' = [proc EXCEPT ![h] = y]
    BY <2>1
  <2> HIDE DEF y
  <2> QED BY <1>1, <2>2, <2>3, <2>4, HandlerMoves
<1>9. ASSUME NEW p \in Handler \cup Worker, proc' = [proc EXCEPT ![p] = Idle] PROVE Procs'
  <2>1. "idle" \in HandlerStep /\ "idle" \in WorkerStep
    BY DEF HandlerStep, WorkerStep
  <2> QED BY <1>1, <1>9, <2>1, IdleTyped, HandlerMoves, WorkerMoves
<1>10. ASSUME NEW w \in Worker, NEW m \in BagToSet(queue), Take(w, m) PROVE Procs'
  <2> DEFINE y == [Idle EXCEPT !.at = "begin", !.record = m.record, !.asset = m.asset]
  <2>1. proc' = [proc EXCEPT ![w] = Idle] \/ proc' = [proc EXCEPT ![w] = y]
    BY <1>10 DEF Take
  <2>2. m.record \in Id /\ m.record \in 0 .. MaxRecord /\ m.asset \in Asset /\ "begin" \in WorkerStep
    BY <1>1, InspectionAssumption DEF Tables, Message, Id, WorkerStep, InspectionAssumption
  <2>3. y \in ProcType /\ y.at = "begin" /\ y.record = m.record /\ y.asset = m.asset
    <3> DEFINE n == m.record
               a == m.asset
    <3>1. n \in 0 .. MaxRecord /\ a \in Asset /\ "begin" \in WorkerStep
      BY <2>2
    <3> HIDE DEF n, a
    <3>2. LET z == [Idle EXCEPT !.at = "begin", !.record = n, !.asset = a]
          IN z \in ProcType /\ z.at = "begin" /\ z.record = n /\ z.asset = a
      BY <3>1, TakenTyped
    <3> QED BY <3>2 DEF n, a
  <2> HIDE DEF y
  <2> QED BY <1>1, <1>9, <2>1, <2>2, <2>3, WorkerMoves
<1>11. ASSUME NEW w \in Worker, NEW s \in {"judge", "save"}, NEW R \in SUBSET Definition, NEW u \in Updates,
              ~At(w, "idle"),
              \/ proc' = [proc EXCEPT ![w] = [proc[w] EXCEPT !.at = s, !.rules = R, !.update = u]]
              \/ proc' = [proc EXCEPT ![w] = [proc[w] EXCEPT !.at = s, !.update = u]]
       PROVE  Procs'
  <2> DEFINE x == [proc[w] EXCEPT !.at = s, !.rules = R, !.update = u]
             y == [proc[w] EXCEPT !.at = s, !.update = u]
  <2>1. s \in WorkerStep /\ s # "idle"
    BY DEF WorkerStep
  <2>2. /\ x \in ProcType /\ x.at = s /\ x.record = proc[w].record /\ x.asset = proc[w].asset
        /\ y \in ProcType /\ y.at = s /\ y.record = proc[w].record /\ y.asset = proc[w].asset
    <3>1. proc[w] \in ProcType
      BY <1>1
    <3> DEFINE z == proc[w]
    <3>2. z \in ProcType /\ s \in HandlerStep \cup WorkerStep
      BY <2>1, <3>1
    <3> HIDE DEF z
    <3>3. LET t == [z EXCEPT !.at = s, !.rules = R, !.update = u]
          IN t \in ProcType /\ t.at = s /\ t.record = z.record /\ t.asset = z.asset
      BY <3>2 DEF ProcType
    <3>4. LET t == [z EXCEPT !.at = s, !.update = u]
          IN t \in ProcType /\ t.at = s /\ t.record = z.record /\ t.asset = z.asset
      BY <3>2 DEF ProcType
    <3> QED BY <3>3, <3>4 DEF z
  <2>3. proc[w].record \in Id /\ proc[w].asset \in Asset
    BY <1>1, <1>11 DEF Procs, At
  <2>4. proc' = [proc EXCEPT ![w] = x] \/ proc' = [proc EXCEPT ![w] = y]
    BY <1>11
  <2> HIDE DEF x, y
  <2> QED BY <1>1, <2>1, <2>2, <2>3, <2>4, WorkerMoves
<1>12. ASSUME NEW w \in Worker, Begin(w) PROVE Procs'
  <2> DEFINE r == proc[w].record
             u == Changed(record[r], Aggregate(record[r], row'[r]))
  <2>1. r \in Id
    BY <1>12, BeginReopens
  <2>2. row' \in [Id -> Seq(HostRow)]
    BY <1>12, BeginReopens DEF Reopened
  <2>3. record[r] \in Record /\ row'[r] \in Seq(HostRow)
    BY <1>1, <2>1, <2>2 DEF Tables
  <2>4. u \in Updates
    BY <1>1, <2>3, AggregateIsRecord
  <2>7. proc' = [proc EXCEPT ![w].at = "judge", ![w].rules = Enabled, ![w].update = u]
    BY <1>12 DEF Begin
  <2> HIDE DEF u
  <2>5. proc' = [proc EXCEPT ![w] = [proc[w] EXCEPT !.at = "judge", !.rules = Enabled, !.update = u]]
    BY <2>7
  <2>6. ~At(w, "idle")
    BY <1>12 DEF Begin, At
  <2> HIDE DEF u
  <2> QED BY <1>1, <1>11, <2>4, <2>5, <2>6
<1>13. ASSUME NEW w \in Worker, NEW a \in Asset, NEW x \in Answer[a], Judge(w, a, x) PROVE Procs'
  <2>1. PICK s \in {"save", "aggregate"} : proc' = [proc EXCEPT ![w] = [proc[w] EXCEPT !.at = s]]
    BY <1>13 DEF Judge
  <2> DEFINE y == [proc[w] EXCEPT !.at = s]
  <2>2. s \in WorkerStep /\ s # "idle" /\ proc[w].record \in Id /\ proc[w].asset \in Asset
    BY <1>1, <1>13 DEF Judge, At, Procs, WorkerStep
  <2>3. y \in ProcType /\ y.at = s /\ y.record = proc[w].record /\ y.asset = proc[w].asset
    BY <1>1, <2>2, AtTyped
  <2>4. proc' = [proc EXCEPT ![w] = y]
    BY <2>1
  <2> HIDE DEF y
  <2> QED BY <1>1, <2>2, <2>3, <2>4, WorkerMoves
<1>14. ASSUME NEW p \in Handler \cup Worker, Recompute(p) PROVE Procs'
  <2> DEFINE r == proc[p].record
             u == Changed(record[r], Aggregate(record[r], row[r]))
             x == [proc[p] EXCEPT !.at = "save", !.update = u]
  <2>1. r \in Id
    BY <1>1, <1>14 DEF Recompute, At, Procs, Callers, Calling
  <2>2. record[r] \in Record /\ row[r] \in Seq(HostRow)
    BY <1>1, <2>1 DEF Tables
  <2>3. u \in Updates
    BY <1>1, <2>2, AggregateIsRecord
  <2>4. proc' = [proc EXCEPT ![p] = x] /\ ~At(p, "idle")
    BY <1>14 DEF Recompute, At
  <2>5. "save" \in HandlerStep
    BY DEF HandlerStep
  <2>6. CASE p \in Handler
    <3>1. x \in ProcType /\ x.at = "save"
      <4>1. proc[p] \in ProcType
        BY <1>1
      <4> HIDE DEF u
      <4>2. ASSUME NEW z \in ProcType, NEW v \in Updates
            PROVE  LET y == [z EXCEPT !.at = "save", !.update = v]
                   IN y \in ProcType /\ y.at = "save"
        BY <2>5 DEF ProcType
      <4> QED BY <2>3, <4>1, <4>2
    <3> HIDE DEF x
    <3>2. Procs /\ x.at \in HandlerStep
      BY <1>1, <2>5, <3>1
    <3> QED BY <2>4, <2>6, <3>1, <3>2, HandlerMoves
  <2>7. CASE p \in Worker
    <3> HIDE DEF u
    <3> QED BY <1>11, <2>3, <2>4, <2>7
  <2> QED BY <2>6, <2>7
<1>15. ASSUME UNCHANGED proc PROVE Procs'
  BY <1>1, <1>15 DEF Procs
<1>16. CASE EditStep \/ (\E a \in Asset : DeleteAsset(a)) \/ UNCHANGED vars
  BY <1>15, <1>16, EditsRulesOnly
<1>17. ASSUME NEW h \in Handler, Serve(h) \/ GiveUp(h) PROVE Procs'
  <2>1. CASE Save(h) \/ AssetGone(h) \/ GiveUp(h)
    BY <1>9, <2>1 DEF Save, AssetGone, GiveUp, Abandon
  <2> QED BY <1>3, <1>4, <1>5, <1>6, <1>7, <1>8, <1>14, <1>17, <2>1 DEF Serve
<1>18. ASSUME NEW w \in Worker, RunTask(w) \/ Kill(w) PROVE Procs'
  <2>1. CASE Save(w) \/ Kill(w)
    BY <1>9, <2>1 DEF Save, Kill, Abandon
  <2> QED BY <1>10, <1>12, <1>13, <1>14, <1>18, <2>1 DEF RunTask
<1> QED BY <1>2, <1>16, <1>17, <1>18 DEF Next, EditStep

\* Every step keeps the types of the tables and of the queue.
LEMMA TablesStep == TypeInv /\ [Next]_vars => Tables'
<1> SUFFICES ASSUME TypeInv, [Next]_vars PROVE Tables'
  OBVIOUS
<1>1. /\ Procs /\ Tables /\ Callers
      /\ \A p \in Handler \cup Worker : proc[p] \in ProcType
      /\ MaxRecord \in Nat
  BY InspectionAssumption DEF TypeInv, Procs, InspectionAssumption
<1>2. ASSUME NEW h \in Handler, NEW sync \in BOOLEAN, NEW list \in Lists, Start(h, sync, list)
      PROVE  Tables'
  BY <1>1, <1>2 DEF Start, Tables
<1>3. ASSUME NEW h \in Handler, Seed(h) PROVE Tables'
  <2>1. Defs(rule') \subseteq Definition
    BY <1>1, <1>3 DEF Seed, Defs, Numbered, Definition, Tables
  <2> QED BY <1>1, <1>3, <2>1 DEF Seed, Tables
<1>4. ASSUME NEW h \in Handler, InsertRecord(h) PROVE Tables'
  <2>1. lastId' \in Id /\ lastId' \in 0 .. MaxRecord
    BY <1>1, <1>4 DEF InsertRecord, Tables, Id
  <2>2. [NoRecord EXCEPT !.status = "running", !.total = Len(proc[h].list)] \in Record
    <3>1. proc[h].list \in Seq(Asset)
      BY <1>1 DEF ProcType
    <3>2. Len(proc[h].list) \in Nat
      BY <3>1
    <3> QED BY <3>2 DEF NoRecord, Record, Status
  <2>3. record' \in [Id -> Record]
    BY <1>1, <1>4, <2>1, <2>2 DEF InsertRecord, Tables
  <2> QED BY <1>1, <1>4, <2>1, <2>3 DEF InsertRecord, Tables
<1>5. ASSUME NEW h \in Handler, InsertRows(h) PROVE Tables'
  <2>1. PICK s \in Seq(Asset) : proc[h].list = s
    BY <1>1 DEF ProcType
  <2> DEFINE t == [i \in DOMAIN s |-> Opened(s[i])]
  <2>2. \A i \in DOMAIN s : s[i] \in Asset
    BY <2>1
  <2>3. \A a \in Asset : Opened(a) \in HostRow
    <3>1. NoAnswer \in Seen /\ {} \in SUBSET Outcome
      BY DEF Seen
    <3> QED BY <3>1 DEF Opened, HostRow
  <2>4. t \in Seq(HostRow)
    BY <2>2, <2>3
  <2>5. row' = [row EXCEPT ![proc[h].record] = t]
    BY <1>5, <2>1 DEF InsertRows
  <2> HIDE DEF t
  <2>6. row' \in [Id -> Seq(HostRow)]
    BY <1>1, <2>4, <2>5 DEF Tables
  <2> QED BY <1>1, <1>5, <2>6 DEF InsertRows, Tables
<1>6. ASSUME NEW h \in Handler, ReadRules(h) PROVE Tables'
  BY <1>1, <1>6 DEF ReadRules, Tables
<1>7. ASSUME NEW h \in Handler, NEW i \in proc[h].left, Publish(h, i) PROVE Tables'
  <2> DEFINE m == [record |-> proc[h].record, asset |-> proc[h].list[i]]
  <2>1. m \in Message
    <3>1. proc[h].record \in Id /\ i \in DOMAIN proc[h].list /\ proc[h].list \in Seq(Asset)
      BY <1>1, <1>7 DEF Publish, Callers, Calling, ProcType, At
    <3> QED BY <3>1 DEF Message
  <2>2. queue' = queue (+) SetToBag({m})
    BY <1>7 DEF Publish
  <2>3. IsABag(queue') /\ BagToSet(queue') = BagToSet(queue) \cup {m}
    <3> HIDE DEF m
    <3> QED BY <1>1, <2>2, BagAdded DEF Tables
  <2> HIDE DEF m
  <2> QED BY <1>1, <1>7, <2>1, <2>3 DEF Publish, Tables
<1>8. ASSUME NEW h \in Handler, NEW a \in Asset, NEW x \in Answer[a], SyncHost(h, a, x)
      PROVE  Tables'
  <2>1. row' \in [Id -> Seq(HostRow)]
    BY <1>8, SyncHostRules DEF Ruled
  <2> QED BY <1>1, <1>8, <2>1 DEF SyncHost, Tables
<1>9. ASSUME NEW p \in Handler \cup Worker, Abandon(p) PROVE Tables'
  <2>1. proc[p].record \in Id \cup {0}
    BY <1>1 DEF ProcType, Id
  <2> QED BY <1>1, <1>9, <2>1 DEF Abandon, Tables
<1>10. ASSUME NEW w \in Worker, NEW m \in BagToSet(queue), Take(w, m) PROVE Tables'
  <2>1. IsABag(queue') /\ BagToSet(queue') \subseteq Message
    BY <1>1, <1>10, BagTaken DEF Take, Tables
  <2> QED BY <1>1, <1>10, <2>1 DEF Take, Tables
<1>11. ASSUME NEW w \in Worker, Begin(w) PROVE Tables'
  <2>1. row' \in [Id -> Seq(HostRow)]
    BY <1>11, BeginReopens DEF Reopened
  <2> QED BY <1>1, <1>11, <2>1 DEF Begin, Tables
<1>12. ASSUME NEW w \in Worker, NEW a \in Asset, NEW x \in Answer[a], Judge(w, a, x) PROVE Tables'
  <2>1. row' \in [Id -> Seq(HostRow)] /\ proc[w].record \in Id
    BY <1>1, <1>12, JudgeRules DEF Ruled, Tables
  <2> QED BY <1>1, <1>12, <2>1 DEF Judge, Tables
<1>13. ASSUME NEW p \in Handler \cup Worker, Recompute(p) PROVE Tables'
  BY <1>1, <1>13 DEF Recompute, Tables
<1>14. ASSUME NEW p \in Handler \cup Worker, Save(p) PROVE Tables'
  <2> DEFINE r == proc[p].record
             u == proc[p].update
             f == [c \in DOMAIN record[r] |-> IF c \in DOMAIN u THEN u[c] ELSE record[r][c]]
  <2>1. r \in Id /\ u \in Updates
    BY <1>1, <1>14 DEF Save, Callers, Calling, ProcType, Procs, At
  <2>2. record[r] \in Record
    BY <1>1, <2>1 DEF Tables
  <2>3. record' = [record EXCEPT ![r] = f]
    BY <1>14 DEF Save
  <2>4. f \in Record
    <3> HIDE DEF u, r
    <3> QED BY <2>1, <2>2, FlushedIsRecord
  <2> HIDE DEF f
  <2>5. record' \in [Id -> Record]
    BY <1>1, <2>3, <2>4 DEF Tables
  <2> QED BY <1>1, <1>14, <2>5 DEF Save, Tables
<1>15. CASE EditStep \/ (\E a \in Asset : DeleteAsset(a)) \/ UNCHANGED vars
  <2>1. UNCHANGED <<record, lastId, row, queue, proc, lost>>
    BY <1>15, EditsRulesOnly
  <2>2. CASE UNCHANGED vars
    BY <1>1, <2>2 DEF vars, Tables
  <2>3. ASSUME NEW a \in Asset, DeleteAsset(a) PROVE Tables'
    BY <1>1, <2>3 DEF DeleteAsset, Tables
  <2>4. ASSUME NEW S, Edit(S), Defs(S) \subseteq Definition PROVE Tables'
    <3>1. edits' \in 0 .. MaxEdit
      BY <1>1, <2>4, InspectionAssumption DEF Edit, Tables, InspectionAssumption
    <3> QED BY <1>1, <2>4, <3>1 DEF Edit, Tables
  <2>5. ASSUME NEW p \in Payload, CreateRule(p) PROVE Tables'
    <3>1. Defs(rule \cup Numbered({p}, NextRule)) \subseteq Definition
      BY <1>1 DEF Defs, Numbered, Definition, Tables
    <3> QED BY <2>4, <2>5, <3>1 DEF CreateRule
  <2>6. ASSUME NEW p \in Payload, NEW r \in rule, UpdateRule(r, p) PROVE Tables'
    <3>1. Defs((rule \ {r}) \cup Numbered({p}, r.id)) \subseteq Definition
      BY <1>1 DEF Defs, Numbered, Definition, Tables
    <3> QED BY <2>4, <2>6, <3>1 DEF UpdateRule
  <2>7. ASSUME NEW r \in rule, DeleteRule(r) PROVE Tables'
    <3>1. Defs(rule \ {r}) \subseteq Definition
      BY <1>1 DEF Defs, Tables
    <3> QED BY <2>4, <2>7, <3>1 DEF DeleteRule
  <2> QED BY <1>15, <2>2, <2>3, <2>5, <2>6, <2>7 DEF EditStep
<1>16. ASSUME NEW h \in Handler, Serve(h) \/ GiveUp(h) PROVE Tables'
  BY <1>3, <1>4, <1>5, <1>6, <1>7, <1>8, <1>9, <1>13, <1>14, <1>16 DEF Serve, AssetGone, GiveUp
<1>17. ASSUME NEW w \in Worker, RunTask(w) \/ Kill(w) PROVE Tables'
  BY <1>9, <1>10, <1>11, <1>12, <1>13, <1>14, <1>17 DEF RunTask, Kill
<1> QED BY <1>2, <1>15, <1>16, <1>17 DEF Next, EditStep

\* The records keep their rows, and the rows their hosts.
SameHosts == \A r \in Id :
  /\ DOMAIN row'[r] = DOMAIN row[r]
  /\ \A i \in DOMAIN row[r] : row'[r][i].asset = row[r][i].asset

\* Every step but InsertRows does.
LEMMA HostsKept ==
  TypeInv /\ [Next]_vars => SameHosts \/ \E h \in Handler : InsertRows(h)
<1> SUFFICES ASSUME TypeInv, [Next]_vars, ~\E h \in Handler : InsertRows(h) PROVE SameHosts
  OBVIOUS
<1>1. /\ Procs /\ Tables /\ Callers
      /\ \A p \in Handler \cup Worker : proc[p] \in ProcType
  BY DEF TypeInv, Procs
<1>2. ASSUME UNCHANGED row PROVE SameHosts
  BY <1>2 DEF SameHosts
<1>4. ASSUME NEW h \in Handler, NEW a \in Asset, NEW x \in Answer[a], SyncHost(h, a, x)
      PROVE  SameHosts
  BY <1>4, SyncHostRules DEF Ruled, SameHosts
<1>5. ASSUME NEW w \in Worker, Begin(w) PROVE SameHosts
  BY <1>5, BeginReopens DEF Reopened, SameHosts
<1>6. ASSUME NEW w \in Worker, NEW a \in Asset, NEW x \in Answer[a], Judge(w, a, x) PROVE SameHosts
  BY <1>2, <1>6, JudgeRules DEF Ruled, SameHosts
<1>7. ASSUME NEW h \in Handler, NEW sync \in BOOLEAN, NEW list \in Lists, Start(h, sync, list)
      PROVE  SameHosts
  BY <1>2, <1>7 DEF Start
<1>8. ASSUME NEW h \in Handler, Serve(h) \/ GiveUp(h) PROVE SameHosts
  <2>1. CASE \E a \in Asset : \E x \in Answer[a] : SyncHost(h, a, x)
    BY <1>4, <2>1
  <2> QED BY <1>2, <1>8, <2>1 DEF Serve, GiveUp, Seed, InsertRecord, ReadRules, Publish, Recompute,
                                  Save, AssetGone, Abandon
<1>9. ASSUME NEW w \in Worker, RunTask(w) \/ Kill(w) PROVE SameHosts
  BY <1>2, <1>5, <1>6, <1>9 DEF RunTask, Kill, Take, Recompute, Save, Abandon
<1>10. CASE EditStep \/ (\E a \in Asset : DeleteAsset(a)) \/ UNCHANGED vars
  BY <1>2, <1>10, EditsRulesOnly
<1> QED BY <1>7, <1>8, <1>9, <1>10 DEF Next, EditStep

\* What InsertRows writes, to a record whose rows nobody else has.
LEMMA RowsInserted ==
  ASSUME TypeInv, NEW h \in Handler, InsertRows(h)
  PROVE  /\ proc[h].record \in Id /\ row[proc[h].record] = << >> /\ At(h, "rows")
         /\ row' = [row EXCEPT ![proc[h].record] =
                      [i \in DOMAIN proc[h].list |-> Opened(proc[h].list[i])]]
         /\ proc[h].list \in Seq(Asset) /\ Len(proc[h].list) \in 1 .. MaxHosts
         /\ proc'[h].list = proc[h].list /\ proc'[h].record = proc[h].record
         /\ proc'[h].left = DOMAIN proc[h].list /\ proc'[h].at \in {"rules", "dispatch"}
<1>1. At(h, "rows") /\ proc[h] \in ProcType /\ h \in DOMAIN proc
  BY DEF InsertRows, TypeInv, Procs
<1>2. proc[h].list \in Lists /\ proc[h].record \in Id /\ row[proc[h].record] = << >>
  BY <1>1 DEF TypeInv, Callers, Calling, Opening, At
<1>3. proc[h].list \in Seq(Asset) /\ Len(proc[h].list) \in 1 .. MaxHosts
  BY <1>2, InspectionAssumption DEF InspectionAssumption
<1>4. /\ proc'[h].list = proc[h].list /\ proc'[h].record = proc[h].record
      /\ proc'[h].left = DOMAIN proc[h].list /\ proc'[h].at \in {"rules", "dispatch"}
  BY <1>1 DEF InsertRows, ProcType
<1> QED BY <1>1, <1>2, <1>3, <1>4 DEF InsertRows

\* A request that did not move keeps what it knows.
LEMMA CallingKept ==
  ASSUME TypeInv, [Next]_vars, NEW h \in Handler, proc'[h] = proc[h]
  PROVE  Calling(h)'
<1>1. Calling(h) /\ proc[h].record = proc'[h].record /\ Tables /\ Opening
  BY DEF TypeInv, Callers
<1>2. CASE SameHosts
  BY <1>1, <1>2 DEF Calling, SameHosts
<1>3. ASSUME NEW g \in Handler, InsertRows(g) PROVE Calling(h)'
  <2>1. CASE g = h
    <3>1. At(h, "rows") /\ proc'[h].at \in {"rules", "dispatch"}
      BY <1>3, <2>1, RowsInserted
    <3> QED BY <3>1 DEF At
  <2>2. CASE proc[h].at \in {"dispatch", "rules", "sync"}
    <3>1. row[proc[g].record] = << >> /\ proc[g].record \in Id
      BY <1>3, RowsInserted
    <3>2. DOMAIN row[proc[h].record] # {}
      BY <1>1, <2>2 DEF Calling
    <3>3. proc[g].record # proc[h].record
      BY <3>1, <3>2
    <3>4. row'[proc[h].record] = row[proc[h].record]
      <4> DEFINE t == [i \in DOMAIN proc[g].list |-> Opened(proc[g].list[i])]
      <4>1. row' = [row EXCEPT ![proc[g].record] = t]
        BY <1>3, RowsInserted
      <4>2. proc[h].record \in Id
        BY <1>1, <2>2 DEF Calling
      <4> HIDE DEF t
      <4> QED BY <1>1, <3>3, <4>1, <4>2 DEF Tables
    <3> QED BY <1>1, <2>2, <3>4 DEF Calling
  <2> QED BY <1>1, <2>1, <2>2 DEF Calling
<1> QED BY <1>2, <1>3, HostsKept

\* The other requests by CallingKept, the one that moves action by action.
LEMMA CallersStep == TypeInv /\ [Next]_vars => Callers'
<1> SUFFICES ASSUME TypeInv, [Next]_vars, NEW h \in Handler PROVE Calling(h)'
  BY DEF Callers
<1>1. /\ proc[h] \in ProcType /\ h \in DOMAIN proc /\ Calling(h) /\ Tables
      /\ Handler \cap Worker = {}
  BY InspectionAssumption DEF TypeInv, Procs, Callers, InspectionAssumption
<1>2. CASE proc'[h] = proc[h]
  BY <1>2, CallingKept
<1>3. ASSUME proc' = [proc EXCEPT ![h] = Idle] PROVE Calling(h)'
  <2>1. proc'[h].at = "idle"
    BY <1>1, <1>3 DEF Idle
  <2> QED BY <2>1 DEF Calling
<1>4. ASSUME NEW sync \in BOOLEAN, NEW list \in Lists, Start(h, sync, list) PROVE Calling(h)'
  <2>1. proc'[h].list = list /\ proc'[h].at \in {"seed", "insert"}
    BY <1>1, <1>4 DEF Start, Idle
  <2> QED BY <2>1 DEF Calling
<1>5. CASE Seed(h)
  <2>1. CASE proc'[h].at = "reread" /\ proc'[h].list = proc[h].list
    BY <1>1, <1>5, <2>1 DEF Calling, Seed, At
  <2>2. CASE proc' = [proc EXCEPT ![h] = Idle]
    BY <1>3, <2>2
  <2> QED BY <1>1, <1>5, <2>1, <2>2 DEF Seed, ProcType
<1>6. CASE InsertRecord(h)
  <2>1. /\ proc'[h].at = "rows" /\ proc'[h].list = proc[h].list /\ proc'[h].record = lastId'
        /\ proc[h].at # "idle"
    BY <1>1, <1>6 DEF InsertRecord, ProcType, At
  <2>2. lastId' \in Id
    BY <1>1, <1>6, InspectionAssumption DEF InsertRecord, Tables, Id, InspectionAssumption
  <2> QED BY <1>1, <2>1, <2>2 DEF Calling
<1>7. CASE InsertRows(h)
  <2>1. /\ proc[h].list \in Lists /\ proc[h].record \in Id
    BY <1>1, <1>7, RowsInserted DEF Calling, At
  <2> DEFINE t == [i \in DOMAIN proc[h].list |-> Opened(proc[h].list[i])]
  <2>2. row'[proc[h].record] = t
    BY <1>1, <1>7, RowsInserted DEF Tables
  <2>3. DOMAIN t = DOMAIN proc[h].list /\ \A i \in DOMAIN t : t[i].asset = proc[h].list[i]
    BY DEF Opened
  <2>4. DOMAIN proc[h].list # {}
    <3>1. proc[h].list \in Seq(Asset) /\ Len(proc[h].list) \in 1 .. MaxHosts
      BY <1>7, RowsInserted
    <3>2. MaxHosts \in Nat
      BY InspectionAssumption DEF InspectionAssumption
    <3>3. 1 \in DOMAIN proc[h].list
      BY <3>1, <3>2
    <3> QED BY <3>3
  <2>5. /\ proc'[h].list = proc[h].list /\ proc'[h].record = proc[h].record
        /\ proc'[h].left = DOMAIN proc[h].list /\ proc'[h].at \in {"rules", "dispatch"}
    BY <1>7, RowsInserted
  <2> HIDE DEF t
  <2> QED BY <2>1, <2>2, <2>3, <2>4, <2>5 DEF Calling
<1>8. CASE ReadRules(h)
  <2>1. /\ proc'[h].at = "sync" /\ proc'[h].list = proc[h].list /\ proc[h].at = "rules"
        /\ proc'[h].record = proc[h].record /\ proc'[h].left = proc[h].left /\ UNCHANGED row
    BY <1>1, <1>8 DEF ReadRules, ProcType, At
  <2> QED BY <1>1, <2>1 DEF Calling
<1>9. ASSUME NEW i \in proc[h].left, Publish(h, i) PROVE Calling(h)'
  <2>1. CASE proc[h].left = {i}
    BY <1>3, <1>9, <2>1 DEF Publish
  <2>2. CASE proc[h].left # {i}
    <3>1. /\ proc'[h].at = "dispatch" /\ proc'[h].list = proc[h].list /\ proc[h].at = "dispatch"
          /\ proc'[h].record = proc[h].record /\ proc'[h].left = proc[h].left \ {i} /\ UNCHANGED row
      BY <1>1, <1>9, <2>2 DEF Publish, ProcType, At
    <3> QED BY <1>1, <2>2, <3>1 DEF Calling
  <2> QED BY <2>1, <2>2
<1>10. ASSUME NEW a \in Asset, NEW x \in Answer[a], SyncHost(h, a, x) PROVE Calling(h)'
  <2> DEFINE i == Min(proc[h].left)
  <2>1. /\ proc'[h].list = proc[h].list /\ proc[h].at = "sync"
        /\ proc'[h].record = proc[h].record /\ proc'[h].left = proc[h].left \ {i}
        /\ proc'[h].at = IF proc[h].left = {i} THEN "aggregate" ELSE "sync"
    BY <1>1, <1>10 DEF SyncHost, ProcType, At
  <2>2. SameHosts
    <3>1. ~\E g \in Handler : InsertRows(g)
      <4>1. ASSUME NEW g \in Handler, InsertRows(g) PROVE FALSE
        <5>1. CASE g = h
          BY <2>1, <4>1, <5>1, RowsInserted DEF At
        <5>2. CASE g # h
          <6>1. proc'[g] = proc[g]
            BY <1>10, <5>2 DEF SyncHost, TypeInv, Procs
          <6> QED BY <4>1, <6>1, RowsInserted DEF At
        <5> QED BY <5>1, <5>2
      <4> QED BY <4>1
    <3> QED BY <3>1, HostsKept
  <2> HIDE DEF i
  <2> QED BY <1>1, <2>1, <2>2 DEF Calling, SameHosts
<1>11. CASE Recompute(h)
  <2>1. /\ proc'[h].at = "save" /\ proc'[h].list = proc[h].list /\ proc[h].at = "aggregate"
        /\ proc'[h].record = proc[h].record
    <3> DEFINE u == Changed(record[proc[h].record],
                            Aggregate(record[proc[h].record], row[proc[h].record]))
    <3>1. proc' = [proc EXCEPT ![h].at = "save", ![h].update = u] /\ proc[h].at = "aggregate"
      BY <1>11 DEF Recompute, At
    <3> HIDE DEF u
    <3> QED BY <1>1, <3>1 DEF ProcType
  <2> QED BY <1>1, <2>1 DEF Calling
<1>12. CASE Save(h) \/ AssetGone(h) \/ GiveUp(h)
  BY <1>3, <1>12 DEF Save, AssetGone, GiveUp, Abandon
<1>13. ASSUME NEW p \in Handler \cup Worker, p # h,
              \/ \E sync \in BOOLEAN, list \in Lists : Start(p, sync, list)
              \/ Serve(p) \/ GiveUp(p) \/ RunTask(p) \/ Kill(p)
       PROVE  Calling(h)'
  BY <1>2, <1>13, OtherProcs DEF TypeInv
<1>14. CASE EditStep \/ (\E a \in Asset : DeleteAsset(a)) \/ UNCHANGED vars
  BY <1>2, <1>14, EditsRulesOnly
<1>15. CASE Serve(h) \/ GiveUp(h)
  BY <1>5, <1>6, <1>7, <1>8, <1>9, <1>10, <1>11, <1>12, <1>15 DEF Serve
<1> QED BY <1>1, <1>4, <1>13, <1>14, <1>15 DEF Next, EditStep

\* Only InsertRecord and InsertRows need more than where the ids come from.
LEMMA OpeningStep == TypeInv /\ [Next]_vars => Opening'
<1> SUFFICES ASSUME TypeInv, [Next]_vars PROVE Opening'
  OBVIOUS
<1>1. /\ Procs /\ Tables /\ Callers /\ Opening
      /\ \A p \in Handler \cup Worker : proc[p] \in ProcType /\ p \in DOMAIN proc
      /\ \A r \in Id : r \in Nat
      /\ lastId \in Nat /\ \A p \in Handler \cup Worker : proc[p].record \in Nat
  BY DEF TypeInv, Procs, Id, Tables, ProcType
<1>2. ASSUME lastId' = lastId, SameHosts,
             \A p \in Handler \cup Worker :
               /\ proc'[p].record = proc[p].record \/ proc'[p].record = 0
                    \/ \E m \in BagToSet(queue) : proc'[p].record = m.record
               /\ proc'[p].at = "rows" => proc[p].at = "rows" /\ proc'[p].record = proc[p].record,
             \A m \in BagToSet(queue') : \/ m \in BagToSet(queue)
                                         \/ \E h \in Handler : m.record = proc[h].record
      PROVE  Opening'
  <2>1. \A r \in Id : row[r] = << >> => row'[r] = << >>
    <3>1. row' \in [Id -> Seq(HostRow)]
      BY TablesStep DEF Tables
    <3> QED BY <1>2, <3>1 DEF SameHosts
  <2>2. \A r \in Id : r > lastId' => row'[r] = << >>
    BY <1>1, <1>2, <2>1 DEF Opening
  <2>3. \A p \in Handler \cup Worker : proc'[p].record <= lastId'
    <3> SUFFICES ASSUME NEW p \in Handler \cup Worker PROVE proc'[p].record <= lastId
      BY <1>2
    <3>1. CASE proc'[p].record = proc[p].record
      BY <1>1, <3>1 DEF Opening
    <3>2. CASE proc'[p].record = 0
      BY <1>1, <3>2
    <3>3. ASSUME NEW m \in BagToSet(queue), proc'[p].record = m.record
          PROVE  proc'[p].record <= lastId
      BY <1>1, <3>3 DEF Opening
    <3> QED BY <1>2, <3>1, <3>2, <3>3
  <2>4. \A m \in BagToSet(queue') : m.record <= lastId'
    BY <1>1, <1>2 DEF Opening
  <2>5. \A h \in Handler : proc'[h].at = "rows" => row'[proc'[h].record] = << >>
    <3> SUFFICES ASSUME NEW h \in Handler, proc'[h].at = "rows" PROVE row'[proc'[h].record] = << >>
      OBVIOUS
    <3>1. proc[h].at = "rows" /\ proc'[h].record = proc[h].record
      BY <1>2
    <3>2. proc[h].record \in Id /\ row[proc[h].record] = << >>
      BY <1>1, <3>1 DEF Opening, At, Callers, Calling
    <3> QED BY <2>1, <3>1, <3>2
  <2>6. \A g, h \in Handler : g # h /\ proc'[g].at = "rows" /\ proc'[h].at = "rows"
                                => proc'[g].record # proc'[h].record
    BY <1>1, <1>2 DEF Opening, At
  <2> QED BY <2>2, <2>3, <2>4, <2>5, <2>6 DEF Opening, At
<1>3. ASSUME NEW h \in Handler, InsertRecord(h) PROVE Opening'
  <2>1. /\ lastId' = lastId + 1 /\ row' = row /\ queue' = queue
        /\ \A p \in Handler \cup Worker : p # h => proc'[p] = proc[p]
        /\ proc'[h].at = "rows" /\ proc'[h].record = lastId + 1
    BY <1>1, <1>3 DEF InsertRecord, ProcType
  <2>2. lastId + 1 \in Id
    BY <1>1, <1>3, InspectionAssumption DEF InsertRecord, Id, InspectionAssumption
  <2>3. \A r \in Id : r > lastId' => row'[r] = << >>
    BY <1>1, <2>1 DEF Opening
  <2>4. \A p \in Handler \cup Worker : proc'[p].record <= lastId'
    BY <1>1, <2>1 DEF Opening
  <2>5. \A m \in BagToSet(queue') : m.record <= lastId'
    <3>1. \A m \in BagToSet(queue) : m.record \in Nat
      BY <1>1 DEF Tables, Message
    <3> QED BY <1>1, <2>1, <3>1 DEF Opening
  <2>6. \A g \in Handler : proc'[g].at = "rows" => row'[proc'[g].record] = << >>
    BY <1>1, <2>1, <2>2 DEF Opening, At
  <2>7. \A f, g \in Handler : f # g /\ proc'[f].at = "rows" /\ proc'[g].at = "rows"
                                => proc'[f].record # proc'[g].record
    <3>1. \A f \in Handler : f # h => proc'[f].record <= lastId /\ proc'[f].record \in Nat
      BY <1>1, <2>1 DEF Opening
    <3> QED BY <1>1, <2>1, <3>1 DEF Opening, At
  <2> QED BY <2>3, <2>4, <2>5, <2>6, <2>7 DEF Opening, At
<1>4. ASSUME NEW h \in Handler, InsertRows(h) PROVE Opening'
  <2>1. /\ lastId' = lastId /\ queue' = queue
        /\ \A p \in Handler \cup Worker : p # h => proc'[p] = proc[p]
    BY <1>1, <1>4 DEF InsertRows
  <2>2. /\ proc'[h].at \in {"rules", "dispatch"} /\ proc'[h].record = proc[h].record
        /\ proc[h].record \in Id /\ At(h, "rows")
    BY <1>4, RowsInserted
  <2>3. \A r \in Id : r # proc[h].record => row'[r] = row[r]
    BY <1>1, <1>4, RowsInserted DEF Tables
  <2>4. \A r \in Id : r > lastId' => row'[r] = << >>
    BY <1>1, <2>1, <2>2, <2>3 DEF Opening
  <2>5. \A p \in Handler \cup Worker : proc'[p].record <= lastId'
    BY <1>1, <2>1, <2>2 DEF Opening
  <2>6. \A m \in BagToSet(queue') : m.record <= lastId'
    BY <1>1, <2>1 DEF Opening
  <2>7. \A g \in Handler : proc'[g].at = "rows" => row'[proc'[g].record] = << >>
    <3> SUFFICES ASSUME NEW g \in Handler, proc'[g].at = "rows" PROVE row'[proc'[g].record] = << >>
      OBVIOUS
    <3>1. g # h /\ proc'[g] = proc[g]
      BY <2>1, <2>2
    <3>2. At(g, "rows") /\ proc[g].record \in Id /\ row[proc[g].record] = << >>
      BY <1>1, <3>1 DEF At, Callers, Calling, Opening
    <3>3. proc[g].record # proc[h].record
      BY <1>1, <2>2, <3>1, <3>2 DEF Opening
    <3> QED BY <2>3, <3>1, <3>2, <3>3
  <2>8. \A f, g \in Handler : f # g /\ proc'[f].at = "rows" /\ proc'[g].at = "rows"
                                => proc'[f].record # proc'[g].record
    BY <1>1, <2>1, <2>2 DEF Opening, At
  <2> QED BY <2>4, <2>5, <2>6, <2>7, <2>8 DEF Opening, At
<1>5. ASSUME ~\E h \in Handler : InsertRecord(h) \/ InsertRows(h) PROVE Opening'
  <2>1. SameHosts
    BY <1>5, HostsKept
  <2>2. ASSUME NEW p \in Handler \cup Worker, NEW x, proc' = [proc EXCEPT ![p] = x],
               x.record \in {proc[p].record, 0} \/ \E m \in BagToSet(queue) : x.record = m.record,
               x.at # "rows", lastId' = lastId,
               \A m \in BagToSet(queue') : \/ m \in BagToSet(queue)
                                           \/ \E h \in Handler : m.record = proc[h].record
        PROVE  Opening'
    <3>1. \A q \in Handler \cup Worker : proc'[q] = IF q = p THEN x ELSE proc[q]
      BY <1>1, <2>2
    <3> QED BY <1>2, <2>1, <2>2, <3>1
  <2>3. ASSUME NEW h \in Handler, \/ \E sync \in BOOLEAN, list \in Lists : Start(h, sync, list)
                                  \/ Serve(h) \/ GiveUp(h)
        PROVE  Opening'
    <3>1. ASSUME NEW sync \in BOOLEAN, NEW list \in Lists, Start(h, sync, list) PROVE Opening'
      <4> DEFINE x == [Idle EXCEPT !.at = IF rule = {} THEN "seed" ELSE "insert",
                                   !.sync = sync, !.list = list]
      <4>1. x.record = 0 /\ x.at # "rows"
        BY DEF Idle
      <4>2. proc' = [proc EXCEPT ![h] = x] /\ lastId' = lastId /\ queue' = queue
        BY <3>1 DEF Start
      <4> HIDE DEF x
      <4> QED BY <2>2, <4>1, <4>2
    <3>2. CASE Seed(h)
      <4>1. PICK x \in {Idle, [proc[h] EXCEPT !.at = "reread"]} : proc' = [proc EXCEPT ![h] = x]
        BY <3>2 DEF Seed
      <4>2. x.record \in {proc[h].record, 0} /\ x.at # "rows"
        BY <1>1, <4>1, IdleTyped DEF ProcType
      <4> QED BY <2>2, <3>2, <4>1, <4>2 DEF Seed
    <3>3. CASE ReadRules(h)
      <4> DEFINE x == [proc[h] EXCEPT !.at = "sync", !.rules = Enabled]
      <4>1. x.record = proc[h].record /\ x.at # "rows"
        BY <1>1 DEF ProcType
      <4>2. proc' = [proc EXCEPT ![h] = x] /\ lastId' = lastId /\ queue' = queue
        BY <3>3 DEF ReadRules
      <4> HIDE DEF x
      <4> QED BY <2>2, <4>1, <4>2
    <3>4. ASSUME NEW i \in proc[h].left, Publish(h, i) PROVE Opening'
      <4>1. PICK x \in {Idle, [proc[h] EXCEPT !.left = @ \ {i}]} : proc' = [proc EXCEPT ![h] = x]
        BY <3>4 DEF Publish
      <4>2. x.record \in {proc[h].record, 0} /\ x.at # "rows"
        BY <1>1, <3>4, <4>1, IdleTyped DEF ProcType, Publish, At
      <4> DEFINE m == [record |-> proc[h].record, asset |-> proc[h].list[i]]
      <4>3. queue' = queue (+) SetToBag({m}) /\ m.record = proc[h].record /\ lastId' = lastId
        BY <3>4 DEF Publish
      <4> HIDE DEF m
      <4>4. BagToSet(queue') = BagToSet(queue) \cup {m}
        BY <1>1, <4>3, BagAdded DEF Tables
      <4> QED BY <2>2, <4>1, <4>2, <4>3, <4>4
    <3>5. ASSUME NEW a \in Asset, NEW y \in Answer[a], SyncHost(h, a, y) PROVE Opening'
      <4> DEFINE i == Min(proc[h].left)
                 s == IF proc[h].left = {i} THEN "aggregate" ELSE "sync"
                 x == [proc[h] EXCEPT !.left = @ \ {i}, !.at = s]
      <4>1. x.record = proc[h].record /\ x.at # "rows"
        BY <1>1 DEF ProcType
      <4>2. proc' = [proc EXCEPT ![h] = x] /\ lastId' = lastId /\ queue' = queue
        BY <3>5 DEF SyncHost, At
      <4> HIDE DEF x
      <4> QED BY <2>2, <4>1, <4>2
    <3>6. CASE Recompute(h)
      <4> DEFINE u == Changed(record[proc[h].record],
                              Aggregate(record[proc[h].record], row[proc[h].record]))
                 x == [proc[h] EXCEPT !.at = "save", !.update = u]
      <4>1. x.record = proc[h].record /\ x.at # "rows"
        <5> HIDE DEF u
        <5> QED BY <1>1 DEF ProcType
      <4>2. proc' = [proc EXCEPT ![h] = x] /\ lastId' = lastId /\ queue' = queue
        BY <3>6 DEF Recompute
      <4> HIDE DEF x
      <4> QED BY <2>2, <4>1, <4>2
    <3>7. CASE Save(h) \/ AssetGone(h) \/ GiveUp(h)
      BY <2>2, <3>7, IdleTyped DEF Save, AssetGone, GiveUp, Abandon
    <3> QED BY <1>5, <2>3, <3>1, <3>2, <3>3, <3>4, <3>5, <3>6, <3>7 DEF Serve
  <2>4. ASSUME NEW w \in Worker, RunTask(w) \/ Kill(w) PROVE Opening'
    <3>1. ASSUME NEW m \in BagToSet(queue), Take(w, m) PROVE Opening'
      <4> DEFINE y == [Idle EXCEPT !.at = "begin", !.record = m.record, !.asset = m.asset]
      <4>1. PICK x \in {Idle, y} : proc' = [proc EXCEPT ![w] = x]
        BY <3>1 DEF Take
      <4>2. (x.record = 0 \/ x.record = m.record) /\ x.at # "rows"
        <5>1. y.record = m.record /\ y.at = "begin"
          BY DEF Idle
        <5> HIDE DEF y
        <5> QED BY <4>1, <5>1, IdleTyped
      <4>3. BagToSet(queue') \subseteq BagToSet(queue) /\ lastId' = lastId
        BY <1>1, <3>1, BagTaken DEF Take, Tables
      <4> HIDE DEF y
      <4> QED BY <2>2, <4>1, <4>2, <4>3
    <3>2. CASE Begin(w)
      <4> DEFINE r == proc[w].record
                 u == Changed(record[r], Aggregate(record[r], row'[r]))
                 x == [proc[w] EXCEPT !.at = "judge", !.rules = Enabled, !.update = u]
      <4>1. x.record = proc[w].record /\ x.at # "rows"
        <5> HIDE DEF u
        <5> QED BY <1>1 DEF ProcType
      <4>2. proc' = [proc EXCEPT ![w].at = "judge", ![w].rules = Enabled, ![w].update = u]
            /\ lastId' = lastId /\ queue' = queue
        BY <3>2 DEF Begin
      <4>3. proc' = [proc EXCEPT ![w] = x]
        <5> HIDE DEF u
        <5> QED BY <4>2
      <4> HIDE DEF x
      <4> QED BY <2>2, <4>1, <4>2, <4>3
    <3>3. ASSUME NEW a \in Asset, NEW y \in Answer[a], Judge(w, a, y) PROVE Opening'
      <4>1. PICK s \in {"save", "aggregate"} : proc' = [proc EXCEPT ![w] = [proc[w] EXCEPT !.at = s]]
        BY <3>3 DEF Judge
      <4> DEFINE x == [proc[w] EXCEPT !.at = s]
      <4>2. x.record = proc[w].record /\ x.at # "rows"
        BY <1>1 DEF ProcType
      <4>3. proc' = [proc EXCEPT ![w] = x] /\ lastId' = lastId /\ queue' = queue
        BY <3>3, <4>1 DEF Judge
      <4> HIDE DEF x
      <4> QED BY <2>2, <4>2, <4>3
    <3>4. CASE Recompute(w)
      <4> DEFINE u == Changed(record[proc[w].record],
                              Aggregate(record[proc[w].record], row[proc[w].record]))
                 x == [proc[w] EXCEPT !.at = "save", !.update = u]
      <4>1. x.record = proc[w].record /\ x.at # "rows"
        <5> HIDE DEF u
        <5> QED BY <1>1 DEF ProcType
      <4>2. proc' = [proc EXCEPT ![w] = x] /\ lastId' = lastId /\ queue' = queue
        BY <3>4 DEF Recompute
      <4> HIDE DEF x
      <4> QED BY <2>2, <4>1, <4>2
    <3>5. CASE Save(w) \/ Kill(w)
      BY <2>2, <3>5, IdleTyped DEF Save, Kill, Abandon
    <3> QED BY <2>4, <3>1, <3>2, <3>3, <3>4, <3>5 DEF RunTask
  <2>5. CASE EditStep \/ (\E a \in Asset : DeleteAsset(a)) \/ UNCHANGED vars
    BY <1>2, <2>1, <2>5, EditsRulesOnly
  <2> QED BY <2>3, <2>4, <2>5 DEF Next, EditStep
<1> QED BY <1>3, <1>4, <1>5

-----------------------------------------------------------------------------
LEMMA TypeInvInit == Init => TypeInv
<1> SUFFICES ASSUME Init PROVE TypeInv
  OBVIOUS
<1>1. MaxRecord \in Nat /\ MaxEdit \in Nat
  BY InspectionAssumption DEF InspectionAssumption
<1>2. IsABag(EmptyBag) /\ BagToSet(EmptyBag) = {}
  BY DEF EmptyBag, IsABag, SetToBag, BagToSet
<1>3. NoRecord \in Record
  BY DEF NoRecord, Record, Status
<1>4. Defs(rule) \subseteq Definition
  BY DEF Init, Defs, Numbered, Definition
<1>5. Tables
  BY <1>1, <1>2, <1>3, <1>4 DEF Init, Tables
<1>6. Procs
  BY IdleTyped DEF Init, Procs, HandlerStep, WorkerStep
<1>7. \A p \in Handler \cup Worker : proc[p].at = "idle" /\ proc[p].record = 0
  BY IdleTyped DEF Init
<1>8. Callers
  BY <1>7 DEF Callers, Calling
<1>9. Opening
  BY <1>1, <1>2, <1>7 DEF Init, Opening, At
<1> QED BY <1>5, <1>6, <1>8, <1>9 DEF TypeInv

\* The invariant of the types is inductive.
LEMMA TypeInvStep == TypeInv /\ [Next]_vars => TypeInv'
BY TablesStep, ProcsStep, CallersStep, OpeningStep DEF TypeInv

\* It implies the type invariant of the model.
LEMMA TypeInvTypes == TypeInv => TypeOK
<1> SUFFICES ASSUME TypeInv PROVE TypeOK
  OBVIOUS
<1>1. DOMAIN row = Id /\ \A r \in Id : \A i \in DOMAIN row[r] :
        row[r][i].asset \in Asset /\ row[r][i].status \in Verdict \cup {"running"}
  <2> SUFFICES ASSUME NEW r \in Id, NEW i \in DOMAIN row[r]
               PROVE  row[r][i].asset \in Asset /\ row[r][i].status \in Verdict \cup {"running"}
    BY DEF TypeInv, Tables
  <2>1. row[r][i] \in HostRow
    BY DEF TypeInv, Tables
  <2> QED BY <2>1 DEF HostRow
<1>2. ASSUME NEW p \in Handler \cup Worker
      PROVE  /\ proc[p].at \in {"idle", "aggregate", "save"} \cup
                  (IF p \in Worker THEN {"begin", "judge"}
                   ELSE {"seed", "insert", "reread", "rows", "rules", "sync", "dispatch"})
             /\ proc[p].record \in 0 .. lastId
  <2>1. proc[p].record \in 0 .. MaxRecord /\ proc[p].record <= lastId /\ lastId \in 0 .. MaxRecord
    BY DEF TypeInv, Procs, Opening, Tables, ProcType
  <2>2. MaxRecord \in Nat
    BY InspectionAssumption DEF InspectionAssumption
  <2>3. CASE p \in Worker
    BY <2>1, <2>2, <2>3 DEF TypeInv, Procs, WorkerStep
  <2>4. CASE p \notin Worker
    BY <2>1, <2>2, <2>4 DEF TypeInv, Procs, HandlerStep
  <2> QED BY <2>3, <2>4
<1>3. Defs(rule) \subseteq Seeds \cup Payload \cup UNION Installed
  BY DEF TypeInv, Tables, Definition
<1> QED BY <1>1, <1>2, <1>3 DEF TypeInv, Tables, TypeOK

\* It holds in every behaviour.
LEMMA TypeInvHolds == Spec => []TypeInv
<1> QED BY TypeInvInit, TypeInvStep, PTL DEF Spec

\* The variables keep their types in every behaviour, whatever the hosts
\* answer, the users send and the environment does.
THEOREM InspectionTypes == Spec => []TypeOK
<1> QED BY TypeInvHolds, TypeInvTypes, PTL

-----------------------------------------------------------------------------
(* The basis of a verdict.                                                 *)

\* A step that writes a row writes a verdict with its basis, or "running".
LEMMA BasisStep == TypeInv /\ HealthyHasBasis /\ [Next]_vars => HealthyHasBasis'
<1> SUFFICES ASSUME TypeInv, HealthyHasBasis, [Next]_vars PROVE HealthyHasBasis'
  OBVIOUS
<1>1. ASSUME UNCHANGED row PROVE HealthyHasBasis'
  BY <1>1 DEF HealthyHasBasis
<1>2. ASSUME NEW r \in Id, NEW i, NEW v, Basis(v), Ruled(r, i, v) PROVE HealthyHasBasis'
  <2> SUFFICES ASSUME NEW q \in Id, NEW j \in DOMAIN row'[q], row'[q][j].status = "healthy"
               PROVE  row'[q][j].results # {}
    BY DEF HealthyHasBasis
  <2>1. j \in DOMAIN row[q]
    BY <1>2 DEF Ruled
  <2>2. CASE q = r /\ j = i
    BY <1>2, <2>1, <2>2 DEF Ruled, Basis
  <2>3. CASE ~(q = r /\ j = i)
    <3>1. row'[q][j] = row[q][j]
      BY <1>2, <2>1, <2>3 DEF Ruled
    <3> QED BY <2>1, <3>1 DEF HealthyHasBasis
  <2> QED BY <2>2, <2>3
<1>3. ASSUME NEW h \in Handler, InsertRows(h) PROVE HealthyHasBasis'
  <2> DEFINE t == [i \in DOMAIN proc[h].list |-> Opened(proc[h].list[i])]
  <2>1. row' = [row EXCEPT ![proc[h].record] = t]
    BY <1>3, RowsInserted
  <2>2. \A i \in DOMAIN t : t[i].status = "running"
    BY DEF Opened
  <2> HIDE DEF t
  <2> QED BY <2>1, <2>2 DEF HealthyHasBasis, TypeInv, Tables
<1>4. ASSUME NEW w \in Worker, Begin(w) PROVE HealthyHasBasis'
  <2>1. proc[w].record \in Id /\ Reopened(proc[w].record, RowOf(w))
    BY <1>4, BeginReopens
  <2> SUFFICES ASSUME NEW q \in Id, NEW j \in DOMAIN row'[q], row'[q][j].status = "healthy"
               PROVE  row'[q][j].results # {}
    BY DEF HealthyHasBasis
  <2>2. j \in DOMAIN row[q] /\ row[q][j] \in HostRow
    BY <2>1 DEF Reopened, TypeInv, Tables
  <2>3. row'[q][j] = [row[q][j] EXCEPT !.status = "running"] \/ row'[q][j] = row[q][j]
    BY <2>1, <2>2 DEF Reopened
  <2>4. [row[q][j] EXCEPT !.status = "running"].status = "running"
    BY <2>2 DEF HostRow
  <2>5. row'[q][j] = row[q][j]
    BY <2>3, <2>4
  <2> QED BY <2>2, <2>5 DEF HealthyHasBasis
<1>5. ASSUME NEW h \in Handler, \/ \E sync \in BOOLEAN, list \in Lists : Start(h, sync, list)
                                \/ Serve(h) \/ GiveUp(h)
      PROVE  HealthyHasBasis'
  <2>1. CASE \E a \in Asset : \E x \in Answer[a] : SyncHost(h, a, x)
    BY <1>2, <2>1, SyncHostRules
  <2> QED BY <1>1, <1>3, <1>5, <2>1 DEF Start, Serve, GiveUp, Seed, InsertRecord, ReadRules, Publish,
                                        Recompute, Save, AssetGone, Abandon
<1>6. ASSUME NEW w \in Worker, RunTask(w) \/ Kill(w) PROVE HealthyHasBasis'
  <2>1. CASE \E a \in Asset : \E x \in Answer[a] : Judge(w, a, x)
    BY <1>1, <1>2, <2>1, JudgeRules
  <2> QED BY <1>1, <1>4, <1>6, <2>1 DEF RunTask, Kill, Take, Recompute, Save, Abandon
<1>7. CASE EditStep \/ (\E a \in Asset : DeleteAsset(a)) \/ UNCHANGED vars
  BY <1>1, <1>7, EditsRulesOnly
<1> QED BY <1>5, <1>6, <1>7 DEF Next, EditStep

\* No host is ever called healthy without a result: not when every rule was
\* deleted between the request and its tasks, nor when nothing was collected
\* (evaluate starts from "unknown" there).
THEOREM HealthyIsFounded == Spec => []HealthyHasBasis
<1>1. Init => HealthyHasBasis
  BY DEF Init, HealthyHasBasis
<1> QED BY <1>1, BasisStep, TypeInvHolds, PTL DEF Spec

-----------------------------------------------------------------------------
(* Alarms.                                                                 *)

\* The highest percentage exceeds a threshold when one does.
LEMMA HighestExceeds ==
  ASSUME NEW N \in Nat, NEW S \in SUBSET 0 .. N, NEW n \in Nat
  PROVE  Highest(S) \in Int /\ (Highest(S) > n <=> \E p \in S : p > n)
<1>1. CASE S = {}
  BY <1>1 DEF Highest, NoData
<1>2. CASE S # {}
  <2> DEFINE T == {N - p : p \in S}
  <2>1. IsFiniteSet(T) /\ T \in SUBSET Nat /\ T # {}
    <3>1. \A k \in T : k \in 0 .. N
      OBVIOUS
    <3>2. PICK y \in S : TRUE
      BY <1>2
    <3>3. N - y \in T
      OBVIOUS
    <3> HIDE DEF T
    <3>4. IsFiniteSet(0 .. N)
      BY FS_Interval
    <3>5. T \in SUBSET (0 .. N)
      BY <3>1
    <3>6. IsFiniteSet(T)
      BY <3>4, <3>5, FS_Subset
    <3> QED BY <3>3, <3>5, <3>6
  <2>2. PICK m \in T : \A k \in T : k >= m
    <3> HIDE DEF T
    <3> QED BY <2>1, LeastNatural
  <2>3. \E x \in S : \A y \in S : x >= y
    <3>1. PICK x \in S : m = N - x
      BY <2>2
    <3>2. ASSUME NEW y \in S PROVE x >= y
      <4>1. N - y \in T
        OBVIOUS
      <4>2. N - y >= m
        BY <2>2, <4>1
      <4> QED BY <3>1, <4>2
    <3> QED BY <3>2
  <2>4. Highest(S) \in S /\ \A y \in S : Highest(S) >= y
    BY <1>2, <2>3 DEF Highest, Max
  <2>5. Highest(S) \in Int
    <3>1. \A y \in S : y \in Int
      OBVIOUS
    <3> QED BY <2>4, <3>1
  <2> QED BY <2>4, <2>5
<1> QED BY <1>1, <1>2

\* A rounded percentage exceeds a threshold when the share does by half a unit.
LEMMA PercentExceeds ==
  ASSUME NEW s \in Share, s.total \in Nat \ {0}, s.used \in Nat, NEW n \in Nat, NEW d
  PROVE  Percent(s, d) \in Nat /\ (Percent(s, d) > n <=> 2000 * s.used >= (2 * n + 1) * s.total)
<1> DEFINE a == 2000 * s.used + s.total
           b == 2 * s.total
<1>1. a \in Nat /\ b \in Nat \ {0}
  OBVIOUS
<1>2. Percent(s, d) = a \div b
  BY DEF Percent, NoData
<1>3. a >= b * (n + 1) <=> 2000 * s.used >= (2 * n + 1) * s.total
  <2>1. b * (n + 1) = (2 * n + 1) * s.total + s.total /\ (2 * n + 1) * s.total \in Int
    OBVIOUS
  <2> QED BY <2>1
<1> HIDE DEF a, b
<1>4. a \div b \in Nat /\ (a \div b > n <=> a >= b * (n + 1))
  BY <1>1, QuotientExceeds
<1>5. Percent(s, d) \in Nat /\ (Percent(s, d) > n <=> a \div b > n)
  BY <1>2, <1>4
<1> DEFINE A == a >= b * (n + 1)
           C == 2000 * s.used >= (2 * n + 1) * s.total
           D == a \div b > n
<1>6. (A <=> C) /\ (D <=> A) /\ (Percent(s, d) > n <=> D)
  BY <1>3, <1>4, <1>5
<1> HIDE DEF A, D
<1> QED BY <1>5, <1>6

\* If rounding hides no excess, the percentage exceeds a threshold when the share does.
LEMMA SharpExceeds ==
  ASSUME NEW s \in Share, NEW n \in Nat, NEW d \in {NoData, 0},
         \/ s.total \in {0, NoData}
         \/ /\ s.total \in Nat /\ s.used \in Nat
            /\ 1000 * s.used > n * s.total => 2000 * s.used >= (2 * n + 1) * s.total
  PROVE  Percent(s, d) \in Int
         /\ (Percent(s, d) > n <=> s.total > 0 /\ 1000 * s.used > n * s.total)
<1>1. CASE s.total \in {0, NoData}
  BY <1>1 DEF Percent, NoData
<1>2. CASE s.total \notin {0, NoData}
  <2>1. s.total \in Nat \ {0} /\ s.used \in Nat
    BY <1>2
  <2>2. (2 * n + 1) * s.total = 2 * (n * s.total) + s.total /\ n * s.total \in Nat
    BY <2>1
  <2>3. 2000 * s.used >= (2 * n + 1) * s.total => 1000 * s.used > n * s.total
    BY <2>1, <2>2
  <2> QED BY <1>2, <2>1, <2>3, PercentExceeds
<1> QED BY <1>1, <1>2

\* What a host answers to a collection.
Answered == UNION {Answer[a] : a \in Asset}

\* A rule of a number is triggered when the number exceeds its threshold.
LEMMA NumberTriggers ==
  ASSUME NEW f, NEW r, Describes(r), r.metric \notin Listed, Value(f, r.metric) \in Int
  PROVE  /\ r.threshold.num \in Nat
         /\ RuleStatus(f, r) = r.severity <=> Value(f, r.metric) > r.threshold.num
<1>1. r.operator = "gt" /\ r.threshold.num \in Nat /\ r.severity \in {"warning", "critical"}
  BY DEF Describes
<1>2. Triggers(f, r) <=> Value(f, r.metric) > r.threshold.num
  BY <1>1 DEF Triggers, NoData, Contains
<1>3. Value(f, r.metric) > r.threshold.num => Value(f, r.metric) # NoData
  BY <1>1 DEF NoData
<1> QED BY <1>1, <1>2, <1>3 DEF RuleStatus, Missing

\* A rule of a list is triggered by what is on it, or missing from it.
LEMMA ListTriggers ==
  ASSUME NEW f, NEW r, Describes(r), r.metric \in Listed
  PROVE  RuleStatus(f, r) = r.severity
           <=> (r.operator = "contains" <=> r.threshold.text \in Items(f, r.metric))
<1>1. r.operator \in Contains /\ r.severity \in {"warning", "critical"}
  BY DEF Describes
<1>2. Triggers(f, r) <=> (r.operator = "contains" <=> r.threshold.text \in Items(f, r.metric))
  BY <1>1 DEF Triggers, Contains
<1> QED BY <1>1, <1>2 DEF RuleStatus, Missing

\* What Legible says of the lines of df, and of those of df -i beside them.
Sized(S) == \A d \in S : ~d.pseudo /\ d.pct # NoData => d.unit = "G" /\ d.pct \in 0 .. 1000
Paired(S, T) ==
  \A d \in T : ~d.pseudo /\ d.pct # NoData =>
    /\ d.pct \in 0 .. 1000
    /\ \E e \in S : ~e.pseudo /\ e.pct # NoData /\ e.mount = d.mount
    /\ \A e \in T : ~e.pseudo /\ e.pct # NoData /\ e.mount = d.mount => e.pct = d.pct

\* The lines of df that are read.
LEMMA DisksExceed ==
  ASSUME NEW S \in SUBSET Disk, NEW n \in Nat, Sized(S)
  PROVE  LET v == Highest({d.pct : d \in ParseDf(S)}) IN
           v \in Int /\ (v > n <=> \E d \in S : ~d.pseudo /\ d.pct > n)
<1> DEFINE P == {d.pct : d \in ParseDf(S)}
<1>0. PICK N \in Nat : N = 1000
  OBVIOUS
<1>1. P \in SUBSET (0 .. N)
  BY <1>0 DEF ParseDf, Sized
<1>2. (\E p \in P : p > n) <=> \E d \in S : ~d.pseudo /\ d.pct > n
  <2>1. \A d \in ParseDf(S) : d \in S /\ ~d.pseudo
    BY DEF ParseDf
  <2>2. \A d \in S : ~d.pseudo /\ d.pct > n => d \in ParseDf(S)
    BY DEF ParseDf, NoData, Disk, Sized
  <2> QED BY <2>1, <2>2
<1> HIDE DEF P
<1>3. Highest(P) \in Int /\ (Highest(P) > n <=> \E p \in P : p > n)
  BY <1>1, HighestExceeds
<1> QED BY <1>2, <1>3 DEF P

\* The lines of df -i, each looked up by the disks of df.
LEMMA InodesExceed ==
  ASSUME NEW S \in SUBSET Disk, NEW T \in SUBSET Disk, NEW n \in Nat, Sized(S), Paired(S, T)
  PROVE  LET v == Highest({ParseDfI(T, d.mount) : d \in ParseDf(S)} \ {NoData}) IN
           v \in Int /\ (v > n <=> \E d \in T : ~d.pseudo /\ d.pct > n)
<1> DEFINE Lines(m) == {d \in T : ~d.pseudo /\ d.pct # NoData /\ d.mount = m}
           P == {ParseDfI(T, d.mount) : d \in ParseDf(S)} \ {NoData}
<1>0. PICK N \in Nat : N = 1000
  OBVIOUS
<1>1. ASSUME NEW m, Lines(m) # {} PROVE \E d \in Lines(m) : ParseDfI(T, m) = d.pct
  <2>1. ParseDfI(T, m) = (CHOOSE d \in Lines(m) : TRUE).pct
    BY <1>1 DEF ParseDfI
  <2>2. (CHOOSE d \in Lines(m) : TRUE) \in Lines(m)
    BY <1>1
  <2> HIDE DEF Lines
  <2> QED BY <2>1, <2>2
<1>2. \A m : Lines(m) = {} => ParseDfI(T, m) = NoData
  BY DEF ParseDfI
<1>3. ASSUME NEW p \in P PROVE p \in 0 .. 1000 /\ \E d \in T : ~d.pseudo /\ d.pct = p
  <2>1. PICK e \in ParseDf(S) : p = ParseDfI(T, e.mount) /\ p # NoData
    BY <1>3
  <2>2. PICK d \in Lines(e.mount) : p = d.pct
    BY <1>1, <1>2, <2>1
  <2> QED BY <2>2 DEF Paired
<1>4. ASSUME NEW d \in T, ~d.pseudo, d.pct > n PROVE d.pct \in P
  <2>1. d.pct # NoData /\ d \in Lines(d.mount)
    BY <1>4 DEF Disk, NoData
  <2>2. PICK e \in S : ~e.pseudo /\ e.pct # NoData /\ e.mount = d.mount
    BY <1>4, <2>1 DEF Paired
  <2>3. e \in ParseDf(S)
    BY <2>2 DEF ParseDf, Sized
  <2>4. ParseDfI(T, e.mount) = d.pct
    <3>1. PICK c \in Lines(d.mount) : ParseDfI(T, d.mount) = c.pct
      BY <1>1, <2>1
    <3>2. c.pct = d.pct
      BY <1>4, <2>1 DEF Paired
    <3> QED BY <2>2, <3>1, <3>2
  <2> QED BY <2>1, <2>3, <2>4
<1>5. P \in SUBSET (0 .. N)
  <2> HIDE DEF P
  <2> QED BY <1>0, <1>3
<1>6. (\E p \in P : p > n) <=> \E d \in T : ~d.pseudo /\ d.pct > n
  BY <1>3, <1>4
<1> HIDE DEF P
<1>7. Highest(P) \in Int /\ (Highest(P) > n <=> \E p \in P : p > n)
  BY <1>5, HighestExceeds
<1> QED BY <1>6, <1>7 DEF P

\* The results of rules agree with the state of the host that answered.
LEMMA AlarmIsRight ==
  ASSUME NEW a \in Answered, NEW r, Describes(r), Legible(a, r), a.conn = "ok",
         ProbesOf(r.metric) \cap a.broken = {}
  PROVE  Alarm(a, r) <=> RuleStatus(Collect(a), r) = r.severity
<1> DEFINE f == Collect(a)
           n == r.threshold.num
           W == Probe \ a.broken
<1>1. /\ a.load_5 \in Int /\ a.memory \in Share /\ a.swap \in Share
      /\ a.disks \in SUBSET Disk /\ a.inodes \in SUBSET Disk
  BY InspectionAssumption DEF InspectionAssumption, Answered
<1>2. f = Probed(a, W)
  BY DEF Collect
<1>3. \A p \in ProbesOf(r.metric) : p \in Probe => p \in W
  OBVIOUS
<1> HIDE DEF f, W
<1>4. ASSUME r.metric \notin Listed, Value(f, r.metric) \in Int,
             n \in Nat => (Value(f, r.metric) > n <=> Alarm(a, r))
      PROVE  Alarm(a, r) <=> RuleStatus(f, r) = r.severity
  BY <1>4, NumberTriggers
<1>5. n \in Nat \/ r.metric \in Listed
  BY DEF Describes
<1>6. CASE r.metric = "disk_used_pct"
  <2>1. "disk" \in W
    BY <1>3, <1>6 DEF ProbesOf, Probe
  <2>2. Value(f, r.metric) = Highest({d.pct : d \in ParseDf(a.disks)})
    BY <1>2, <1>6, <2>1 DEF Value, Probed
  <2>3. r.metric \notin Listed /\ n \in Nat
    BY <1>5, <1>6 DEF Listed
  <2>4. Sized(a.disks)
    BY <1>6 DEF Legible, Sized
  <2>5. Alarm(a, r) <=> \E d \in a.disks : ~d.pseudo /\ d.pct > n
    BY <1>6 DEF Alarm
  <2> QED BY <1>1, <1>4, <2>2, <2>3, <2>4, <2>5, DisksExceed DEF f
<1>7. CASE r.metric = "inode_used_pct"
  <2>1. "disk" \in W /\ "inode" \in W
    BY <1>3, <1>7 DEF ProbesOf, Probe
  <2>2. Value(f, r.metric) = Highest({ParseDfI(a.inodes, d.mount) : d \in ParseDf(a.disks)} \ {NoData})
    BY <1>2, <1>7, <2>1 DEF Value, Probed
  <2>3. r.metric \notin Listed /\ n \in Nat
    BY <1>5, <1>7 DEF Listed
  <2>4. Sized(a.disks) /\ Paired(a.disks, a.inodes)
    BY <1>7 DEF Legible, Sized, Paired
  <2>5. Alarm(a, r) <=> \E d \in a.inodes : ~d.pseudo /\ d.pct > n
    BY <1>7 DEF Alarm
  <2>6. LET v == Highest({ParseDfI(a.inodes, d.mount) : d \in ParseDf(a.disks)} \ {NoData}) IN
          v \in Int /\ (v > n <=> \E d \in a.inodes : ~d.pseudo /\ d.pct > n)
    BY <1>1, <2>3, <2>4, InodesExceed
  <2> QED BY <1>4, <2>2, <2>3, <2>5, <2>6 DEF f
<1>8. CASE r.metric = "memory_used_pct"
  <2>1. "memory" \in W
    BY <1>3, <1>8 DEF ProbesOf, Probe
  <2>2. Value(f, r.metric) = Percent(a.memory, NoData)
    BY <1>2, <1>8, <2>1 DEF Value, Probed
  <2>3. r.metric \notin Listed /\ n \in Nat
    BY <1>5, <1>8 DEF Listed
  <2>4. \/ a.memory.total \in {0, NoData}
        \/ /\ a.memory.total \in Nat /\ a.memory.used \in Nat
           /\ 1000 * a.memory.used > n * a.memory.total
                => 2000 * a.memory.used >= (2 * n + 1) * a.memory.total
    BY <1>8 DEF Legible
  <2>5. Alarm(a, r) <=> a.memory.total > 0 /\ 1000 * a.memory.used > n * a.memory.total
    BY <1>8 DEF Alarm
  <2>6. Percent(a.memory, NoData) \in Int
        /\ (Percent(a.memory, NoData) > n
              <=> a.memory.total > 0 /\ 1000 * a.memory.used > n * a.memory.total)
    BY <1>1, <2>3, <2>4, SharpExceeds
  <2> QED BY <1>4, <2>2, <2>3, <2>5, <2>6 DEF f
<1>9. CASE r.metric = "swap_used_pct"
  <2>1. "memory" \in W
    BY <1>3, <1>9 DEF ProbesOf, Probe
  <2>2. Value(f, r.metric) = Percent(a.swap, 0)
    BY <1>2, <1>9, <2>1 DEF Value, Probed
  <2>3. r.metric \notin Listed /\ n \in Nat
    BY <1>5, <1>9 DEF Listed
  <2>4. \/ a.swap.total \in {0, NoData}
        \/ /\ a.swap.total \in Nat /\ a.swap.used \in Nat
           /\ 1000 * a.swap.used > n * a.swap.total
                => 2000 * a.swap.used >= (2 * n + 1) * a.swap.total
    BY <1>9 DEF Legible
  <2>5. Alarm(a, r) <=> a.swap.total > 0 /\ 1000 * a.swap.used > n * a.swap.total
    BY <1>9 DEF Alarm
  <2>6. Percent(a.swap, 0) \in Int
        /\ (Percent(a.swap, 0) > n <=> a.swap.total > 0 /\ 1000 * a.swap.used > n * a.swap.total)
    BY <1>1, <2>3, <2>4, SharpExceeds
  <2> QED BY <1>4, <2>2, <2>3, <2>5, <2>6 DEF f
<1>10. CASE r.metric = "load_5"
  <2>1. "uptime" \in W
    BY <1>3, <1>10 DEF ProbesOf, Probe
  <2>2. Value(f, r.metric) = a.load_5
    BY <1>2, <1>10, <2>1 DEF Value, Probed
  <2>3. r.metric \notin Listed /\ (Alarm(a, r) <=> a.load_5 > n)
    BY <1>10 DEF Listed, Alarm
  <2> QED BY <1>1, <1>4, <2>2, <2>3 DEF f
<1>11. CASE r.metric = "service_stopped"
  <2>1. "services" \in W
    BY <1>3, <1>11 DEF ProbesOf, Probe
  <2>2. Items(f, r.metric) = a.services
    BY <1>2, <1>11, <2>1 DEF Items, Probed
  <2>3. Alarm(a, r) <=> (r.operator = "contains" <=> r.threshold.text \in a.services)
    BY <1>11 DEF Alarm
  <2> QED BY <1>11, <2>2, <2>3, ListTriggers DEF f, Listed
<1>12. CASE r.metric = "port_not_listening"
  <2>1. "ports" \in W
    BY <1>3, <1>12 DEF ProbesOf, Probe
  <2>2. Items(f, r.metric) = a.ports
    BY <1>2, <1>12, <2>1 DEF Items, Probed
  <2>3. Alarm(a, r) <=> (r.operator = "contains" <=> r.threshold.text \in a.ports)
    BY <1>12 DEF Alarm
  <2> QED BY <1>12, <2>2, <2>3, ListTriggers DEF f, Listed
<1> QED BY <1>6, <1>7, <1>8, <1>9, <1>10, <1>11, <1>12 DEF Describes, Metric, Listed, f

\* A row says what the rules say of what the host answered, and no better than
\* the worst of it.
Follows(h) == \A e \in h.results :
  /\ h.seen \in DOMAIN Facts
  /\ e.status = RuleStatus(Facts[h.seen], e.rule)
  /\ h.status = "running" \/ (e.status \in Verdict /\ Order[h.status] >= Order[e.status])

AllFollow == \A r \in Id : \A i \in DOMAIN row[r] : Follows(row[r][i])

\* So does a judgement.
LEMMA JudgedFollows ==
  ASSUME NEW x, NEW R, ~JudgingRaises(x, R), NEW e \in Judged(x, R).results
  PROVE  /\ x \in DOMAIN Facts /\ e.status = RuleStatus(Facts[x], e.rule)
         /\ e.status \in Verdict /\ Order[Judged(x, R).status] >= Order[e.status]
<1>1. x \in DOMAIN Facts
  BY DEF Judged
<1> DEFINE f == Facts[x]
<1>2. Judged(x, R).status = Overall(f, R) /\ Judged(x, R).results = Results(f, R)
  BY <1>1 DEF Judged
<1>3. \A c \in Judged(x, R).results : c.status \in Verdict
  BY JudgedIsVerdict
<1> HIDE DEF f
<1>4. e.status = RuleStatus(f, e.rule) /\ ~f.unavailable
  BY <1>2 DEF Results
<1> DEFINE S == {Order[c.status] : c \in Results(f, R)}
<1>5. S \in SUBSET (0 .. 3) /\ Order[e.status] \in S
  BY <1>2, <1>3 DEF Verdict, Order
<1>6. Overall(f, R) = Worst(S)
  BY <1>2, <1>4 DEF Overall
<1> HIDE DEF S
<1>7. Order[Worst(S)] >= Order[e.status]
  BY <1>5, WorstIsVerdict
<1> QED BY <1>1, <1>2, <1>3, <1>4, <1>6, <1>7 DEF f

\* The row that a judgement writes.
LEMMA SetRowFollows ==
  ASSUME Tables, AllFollow, NEW r \in Id, NEW i, NEW x, NEW v, SetRow(r, i, x, v),
         Follows([status |-> v.status, results |-> v.results, seen |-> x])
  PROVE  AllFollow'
<1> DEFINE new == [row[r][i] EXCEPT !.status = v.status, !.results = v.results, !.seen = x]
           t == [row[r] EXCEPT ![i] = new]
<1>1. row' = [row EXCEPT ![r] = t] /\ row \in [Id -> Seq(HostRow)]
  BY DEF SetRow, Tables
<1>2. i \in DOMAIN row[r] => new.status = v.status /\ new.results = v.results /\ new.seen = x
  <2>1. i \in DOMAIN row[r] => row[r][i] \in HostRow
    BY <1>1
  <2> QED BY <2>1 DEF HostRow
<1> HIDE DEF new
<1>3. i \in DOMAIN row[r] => Follows(new)
  BY <1>2 DEF Follows
<1>4. DOMAIN t = DOMAIN row[r] /\ \A j \in DOMAIN row[r] : t[j] = IF j = i THEN new ELSE row[r][j]
  OBVIOUS
<1> HIDE DEF t
<1>5. \A q \in Id : row'[q] = IF q = r THEN t ELSE row[q]
  BY <1>1
<1> SUFFICES ASSUME NEW q \in Id, NEW j \in DOMAIN row'[q] PROVE Follows(row'[q][j])
  BY DEF AllFollow
<1> QED BY <1>3, <1>4, <1>5 DEF AllFollow

\* Every row does, whichever rules are edited meanwhile: a task and a synchronous
\* request judge by the rules they read.
LEMMA FollowStep == TypeInv /\ AllFollow /\ [Next]_vars => AllFollow'
<1> SUFFICES ASSUME TypeInv, AllFollow, [Next]_vars PROVE AllFollow'
  OBVIOUS
<1> USE DEF TypeInv
<1>1. ASSUME UNCHANGED row PROVE AllFollow'
  BY <1>1 DEF AllFollow
<1>2. ASSUME NEW p \in Handler \cup Worker, NEW i, NEW x, NEW R, ~JudgingRaises(x, R),
             proc[p].record \in Id, SetRow(proc[p].record, i, x, Judged(x, R))
      PROVE  AllFollow'
  <2> DEFINE v == Judged(x, R)
  <2>1. \A e \in v.results : /\ x \in DOMAIN Facts /\ e.status = RuleStatus(Facts[x], e.rule)
                             /\ e.status \in Verdict /\ Order[v.status] >= Order[e.status]
    BY <1>2, JudgedFollows
  <2> HIDE DEF v
  <2>2. Follows([status |-> v.status, results |-> v.results, seen |-> x])
    BY <2>1 DEF Follows
  <2> QED BY <1>2, <2>2, SetRowFollows DEF v
<1>3. ASSUME NEW h \in Handler, NEW a \in Asset, NEW x \in Answer[a], SyncHost(h, a, x) PROVE AllFollow'
  <2>1. proc[h].record \in Id
    BY <1>3, SyncHostRules
  <2>2. CASE JudgingRaises(x, proc[h].rules)
    <3> DEFINE v == [status |-> "unknown", results |-> {}]
    <3>1. SetRow(proc[h].record, Min(proc[h].left), x, v)
      BY <1>3, <2>2 DEF SyncHost
    <3>2. Follows([status |-> v.status, results |-> v.results, seen |-> x])
      BY DEF Follows
    <3> HIDE DEF v
    <3> QED BY <2>1, <3>1, <3>2, SetRowFollows
  <2>3. CASE ~JudgingRaises(x, proc[h].rules)
    <3>1. SetRow(proc[h].record, Min(proc[h].left), x, Judged(x, proc[h].rules))
      BY <1>3, <2>3 DEF SyncHost
    <3> QED BY <1>2, <2>1, <2>3, <3>1
  <2> QED BY <2>2, <2>3
<1>4. ASSUME NEW w \in Worker, NEW a \in Asset, NEW x \in Answer[a], Judge(w, a, x) PROVE AllFollow'
  <2>1. proc[w].record \in Id
    BY <1>4, JudgeRules
  <2>2. CASE JudgingRaises(x, proc[w].rules)
    BY <1>1, <1>4, <2>2 DEF Judge
  <2>3. CASE ~JudgingRaises(x, proc[w].rules)
    <3>1. SetRow(proc[w].record, RowOf(w), x, Judged(x, proc[w].rules))
      BY <1>4, <2>3 DEF Judge
    <3> QED BY <1>2, <2>1, <2>3, <3>1
  <2> QED BY <2>2, <2>3
<1>5. ASSUME NEW h \in Handler, InsertRows(h) PROVE AllFollow'
  <2> DEFINE t == [i \in DOMAIN proc[h].list |-> Opened(proc[h].list[i])]
  <2>1. row' = [row EXCEPT ![proc[h].record] = t]
    BY <1>5, RowsInserted
  <2>2. \A i \in DOMAIN t : Follows(t[i])
    BY DEF Opened, Follows
  <2> HIDE DEF t
  <2> QED BY <2>1, <2>2 DEF AllFollow, Tables
<1>6. ASSUME NEW w \in Worker, Begin(w) PROVE AllFollow'
  <2>1. proc[w].record \in Id /\ Reopened(proc[w].record, RowOf(w))
    BY <1>6, BeginReopens
  <2> SUFFICES ASSUME NEW q \in Id, NEW j \in DOMAIN row'[q] PROVE Follows(row'[q][j])
    BY DEF AllFollow
  <2>2. j \in DOMAIN row[q] /\ row[q][j] \in HostRow /\ Follows(row[q][j])
    BY <2>1 DEF Reopened, Tables, AllFollow
  <2>3. row'[q][j] = [row[q][j] EXCEPT !.status = "running"] \/ row'[q][j] = row[q][j]
    BY <2>1, <2>2 DEF Reopened
  <2>4. Follows([row[q][j] EXCEPT !.status = "running"])
    BY <2>2 DEF Follows, HostRow
  <2> QED BY <2>2, <2>3, <2>4
<1>7. ASSUME NEW h \in Handler, \/ \E sync \in BOOLEAN, list \in Lists : Start(h, sync, list)
                                \/ Serve(h) \/ GiveUp(h)
      PROVE  AllFollow'
  BY <1>1, <1>3, <1>5, <1>7 DEF Start, Serve, GiveUp, Seed, InsertRecord, ReadRules, Publish,
                                Recompute, Save, AssetGone, Abandon
<1>8. ASSUME NEW w \in Worker, RunTask(w) \/ Kill(w) PROVE AllFollow'
  BY <1>1, <1>4, <1>6, <1>8 DEF RunTask, Kill, Take, Recompute, Save, Abandon
<1>9. CASE EditStep \/ (\E a \in Asset : DeleteAsset(a)) \/ UNCHANGED vars
  BY <1>1, <1>9, EditsRulesOnly
<1> QED BY <1>7, <1>8, <1>9 DEF Next, EditStep

\* A rule that describes a state of the host alarms exactly when the host was in
\* it, if the probes it reads worked and were legible; and the verdict of the host
\* is never milder (collect_host_facts, evaluate, inspect_host, collect_sync).
THEOREM AlarmsAreRight == Spec => []AlarmsMatchHost
<1>1. Init => AllFollow
  BY DEF Init, AllFollow
<1>2. TypeInv /\ AllFollow => AlarmsMatchHost
  <2> SUFFICES ASSUME TypeInv, AllFollow, NEW r \in Id, NEW i \in DOMAIN row[r], NEW e \in row[r][i].results,
                      Describes(e.rule), row[r][i].seen.conn = "ok",
                      ProbesOf(e.rule.metric) \cap row[r][i].seen.broken = {},
                      Legible(row[r][i].seen, e.rule)
               PROVE  /\ Alarm(row[r][i].seen, e.rule) <=> e.status = e.rule.severity
                      /\ Alarm(row[r][i].seen, e.rule) /\ row[r][i].status \in Verdict
                           => Order[row[r][i].status] >= Order[e.rule.severity]
    BY DEF AlarmsMatchHost
  <2>1. PICK x : x = row[r][i].seen
    OBVIOUS
  <2>2. /\ x \in DOMAIN Facts /\ e.status = RuleStatus(Facts[x], e.rule)
        /\ row[r][i].status = "running" \/ Order[row[r][i].status] >= Order[e.status]
    BY <2>1 DEF AllFollow, Follows
  <2>3. x \in Answered /\ Facts[x] = Collect(x)
    BY <2>2 DEF Facts, Answered
  <2>4. Alarm(x, e.rule) <=> e.status = e.rule.severity
    <3>1. PICK d : d = e.rule
      OBVIOUS
    <3>2. Alarm(x, d) <=> RuleStatus(Collect(x), d) = d.severity
      BY <2>1, <2>3, <3>1, AlarmIsRight
    <3> QED BY <2>2, <2>3, <3>1, <3>2
  <2>5. row[r][i].status \in Verdict => row[r][i].status # "running"
    BY DEF Verdict, Order
  <2> QED BY <2>1, <2>2, <2>4, <2>5
<1> QED BY <1>1, <1>2, FollowStep, TypeInvHolds, PTL DEF Spec

-----------------------------------------------------------------------------
(* The default rules.                                                      *)

\* The unique index on inspection_rule.name.
NamesUnique == \A q, r \in rule : q.def.name = r.def.name => q = r

\* While nobody edits the rules they are the default ones, or those of the
\* beginning; and these are none whenever a request is about to seed.
Seeding ==
  /\ NamesUnique
  /\ edits = 0 => \/ Defs(rule) = Seeds
                  \/ /\ Defs(rule) \in Installed
                     /\ rule = {} \/ \A h \in Handler : ~At(h, "seed")

\* default_rules has no name twice.
LEMMA SeedsDiffer == Seeds # {} /\ \A q, r \in Seeds : q.name = r.name => q = r
<1>1. \A q, r \in DefaultRules : q.name = r.name => q = r
  <2> DEFINE r1 == Rule("disk high", "disk_used_pct", "gt", Number("90", 900), "warning")
             r2 == Rule("disk full", "disk_used_pct", "gt", Number("95", 950), "critical")
             r3 == Rule("inode", "inode_used_pct", "gt", Number("90", 900), "warning")
             r4 == Rule("memory", "memory_used_pct", "gt", Number("90", 900), "warning")
             r5 == Rule("swap", "swap_used_pct", "gt", Number("50", 500), "warning")
             r6 == Rule("load", "load_5", "gt", Number("4", 40), "warning")
             r7 == Rule("service", "service_stopped", "not_contains", Text("nginx"), "critical")
             r8 == Rule("port", "port_not_listening", "not_contains", Number("22", 220), "warning")
  <2>1. DefaultRules = {r1, r2, r3, r4, r5, r6, r7, r8}
    BY DEF DefaultRules
  <2>2. /\ r1.name = "disk high" /\ r2.name = "disk full" /\ r3.name = "inode"
        /\ r4.name = "memory" /\ r5.name = "swap" /\ r6.name = "load"
        /\ r7.name = "service" /\ r8.name = "port"
    BY DEF Rule
  <2> HIDE DEF r1, r2, r3, r4, r5, r6, r7, r8
  <2> QED BY <2>1, <2>2
<1> QED BY <1>1, InspectionAssumption DEF InspectionAssumption

\* Only Start sends a request to seed.
LEMMA LeavesSeed ==
  ASSUME Procs, NEW h \in Handler, Serve(h) \/ GiveUp(h)
  PROVE  proc'[h].at # "seed"
<1>1. proc[h] \in ProcType /\ h \in DOMAIN proc
  BY DEF Procs
<1>2. ASSUME proc' = [proc EXCEPT ![h] = Idle] PROVE proc'[h].at # "seed"
  BY <1>1, <1>2, IdleTyped
<1>3. CASE Seed(h)
  BY <1>1, <1>2, <1>3 DEF Seed, ProcType
<1>4. CASE InsertRecord(h) \/ InsertRows(h) \/ ReadRules(h)
  BY <1>1, <1>4 DEF InsertRecord, InsertRows, ReadRules, ProcType
<1>5. ASSUME NEW i \in proc[h].left, Publish(h, i) PROVE proc'[h].at # "seed"
  BY <1>1, <1>2, <1>5 DEF Publish, At, ProcType
<1>6. ASSUME NEW a \in Asset, NEW x \in Answer[a], SyncHost(h, a, x) PROVE proc'[h].at # "seed"
  BY <1>1, <1>6 DEF SyncHost, At, ProcType
<1>7. CASE Recompute(h)
  BY <1>1, <1>7 DEF Recompute, ProcType
<1>8. CASE Save(h) \/ AssetGone(h) \/ GiveUp(h)
  BY <1>2, <1>8 DEF Save, AssetGone, GiveUp, Abandon
<1> QED BY <1>3, <1>4, <1>5, <1>6, <1>7, <1>8 DEF Serve

\* Seed adds names that are new, and the rule handlers check the name they set.
LEMMA SeedingStep == TypeInv /\ Seeding /\ [Next]_vars => Seeding'
<1> SUFFICES ASSUME TypeInv, Seeding, [Next]_vars PROVE Seeding'
  OBVIOUS
<1>1. Procs /\ Tables /\ Handler \cap Worker = {}
  BY InspectionAssumption DEF TypeInv, InspectionAssumption
<1>2. ASSUME UNCHANGED <<rule, edits>>,
             \A h \in Handler : proc'[h].at = "seed" => proc[h].at = "seed" \/ rule = {}
      PROVE  Seeding'
  BY <1>2 DEF Seeding, NamesUnique, Defs, At
<1>3. ASSUME NEW h \in Handler, Seed(h) PROVE Seeding'
  <2>1. CASE UNCHANGED rule
    <3>1. UNCHANGED edits /\ \A g \in Handler : proc'[g].at = "seed" => proc[g].at = "seed"
      BY <1>1, <1>3 DEF Seed, Procs, At
    <3> QED BY <1>2, <2>1, <3>1
  <2>2. CASE Names(Seeds) \cap Names(Defs(rule)) = {}
    <3> DEFINE n == NextRule
    <3>1. rule' = rule \cup Numbered(Seeds, n) /\ UNCHANGED edits /\ At(h, "seed")
      BY <1>3, <2>2 DEF Seed
    <3> HIDE DEF n
    <3>2. \A q \in Numbered(Seeds, n) : q = [id |-> n, def |-> q.def] /\ q.def \in Seeds
      BY DEF Numbered
    <3>3. \A q \in rule : q.def \in Defs(rule)
      BY DEF Defs
    <3>4. \A q \in Numbered(Seeds, n), r \in rule : q.def.name # r.def.name
      BY <2>2, <3>2, <3>3 DEF Names
    <3>5. \A q, r \in Numbered(Seeds, n) : q.def.name = r.def.name => q = r
      BY <3>2, SeedsDiffer
    <3>6. NamesUnique'
      BY <3>1, <3>4, <3>5 DEF NamesUnique, Seeding
    <3>7. ASSUME edits = 0 PROVE Defs(rule') = Seeds
      <4>1. Defs(rule) # Seeds
        BY <2>2, SeedsDiffer DEF Names
      <4>2. rule = {}
        BY <3>1, <3>7, <4>1 DEF Seeding
      <4>3. \A d \in Seeds : [id |-> n, def |-> d] \in rule'
        BY <3>1 DEF Numbered
      <4>4. \A d \in Seeds : d \in Defs(rule')
        <5> SUFFICES ASSUME NEW d \in Seeds PROVE d \in Defs(rule')
          OBVIOUS
        <5>1. \E e \in rule' : e.def = d
          BY <4>3
        <5> QED BY <5>1 DEF Defs
      <4>5. \A d \in Defs(rule') : d \in Seeds
        BY <3>1, <3>2, <4>2 DEF Defs
      <4> QED BY <4>4, <4>5
    <3> QED BY <3>1, <3>6, <3>7 DEF Seeding
  <2> QED BY <1>3, <2>1, <2>2 DEF Seed
<1>4. ASSUME NEW S, Edit(S), \A q, r \in S : q.def.name = r.def.name => q = r PROVE Seeding'
  <2>1. edits' # 0
    BY <1>1, <1>4 DEF Edit, Tables
  <2> QED BY <1>4, <2>1 DEF Edit, Seeding, NamesUnique
<1>5. ASSUME NEW p \in Payload, CreateRule(p) PROVE Seeding'
  <2> DEFINE n == NextRule
             S == rule \cup Numbered({p}, n)
  <2>1. Edit(S) /\ p.name \notin Names(Defs(rule))
    BY <1>5 DEF CreateRule
  <2> HIDE DEF n
  <2>2. \A q, r \in S : q.def.name = r.def.name => q = r
    BY <2>1 DEF Seeding, NamesUnique, Numbered, Names, Defs
  <2> QED BY <1>4, <2>1, <2>2
<1>6. ASSUME NEW p \in Payload, NEW r \in rule, UpdateRule(r, p) PROVE Seeding'
  <2> DEFINE S == (rule \ {r}) \cup Numbered({p}, r.id)
  <2>1. Edit(S) /\ p.name \notin Names(Defs(rule \ {r}))
    BY <1>6 DEF UpdateRule
  <2>2. \A q, s \in S : q.def.name = s.def.name => q = s
    BY <2>1 DEF Seeding, NamesUnique, Numbered, Names, Defs
  <2> QED BY <1>4, <2>1, <2>2
<1>7. ASSUME NEW r \in rule, DeleteRule(r) PROVE Seeding'
  BY <1>4, <1>7 DEF DeleteRule, Seeding, NamesUnique
<1>8. ASSUME NEW h \in Handler, NEW sync \in BOOLEAN, NEW list \in Lists, Start(h, sync, list)
      PROVE  Seeding'
  <2>1. /\ UNCHANGED <<rule, edits>>
        /\ proc'[h].at = IF rule = {} THEN "seed" ELSE "insert"
        /\ \A g \in Handler : g # h => proc'[g] = proc[g]
    BY <1>1, <1>8 DEF Start, Procs, Idle
  <2> QED BY <1>2, <2>1
<1>9. ASSUME NEW h \in Handler, Serve(h) \/ GiveUp(h), ~Seed(h) PROVE Seeding'
  <2>1. UNCHANGED <<rule, edits>>
    BY <1>9 DEF Serve, GiveUp, InsertRecord, InsertRows, ReadRules, Publish, SyncHost, Recompute,
                Save, AssetGone, Abandon
  <2>2. proc'[h].at # "seed"
    BY <1>9, LeavesSeed DEF TypeInv
  <2>3. \A g \in Handler : g # h => proc'[g] = proc[g]
    BY <1>1, <1>9, OtherProcs
  <2> QED BY <1>2, <2>1, <2>2, <2>3
<1>10. ASSUME NEW w \in Worker, RunTask(w) \/ Kill(w) PROVE Seeding'
  <2>1. UNCHANGED <<rule, edits>>
    BY <1>10 DEF RunTask, Kill, Take, Begin, Judge, Recompute, Save, Abandon
  <2>2. \A g \in Handler : proc'[g] = proc[g]
    BY <1>1, <1>10, OtherProcs
  <2> QED BY <1>2, <2>1, <2>2
<1>11. CASE (\E a \in Asset : DeleteAsset(a)) \/ UNCHANGED vars
  BY <1>2, <1>11 DEF DeleteAsset, vars
<1> QED BY <1>3, <1>5, <1>6, <1>7, <1>8, <1>9, <1>10, <1>11 DEF Next

\* It holds in every behaviour: the first rules have unique names.
LEMMA SeedingHolds == Spec => []Seeding
<1>1. Init => Seeding
  <2> SUFFICES ASSUME Init PROVE Seeding
    OBVIOUS
  <2>1. PICK S \in Installed : rule = Numbered(S, 1)
    BY DEF Init
  <2>2. \A q \in rule : q = [id |-> 1, def |-> q.def] /\ q.def \in S
    BY <2>1 DEF Numbered
  <2>3. \A q, r \in S : q.name = r.name => q = r
    BY InspectionAssumption DEF InspectionAssumption
  <2>4. NamesUnique
    BY <2>2, <2>3 DEF NamesUnique
  <2>5. \A d \in S : [id |-> 1, def |-> d] \in rule
    BY <2>1 DEF Numbered
  <2>6. \A d \in S : d \in Defs(rule)
    <3> SUFFICES ASSUME NEW d \in S PROVE d \in Defs(rule)
      OBVIOUS
    <3>1. \E e \in rule : e.def = d
      BY <2>5
    <3> QED BY <3>1 DEF Defs
  <2>7. \A d \in Defs(rule) : d \in S
    BY <2>2 DEF Defs
  <2>8. Defs(rule) = S
    BY <2>6, <2>7
  <2>9. \A h \in Handler : ~At(h, "seed")
    BY IdleTyped DEF Init, At
  <2> QED BY <2>4, <2>8, <2>9 DEF Seeding
<1> QED BY <1>1, SeedingStep, TypeInvHolds, PTL DEF Spec

\* Of two first inspections that both find no rule one leaves all the default
\* rules behind, and the other nothing; and a name is never given twice,
\* whatever requests to the rule handlers come between.
THEOREM RulesAreSeededOnce == Spec => []SeededOnce
<1>1. Seeding => SeededOnce
  BY DEF Seeding, NamesUnique, SeededOnce
<1> QED BY <1>1, SeedingHolds, PTL
-----------------------------------------------------------------------------
(* The ledger.                                                             *)

\* The assets of a request differ.  _validate_asset_ids does not check it; without
\* it two tasks judge one row.
Distinct == \A list \in Lists : \A i, j \in DOMAIN list : list[i] = list[j] => i = j

\* So do the hosts of a record.
HostsDiffer == /\ Distinct
               /\ \A r \in Id : \A i, j \in DOMAIN row[r] :
                    row[r][i].asset = row[r][j].asset => i = j

\* A host is to be judged by whoever holds its message: the request that has
\* not sent it yet or judges itself, the queue, or the task that took it.
Msg(r, a) == [record |-> r, asset |-> a]
Held(x)   == IF x.at \in {"dispatch", "rules", "sync"}
             THEN {Msg(x.record, x.list[i]) : i \in x.left}
             ELSE IF x.at \in {"begin", "judge"} THEN {Msg(x.record, x.asset)} ELSE {}

IsOpen(m) == \E i \in DOMAIN row[m.record] :
               row[m.record][i].asset = m.asset /\ row[m.record][i].status = "running"

\* Whoever holds a message holds it alone, ...
Tokens ==
  /\ \A m \in BagToSet(queue) : queue[m] = 1
  /\ \A p \in Handler \cup Worker : Held(proc[p]) \cap BagToSet(queue) = {}
  /\ \A p, q \in Handler \cup Worker : p # q => Held(proc[p]) \cap Held(proc[q]) = {}

\* ... and its host is open.
Backed ==
  /\ \A m \in BagToSet(queue) : IsOpen(m)
  /\ \A p \in Handler \cup Worker : \A m \in Held(proc[p]) : IsOpen(m)

\* The record has hosts and all of them are judged.
IsOver(r) == row[r] # << >> /\ \A i \in DOMAIN row[r] : row[r][i].status # "running"

\* The update that a request or a task is about to commit.
Concluding(p, r) ==
  proc[p].at \in {"judge", "save"} /\ proc[p].record = r /\ "status" \in DOMAIN proc[p].update
    => proc[p].update["status"] = "done" /\ IsOver(r)

\* A record says "done", or is about to be told so, when all of its hosts are
\* judged.
Verdicts ==
  /\ \A r \in Id : record[r].status = "absent" <=> r > lastId
  /\ \A r \in Id : record[r].status = "done" => IsOver(r)
  /\ \A p \in Handler \cup Worker, r \in Id : Concluding(p, r)

\* The inductive invariant.
InspectInv == TypeInv /\ HostsDiffer /\ Tokens /\ Backed /\ Verdicts

\* Rows are those of a request's list, and keep their hosts.
LEMMA HostsDifferStep == TypeInv /\ HostsDiffer /\ [Next]_vars => HostsDiffer'
<1> SUFFICES ASSUME TypeInv, HostsDiffer, [Next]_vars PROVE HostsDiffer'
  OBVIOUS
<1>1. CASE SameHosts
  BY <1>1 DEF HostsDiffer, SameHosts
<1>2. ASSUME NEW h \in Handler, InsertRows(h) PROVE HostsDiffer'
  <2> DEFINE t == [i \in DOMAIN proc[h].list |-> Opened(proc[h].list[i])]
  <2>1. row' = [row EXCEPT ![proc[h].record] = t]
    BY <1>2, RowsInserted
  <2>2. \A i \in DOMAIN t : t[i].asset = proc[h].list[i]
    BY DEF Opened
  <2>3. \A i, j \in DOMAIN t : proc[h].list[i] = proc[h].list[j] => i = j
    <3>1. proc[h].list \in Lists
      BY <1>2, RowsInserted DEF TypeInv, Callers, Calling, At
    <3> QED BY <3>1 DEF HostsDiffer, Distinct
  <2> HIDE DEF t
  <2> QED BY <2>1, <2>2, <2>3 DEF HostsDiffer, TypeInv, Tables
<1> QED BY <1>1, <1>2, HostsKept

\* Nothing but InsertRows opens a row, and only who holds its message
\* judges it.
Moves(p) ==
  /\ \A q \in (Handler \cup Worker) \ {p} : proc'[q] = proc[q]
  /\ \/ /\ Held(proc'[p]) \subseteq Held(proc[p])
        /\ UNCHANGED <<row, queue>>
     \/ /\ p \in Handler /\ InsertRows(p)
     \/ \E m \in Held(proc[p]) :
          /\ Held(proc'[p]) \subseteq Held(proc[p]) \ {m}
          /\ queue' = queue (+) SetToBag({m})
          /\ UNCHANGED row
     \/ \E m \in BagToSet(queue) :
          /\ Held(proc'[p]) \subseteq {m}
          /\ queue' = queue (-) SetToBag({m})
          /\ UNCHANGED row
     \/ \E v : \E m \in Held(proc[p]) : \E i \in DOMAIN row[m.record] :
          /\ m.record \in Id /\ row[m.record][i].asset = m.asset
          /\ row[m.record][i].status = "running"
          /\ Held(proc'[p]) \subseteq Held(proc[p]) \ {m}
          /\ v.status \in Verdict /\ Ruled(m.record, i, v)
          /\ UNCHANGED queue

\* The row that a task finds is the one of its message.
LEMMA RowFound ==
  ASSUME TypeInv, HostsDiffer, Backed, NEW w \in Worker, At(w, "begin") \/ At(w, "judge")
  PROVE  LET m == Msg(proc[w].record, proc[w].asset)
         IN /\ m \in Held(proc[w]) /\ m.record = proc[w].record /\ m.asset = proc[w].asset
            /\ m.record \in Id /\ RowOf(w) \in DOMAIN row[m.record]
            /\ row[m.record][RowOf(w)].asset = m.asset
            /\ row[m.record][RowOf(w)].status = "running"
<1> DEFINE r == proc[w].record
           m == Msg(r, proc[w].asset)
<1>1. m \in Held(proc[w]) /\ m.record = r /\ m.asset = proc[w].asset
  BY DEF Held, At, Msg
<1>2. r \in Id
  BY DEF TypeInv, Procs, At
<1>3. IsOpen(m)
  BY <1>1 DEF Backed
<1>4. PICK i \in DOMAIN row[r] : row[r][i].asset = proc[w].asset /\ row[r][i].status = "running"
  BY <1>1, <1>3 DEF IsOpen
<1>5. RowOf(w) \in DOMAIN row[r] /\ row[r][RowOf(w)].asset = proc[w].asset
  BY <1>4 DEF RowOf
<1>6. RowOf(w) = i
  BY <1>2, <1>4, <1>5 DEF HostsDiffer
<1> HIDE DEF m, r
<1> QED BY <1>1, <1>2, <1>4, <1>5, <1>6 DEF m, r

\* So the row says "running" already when the task says it.
LEMMA BeginStutters ==
  ASSUME TypeInv, HostsDiffer, Backed, NEW w \in Worker, Begin(w)
  PROVE  row' = row
<1> DEFINE r == proc[w].record
           i == RowOf(w)
<1>1. r \in Id /\ Reopened(r, i) /\ At(w, "begin")
  BY BeginReopens
<1>2. i \in DOMAIN row[r] /\ row[r][i].status = "running"
  BY <1>1, RowFound
<1> HIDE DEF r, i
<1>3. row \in [Id -> Seq(HostRow)] /\ row' \in [Id -> Seq(HostRow)]
  BY <1>1 DEF TypeInv, Tables, Reopened
<1>4. row[r][i] \in HostRow
  BY <1>1, <1>2, <1>3
<1>5. [row[r][i] EXCEPT !.status = "running"] = row[r][i]
  BY <1>2, <1>4 DEF HostRow
<1>6. \A j \in DOMAIN row[r] : row'[r][j] = row[r][j]
  BY <1>1, <1>5 DEF Reopened
<1>7. row[r] \in Seq(HostRow) /\ row'[r] \in Seq(HostRow) /\ DOMAIN row'[r] = DOMAIN row[r]
  BY <1>1, <1>3 DEF Reopened
<1>8. row'[r] = row[r]
  BY <1>6, <1>7
<1>9. \A q \in Id : row'[q] = row[q]
  BY <1>1, <1>8 DEF Reopened
<1> QED BY <1>3, <1>9

\* The messages of one request are as many as the hosts it has left.
LEMMA HeldApart ==
  ASSUME TypeInv, Distinct, NEW h \in Handler, proc[h].at \in {"dispatch", "rules", "sync"},
         NEW i \in proc[h].left
  PROVE  LET m == Msg(proc[h].record, proc[h].list[i])
         IN /\ m \in Held(proc[h]) /\ m.record = proc[h].record /\ m.asset = proc[h].list[i]
            /\ i \in DOMAIN proc[h].list
            /\ {Msg(proc[h].record, proc[h].list[j]) : j \in proc[h].left \ {i}}
                 \subseteq Held(proc[h]) \ {m}
<1> DEFINE l == proc[h].list
           r == proc[h].record
           m == Msg(r, l[i])
<1>1. l \in Lists /\ proc[h].left \subseteq DOMAIN l
  BY DEF TypeInv, Callers, Calling
<1>2. \A j, k \in DOMAIN l : l[j] = l[k] => j = k
  BY <1>1 DEF Distinct
<1>3. Held(proc[h]) = {Msg(r, l[j]) : j \in proc[h].left}
  BY DEF Held
<1>4. \A j \in proc[h].left \ {i} : Msg(r, l[j]) # m
  <2>1. \A j \in proc[h].left : Msg(r, l[j]).asset = l[j]
    BY DEF Msg
  <2> QED BY <1>1, <1>2, <2>1
<1>5. m.record = r /\ m.asset = l[i]
  BY DEF Msg
<1> HIDE DEF l, r
<1>6. {Msg(r, l[j]) : j \in proc[h].left \ {i}} \subseteq Held(proc[h]) \ {m}
  BY <1>3, <1>4
<1>7. m \in Held(proc[h])
  BY <1>3
<1> QED BY <1>1, <1>5, <1>6, <1>7 DEF l, r

\* Every step that touches the rows or the messages is such a move.
LEMMA StepMoves ==
  TypeInv /\ HostsDiffer /\ Backed /\ [Next]_vars =>
    \/ UNCHANGED <<row, queue, proc>>
    \/ \E p \in Handler \cup Worker : Moves(p)
<1> SUFFICES ASSUME TypeInv, HostsDiffer, Backed, [Next]_vars,
                    ~ UNCHANGED <<row, queue, proc>>
             PROVE  \E p \in Handler \cup Worker : Moves(p)
  OBVIOUS
<1>1. /\ Procs /\ Tables /\ Callers /\ Handler \cap Worker = {}
      /\ \A p \in Handler \cup Worker : proc[p] \in ProcType /\ p \in DOMAIN proc
  BY InspectionAssumption DEF TypeInv, Procs, InspectionAssumption
<1>2. ASSUME NEW h \in Handler, \/ \E sync \in BOOLEAN, list \in Lists : Start(h, sync, list)
                                \/ Serve(h) \/ GiveUp(h)
      PROVE  Moves(h)
  <2>1. \A q \in (Handler \cup Worker) \ {h} : proc'[q] = proc[q]
    BY <1>1, <1>2, OtherProcs
  <2>2. ASSUME proc' = [proc EXCEPT ![h] = Idle], UNCHANGED <<row, queue>> PROVE Moves(h)
    <3>1. Held(proc'[h]) = {}
      BY <1>1, <2>2, IdleTyped DEF Held
    <3> QED BY <2>1, <2>2, <3>1 DEF Moves
  <2>3. ASSUME NEW sync \in BOOLEAN, NEW list \in Lists, Start(h, sync, list) PROVE Moves(h)
    <3>1. proc'[h].at \in {"seed", "insert"} /\ UNCHANGED <<row, queue>>
      BY <1>1, <2>3 DEF Start, Idle
    <3>2. Held(proc'[h]) = {}
      BY <3>1 DEF Held
    <3> QED BY <2>1, <3>1, <3>2 DEF Moves
  <2>4. CASE Seed(h)
    <3>1. CASE proc' = [proc EXCEPT ![h] = Idle]
      BY <2>2, <2>4, <3>1 DEF Seed
    <3>2. CASE proc' = [proc EXCEPT ![h].at = "reread"]
      <4>1. proc'[h].at = "reread" /\ UNCHANGED <<row, queue>>
        BY <1>1, <2>4, <3>2 DEF Seed, ProcType
      <4>2. Held(proc'[h]) = {}
        BY <4>1 DEF Held
      <4> QED BY <2>1, <4>1, <4>2 DEF Moves
    <3> QED BY <2>4, <3>1, <3>2 DEF Seed
  <2>5. CASE InsertRecord(h)
    <3>1. proc'[h].at = "rows" /\ UNCHANGED <<row, queue>>
      BY <1>1, <2>5 DEF InsertRecord, ProcType
    <3>2. Held(proc'[h]) = {}
      BY <3>1 DEF Held
    <3> QED BY <2>1, <3>1, <3>2 DEF Moves
  <2>6. CASE InsertRows(h)
    BY <2>1, <2>6 DEF Moves
  <2>7. CASE ReadRules(h)
    <3>1. /\ proc[h].at = "rules" /\ proc'[h].at = "sync" /\ proc'[h].record = proc[h].record
          /\ proc'[h].list = proc[h].list /\ proc'[h].left = proc[h].left
          /\ UNCHANGED <<row, queue>>
      BY <1>1, <2>7 DEF ReadRules, ProcType, At
    <3>2. Held(proc'[h]) = Held(proc[h])
      BY <3>1 DEF Held
    <3> QED BY <2>1, <3>1, <3>2 DEF Moves
  <2>8. ASSUME NEW i \in proc[h].left, Publish(h, i) PROVE Moves(h)
    <3> DEFINE m == Msg(proc[h].record, proc[h].list[i])
    <3>1. queue' = queue (+) SetToBag({m}) /\ UNCHANGED row /\ proc[h].at = "dispatch"
      BY <2>8 DEF Publish, Msg, At
    <3>2. /\ m \in Held(proc[h])
          /\ {Msg(proc[h].record, proc[h].list[j]) : j \in proc[h].left \ {i}}
               \subseteq Held(proc[h]) \ {m}
      BY <2>8, <3>1, HeldApart DEF HostsDiffer
    <3>3. Held(proc'[h]) \subseteq Held(proc[h]) \ {m}
      <4>1. CASE proc[h].left = {i}
        <5>1. Held(proc'[h]) = {}
          BY <1>1, <2>8, <4>1, IdleTyped DEF Publish, Held
        <5> QED BY <5>1
      <4>2. CASE proc[h].left # {i}
        <5>1. /\ proc'[h].at = "dispatch" /\ proc'[h].record = proc[h].record
              /\ proc'[h].list = proc[h].list /\ proc'[h].left = proc[h].left \ {i}
          BY <1>1, <2>8, <3>1, <4>2 DEF Publish, ProcType
        <5>2. Held(proc'[h]) = {Msg(proc[h].record, proc[h].list[j]) : j \in proc[h].left \ {i}}
          BY <5>1 DEF Held
        <5> HIDE DEF m
        <5> QED BY <3>2, <5>2
      <4> QED BY <4>1, <4>2
    <3> HIDE DEF m
    <3> QED BY <2>1, <3>1, <3>2, <3>3 DEF Moves
  <2>9. ASSUME NEW a \in Asset, NEW x \in Answer[a], SyncHost(h, a, x) PROVE Moves(h)
    <3> DEFINE i == Min(proc[h].left)
               m == Msg(proc[h].record, proc[h].list[i])
    <3>1. proc[h].at = "sync" /\ proc[h].record \in Id
      BY <2>9, SyncHostRules DEF At
    <3>2. PICK v : Basis(v) /\ Ruled(proc[h].record, i, v)
      BY <2>9, SyncHostRules
    <3>3. i \in proc[h].left
      <4>1. /\ proc[h].left \subseteq DOMAIN proc[h].list /\ proc[h].left # {}
            /\ proc[h].list \in Seq(Asset)
        BY <1>1, <3>1 DEF Callers, Calling, ProcType
      <4>2. Len(proc[h].list) \in Nat /\ DOMAIN proc[h].list = 1 .. Len(proc[h].list)
        BY <4>1
      <4>3. IsFiniteSet(DOMAIN proc[h].list) /\ DOMAIN proc[h].list \subseteq Nat
        BY <4>2, FS_Interval
      <4>4. IsFiniteSet(proc[h].left) /\ proc[h].left \in SUBSET Nat
        BY <4>1, <4>3, FS_Subset
      <4> QED BY <4>1, <4>4, LeastIsLeft
    <3>4. /\ m \in Held(proc[h]) /\ m.record = proc[h].record /\ m.asset = proc[h].list[i]
          /\ i \in DOMAIN proc[h].list
          /\ {Msg(proc[h].record, proc[h].list[j]) : j \in proc[h].left \ {i}}
               \subseteq Held(proc[h]) \ {m}
      <4> HIDE DEF i
      <4> QED BY <3>1, <3>3, HeldApart DEF HostsDiffer
    <3>5. i \in DOMAIN row[m.record] /\ row[m.record][i].asset = m.asset
      BY <1>1, <3>1, <3>4 DEF Callers, Calling
    <3>6. row[m.record][i].status = "running"
      <4>1. PICK j \in DOMAIN row[m.record] :
              row[m.record][j].asset = m.asset /\ row[m.record][j].status = "running"
        BY <3>4 DEF Backed, IsOpen
      <4> QED BY <3>1, <3>4, <3>5, <4>1 DEF HostsDiffer
    <3>7. Held(proc'[h]) \subseteq Held(proc[h]) \ {m}
      <4>1. /\ proc'[h].record = proc[h].record
            /\ proc'[h].list = proc[h].list /\ proc'[h].left = proc[h].left \ {i}
            /\ proc'[h].at \in {"aggregate", "sync"}
        BY <1>1, <2>9 DEF SyncHost, ProcType, At
      <4>2. Held(proc'[h]) \subseteq {Msg(proc[h].record, proc[h].list[j]) : j \in proc[h].left \ {i}}
        <5> HIDE DEF i
        <5> QED BY <4>1 DEF Held
      <4> HIDE DEF m, i
      <4> QED BY <3>4, <4>2
    <3>8. UNCHANGED queue
      BY <2>9 DEF SyncHost
    <3> HIDE DEF m, i
    <3> QED BY <2>1, <3>1, <3>2, <3>4, <3>5, <3>6, <3>7, <3>8 DEF Moves, Basis
  <2>10. CASE Recompute(h)
    <3>1. proc'[h].at = "save" /\ UNCHANGED <<row, queue>>
      BY <1>1, <2>10 DEF Recompute, ProcType
    <3>2. Held(proc'[h]) = {}
      BY <3>1 DEF Held
    <3> QED BY <2>1, <3>1, <3>2 DEF Moves
  <2>11. CASE Save(h) \/ AssetGone(h) \/ GiveUp(h)
    BY <2>2, <2>11 DEF Save, AssetGone, GiveUp, Abandon
  <2> QED BY <1>2, <2>3, <2>4, <2>5, <2>6, <2>7, <2>8, <2>9, <2>10, <2>11 DEF Serve
<1>3. ASSUME NEW w \in Worker, RunTask(w) \/ Kill(w) PROVE Moves(w)
  <2>1. \A q \in (Handler \cup Worker) \ {w} : proc'[q] = proc[q]
    BY <1>1, <1>3, OtherProcs
  <2>2. ASSUME NEW m \in BagToSet(queue), Take(w, m) PROVE Moves(w)
    <3>1. m \in Message /\ m = Msg(m.record, m.asset)
      BY <1>1 DEF Tables, Message, Msg
    <3>2. Held(proc'[w]) \subseteq {m}
      <4>1. CASE proc' = [proc EXCEPT ![w] = Idle]
        BY <1>1, <4>1, IdleTyped DEF Held
      <4>2. CASE proc' = [proc EXCEPT ![w] = [Idle EXCEPT !.at = "begin", !.record = m.record,
                                                          !.asset = m.asset]]
        <5>1. proc'[w].at = "begin" /\ proc'[w].record = m.record /\ proc'[w].asset = m.asset
          BY <1>1, <4>2 DEF Idle
        <5> QED BY <3>1, <5>1 DEF Held
      <4> QED BY <2>2, <4>1, <4>2 DEF Take
    <3> QED BY <2>1, <2>2, <3>2 DEF Moves, Take
  <2>3. CASE Begin(w)
    <3>1. row' = row /\ UNCHANGED queue /\ proc[w].at = "begin"
      BY <2>3, BeginStutters DEF Begin, At
    <3>2. proc'[w].at = "judge" /\ proc'[w].record = proc[w].record /\ proc'[w].asset = proc[w].asset
      BY <1>1, <2>3 DEF Begin, ProcType
    <3>3. Held(proc'[w]) = Held(proc[w])
      BY <3>1, <3>2 DEF Held
    <3> QED BY <2>1, <3>1, <3>3 DEF Moves
  <2>4. ASSUME NEW a \in Asset, NEW x \in Answer[a], Judge(w, a, x) PROVE Moves(w)
    <3>1. proc'[w].at \in {"save", "aggregate"} /\ UNCHANGED queue
      BY <1>1, <2>4 DEF Judge, ProcType
    <3>2. Held(proc'[w]) = {}
      BY <3>1 DEF Held
    <3>3. CASE UNCHANGED row
      BY <2>1, <3>1, <3>2, <3>3 DEF Moves
    <3>4. ASSUME NEW v, Basis(v), Ruled(proc[w].record, RowOf(w), v) PROVE Moves(w)
      <4> DEFINE m == Msg(proc[w].record, proc[w].asset)
      <4>1. At(w, "judge")
        BY <2>4 DEF Judge
      <4>2. /\ m \in Held(proc[w]) /\ m.record = proc[w].record /\ m.asset = proc[w].asset
            /\ m.record \in Id /\ RowOf(w) \in DOMAIN row[m.record]
            /\ row[m.record][RowOf(w)].asset = m.asset
            /\ row[m.record][RowOf(w)].status = "running"
        BY <4>1, RowFound
      <4> HIDE DEF m
      <4>3. v.status \in Verdict /\ Ruled(m.record, RowOf(w), v)
        BY <3>4, <4>2 DEF Basis
      <4> QED BY <2>1, <3>1, <3>2, <4>2, <4>3 DEF Moves
    <3> QED BY <2>4, <3>3, <3>4, JudgeRules
  <2>5. CASE Recompute(w)
    <3>1. proc'[w].at = "save" /\ UNCHANGED <<row, queue>>
      BY <1>1, <2>5 DEF Recompute, ProcType
    <3>2. Held(proc'[w]) = {}
      BY <3>1 DEF Held
    <3> QED BY <2>1, <3>1, <3>2 DEF Moves
  <2>6. CASE Save(w) \/ Kill(w)
    <3>1. Held(proc'[w]) = {}
      BY <1>1, <2>6, IdleTyped DEF Save, Kill, Abandon, Held
    <3> QED BY <2>1, <2>6, <3>1 DEF Moves, Save, Kill, Abandon
  <2> QED BY <1>3, <2>2, <2>3, <2>4, <2>5, <2>6 DEF RunTask
<1>4. ~(EditStep \/ (\E a \in Asset : DeleteAsset(a)) \/ UNCHANGED vars)
  BY EditsRulesOnly
<1> QED BY <1>2, <1>3, <1>4 DEF Next, EditStep

\* The messages that are held name a record.
LEMMA HeldRecords ==
  ASSUME TypeInv, NEW p \in Handler \cup Worker, NEW m \in Held(proc[p])
  PROVE  m.record \in Id
<1>1. m.record = proc[p].record /\ proc[p].at \in {"dispatch", "rules", "sync", "begin", "judge"}
  BY DEF Held, Msg
<1>2. CASE p \in Handler
  BY <1>1, <1>2 DEF TypeInv, Procs, Callers, Calling, HandlerStep
<1>3. CASE p \in Worker
  BY <1>1, <1>3 DEF TypeInv, Procs
<1> QED BY <1>2, <1>3

\* Messages are told apart by their record and their host.
LEMMA HeldIsMsg ==
  ASSUME TypeInv
  PROVE  /\ \A p \in Handler \cup Worker : \A m \in Held(proc[p]) : m = Msg(m.record, m.asset)
         /\ \A m \in BagToSet(queue) : m = Msg(m.record, m.asset) /\ m.record \in Id
<1>1. \A p \in Handler \cup Worker : \A m \in Held(proc[p]) : m = Msg(m.record, m.asset)
  BY DEF Held, Msg
<1>2. \A m \in BagToSet(queue) : m \in Message
  BY DEF TypeInv, Tables
<1> QED BY <1>1, <1>2 DEF Message, Msg

\* What the request that opens its rows holds from then on.
LEMMA OpenedIsFresh ==
  ASSUME TypeInv, Backed, NEW h \in Handler, InsertRows(h)
  PROVE  /\ \A m \in Held(proc'[h]) : /\ m.record = proc[h].record
                                      /\ row'[m.record] # << >> /\ IsOpen(m)'
         /\ \A q \in (Handler \cup Worker) \ {h} : \A m \in Held(proc[q]) : m.record # proc[h].record
         /\ \A m \in BagToSet(queue) : m.record # proc[h].record
         /\ \A r \in Id \ {proc[h].record} : row'[r] = row[r]
         /\ row[proc[h].record] = << >> /\ proc[h].record \in Id
<1> DEFINE t == [i \in DOMAIN proc[h].list |-> Opened(proc[h].list[i])]
           r == proc[h].record
<1>1. /\ r \in Id /\ row[r] = << >> /\ row' = [row EXCEPT ![r] = t]
      /\ proc'[h].list = proc[h].list /\ proc'[h].record = r
      /\ proc'[h].left = DOMAIN proc[h].list /\ proc'[h].at \in {"rules", "dispatch"}
  BY RowsInserted
<1>2. \A i \in DOMAIN t : t[i].asset = proc[h].list[i] /\ t[i].status = "running"
  BY DEF Opened
<1>3. DOMAIN t = DOMAIN proc[h].list
  OBVIOUS
<1> HIDE DEF t, r
<1>4. row'[r] = t /\ \A q \in Id \ {r} : row'[q] = row[q]
  BY <1>1 DEF TypeInv, Tables
<1>5. ASSUME NEW m \in Held(proc'[h]) PROVE m.record = r /\ row'[m.record] # << >> /\ IsOpen(m)'
  <2>1. PICK i \in DOMAIN proc[h].list : m = Msg(r, proc[h].list[i])
    BY <1>1, <1>5 DEF Held
  <2>2. m.record = r /\ m.asset = proc[h].list[i]
    BY <2>1 DEF Msg
  <2>3. i \in DOMAIN row'[r] /\ row'[r][i].asset = m.asset /\ row'[r][i].status = "running"
    BY <1>2, <1>3, <1>4, <2>2
  <2> QED BY <2>2, <2>3 DEF IsOpen
<1>6. \A m : IsOpen(m) => m.record # r
  BY <1>1 DEF IsOpen
<1> QED BY <1>1, <1>4, <1>5, <1>6 DEF Backed, r

\* A move takes the message along, and what InsertRows adds is new.
LEMMA TokensStep ==
  TypeInv /\ HostsDiffer /\ Tokens /\ Backed /\ [Next]_vars => Tokens'
<1> SUFFICES ASSUME TypeInv, HostsDiffer, Tokens, Backed, [Next]_vars PROVE Tokens'
  OBVIOUS
<1>1. CASE UNCHANGED <<row, queue, proc>>
  BY <1>1 DEF Tokens
<1>2. ASSUME NEW p \in Handler \cup Worker, Moves(p) PROVE Tokens'
  <2>1. \A q \in (Handler \cup Worker) \ {p} : Held(proc'[q]) = Held(proc[q])
    BY <1>2 DEF Moves
  <2>2. IsABag(queue)
    BY DEF TypeInv, Tables
  <2>3. CASE Held(proc'[p]) \subseteq Held(proc[p]) /\ UNCHANGED queue
    BY <2>1, <2>3 DEF Tokens
  <2>4. CASE p \in Handler /\ InsertRows(p)
    <3>1. UNCHANGED queue
      BY <2>4 DEF InsertRows
    <3>2. Held(proc'[p]) \cap BagToSet(queue) = {}
      BY <2>4, OpenedIsFresh
    <3>3. \A q \in (Handler \cup Worker) \ {p} : Held(proc'[p]) \cap Held(proc[q]) = {}
      BY <2>4, OpenedIsFresh
    <3> QED BY <2>1, <3>1, <3>2, <3>3 DEF Tokens
  <2>5. ASSUME NEW m \in Held(proc[p]), Held(proc'[p]) \subseteq Held(proc[p]) \ {m},
               queue' = queue (+) SetToBag({m})
        PROVE  Tokens'
    <3>1. m \notin BagToSet(queue) /\ \A q \in (Handler \cup Worker) \ {p} : m \notin Held(proc[q])
      BY DEF Tokens
    <3>2. /\ BagToSet(queue') = BagToSet(queue) \cup {m} /\ queue'[m] = 1
          /\ \A n \in BagToSet(queue) : queue'[n] = queue[n]
      BY <2>2, <2>5, <3>1, BagAdded
    <3>3. \A n \in BagToSet(queue') : queue'[n] = 1
      BY <3>2 DEF Tokens
    <3> QED BY <2>1, <2>5, <3>1, <3>2, <3>3 DEF Tokens
  <2>6. ASSUME NEW m \in BagToSet(queue), Held(proc'[p]) \subseteq {m},
               queue' = queue (-) SetToBag({m})
        PROVE  Tokens'
    <3>1. \A q \in Handler \cup Worker : m \notin Held(proc[q])
      BY DEF Tokens
    <3>2. queue[m] = 1
      BY DEF Tokens
    <3>3. /\ BagToSet(queue') = BagToSet(queue) \ {m}
          /\ \A n \in BagToSet(queue') : queue'[n] = queue[n]
      BY <2>2, <2>6, <3>2, BagTaken
    <3>4. \A n \in BagToSet(queue') : queue'[n] = 1
      BY <3>3 DEF Tokens
    <3>5. \A q \in Handler \cup Worker : Held(proc'[q]) \cap BagToSet(queue') = {}
      BY <2>1, <2>6, <3>3 DEF Tokens
    <3>6. \A q, s \in Handler \cup Worker : q # s => Held(proc'[q]) \cap Held(proc'[s]) = {}
      BY <2>1, <2>6, <3>1 DEF Tokens
    <3> QED BY <3>4, <3>5, <3>6 DEF Tokens
  <2> QED BY <1>2, <2>3, <2>4, <2>5, <2>6 DEF Moves
<1> QED BY <1>1, <1>2, StepMoves

\* Who judges a host gives its message up.
LEMMA BackedStep ==
  TypeInv /\ HostsDiffer /\ Tokens /\ Backed /\ [Next]_vars => Backed'
<1> SUFFICES ASSUME TypeInv, HostsDiffer, Tokens, Backed, [Next]_vars PROVE Backed'
  OBVIOUS
<1>1. CASE UNCHANGED <<row, queue, proc>>
  BY <1>1 DEF Backed, IsOpen
<1>2. ASSUME NEW p \in Handler \cup Worker, Moves(p) PROVE Backed'
  <2>1. \A q \in (Handler \cup Worker) \ {p} : Held(proc'[q]) = Held(proc[q])
    BY <1>2 DEF Moves
  <2>2. IsABag(queue)
    BY DEF TypeInv, Tables
  <2>3. CASE Held(proc'[p]) \subseteq Held(proc[p]) /\ UNCHANGED <<row, queue>>
    BY <2>1, <2>3 DEF Backed, IsOpen
  <2>4. CASE p \in Handler /\ InsertRows(p)
    <3>1. UNCHANGED queue
      BY <2>4 DEF InsertRows
    <3>2. ASSUME NEW m \in BagToSet(queue') PROVE IsOpen(m)'
      <4>1. m \in BagToSet(queue) /\ m.record \in Id /\ m.record # proc[p].record
        BY <2>4, <3>1, HeldIsMsg, OpenedIsFresh
      <4>2. row'[m.record] = row[m.record]
        BY <2>4, <4>1, OpenedIsFresh
      <4> QED BY <4>1, <4>2 DEF Backed, IsOpen
    <3>3. ASSUME NEW q \in (Handler \cup Worker) \ {p}, NEW m \in Held(proc[q]) PROVE IsOpen(m)'
      <4>1. IsOpen(m) /\ m.record # proc[p].record
        BY <2>4, OpenedIsFresh DEF Backed
      <4>2. m.record \in Id
        BY HeldRecords
      <4>3. row'[m.record] = row[m.record]
        BY <2>4, <4>1, <4>2, OpenedIsFresh
      <4> QED BY <4>1, <4>3 DEF IsOpen
    <3>4. \A m \in Held(proc'[p]) : IsOpen(m)'
      BY <2>4, OpenedIsFresh
    <3> QED BY <2>1, <3>2, <3>3, <3>4 DEF Backed
  <2>5. ASSUME NEW m \in Held(proc[p]), Held(proc'[p]) \subseteq Held(proc[p]) \ {m},
               queue' = queue (+) SetToBag({m}), UNCHANGED row
        PROVE  Backed'
    <3>1. BagToSet(queue') = BagToSet(queue) \cup {m}
      BY <2>2, <2>5, BagAdded
    <3>2. \A n : IsOpen(n) => IsOpen(n)'
      BY <2>5 DEF IsOpen
    <3>3. \A n \in BagToSet(queue') : IsOpen(n)
      BY <3>1 DEF Backed
    <3>4. \A q \in Handler \cup Worker : \A n \in Held(proc'[q]) : IsOpen(n)
      BY <2>1, <2>5 DEF Backed
    <3> QED BY <3>2, <3>3, <3>4 DEF Backed
  <2>6. ASSUME NEW m \in BagToSet(queue), Held(proc'[p]) \subseteq {m},
               queue' = queue (-) SetToBag({m}), UNCHANGED row
        PROVE  Backed'
    <3>1. BagToSet(queue') \subseteq BagToSet(queue)
      BY <2>2, <2>6, BagTaken
    <3> QED BY <2>1, <2>6, <3>1 DEF Backed, IsOpen
  <2>7. ASSUME NEW m \in Held(proc[p]), NEW v, NEW i \in DOMAIN row[m.record],
               m.record \in Id, row[m.record][i].asset = m.asset,
               Held(proc'[p]) \subseteq Held(proc[p]) \ {m},
               Ruled(m.record, i, v), UNCHANGED queue
        PROVE  Backed'
    <3>1. ASSUME NEW n, IsOpen(n), n # m, n = Msg(n.record, n.asset), n.record \in Id
          PROVE  IsOpen(n)'
      <4>1. PICK j \in DOMAIN row[n.record] :
              row[n.record][j].asset = n.asset /\ row[n.record][j].status = "running"
        BY <3>1 DEF IsOpen
      <4>2. m = Msg(m.record, m.asset)
        BY HeldIsMsg
      <4>3. ~(n.record = m.record /\ j = i)
        BY <2>7, <3>1, <4>1, <4>2
      <4>4. j \in DOMAIN row'[n.record] /\ row'[n.record][j] = row[n.record][j]
        BY <2>7, <3>1, <4>1, <4>3 DEF Ruled
      <4> QED BY <4>1, <4>4 DEF IsOpen
    <3>2. ASSUME NEW n \in BagToSet(queue) PROVE IsOpen(n)'
      <4>1. n # m /\ IsOpen(n)
        BY DEF Tokens, Backed
      <4> QED BY <3>1, <4>1, HeldIsMsg
    <3>3. ASSUME NEW q \in Handler \cup Worker, NEW n \in Held(proc[q]), n # m PROVE IsOpen(n)'
      BY <3>1, <3>3, HeldIsMsg, HeldRecords DEF Backed
    <3>4. \A q \in (Handler \cup Worker) \ {p} : m \notin Held(proc[q])
      BY DEF Tokens
    <3> QED BY <2>1, <2>7, <3>2, <3>3, <3>4 DEF Backed
  <2> QED BY <1>2, <2>3, <2>4, <2>5, <2>6, <2>7 DEF Moves
<1> QED BY <1>1, <1>2, StepMoves

\* A host that is judged stays judged.
LEMMA OverKept ==
  ASSUME TypeInv, HostsDiffer, Backed, [Next]_vars, NEW r \in Id, IsOver(r)
  PROVE  IsOver(r)'
<1>1. CASE UNCHANGED row
  BY <1>1 DEF IsOver
<1>2. ASSUME NEW h \in Handler, InsertRows(h) PROVE IsOver(r)'
  BY <1>2, OpenedIsFresh DEF IsOver
<1>3. ASSUME NEW q \in Id, NEW i \in DOMAIN row[q], row[q][i].status = "running", NEW v,
             v.status \in Verdict, Ruled(q, i, v)
      PROVE  IsOver(r)'
  <2>1. q # r
    BY <1>3 DEF IsOver
  <2>2. row'[r] = row[r]
    BY <1>3, <2>1 DEF Ruled
  <2> QED BY <2>2 DEF IsOver
<1>4. ASSUME NEW p \in Handler \cup Worker, Moves(p) PROVE IsOver(r)'
  BY <1>1, <1>2, <1>3, <1>4 DEF Moves
<1> QED BY <1>1, <1>4, StepMoves

\* _recompute_record assigns the status only when every host is judged.
LEMMA AggregateConcludes ==
  ASSUME NEW x \in Record, NEW s \in Seq(HostRow), "status" \in DOMAIN Changed(x, Aggregate(x, s))
  PROVE  /\ Changed(x, Aggregate(x, s))["status"] = "done"
         /\ s # << >> /\ \A i \in DOMAIN s : s[i].status # "running"
<1> DEFINE y == Aggregate(x, s)
<1>1. y.status # x.status /\ Changed(x, y)["status"] = y.status
  BY DEF Changed
<1>2. y.status = IF {i \in DOMAIN s : s[i].status = "running"} = {} /\ s # << >> THEN "done"
                 ELSE x.status
  BY DEF Aggregate, Record
<1> HIDE DEF y
<1>3. y.status = "done" /\ {i \in DOMAIN s : s[i].status = "running"} = {} /\ s # << >>
  BY <1>1, <1>2
<1> QED BY <1>1, <1>3 DEF y

\* An update says "done" only after all rows were read as judged.
LEMMA ConcludingStep ==
  TypeInv /\ HostsDiffer /\ Backed /\ Verdicts /\ [Next]_vars =>
    \A p \in Handler \cup Worker, r \in Id : Concluding(p, r)'
<1> SUFFICES ASSUME TypeInv, HostsDiffer, Backed, Verdicts, [Next]_vars,
                    NEW p \in Handler \cup Worker, NEW r \in Id
             PROVE  Concluding(p, r)'
  OBVIOUS
<1>1. /\ proc[p] \in ProcType /\ p \in DOMAIN proc /\ Concluding(p, r) /\ Tables
      /\ IsOver(r) => IsOver(r)'
      /\ Procs /\ Callers /\ Handler \cap Worker = {}
  BY OverKept, InspectionAssumption DEF TypeInv, Procs, Verdicts, InspectionAssumption
<1>2. CASE proc'[p] = proc[p]
  BY <1>1, <1>2 DEF Concluding
<1>3. ASSUME proc'[p].at \notin {"judge", "save"} PROVE Concluding(p, r)'
  BY <1>3 DEF Concluding
<1>4. CASE proc' = [proc EXCEPT ![p] = Idle]
  BY <1>1, <1>3, <1>4, IdleTyped
<1>5. CASE Recompute(p)
  <2> DEFINE q == proc[p].record
             u == Changed(record[q], Aggregate(record[q], row[q]))
  <2>1. q \in Id
    BY <1>1, <1>5 DEF Recompute, At, Procs, Callers, Calling
  <2>2. record[q] \in Record /\ row[q] \in Seq(HostRow)
    BY <1>1, <2>1 DEF Tables
  <2>3. "status" \in DOMAIN u => u["status"] = "done" /\ IsOver(q)
    BY <2>2, AggregateConcludes DEF IsOver
  <2>4. proc' = [proc EXCEPT ![p].at = "save", ![p].update = u] /\ UNCHANGED row
    BY <1>5 DEF Recompute
  <2> HIDE DEF u
  <2>5. proc'[p].record = q /\ proc'[p].update = u
    BY <1>1, <2>4 DEF ProcType
  <2> QED BY <1>1, <2>3, <2>5 DEF Concluding
<1>6. ASSUME p \in Worker, Begin(p) PROVE Concluding(p, r)'
  <2> DEFINE q == proc[p].record
             u == Changed(record[q], Aggregate(record[q], row'[q]))
  <2>1. q \in Id /\ row' = row
    BY <1>6, BeginReopens, BeginStutters
  <2>2. record[q] \in Record /\ row[q] \in Seq(HostRow)
    BY <1>1, <2>1 DEF Tables
  <2>3. "status" \in DOMAIN u => u["status"] = "done" /\ IsOver(q)
    BY <2>1, <2>2, AggregateConcludes DEF IsOver
  <2>4. proc' = [proc EXCEPT ![p].at = "judge", ![p].rules = Enabled, ![p].update = u]
    BY <1>6 DEF Begin
  <2> HIDE DEF u
  <2>5. proc'[p].record = q /\ proc'[p].update = u
    BY <1>1, <2>4 DEF ProcType
  <2> QED BY <1>1, <2>3, <2>5 DEF Concluding
<1>7. ASSUME NEW a \in Asset, NEW x \in Answer[a], Judge(p, a, x) PROVE Concluding(p, r)'
  <2>1. /\ proc[p].at = "judge" /\ proc'[p].record = proc[p].record
        /\ proc'[p].update = proc[p].update
    BY <1>1, <1>7 DEF Judge, At, ProcType
  <2> QED BY <1>1, <2>1 DEF Concluding
<1>8. ASSUME p \in Handler, \/ \E sync \in BOOLEAN, list \in Lists : Start(p, sync, list)
                            \/ Serve(p) \/ GiveUp(p)
      PROVE  Concluding(p, r)'
  <2>1. ASSUME NEW sync \in BOOLEAN, NEW list \in Lists, Start(p, sync, list)
        PROVE  proc'[p].at \notin {"judge", "save"}
    BY <1>1, <2>1 DEF Start, Idle
  <2>2. CASE Seed(p)
    BY <1>1, <1>3, <1>4, <2>2 DEF Seed, ProcType
  <2>3. CASE InsertRecord(p) \/ InsertRows(p) \/ ReadRules(p)
    BY <1>1, <1>3, <2>3 DEF InsertRecord, InsertRows, ReadRules, ProcType
  <2>4. ASSUME NEW i \in proc[p].left, Publish(p, i) PROVE Concluding(p, r)'
    BY <1>1, <1>3, <1>4, <2>4 DEF Publish, At, ProcType
  <2>5. ASSUME NEW a \in Asset, NEW x \in Answer[a], SyncHost(p, a, x) PROVE Concluding(p, r)'
    BY <1>1, <1>3, <2>5 DEF SyncHost, At, ProcType
  <2>6. CASE Save(p) \/ AssetGone(p) \/ GiveUp(p)
    BY <1>4, <2>6 DEF Save, AssetGone, GiveUp, Abandon
  <2> QED BY <1>3, <1>5, <1>8, <2>1, <2>2, <2>3, <2>4, <2>5, <2>6 DEF Serve
<1>9. ASSUME p \in Worker, RunTask(p) \/ Kill(p) PROVE Concluding(p, r)'
  <2>1. ASSUME NEW m \in BagToSet(queue), Take(p, m) PROVE Concluding(p, r)'
    <3>1. CASE proc' = [proc EXCEPT ![p] = Idle]
      BY <1>4, <3>1
    <3>2. CASE proc' = [proc EXCEPT ![p] = [Idle EXCEPT !.at = "begin", !.record = m.record,
                                                        !.asset = m.asset]]
      BY <1>1, <1>3, <3>2 DEF Idle
    <3> QED BY <2>1, <3>1, <3>2 DEF Take
  <2>2. CASE Save(p) \/ Kill(p)
    BY <1>4, <2>2 DEF Save, Kill, Abandon
  <2> QED BY <1>5, <1>6, <1>7, <1>9, <2>1, <2>2 DEF RunTask
<1>10. ASSUME NEW q \in Handler \cup Worker, q # p,
              \/ \E sync \in BOOLEAN, list \in Lists : Start(q, sync, list)
              \/ Serve(q) \/ GiveUp(q) \/ RunTask(q) \/ Kill(q)
       PROVE  Concluding(p, r)'
  BY <1>1, <1>2, <1>10, OtherProcs
<1>11. CASE EditStep \/ (\E a \in Asset : DeleteAsset(a)) \/ UNCHANGED vars
  BY <1>2, <1>11, EditsRulesOnly
<1> QED BY <1>1, <1>8, <1>9, <1>10, <1>11 DEF Next, EditStep

\* The steps that write a record.
LEMMA RecordMoves ==
  [Next]_vars => \/ UNCHANGED <<record, lastId>>
                 \/ \E h \in Handler : InsertRecord(h)
                 \/ \E p \in Handler \cup Worker : Save(p)
<1> SUFFICES ASSUME [Next]_vars PROVE \/ UNCHANGED <<record, lastId>>
                                      \/ \E h \in Handler : InsertRecord(h)
                                      \/ \E p \in Handler \cup Worker : Save(p)
  OBVIOUS
<1>1. ASSUME NEW h \in Handler, \/ \E sync \in BOOLEAN, list \in Lists : Start(h, sync, list)
                                \/ Serve(h) \/ GiveUp(h)
      PROVE  UNCHANGED <<record, lastId>> \/ InsertRecord(h) \/ Save(h)
  BY <1>1 DEF Start, Serve, GiveUp, Seed, InsertRows, ReadRules, Publish, SyncHost, Recompute,
              AssetGone, Abandon
<1>2. ASSUME NEW w \in Worker, RunTask(w) \/ Kill(w)
      PROVE  UNCHANGED <<record, lastId>> \/ Save(w)
  BY <1>2 DEF RunTask, Kill, Take, Begin, Judge, Recompute, Abandon
<1>3. CASE EditStep \/ (\E a \in Asset : DeleteAsset(a)) \/ UNCHANGED vars
  BY <1>3, EditsRulesOnly
<1> QED BY <1>1, <1>2, <1>3 DEF Next, EditStep

\* A record is opened under the next id ...
LEMMA RecordInserted ==
  ASSUME TypeInv, NEW h \in Handler, InsertRecord(h)
  PROVE  /\ lastId' = lastId + 1 /\ lastId + 1 \in Id /\ UNCHANGED row
         /\ \A r \in Id : record'[r].status = IF r = lastId + 1 THEN "running" ELSE record[r].status
<1>1. /\ lastId' = lastId + 1 /\ lastId + 1 \in Id /\ UNCHANGED row
  BY InspectionAssumption DEF InsertRecord, TypeInv, Tables, Id, InspectionAssumption
<1>2. record' = [record EXCEPT ![lastId + 1] =
                   [NoRecord EXCEPT !.status = "running", !.total = Len(proc[h].list)]]
  BY <1>1 DEF InsertRecord
<1>3. [NoRecord EXCEPT !.status = "running", !.total = Len(proc[h].list)].status = "running"
  BY DEF NoRecord
<1> QED BY <1>1, <1>2, <1>3 DEF TypeInv, Tables

\* ... and a commit says nothing new of it but that it is done.
LEMMA RecordSaved ==
  ASSUME TypeInv, Verdicts, NEW p \in Handler \cup Worker, Save(p)
  PROVE  LET r == proc[p].record
         IN /\ r \in Id /\ r <= lastId /\ UNCHANGED <<row, lastId>>
            /\ \A q \in Id \ {r} : record'[q].status = record[q].status
            /\ \/ record'[r].status = record[r].status
               \/ record'[r].status = "done" /\ IsOver(r)
<1> DEFINE r == proc[p].record
           u == proc[p].update
           f == [c \in DOMAIN record[r] |-> IF c \in DOMAIN u THEN u[c] ELSE record[r][c]]
<1>1. r \in Id /\ r <= lastId /\ At(p, "save")
  BY DEF TypeInv, Save, Callers, Calling, Procs, At, Opening
<1>2. record' = [record EXCEPT ![r] = f] /\ UNCHANGED <<row, lastId>>
  BY DEF Save
<1>3. record[r] \in Record
  BY <1>1 DEF TypeInv, Tables
<1>4. "status" \in DOMAIN u => u["status"] = "done" /\ IsOver(r)
  BY <1>1 DEF Verdicts, Concluding, At
<1>5. f["status"] = IF "status" \in DOMAIN u THEN u["status"] ELSE record[r].status
  BY <1>3 DEF Record
<1> HIDE DEF f, u, r
<1>6. record'[r] = f /\ \A q \in Id \ {r} : record'[q] = record[q]
  BY <1>1, <1>2 DEF TypeInv, Tables
<1> QED BY <1>1, <1>2, <1>4, <1>5, <1>6 DEF r

\* What is said of a record stays true, by OverKept.
LEMMA VerdictsStep ==
  TypeInv /\ HostsDiffer /\ Backed /\ Verdicts /\ [Next]_vars => Verdicts'
<1> SUFFICES ASSUME TypeInv, HostsDiffer, Backed, Verdicts, [Next]_vars PROVE Verdicts'
  OBVIOUS
<1>1. \A r \in Id : IsOver(r) => IsOver(r)'
  BY OverKept
<1>2. lastId \in Nat /\ \A r \in Id : r \in Nat
  BY DEF TypeInv, Tables, Id
<1>3. \A p \in Handler \cup Worker, r \in Id : Concluding(p, r)'
  BY ConcludingStep
<1>4. CASE UNCHANGED <<record, lastId>>
  BY <1>1, <1>3, <1>4 DEF Verdicts
<1>5. ASSUME NEW h \in Handler, InsertRecord(h) PROVE Verdicts'
  <2>1. /\ lastId' = lastId + 1 /\ lastId + 1 \in Id
        /\ \A r \in Id : record'[r].status = IF r = lastId + 1 THEN "running" ELSE record[r].status
    BY <1>5, RecordInserted
  <2>2. \A r \in Id : record'[r].status = "absent" <=> r > lastId'
    BY <1>2, <2>1 DEF Verdicts
  <2>3. \A r \in Id : record'[r].status = "done" => IsOver(r)'
    BY <1>1, <2>1 DEF Verdicts
  <2> QED BY <1>3, <2>2, <2>3 DEF Verdicts
<1>6. ASSUME NEW p \in Handler \cup Worker, Save(p) PROVE Verdicts'
  <2>1. PICK q \in Id : /\ q <= lastId /\ UNCHANGED <<row, lastId>>
                        /\ \A r \in Id \ {q} : record'[r].status = record[r].status
                        /\ \/ record'[q].status = record[q].status
                           \/ record'[q].status = "done" /\ IsOver(q)
    BY <1>6, RecordSaved
  <2>2. \A r \in Id : record'[r].status = "absent" <=> r > lastId'
    BY <1>2, <2>1 DEF Verdicts
  <2>3. \A r \in Id : record'[r].status = "done" => IsOver(r)'
    BY <1>1, <2>1 DEF Verdicts
  <2> QED BY <1>3, <2>2, <2>3 DEF Verdicts
<1> QED BY <1>4, <1>5, <1>6, RecordMoves

\* The invariant holds in every behaviour.
LEMMA InspectInvHolds ==
  ASSUME Distinct
  PROVE  Spec => []InspectInv
<1>1. Init => InspectInv
  <2> SUFFICES ASSUME Init PROVE InspectInv
    OBVIOUS
  <2>1. TypeInv /\ \A p \in Handler \cup Worker : proc[p] = Idle
    BY TypeInvInit DEF Init
  <2>2. BagToSet(queue) = {} /\ Held(Idle) = {}
    BY DEF Init, EmptyBag, SetToBag, BagToSet, Held, Idle
  <2>3. HostsDiffer /\ Tokens /\ Backed
    BY <2>1, <2>2 DEF Init, HostsDiffer, Tokens, Backed
  <2>4. Verdicts
    BY <2>1, IdleTyped DEF Init, Verdicts, Concluding, NoRecord, Id
  <2> QED BY <2>1, <2>3, <2>4 DEF InspectInv
<1>2. InspectInv /\ [Next]_vars => InspectInv'
  BY TypeInvStep, HostsDifferStep, TokensStep, BackedStep, VerdictsStep DEF InspectInv
<1> QED BY <1>1, <1>2, PTL DEF Spec

-----------------------------------------------------------------------------
(* Every step is a step of the ledger, or invisible to its readers.        *)

\* A commit declares the record done, or is invisible.
LEMMA SaveRefines ==
  ASSUME InspectInv, NEW p \in Handler \cup Worker, Save(p)
  PROVE  [Ledger!LedgerNext]_(Ledger!ledgerVars)
<1>1. PICK q \in Id : /\ q <= lastId /\ UNCHANGED <<row, lastId>>
                      /\ \A r \in Id \ {q} : record'[r].status = record[r].status
                      /\ \/ record'[q].status = record[q].status
                         \/ record'[q].status = "done" /\ IsOver(q)
  BY RecordSaved DEF InspectInv
<1> DEFINE S == [r \in Id |-> record[r].status]
           H == [r \in Id |-> [i \in DOMAIN row[r] |-> row[r][i].status]]
<1>2. H' = H
  BY <1>1
<1>3. CASE record'[q].status = record[q].status
  <2>1. S' = S
    BY <1>1, <1>3
  <2> QED BY <1>2, <2>1 DEF Ledger!ledgerVars
<1>4. CASE record'[q].status = "done" /\ IsOver(q) /\ record[q].status # "done"
  <2>1. S[q] = "running"
    <3>1. record[q].status # "absent" /\ record[q] \in Record
      BY <1>1 DEF InspectInv, Verdicts, TypeInv, Tables, Id
    <3> QED BY <1>4, <3>1 DEF Record, Status
  <2>2. H[q] # << >> /\ {i \in DOMAIN H[q] : H[q][i] = "running"} = {}
    <3>1. row[q] \in Seq(HostRow)
      BY DEF InspectInv, TypeInv, Tables
    <3> QED BY <1>4, <3>1 DEF IsOver
  <2>3. S' = [S EXCEPT ![q] = "done"]
    BY <1>1, <1>4
  <2> QED BY <1>2, <2>1, <2>2, <2>3 DEF Ledger!LedgerNext, Ledger!Declare, Ledger!Open
<1> QED BY <1>1, <1>3, <1>4

\* A record begins, ...
LEMMA InsertRecordRefines ==
  ASSUME InspectInv, NEW h \in Handler, InsertRecord(h)
  PROVE  [Ledger!LedgerNext]_(Ledger!ledgerVars)
<1> DEFINE S == [r \in Id |-> record[r].status]
           H == [r \in Id |-> [i \in DOMAIN row[r] |-> row[r][i].status]]
           q == lastId + 1
<1>1. /\ q \in Id /\ UNCHANGED row
      /\ \A r \in Id : record'[r].status = IF r = q THEN "running" ELSE record[r].status
  BY RecordInserted DEF InspectInv
<1>2. H' = H
  BY <1>1
<1>3. S[q] = "absent"
  BY <1>1 DEF InspectInv, Verdicts, TypeInv, Tables
<1> HIDE DEF q
<1>4. S' = [S EXCEPT ![q] = "running"]
  BY <1>1
<1> QED BY <1>1, <1>2, <1>3, <1>4 DEF Ledger!LedgerNext, Ledger!Begin

\* ... its hosts are listed, ...
LEMMA InsertRowsRefines ==
  ASSUME InspectInv, NEW h \in Handler, InsertRows(h)
  PROVE  [Ledger!LedgerNext]_(Ledger!ledgerVars)
<1> DEFINE S == [r \in Id |-> record[r].status]
           H == [r \in Id |-> [i \in DOMAIN row[r] |-> row[r][i].status]]
           q == proc[h].record
           l == proc[h].list
           t == [i \in DOMAIN l |-> Opened(l[i])]
           n == Len(l)
<1>1. /\ q \in Id /\ row[q] = << >> /\ row' = [row EXCEPT ![q] = t]
      /\ l \in Seq(Asset) /\ n \in 1 .. MaxHosts
  BY RowsInserted DEF InspectInv
<1>2. DOMAIN t = 1 .. n /\ \A i \in DOMAIN t : t[i].status = "running"
  BY <1>1 DEF Opened
<1>3. q <= lastId
  BY DEF InspectInv, TypeInv, Opening
<1> HIDE DEF t, q, n
<1>4. S' = S
  BY DEF InsertRows
<1>5. S[q] = "running"
  <2>1. record[q].status # "absent" /\ record[q].status # "done" /\ record[q] \in Record
    BY <1>1, <1>3 DEF InspectInv, Verdicts, TypeInv, Tables, Id, IsOver
  <2> QED BY <1>1, <2>1 DEF Record, Status
<1>6. H[q] = << >>
  BY <1>1
<1>7. H' = [H EXCEPT ![q] = [i \in 1 .. n |-> "running"]]
  <2>1. row' \in [Id -> Seq(HostRow)] /\ row \in [Id -> Seq(HostRow)]
    BY TablesStep DEF InspectInv, TypeInv, Tables, Next, Serve
  <2>2. row'[q] = t /\ \A r \in Id \ {q} : row'[r] = row[r]
    BY <1>1, <2>1
  <2>3. [i \in DOMAIN row'[q] |-> row'[q][i].status] = [i \in 1 .. n |-> "running"]
    BY <1>2, <2>2
  <2> DEFINE opened == [i \in 1 .. n |-> "running"]
  <2>4. [i \in DOMAIN row'[q] |-> row'[q][i].status] = opened
    BY <2>3
  <2> HIDE DEF opened
  <2>5. H' = [H EXCEPT ![q] = opened]
    BY <2>2, <2>4
  <2> QED BY <2>5 DEF opened
<1> QED BY <1>1, <1>4, <1>5, <1>6, <1>7 DEF Ledger!LedgerNext, Ledger!List

\* ... and one is judged.
LEMMA JudgedRefines ==
  ASSUME InspectInv, UNCHANGED record, NEW q \in Id, NEW i \in DOMAIN row[q],
         row[q][i].status = "running", NEW v, v.status \in Verdict, Ruled(q, i, v)
  PROVE  [Ledger!LedgerNext]_(Ledger!ledgerVars)
<1> DEFINE S == [r \in Id |-> record[r].status]
           H == [r \in Id |-> [j \in DOMAIN row[r] |-> row[r][j].status]]
           s == v.status
<1>1. S' = S
  OBVIOUS
<1>2. i \in {j \in DOMAIN H[q] : H[q][j] = "running"}
  OBVIOUS
<1>3. H' = [H EXCEPT ![q] = [H[q] EXCEPT ![i] = s]]
  <2>1. \A r \in Id \ {q} : row'[r] = row[r]
    BY DEF Ruled
  <2>2. DOMAIN row'[q] = DOMAIN row[q]
    BY DEF Ruled
  <2>3. \A j \in DOMAIN row[q] : row'[q][j].status = IF j = i THEN s ELSE row[q][j].status
    BY DEF Ruled
  <2> HIDE DEF s
  <2>4. [j \in DOMAIN row'[q] |-> row'[q][j].status] = [H[q] EXCEPT ![i] = s]
    BY <2>2, <2>3
  <2> QED BY <2>1, <2>4
<1>4. s \in Verdict
  OBVIOUS
<1> HIDE DEF s
<1> QED BY <1>1, <1>2, <1>3, <1>4 DEF Ledger!LedgerNext, Ledger!Judge, Ledger!Open

\* So is every step.
LEMMA StepRefines == InspectInv /\ [Next]_vars => [Ledger!LedgerNext]_(Ledger!ledgerVars)
<1> SUFFICES ASSUME InspectInv, [Next]_vars PROVE [Ledger!LedgerNext]_(Ledger!ledgerVars)
  OBVIOUS
<1>1. CASE \E h \in Handler : InsertRecord(h)
  BY <1>1, InsertRecordRefines
<1>2. CASE \E p \in Handler \cup Worker : Save(p)
  BY <1>2, SaveRefines
<1>3. CASE \E h \in Handler : InsertRows(h)
  BY <1>3, InsertRowsRefines
<1>4. CASE UNCHANGED record /\ ~\E h \in Handler : InsertRows(h)
  <2>1. CASE UNCHANGED row
    BY <1>4, <2>1 DEF Ledger!ledgerVars
  <2>2. ASSUME NEW p \in Handler \cup Worker, Moves(p), ~UNCHANGED row
        PROVE  [Ledger!LedgerNext]_(Ledger!ledgerVars)
    <3>1. PICK v : \E m \in Held(proc[p]) : \E i \in DOMAIN row[m.record] :
            /\ m.record \in Id /\ row[m.record][i].status = "running"
            /\ v.status \in Verdict /\ Ruled(m.record, i, v)
      BY <1>4, <2>2 DEF Moves
    <3> QED BY <1>4, <3>1, JudgedRefines
  <2> QED BY <2>1, <2>2, StepMoves DEF InspectInv
<1> QED BY <1>1, <1>2, <1>3, <1>4, RecordMoves

\* An inspection is what HostLedger says to the readers of its tables: hosts
\* are listed once and judged once, a verdict stands, and "done" is said once,
\* when no host is open, in whatever order handlers and tasks commit.  Only the
\* servers of a request must differ.
THEOREM InspectionRefinesLedger ==
  ASSUME Distinct
  PROVE  Spec => RefinesLedger
<1>1. Init => Ledger!LedgerInit
  BY DEF Init, Ledger!LedgerInit, NoRecord
<1> QED BY <1>1, StepRefines, InspectInvHolds, PTL DEF Spec, RefinesLedger, Ledger!LedgerSpec

=============================================================================
