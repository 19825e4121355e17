---------------------------- MODULE ReleaseLedger ----------------------------
(***************************************************************************)
(* What the table deploy_release promises its readers, with workers,       *)
(* broker, SSH and docker hosts left out: rows are numbered in the order   *)
(* they are requested, each is executed at most once and then concluded,   *)
(* and a rollback goes to an earlier release of the same project, the      *)
(* newest whose row said "succeeded" at the moment the request looked.     *)
(*                                                                         *)
(* The one thing a concluded row may still do is be downgraded: the error  *)
(* handlers of tasks/deploy_tasks.py overwrite whatever status the row     *)
(* has, so a success whose task is interrupted before it returns ends as   *)
(* a failure.  No row ever moves the other way.                            *)
(***************************************************************************)
EXTENDS Naturals

CONSTANTS Project,     \* rows of deploy_project
          MaxRelease   \* bound: how many rows deploy_release ever holds

Id == 1 .. MaxRelease

VARIABLES row,         \* the table: what the row of each id says
          seen,        \* <<undone, point>>: what requests for a rollback have found
          open         \* the ids whose task is being executed right now

ledgerVars == <<row, seen, open>>

Kind    == {"deploy", "rollback"}
Won     == {"succeeded", "rollback_succeeded"}
Lost    == {"failed", "rollback_failed"}
Status  == {"absent", "requested", "running"} \cup Won \cup Lost

Success(k) == IF k = "deploy" THEN "succeeded" ELSE "rollback_succeeded"
Failure(k) == IF k = "deploy" THEN "failed" ELSE "rollback_failed"

LedgerRow == [status : Status, kind : Kind, project : Project,
              point : 0 .. MaxRelease]

LedgerType == /\ row \in [Id -> LedgerRow]
              /\ seen \in SUBSET (Id \X Id)
              /\ open \in SUBSET Id

LedgerInit == /\ LedgerType
              /\ seen = {} /\ open = {}
              /\ \A i \in Id : row[i].status = "absent" /\ row[i].point = 0

NextFree(i) == /\ row[i].status = "absent"
               /\ \A j \in Id : j < i => row[j].status # "absent"

Request(i, p) ==
  /\ NextFree(i)
  /\ row' = [row EXCEPT ![i] = [status |-> "requested", kind |-> "deploy",
                                project |-> p, point |-> 0]]
  /\ UNCHANGED <<seen, open>>

\* The point is the most recent success before the release being undone.
IsPoint(t, i) == /\ t < i
                 /\ row[t].project = row[i].project
                 /\ row[t].status = "succeeded"

Choose(undone, t) ==
  /\ IsPoint(t, undone)
  /\ \A s \in Id : IsPoint(s, undone) => s <= t
  /\ seen' = seen \cup {<<undone, t>>}
  /\ UNCHANGED <<row, open>>

\* By the time its row is inserted, a rollback's point may have been
\* downgraded, and a newer success may have been saved.
RequestUndo(i, undone, t) ==
  /\ NextFree(i)
  /\ undone < i
  /\ <<undone, t>> \in seen
  /\ row' = [row EXCEPT ![i] = [status |-> "requested", kind |-> "rollback",
                                project |-> row[undone].project, point |-> t]]
  /\ UNCHANGED <<seen, open>>

Take(i) == /\ row[i].status = "requested"
           /\ open' = open \cup {i}
           /\ UNCHANGED <<row, seen>>

Begin(i) == /\ i \in open
            /\ row[i].status = "requested"
            /\ row' = [row EXCEPT ![i].status = "running"]
            /\ UNCHANGED <<seen, open>>

Conclude(i) ==
  /\ i \in open
  /\ row[i].status = "running"
  /\ \E s \in {Success(row[i].kind), Failure(row[i].kind)} :
       row' = [row EXCEPT ![i].status = s]
  /\ UNCHANGED <<seen, open>>

\* An interrupted task: whatever it had reached becomes a failure, and the
\* error document replaces the one that held the rollback point.
Interrupt(i) ==
  /\ i \in open
  /\ row' = [row EXCEPT ![i].status = Failure(row[i].kind), ![i].point = 0]
  /\ open' = open \ {i}
  /\ UNCHANGED seen

\* The task ends, or its process dies: the row stays as it is for good.
Leave(i) == /\ i \in open
            /\ open' = open \ {i}
            /\ UNCHANGED <<row, seen>>

LedgerNext ==
  \E i \in Id :
    \/ \E p \in Project : Request(i, p)
    \/ \E t \in Id : Choose(i, t)
    \/ \E undone, t \in Id : RequestUndo(i, undone, t)
    \/ Take(i)
    \/ Begin(i)
    \/ Conclude(i)
    \/ Interrupt(i)
    \/ Leave(i)

LedgerSpec == LedgerInit /\ [][LedgerNext]_ledgerVars
=============================================================================
