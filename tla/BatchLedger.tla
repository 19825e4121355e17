---------------------------- MODULE BatchLedger ----------------------------
(***************************************************************************)
(* What the tables exec_record and exec_host_result promise their readers, *)
(* with requests, messages and workers left out: a host of a batch is      *)
(* executed from "queued" to a result, a success may be taken back but is  *)
(* not executed again, a failure is final until it is retried, and         *)
(* whatever the batch says of itself was true of all its hosts at some     *)
(* moment.                                                                 *)
(*                                                                         *)
(* It may be true no longer: an aggregation is computed (Reckon) and       *)
(* written (Declare) in two transactions, and hosts may be requeued, or a  *)
(* success taken back, in between.  Verdicts that are computed and not     *)
(* written are remembered.                                                 *)
(*                                                                         *)
(* Of the hosts of a batch in "void" nothing is promised any more: a retry *)
(* requeued hosts of it that had not failed, or it names a server twice.   *)
(***************************************************************************)
EXTENDS Naturals

CONSTANTS Id,     \* ids of exec_record
          Sizes   \* how many hosts a batch may have

VARIABLES host,     \* per record: what each of its hosts says, in their order
          status,   \* per record: what it says
          verdict,  \* per record: the verdicts that may still be written
          void      \* the records whose hosts are executed out of order

ledgerVars == <<host, status, verdict, void>>

Says(r, S) == {i \in DOMAIN host[r] : host[r][i] \in S}
Closed(r)  == host[r] # << >> /\ Says(r, {"queued", "running"}) = {}
Verdict(r) == IF Says(r, {"succeeded"}) # {} /\ Says(r, {"failed", "timed_out"}) # {}
              THEN "partial" ELSE "done"

LedgerInit == /\ host = [r \in Id |-> << >>]
              /\ status = [r \in Id |-> "absent"]
              /\ verdict = [r \in Id |-> {}]
              /\ void = {}

Begin(r) == /\ status[r] = "absent"
            /\ status' = [status EXCEPT ![r] = "running"]
            /\ UNCHANGED <<host, verdict, void>>

List(r, n) == /\ status[r] = "running" /\ host[r] = << >>
              /\ host' = [host EXCEPT ![r] = [i \in 1 .. n |-> "queued"]]
              /\ void' \in {void, void \cup {r}}
              /\ UNCHANGED <<status, verdict>>

\* A host gets one of the statuses S.
Becomes(r, i, S) == /\ \E s \in S : host' = [host EXCEPT ![r][i] = s]
                    /\ UNCHANGED <<status, verdict, void>>

Start(r, i)    == i \in Says(r, {"queued"}) /\ Becomes(r, i, {"running"})
Finish(r, i)   == i \in Says(r, {"running"}) /\ Becomes(r, i, {"succeeded", "failed"})
TakeBack(r, i) == i \in Says(r, {"succeeded"}) /\ Becomes(r, i, {"failed"})
Stray(r, i)    == r \in void /\ Becomes(r, i, {"running", "succeeded", "failed"})

Reckon(r) == /\ Closed(r)
             /\ verdict' = [verdict EXCEPT ![r] = @ \cup {Verdict(r)}]
             /\ UNCHANGED <<host, status, void>>

\* A verdict is forgotten when nobody is left who would write it.
Forget(r) == \E V \in SUBSET verdict[r] : verdict' = [verdict EXCEPT ![r] = V]

Declare(r) == /\ \E s \in verdict[r] : status' = [status EXCEPT ![r] = s]
              /\ Forget(r)
              /\ UNCHANGED <<host, void>>

Drop(r) == Forget(r) /\ UNCHANGED <<host, status, void>>

\* A retry.  If the record was concluded only after the request had read it,
\* the request does not write that it is running again.
Requeue(r, I) ==
  /\ I # {}
  /\ host' = [host EXCEPT ![r] = [i \in DOMAIN @ |-> IF i \in I THEN "queued" ELSE @[i]]]
  /\ status' = [status EXCEPT ![r] = "running"] \/ UNCHANGED status
  /\ void' = IF I \subseteq Says(r, {"failed", "timed_out"}) THEN void ELSE void \cup {r}
  /\ UNCHANGED verdict

LedgerNext == \E r \in Id :
  \/ Begin(r) \/ Reckon(r) \/ Declare(r) \/ Drop(r)
  \/ \E n \in Sizes : List(r, n)
  \/ \E i \in DOMAIN host[r] : Start(r, i) \/ Finish(r, i) \/ TakeBack(r, i) \/ Stray(r, i)
  \/ \E I \in SUBSET DOMAIN host[r] : Requeue(r, I)

LedgerSpec == LedgerInit /\ [][LedgerNext]_ledgerVars
=============================================================================
