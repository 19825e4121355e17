----------------------------- MODULE HostLedger -----------------------------
(***************************************************************************)
(* What the tables inspection_record and host_inspection promise their     *)
(* readers, with requests, messages, workers and hosts left out: an        *)
(* inspection lists its hosts once, every host gets one verdict, which     *)
(* stands, and the record says "done" once, when no host is left open.     *)
(***************************************************************************)
EXTENDS Naturals

CONSTANTS Id,        \* ids of inspection_record
          Verdict,   \* what a host can be judged
          MaxHosts   \* BATCH_MAX_ASSETS

VARIABLES status,   \* per record: what it says
          host      \* per record: what each of its hosts says, in their order

ledgerVars == <<status, host>>

Open(r) == {i \in DOMAIN host[r] : host[r][i] = "running"}

LedgerInit == status = [r \in Id |-> "absent"] /\ host = [r \in Id |-> << >>]

Begin(r) == /\ status[r] = "absent"
            /\ status' = [status EXCEPT ![r] = "running"]
            /\ UNCHANGED host

List(r, n) == /\ status[r] = "running" /\ host[r] = << >>
              /\ host' = [host EXCEPT ![r] = [i \in 1 .. n |-> "running"]]
              /\ UNCHANGED status

Judge(r, i, v) == /\ i \in Open(r)
                  /\ host' = [host EXCEPT ![r][i] = v]
                  /\ UNCHANGED status

Declare(r) == /\ status[r] = "running" /\ host[r] # << >> /\ Open(r) = {}
              /\ status' = [status EXCEPT ![r] = "done"]
              /\ UNCHANGED host

LedgerNext == \E r \in Id :
  \/ Begin(r) \/ Declare(r)
  \/ \E n \in 1 .. MaxHosts : List(r, n)
  \/ \E i \in Open(r), v \in Verdict : Judge(r, i, v)

LedgerSpec == LedgerInit /\ [][LedgerNext]_ledgerVars
=============================================================================
