---------------------------- MODULE BackupLedger ----------------------------
(***************************************************************************)
(* What backup_record, the archives in BACKUP_STORAGE_DIR and the scratch  *)
(* database promise an operator who restores, with workers, messages and   *)
(* paths left out: a record names one archive, its own, and vouches for it *)
(* only when it was readable; an archive disappears for good, and once it  *)
(* is readable only behind Retention newer ones; what is restored is what  *)
(* some record vouches for.                                                *)
(***************************************************************************)
EXTENDS Naturals, FiniteSets

CONSTANTS Id,         \* ids of backup_record
          Archive,    \* numbered in the order of their timestamps
          Retention,  \* BACKUP_RETENTION_COUNT
          None        \* no id, no archive

VARIABLES row,    \* per record: op, status, the archive it names (file), whether it
                  \* vouches for it (valid), what a restore restores (source)
          store,  \* per archive: "none" yet, "open" (not readable), "whole" or "gone"
          base    \* the archives that tables of the scratch database come from

ledgerVars == <<row, store, base>>

New(op, status, source) ==
  [op |-> op, status |-> status, file |-> None, valid |-> FALSE, source |-> source]
Absent  == New("backup", "absent", None)
Present == {"open", "whole"}

LedgerInit == /\ row = [i \in Id |-> Absent]
              /\ store = [f \in Archive |-> "none"]
              /\ base = {}

Is(i, op, status) == row[i].op = op /\ row[i].status = status
Becomes(i, r)     == row' = [row EXCEPT ![i] = r] /\ UNCHANGED <<store, base>>
Unnamed(f)        == \A i \in Id : row[i].file # f

Backup(i) == row[i] = Absent /\ Becomes(i, New("backup", "running", None))

\* The backup is one that the records vouch for; its own task may have failed
\* after it was saved, and also after it was chosen.
Restore(i, j) == /\ row[i] = Absent
                 /\ row[j].op = "backup" /\ row[j].valid
                 /\ Becomes(i, New("restore", "running", j))

\* The archive may be gone by now, and a failure may come after it was named.
Keep(i, f, s) == /\ Is(i, "backup", "running")
                 /\ Unnamed(f) /\ store[f] \in {"whole", "gone"}
                 /\ Becomes(i, [row[i] EXCEPT !.status = s, !.file = f, !.valid = TRUE])

\* A failed backup may name its archive, without vouching for it.
Spoil(i, f) == /\ Is(i, "backup", "running")
               /\ Unnamed(f)
               /\ Becomes(i, [row[i] EXCEPT !.status = "failed", !.file = f])

Restored(i) == /\ Is(i, "restore", "running")
               /\ Becomes(i, [row[i] EXCEPT !.status = "succeeded", !.source = None])

\* Also a task that fails after it has saved its result.
Fail(i) == /\ row[i].status \in {"running", "succeeded"}
           /\ Becomes(i, [row[i] EXCEPT !.status = "failed", !.source = None])

Turns(f, s) == store' = [store EXCEPT ![f] = s] /\ UNCHANGED <<row, base>>

Open(f)   == store[f] = "none" /\ Turns(f, "open")
Close(f)  == store[f] = "open" /\ Turns(f, "whole")
GiveUp(f) == store[f] \in {"none", "open"} /\ Turns(f, "gone")
Prune(f)  == /\ store[f] \in Present /\ Retention > 0
             /\ Cardinality({g \in Archive : g > f /\ store[g] \in Present}) >= Retention
             /\ Turns(f, "gone")

\* Tables are dropped, or replaced by those of the archive that is restored.
Import(i) == /\ Is(i, "restore", "running")
             /\ base' \in SUBSET (base \cup {row[row[i].source].file})
             /\ UNCHANGED <<row, store>>

LedgerNext ==
  \/ \E i \in Id : \/ Backup(i) \/ Import(i) \/ Restored(i) \/ Fail(i)
                   \/ \E j \in Id : Restore(i, j)
                   \/ \E f \in Archive : \/ \E s \in {"succeeded", "failed"} : Keep(i, f, s)
                                        \/ Spoil(i, f)
  \/ \E f \in Archive : Open(f) \/ Close(f) \/ GiveUp(f) \/ Prune(f)

LedgerSpec == LedgerInit /\ [][LedgerNext]_ledgerVars
=============================================================================
