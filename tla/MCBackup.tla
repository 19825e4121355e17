------------------------------ MODULE MCBackup ------------------------------
(* Instances of Backup for TLC. *)
EXTENDS Backup, TLC

\* Workers differ in nothing.
Symmetry == Permutations(Worker)
=============================================================================
