------------------------------ MODULE MCAccess ------------------------------
(* Instances of Access for TLC. *)
EXTENDS Access, TLC

Symmetry == Permutations(Handler)

Empty == << >>
Root  == [admin |-> [role |-> "admin", status |-> 1]]
Old   == [admin_bootstrapped |-> "false"]

\* A new database, one with roles, one whose flag was reset, and one from
\* before there were flags.
Databases == {[users |-> Empty, roles |-> {}, flag |-> Empty],
              [users |-> Empty, roles |-> {"admin", "viewer"}, flag |-> Empty],
              [users |-> Empty, roles |-> Role, flag |-> Old],
              [users |-> Root,  roles |-> Role, flag |-> Empty]}

SomeParams == {Empty, [lines |-> Digits(200)], [lines |-> Null],
               [lines |-> Digits(0), path |-> Word({"_PATH"})],
               [port |-> Digits(70000), service |-> Word({"_SERVICE"})]}
=============================================================================
