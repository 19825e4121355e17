------------------------------- MODULE Access -------------------------------
(***************************************************************************)
(* Who may do what: the bootstrap of the first administrator and the       *)
(* creation of users (api/v1/user.py), the role guards (dependencies.py),  *)
(* and what a submission must pass before ExecBatch takes over: catalogue, *)
(* confirmation, break-glass switch (api/v1/exec_task.py).                 *)
(*                                                                         *)
(* A request reads one snapshot and commits later; the unique columns      *)
(* username, role_code and flag_key make a commit fail whose row exists by *)
(* then, and the whole transaction with it.                                *)
(***************************************************************************)
EXTENDS Operations, Sequences

CONSTANTS
  Handler,    \* threads of the API
  Name,       \* user names, "admin" among them
  Installed,  \* what the tables may hold at first: records of users, roles, flag
  Sent,       \* the params of submissions
  MaxRecord,  \* bound: rows of exec_record, those of submissions under way included
  MaxFixed,   \* bound: fixed operations among them
  MaxUse,     \* bound: audited uses of break-glass
  Events      \* what the environment does: see EventKinds

EventKinds == {"crash",     \* the API process restarts in the middle of a request
               "disable"}   \* an account is disabled in the database

Role == {"admin", "operator", "viewer"}   \* ROLE_SEEDS
Flag == {"admin_bootstrapped", "break_glass_enabled"}
User == [role : Role, status : {0, 1}]

\* The tables of a program that has run before, or not: users are created by
\* an administrator, and the first of them by the installation.
Database(s) ==
  /\ DOMAIN s.users \subseteq Name /\ s.users \in [DOMAIN s.users -> User]
  /\ DOMAIN s.flag \subseteq Flag /\ s.flag \in [DOMAIN s.flag -> {"true", "false"}]
  /\ s.roles \subseteq Role
  /\ DOMAIN s.users # {} => "admin" \in DOMAIN s.users
  /\ "admin_bootstrapped" \in DOMAIN s.flag /\ s.flag["admin_bootstrapped"] = "true"
       => "admin" \in DOMAIN s.users

ASSUME AccessAssumption ==
  /\ "admin" \in Name
  /\ IsFiniteSet(Handler)
  /\ MaxRecord \in Nat /\ MaxFixed \in Nat /\ MaxUse \in Nat
  /\ Events \subseteq EventKinds
  /\ \A s \in Installed : Database(s)
  /\ \A p \in Sent : \A k \in DOMAIN p : p[k] \in Value

ExecType == {"fixed", "break_glass"}
Step     == {"idle", "mark", "bootstrap", "create", "switch", "audit", "insert"}

VARIABLES
  users,    \* sys_user: the row of each name that has one
  roles,    \* sys_role: the codes that exist
  flag,     \* system_flag: the value of each key that has a row
  record,   \* exec_record: who submitted what, in order
  used,     \* audit_log: per name, the rows "exec_break_glass"
  call,     \* per handler: where its request is, and what it read
  boots     \* history: how often an administrator was installed

vars == <<users, roles, flag, record, used, call, boots>>

Idle == [at |-> "idle", name |-> "admin", role |-> "viewer", missing |-> {},
         read |-> "none", on |-> FALSE, confirmed |-> FALSE, entry |-> << >>]

At(h, s) == call[h].at = s
Goto(h, c) == call' = [call EXCEPT ![h] = c]

Init == \E s \in Installed :
  /\ users = s.users /\ roles = s.roles /\ flag = s.flag
  /\ record = << >>
  /\ used = [n \in Name |-> 0]
  /\ call = [h \in Handler |-> Idle]
  /\ boots = IF "admin" \in DOMAIN users THEN 1 ELSE 0

\* get_current_user, require_write, require_admin: a token names a user whose
\* row is read now.  Who is refused changes nothing but the audit log.
LoggedIn(n) == n \in DOMAIN users /\ users[n].status = 1
Writes(n)   == LoggedIn(n) /\ users[n].role \in {"admin", "operator"}
Admin(n)    == LoggedIn(n) /\ users[n].role = "admin"

ValueOf(key) == IF key \in DOMAIN flag THEN flag[key] ELSE "none"
IsOn(key) == ValueOf(key) = "true"
SetFlag(key, v) == flag' = [k \in DOMAIN flag \cup {key} |-> IF k = key THEN v ELSE flag[k]]
Submitted(h) == At(h, "insert") \/ (At(h, "audit") /\ call[h].confirmed)
Room == Len(record) + Cardinality({h \in Handler : Submitted(h)}) < MaxRecord
FixedRoom == Cardinality({i \in DOMAIN record : record[i].exec_type = "fixed"})
             + Cardinality({h \in Handler : At(h, "insert") /\ call[h].entry.exec_type = "fixed"})
               < MaxFixed
AddUser(n, role) == users' = [m \in DOMAIN users \cup {n} |->
                      IF m = n THEN [role |-> role, status |-> 1] ELSE users[m]]

-----------------------------------------------------------------------------
(* POST /init-admin and POST /user.                                        *)

\* An administrator without a flag is marked and refused; with one, refused.
InitAdmin(h) ==
  /\ At(h, "idle")
  /\ ~IsOn("admin_bootstrapped")
  /\ "admin" \in DOMAIN users => "admin_bootstrapped" \notin DOMAIN flag
  /\ Goto(h, [Idle EXCEPT !.at = IF "admin" \in DOMAIN users THEN "mark" ELSE "bootstrap",
                          !.read = ValueOf("admin_bootstrapped"),
                          !.missing = Role \ roles])
  /\ UNCHANGED <<users, roles, flag, record, used, boots>>

\* The flag had no row when it was read, and has one now.
Taken(h, key) == call[h].read = "none" /\ key \in DOMAIN flag

Mark(h) ==
  /\ At(h, "mark")
  /\ IF Taken(h, "admin_bootstrapped") THEN UNCHANGED flag ELSE SetFlag("admin_bootstrapped", "true")
  /\ Goto(h, Idle)
  /\ UNCHANGED <<users, roles, record, used, boots>>

\* Mutation of Bootstrap: the columns are not unique.
BootstrapAgain(h) ==
  /\ At(h, "bootstrap")
  /\ SetFlag("admin_bootstrapped", "true")
  /\ AddUser("admin", "admin")
  /\ roles' = Role
  /\ boots' = boots + 1
  /\ Goto(h, Idle)
  /\ UNCHANGED <<record, used>>

\* The roles that were missing, the administrator and the flag, or nothing.
Bootstrap(h) ==
  /\ At(h, "bootstrap")
  /\ IF call[h].missing \cap roles # {} \/ "admin" \in DOMAIN users \/ Taken(h, "admin_bootstrapped")
     THEN UNCHANGED <<users, roles, flag, boots>>
     ELSE /\ SetFlag("admin_bootstrapped", "true")
          /\ AddUser("admin", "admin")
          /\ roles' = Role
          /\ boots' = boots + 1
  /\ Goto(h, Idle)
  /\ UNCHANGED <<record, used>>

CreateUser(h, n, new, role) ==
  /\ At(h, "idle")
  /\ Admin(n) /\ new \notin DOMAIN users /\ role \in roles
  /\ Goto(h, [Idle EXCEPT !.at = "create", !.name = new, !.role = role])
  /\ UNCHANGED <<users, roles, flag, record, used, boots>>

\* Mutation of InsertUser: a row that is there by now is overwritten.
InsertUserOver(h) ==
  /\ At(h, "create")
  /\ AddUser(call[h].name, call[h].role)
  /\ Goto(h, Idle)
  /\ UNCHANGED <<roles, flag, record, used, boots>>

\* The row and its commit.
InsertUser(h) ==
  /\ At(h, "create")
  /\ IF call[h].name \in DOMAIN users THEN UNCHANGED users
     ELSE AddUser(call[h].name, call[h].role)
  /\ Goto(h, Idle)
  /\ UNCHANGED <<roles, flag, record, used, boots>>

-----------------------------------------------------------------------------
(* POST /break_glass, /preview and /batch.                                 *)

SetBreakGlass(h, n, on) ==
  /\ At(h, "idle") /\ Admin(n)
  /\ Goto(h, [Idle EXCEPT !.at = "switch", !.on = on,
                          !.read = ValueOf("break_glass_enabled")])
  /\ UNCHANGED <<users, roles, flag, record, used, boots>>

OnOff(h) == IF call[h].on THEN "true" ELSE "false"

\* Mutation of Switch: the Boolean itself is stored.
SwitchRaw(h) ==
  /\ At(h, "switch")
  /\ SetFlag("break_glass_enabled", IF call[h].on THEN "True" ELSE "False")
  /\ Goto(h, Idle)
  /\ UNCHANGED <<users, roles, record, used, boots>>

\* A value that is the one that was read is not written.
Switch(h) ==
  /\ At(h, "switch")
  /\ IF Taken(h, "break_glass_enabled") \/ call[h].read = OnOff(h) THEN UNCHANGED flag
     ELSE SetFlag("break_glass_enabled", OnOff(h))
  /\ Goto(h, Idle)
  /\ UNCHANGED <<users, roles, record, used, boots>>

\* A fixed operation: its command is built, and confirmed if it writes.
\* A preview of it changes nothing.
SubmitFixed(h, n, op, sent, confirmed) ==
  /\ At(h, "idle") /\ Room /\ FixedRoom
  /\ Writes(n)
  /\ Builds(op, sent)
  /\ is_write_operation(op) => confirmed
  /\ Goto(h, [Idle EXCEPT !.at = "insert", !.name = n,
                !.entry = [user |-> n, exec_type |-> "fixed", operation |-> op,
                           params |-> Cleaned(op, sent)]])
  /\ UNCHANGED <<users, roles, flag, record, used, boots>>

\* Mutation of BreakGlass: the use is not recorded before the command runs.
BreakGlassQuietly(h, n, confirmed) ==
  /\ At(h, "idle") /\ (confirmed => Room)
  /\ used[n] < MaxUse
  /\ Admin(n) /\ IsOn("break_glass_enabled")
  /\ Goto(h, [Idle EXCEPT !.at = IF confirmed THEN "insert" ELSE "audit",
                !.name = n, !.confirmed = confirmed,
                !.entry = [user |-> n, exec_type |-> "break_glass", operation |-> "none",
                           params |-> << >>]])
  /\ UNCHANGED <<users, roles, flag, record, used, boots>>

\* An arbitrary command, previewed or submitted; a confirmation is asked for
\* only when it is submitted, after its use was audited.
BreakGlass(h, n, confirmed) ==
  /\ At(h, "idle") /\ (confirmed => Room)
  /\ used[n] < MaxUse
  /\ Admin(n) /\ IsOn("break_glass_enabled")
  /\ Goto(h, [Idle EXCEPT !.at = "audit", !.name = n, !.confirmed = confirmed,
                !.entry = [user |-> n, exec_type |-> "break_glass", operation |-> "none",
                           params |-> << >>]])
  /\ UNCHANGED <<users, roles, flag, record, used, boots>>

Audit(h) ==
  /\ At(h, "audit")
  /\ used' = [used EXCEPT ![call[h].name] = @ + 1]
  /\ Goto(h, IF call[h].confirmed THEN [call[h] EXCEPT !.at = "insert"] ELSE Idle)
  /\ UNCHANGED <<users, roles, flag, record, boots>>

Insert(h) ==
  /\ At(h, "insert")
  /\ record' = Append(record, call[h].entry)
  /\ Goto(h, Idle)
  /\ UNCHANGED <<users, roles, flag, used, boots>>

-----------------------------------------------------------------------------
Crash(h) == /\ "crash" \in Events /\ ~At(h, "idle")
            /\ Goto(h, Idle)
            /\ UNCHANGED <<users, roles, flag, record, used, boots>>

Disable(n) == /\ "disable" \in Events /\ LoggedIn(n)
              /\ users' = [users EXCEPT ![n].status = 0]
              /\ UNCHANGED <<roles, flag, record, used, call, boots>>

Request(h) ==
  \/ InitAdmin(h)
  \/ \E n \in Name :
       \/ \E new \in Name, role \in Role : CreateUser(h, n, new, role)
       \/ \E on \in BOOLEAN : SetBreakGlass(h, n, on)
       \/ \E op \in Operation, sent \in Sent, confirmed \in BOOLEAN :
            SubmitFixed(h, n, op, sent, confirmed)
       \/ \E confirmed \in BOOLEAN : BreakGlass(h, n, confirmed)

Commit(h) == \/ Mark(h) \/ Bootstrap(h) \/ InsertUser(h)
             \/ Switch(h) \/ Audit(h) \/ Insert(h)

Next == \/ \E h \in Handler : Request(h) \/ Commit(h) \/ Crash(h)
        \/ \E n \in Name : Disable(n)

Spec == Init /\ [][Next]_vars

-----------------------------------------------------------------------------
(* Properties.                                                             *)

\* Every variable has its type, and a request is at a step of its own.
TypeOK ==
  /\ DOMAIN users \subseteq Name /\ users \in [DOMAIN users -> User]
  /\ roles \subseteq Role
  /\ DOMAIN flag \subseteq Flag /\ flag \in [DOMAIN flag -> {"true", "false"}]
  /\ \A i \in DOMAIN record : record[i].user \in Name /\ record[i].exec_type \in ExecType
  /\ used \in [Name -> Nat]
  /\ \A h \in Handler : /\ call[h].at \in Step /\ call[h].name \in Name
                         /\ call[h].role \in Role /\ call[h].missing \subseteq Role
                         /\ call[h].read \in {"none", "true", "false"}
  /\ boots \in Nat

\* The administrator is installed once, whatever requests to install it run
\* side by side or break off, and the flag that closes the installation is
\* only ever set when there is one (init_admin: 409 from then on).
InstalledOnce ==
  /\ boots <= 1
  /\ IsOn("admin_bootstrapped") => "admin" \in DOMAIN users /\ boots = 1

\* No account is ever replaced or given another role, although requests that
\* saw a name free commit later (create_user, init_admin: 409 for a name that
\* exists).
AccountsAreKept ==
  [][\A n \in DOMAIN users : n \in DOMAIN users' /\ users'[n].role = users[n].role]_vars

Commands(n) == {i \in DOMAIN record : record[i].user = n
                                      /\ record[i].exec_type = "break_glass"}

\* Nobody has more arbitrary commands recorded for execution than the audit log
\* has uses of theirs, although submissions overlap and break off between the two
\* commits (_resolve_command).  How often a recorded command is executed again by
\* retries is not part of it: retry_failed asks for no role, switch or such an
\* audit.
BreakGlassIsAudited == \A n \in Name : Cardinality(Commands(n)) <= used[n]

Whitelisted(e) ==
  e.exec_type = "fixed" =>
    \A k \in DOMAIN e.params :
      LET p == OPERATIONS[e.operation].params[k]
          v == e.params[k]
      IN IF p.kind = "int" THEN v.num \in p.min .. p.max ELSE p.match \in v.match

\* What reaches the command of a fixed operation is a parameter of its own
\* that is in its whitelist or its range (validate_and_build).
CommandsAreWhitelisted == \A i \in DOMAIN record : Whitelisted(record[i])
=============================================================================
