---------------------------- MODULE AccessProofs ----------------------------
(***************************************************************************)
(* Theorems about Access for every value of its constants.                 *)
(*                                                                         *)
(* What a request commits rests on what it read earlier: AccessInv says    *)
(* which of it still holds at the commit.                                  *)
(***************************************************************************)
EXTENDS Access, FiniteSetTheorems, SequenceTheorems, TLAPS

Params == UNION {[K -> Value] : K \in SUBSET Parameter}
Entry  == [user : Name, exec_type : ExecType, operation : Operation \cup {"none"},
           params : Params]
Call   == [at : Step, name : Name, role : Role, missing : SUBSET Role,
           read : {"none", "true", "false"}, on : BOOLEAN, confirmed : BOOLEAN,
           entry : Entry \cup {<< >>}]

Typed ==
  /\ DOMAIN users \subseteq Name /\ users \in [DOMAIN users -> User]
  /\ roles \subseteq Role
  /\ DOMAIN flag \subseteq Flag /\ flag \in [DOMAIN flag -> {"true", "false"}]
  /\ record \in Seq(Entry)
  /\ used \in [Name -> Nat]
  /\ call \in [Handler -> Call]
  /\ boots \in Nat

\* Users exist only after the installation, so that nobody can create "admin"
\* by hand, and a request that found an administrator still finds one.
Installation ==
  /\ boots = IF "admin" \in DOMAIN users THEN 1 ELSE 0
  /\ DOMAIN users # {} => "admin" \in DOMAIN users
  /\ IsOn("admin_bootstrapped") => "admin" \in DOMAIN users
  /\ \A h \in Handler : call[h].at \in {"mark", "create"} => "admin" \in DOMAIN users

\* A submission that was accepted carries an entry of its user's.
PendingOK(c) ==
  c.at \in {"audit", "insert"} =>
    /\ c.entry \in Entry
    /\ c.entry.user = c.name
    /\ c.at = "audit" => c.entry.exec_type = "break_glass"
    /\ Whitelisted(c.entry)

Pending == \A h \in Handler : PendingOK(call[h])

\* The uses that were audited pay for the commands that were executed and for
\* those that are about to be.
Allowed(n) == {h \in Handler : /\ call[h].at = "insert"
                               /\ call[h].entry.exec_type = "break_glass"
                               /\ call[h].entry.user = n}

PaidFor(n) == Cardinality(Commands(n)) + Cardinality(Allowed(n)) <= used[n]
Audited == \A n \in Name : PaidFor(n)

AccessInv == /\ Typed
             /\ Installation
             /\ Pending
             /\ CommandsAreWhitelisted
             /\ Audited

-----------------------------------------------------------------------------
(* The catalogue.                                                          *)

\* Every operation of the catalogue lists parameters of known kinds, with
\* limits that are numbers (OPERATIONS).
LEMMA Catalogue ==
  ASSUME NEW op \in Operation, NEW k \in DOMAIN OPERATIONS[op].params
  PROVE  /\ k \in Parameter
         /\ OPERATIONS[op].params[k].min \in Int
         /\ OPERATIONS[op].params[k].max \in Int
         /\ OPERATIONS[op].params[k].default \in Value
<1>1. Null \in Value /\ Digits(50) \in Value
  BY DEF Null, Digits, Value, NoNumber, Whitelist
<1>2. CASE op = "disk_usage"
  <2>1. OPERATIONS[op] = [risk |-> "read", params |-> [path |-> Str("_PATH", FALSE)],
                          uses |-> {}]
    BY <1>2 DEF OPERATIONS, Operation
  <2> QED BY <1>1, <2>1 DEF Parameter, Str
<1>3. CASE op = "memory_usage"
  <2>1. OPERATIONS[op] = [risk |-> "read", params |-> << >>, uses |-> {}]
    BY <1>3 DEF OPERATIONS, Operation
  <2> QED BY <2>1
<1>4. CASE op = "service_status"
  <2>1. OPERATIONS[op] = [risk |-> "read", params |-> [service |-> Str("_SERVICE", TRUE)],
                          uses |-> {"service"}]
    BY <1>4 DEF OPERATIONS, Operation
  <2> QED BY <1>1, <2>1 DEF Parameter, Str
<1>5. CASE op = "service_restart"
  <2>1. OPERATIONS[op] = [risk |-> "write", params |-> [service |-> Str("_SERVICE", TRUE)],
                          uses |-> {"service"}]
    BY <1>5 DEF OPERATIONS, Operation
  <2> QED BY <1>1, <2>1 DEF Parameter, Str
<1>6. CASE op = "log_tail"
  <2>1. OPERATIONS[op] = [risk |-> "read", params |-> [lines |-> Num(1, 200, Digits(50)),
                                                       path |-> Str("_PATH", FALSE)],
                          uses |-> {"lines"}]
    BY <1>6 DEF OPERATIONS, Operation
  <2> QED BY <1>1, <2>1 DEF Parameter, Str, Num
<1>7. CASE op = "port_listen"
  <2>1. OPERATIONS[op] = [risk |-> "read", params |-> [port |-> Num(1, 65535, Null)],
                          uses |-> {}]
    BY <1>7 DEF OPERATIONS, Operation
  <2> QED BY <1>1, <2>1 DEF Parameter, Num
<1> QED BY <1>2, <1>3, <1>4, <1>5, <1>6, <1>7 DEF Operation

\* What a command is built from is typed, and inside its whitelist or range
\* (validate_and_build).
LEMMA CleanedIsWhitelisted ==
  ASSUME NEW op, NEW sent \in Sent, NEW n \in Name, Builds(op, sent)
  PROVE  LET e == [user |-> n, exec_type |-> "fixed", operation |-> op,
                   params |-> Cleaned(op, sent)]
         IN e \in Entry /\ Whitelisted(e)
<1> DEFINE c == Cleaned(op, sent)
           params == OPERATIONS[op].params
<1>1. op \in Operation
  BY DEF Builds
<1>2. DOMAIN c = {k \in DOMAIN params : ~Given(params[k], k, sent).null}
  BY DEF Cleaned
<1>3. ASSUME NEW k \in DOMAIN c
      PROVE  /\ k \in Parameter /\ k \in DOMAIN params
             /\ c[k] = Given(params[k], k, sent)
             /\ c[k] \in Value
             /\ ~Invalid(params[k], c[k]) /\ ~c[k].null
  <2>1. k \in DOMAIN params /\ c[k] = Given(params[k], k, sent)
    BY <1>2 DEF Cleaned
  <2>2. k \in Parameter /\ params[k].default \in Value
    BY <1>1, <2>1, Catalogue
  <2>3. c[k] \in Value
    BY AccessAssumption, <2>1, <2>2 DEF Given, AccessAssumption
  <2>4. ~Invalid(params[k], c[k]) /\ ~c[k].null
    BY <1>2, <2>1 DEF Builds
  <2> QED BY <2>1, <2>2, <2>3, <2>4
<1>4. c \in [DOMAIN c -> Value]
  BY <1>3 DEF Cleaned
<1>5. DOMAIN c \in SUBSET Parameter
  BY <1>3
<1>6. c \in Params
  BY <1>4, <1>5 DEF Params
<1>7. ASSUME NEW k \in DOMAIN c
      PROVE  IF params[k].kind = "int" THEN c[k].num \in params[k].min .. params[k].max
             ELSE params[k].match \in c[k].match
  <2>1. params[k].min \in Int /\ params[k].max \in Int
    BY <1>1, <1>3, Catalogue
  <2>2. c[k].num \in Int
    BY <1>3 DEF Value
  <2> QED BY <1>3, <2>1, <2>2 DEF Invalid
<1> DEFINE e == [user |-> n, exec_type |-> "fixed", operation |-> op, params |-> c]
<1> HIDE DEF c
<1>8. e \in Entry
  BY <1>1, <1>6 DEF Entry, ExecType
<1>9. Whitelisted(e)
  BY <1>7 DEF Whitelisted
<1> QED BY <1>8, <1>9 DEF c

\* An arbitrary command carries no parameters.
LEMMA ArbitraryEntry ==
  ASSUME NEW n \in Name
  PROVE  LET e == [user |-> n, exec_type |-> "break_glass", operation |-> "none",
                   params |-> << >>]
         IN e \in Entry /\ Whitelisted(e)
<1>1. << >> \in [{} -> Value] /\ {} \in SUBSET Parameter
  OBVIOUS
<1>2. << >> \in Params
  BY <1>1 DEF Params
<1> QED BY <1>2 DEF Entry, ExecType, Whitelisted

-----------------------------------------------------------------------------
(* Types, the installation, and what is pending.                           *)

\* The program starts with an installation that is complete or has not begun.
LEMMA InitInv == Init => AccessInv
<1> SUFFICES ASSUME Init PROVE AccessInv
  OBVIOUS
<1>1. PICK s \in Installed : /\ users = s.users /\ roles = s.roles /\ flag = s.flag
                             /\ record = << >>
                             /\ used = [n \in Name |-> 0]
                             /\ call = [h \in Handler |-> Idle]
                             /\ boots = IF "admin" \in DOMAIN users THEN 1 ELSE 0
  BY DEF Init
<1>2. Database(s)
  BY AccessAssumption DEF AccessAssumption
<1>3. Idle \in Call
  BY AccessAssumption DEF Idle, Call, Step, Role, AccessAssumption
<1>4. record \in Seq(Entry) /\ DOMAIN record = {}
  BY <1>1
<1>5. Typed
  BY <1>1, <1>2, <1>3, <1>4 DEF Typed, Database
<1>6. Installation
  BY <1>1, <1>2 DEF Installation, Database, IsOn, ValueOf, Idle
<1>7. Pending /\ CommandsAreWhitelisted
  BY <1>1, <1>4 DEF Pending, PendingOK, CommandsAreWhitelisted, Idle
<1>8. ASSUME NEW n \in Name PROVE PaidFor(n)
  <2>1. Commands(n) = {} /\ Allowed(n) = {}
    BY <1>1, <1>4 DEF Commands, Allowed, Idle
  <2> QED BY <1>1, <2>1, FS_EmptySet DEF PaidFor
<1> QED BY <1>5, <1>6, <1>7, <1>8 DEF AccessInv, Audited

\* A request that goes on keeps to its thread's own slot.
LEMMA OneThread ==
  ASSUME NEW h \in Handler, NEW c \in Call, Typed, Goto(h, c)
  PROVE  /\ call' \in [Handler -> Call]
         /\ call'[h] = c
         /\ \A g \in Handler \ {h} : call'[g] = call[g]
BY DEF Goto, Typed

\* The slot of an idle thread is typed.
LEMMA IdleIsCall == Idle \in Call
BY AccessAssumption DEF Idle, Call, Step, Role, AccessAssumption

\* A request that is accepted only fills its slot: with a submission of its
\* user's that is whitelisted or still to be audited, or with a read that the
\* installation makes good (the handlers up to their first write).
Accepted(h) ==
  /\ UNCHANGED <<users, roles, flag, record, used, boots>>
  /\ call[h].at = "idle"
  /\ \E c \in Call : /\ Goto(h, c)
                     /\ PendingOK(c)
                     /\ c.at = "insert" => c.entry.exec_type = "fixed"
                     /\ c.at \in {"mark", "create"} => "admin" \in DOMAIN users

LEMMA RequestStep ==
  ASSUME NEW h \in Handler, AccessInv, Request(h)
  PROVE  Accepted(h)
<1>1. Idle \in Call
  BY IdleIsCall
<1>2. ASSUME NEW key \in Flag PROVE ValueOf(key) \in {"none", "true", "false"}
  BY DEF ValueOf, AccessInv, Typed
<1>3. ASSUME InitAdmin(h) PROVE Accepted(h)
  <2> DEFINE c == [Idle EXCEPT !.at = IF "admin" \in DOMAIN users THEN "mark" ELSE "bootstrap",
                               !.read = ValueOf("admin_bootstrapped"),
                               !.missing = Role \ roles]
  <2>1. c \in Call
    BY <1>1, <1>2 DEF Call, Step, Flag
  <2>2. c.at = IF "admin" \in DOMAIN users THEN "mark" ELSE "bootstrap"
    BY DEF Idle
  <2>3. UNCHANGED <<users, roles, flag, record, used, boots>> /\ call[h].at = "idle" /\ Goto(h, c)
    BY <1>3 DEF InitAdmin, At
  <2> HIDE DEF c
  <2>4. PendingOK(c)
    BY <2>2 DEF PendingOK
  <2> QED BY <2>1, <2>2, <2>3, <2>4 DEF Accepted
<1>4. ASSUME NEW n \in Name, NEW new \in Name, NEW role \in Role, CreateUser(h, n, new, role)
      PROVE  Accepted(h)
  <2> DEFINE c == [Idle EXCEPT !.at = "create", !.name = new, !.role = role]
  <2>1. c \in Call /\ c.at = "create"
    BY <1>1 DEF Call, Step, Idle
  <2>2. "admin" \in DOMAIN users
    BY <1>4 DEF CreateUser, Admin, LoggedIn, AccessInv, Installation
  <2>3. UNCHANGED <<users, roles, flag, record, used, boots>> /\ call[h].at = "idle" /\ Goto(h, c)
    BY <1>4 DEF CreateUser, At
  <2> HIDE DEF c
  <2>4. PendingOK(c)
    BY <2>1 DEF PendingOK
  <2> QED BY <2>1, <2>2, <2>3, <2>4 DEF Accepted
<1>5. ASSUME NEW n \in Name, NEW on \in BOOLEAN, SetBreakGlass(h, n, on)
      PROVE  Accepted(h)
  <2> DEFINE c == [Idle EXCEPT !.at = "switch", !.on = on,
                               !.read = ValueOf("break_glass_enabled")]
  <2>1. c \in Call /\ c.at = "switch"
    BY <1>1, <1>2 DEF Call, Step, Flag, Idle
  <2>2. UNCHANGED <<users, roles, flag, record, used, boots>> /\ call[h].at = "idle" /\ Goto(h, c)
    BY <1>5 DEF SetBreakGlass, At
  <2> HIDE DEF c
  <2>3. PendingOK(c)
    BY <2>1 DEF PendingOK
  <2> QED BY <2>1, <2>2, <2>3 DEF Accepted
<1>6. ASSUME NEW n \in Name, NEW op \in Operation, NEW sent \in Sent,
             NEW confirmed \in BOOLEAN, SubmitFixed(h, n, op, sent, confirmed)
      PROVE  Accepted(h)
  <2> DEFINE e == [user |-> n, exec_type |-> "fixed", operation |-> op,
                   params |-> Cleaned(op, sent)]
             c == [Idle EXCEPT !.at = "insert", !.name = n, !.entry = e]
  <2>1. e \in Entry /\ Whitelisted(e)
    BY <1>6, CleanedIsWhitelisted DEF SubmitFixed
  <2>2. e.user = n /\ e.exec_type = "fixed"
    OBVIOUS
  <2>3. UNCHANGED <<users, roles, flag, record, used, boots>> /\ call[h].at = "idle" /\ Goto(h, c)
    BY <1>6 DEF SubmitFixed, At
  <2> HIDE DEF e
  <2>4. c \in Call /\ c.at = "insert" /\ c.name = n /\ c.entry = e
    BY <1>1, <2>1 DEF Call, Step, Idle
  <2> HIDE DEF c
  <2>5. PendingOK(c)
    BY <2>1, <2>2, <2>4 DEF PendingOK
  <2> QED BY <2>2, <2>3, <2>4, <2>5 DEF Accepted
<1>7. ASSUME NEW n \in Name, NEW confirmed \in BOOLEAN, BreakGlass(h, n, confirmed)
      PROVE  Accepted(h)
  <2> DEFINE e == [user |-> n, exec_type |-> "break_glass", operation |-> "none",
                   params |-> << >>]
             c == [Idle EXCEPT !.at = "audit", !.name = n, !.confirmed = confirmed,
                               !.entry = e]
  <2>1. e \in Entry /\ Whitelisted(e)
    BY ArbitraryEntry
  <2>2. e.user = n /\ e.exec_type = "break_glass"
    OBVIOUS
  <2>3. UNCHANGED <<users, roles, flag, record, used, boots>> /\ call[h].at = "idle" /\ Goto(h, c)
    BY <1>7 DEF BreakGlass, At
  <2> HIDE DEF e
  <2>4. c \in Call /\ c.at = "audit" /\ c.name = n /\ c.entry = e
    BY <1>1, <2>1 DEF Call, Step, Idle
  <2> HIDE DEF c
  <2>5. PendingOK(c)
    BY <2>1, <2>2, <2>4 DEF PendingOK
  <2> QED BY <2>3, <2>4, <2>5 DEF Accepted
<1> QED BY <1>3, <1>4, <1>5, <1>6, <1>7 DEF Request

\* What a step writes has its type.
LEMMA TypedStep == AccessInv /\ [Next]_vars => Typed'
<1> SUFFICES ASSUME AccessInv, [Next]_vars PROVE Typed'
  OBVIOUS
<1> USE DEF AccessInv, Typed
<1>1. ASSUME NEW key \in Flag, NEW v \in {"true", "false"}, SetFlag(key, v)
      PROVE  DOMAIN flag' \subseteq Flag /\ flag' \in [DOMAIN flag' -> {"true", "false"}]
  BY <1>1 DEF SetFlag
<1>2. ASSUME NEW n \in Name, NEW role \in Role, AddUser(n, role)
      PROVE  DOMAIN users' \subseteq Name /\ users' \in [DOMAIN users' -> User]
  BY <1>2 DEF AddUser, User
<1>3. ASSUME NEW h \in Handler, Goto(h, Idle) PROVE call' \in [Handler -> Call]
  BY <1>3, IdleIsCall, OneThread
<1>4. CASE UNCHANGED vars
  BY <1>4 DEF vars
<1>5. ASSUME NEW h \in Handler, Request(h) PROVE Typed'
  BY <1>5, RequestStep, OneThread DEF Accepted
<1>6. ASSUME NEW h \in Handler, Mark(h) PROVE Typed'
  <2>1. DOMAIN flag' \subseteq Flag /\ flag' \in [DOMAIN flag' -> {"true", "false"}]
    BY <1>1, <1>6 DEF Mark, Flag
  <2> QED BY <1>3, <1>6, <2>1 DEF Mark
<1>7. ASSUME NEW h \in Handler, Bootstrap(h) PROVE Typed'
  <2>1. /\ DOMAIN flag' \subseteq Flag /\ flag' \in [DOMAIN flag' -> {"true", "false"}]
        /\ DOMAIN users' \subseteq Name /\ users' \in [DOMAIN users' -> User]
        /\ roles' \subseteq Role /\ boots' \in Nat
    BY AccessAssumption, <1>1, <1>2, <1>7 DEF Bootstrap, Flag, Role, AccessAssumption
  <2> QED BY <1>3, <1>7, <2>1 DEF Bootstrap
<1>8. ASSUME NEW h \in Handler, InsertUser(h) PROVE Typed'
  <2>1. call[h].name \in Name /\ call[h].role \in Role
    BY DEF Call
  <2>2. DOMAIN users' \subseteq Name /\ users' \in [DOMAIN users' -> User]
    BY <1>2, <1>8, <2>1 DEF InsertUser
  <2> QED BY <1>3, <1>8, <2>2 DEF InsertUser
<1>9. ASSUME NEW h \in Handler, Switch(h) PROVE Typed'
  <2>1. DOMAIN flag' \subseteq Flag /\ flag' \in [DOMAIN flag' -> {"true", "false"}]
    BY <1>1, <1>9 DEF Switch, OnOff, Flag
  <2> QED BY <1>3, <1>9, <2>1 DEF Switch
<1>10. ASSUME NEW h \in Handler, Audit(h) PROVE Typed'
  <2>1. [call[h] EXCEPT !.at = "insert"] \in Call /\ call[h].name \in Name
    BY DEF Call, Step
  <2>2. call' \in [Handler -> Call]
    BY <1>3, <1>10, <2>1, OneThread DEF Audit
  <2>3. used' \in [Name -> Nat]
    BY <1>10, <2>1 DEF Audit
  <2> QED BY <1>10, <2>2, <2>3 DEF Audit
<1>11. ASSUME NEW h \in Handler, Insert(h) PROVE Typed'
  <2>1. call[h].entry \in Entry
    BY <1>11 DEF Insert, At, Pending, PendingOK
  <2>2. record' \in Seq(Entry)
    BY <1>11, <2>1 DEF Insert
  <2> QED BY <1>3, <1>11, <2>2 DEF Insert
<1>12. ASSUME NEW h \in Handler, Crash(h) PROVE Typed'
  BY <1>3, <1>12 DEF Crash
<1>13. ASSUME NEW n \in Name, Disable(n) PROVE Typed'
  <2>1. DOMAIN users' \subseteq Name /\ users' \in [DOMAIN users' -> User]
    BY <1>13 DEF Disable, LoggedIn, User
  <2> QED BY <1>13, <2>1 DEF Disable
<1> QED BY <1>4, <1>5, <1>6, <1>7, <1>8, <1>9, <1>10, <1>11, <1>12, <1>13 DEF Next, Commit

\* A thread that gives up or is done leaves the others' requests as they are.
LEMMA BackToIdle ==
  ASSUME NEW h \in Handler, Typed, Goto(h, Idle)
  PROVE  /\ \A g \in Handler : call'[g] = IF g = h THEN Idle ELSE call[g]
         /\ PendingOK(Idle)
         /\ Idle.at = "idle"
BY IdleIsCall, OneThread DEF PendingOK, Idle

\* The administrator is installed once, and what the requests under way rest
\* on stays true (init_admin, create_user).
LEMMA InstallationStep == AccessInv /\ [Next]_vars => Installation'
<1> SUFFICES ASSUME AccessInv, [Next]_vars PROVE Installation'
  OBVIOUS
<1> USE DEF AccessInv, Installation
<1>1. ASSUME NEW h \in Handler, Goto(h, Idle), "admin" \in DOMAIN users => "admin" \in DOMAIN users'
      PROVE  \A g \in Handler : call'[g].at \in {"mark", "create"} => "admin" \in DOMAIN users'
  BY <1>1, BackToIdle
<1>2. ASSUME UNCHANGED <<users, boots>>,
             IsOn("admin_bootstrapped")' => "admin" \in DOMAIN users,
             \A g \in Handler : call'[g].at \in {"mark", "create"} => "admin" \in DOMAIN users
      PROVE  Installation'
  BY <1>2
<1>3. ASSUME UNCHANGED flag PROVE IsOn("admin_bootstrapped")' <=> IsOn("admin_bootstrapped")
  BY <1>3 DEF IsOn, ValueOf
<1>4. CASE UNCHANGED vars
  BY <1>2, <1>3, <1>4 DEF vars
<1>5. ASSUME NEW h \in Handler, Request(h) PROVE Installation'
  <2>1. PICK c \in Call : Goto(h, c) /\ (c.at \in {"mark", "create"} => "admin" \in DOMAIN users)
    BY <1>5, RequestStep DEF Accepted
  <2>2. \A g \in Handler : call'[g].at \in {"mark", "create"} => "admin" \in DOMAIN users
    BY <2>1, OneThread
  <2>3. UNCHANGED <<users, flag, boots>>
    BY <1>5, RequestStep DEF Accepted
  <2> QED BY <1>2, <1>3, <2>2, <2>3
<1>6. ASSUME NEW h \in Handler, Mark(h) PROVE Installation'
  BY <1>1, <1>2, <1>6 DEF Mark, At
<1>7. ASSUME NEW h \in Handler, Bootstrap(h) PROVE Installation'
  <2>1. CASE UNCHANGED <<users, roles, flag, boots>>
    BY <1>1, <1>2, <1>3, <1>7, <2>1 DEF Bootstrap
  <2>2. CASE ~UNCHANGED <<users, roles, flag, boots>>
    <3>1. "admin" \notin DOMAIN users /\ AddUser("admin", "admin") /\ boots' = boots + 1 /\ Goto(h, Idle)
      BY <1>7, <2>2 DEF Bootstrap
    <3>2. "admin" \in DOMAIN users'
      BY <3>1 DEF AddUser
    <3> QED BY <1>1, <3>1, <3>2
  <2> QED BY <2>1, <2>2
<1>8. ASSUME NEW h \in Handler, InsertUser(h) PROVE Installation'
  <2>1. "admin" \in DOMAIN users /\ UNCHANGED <<flag, boots>> /\ Goto(h, Idle)
    BY <1>8 DEF InsertUser, At
  <2>2. "admin" \in DOMAIN users'
    BY <1>8, <2>1 DEF InsertUser, AddUser
  <2> QED BY <1>1, <2>1, <2>2
<1>9. ASSUME NEW h \in Handler, Switch(h) PROVE Installation'
  <2>1. IsOn("admin_bootstrapped")' => IsOn("admin_bootstrapped")
    BY <1>9 DEF Switch, SetFlag, IsOn, ValueOf
  <2> QED BY <1>1, <1>2, <1>9, <2>1 DEF Switch
<1>10. ASSUME NEW h \in Handler, Audit(h) PROVE Installation'
  <2>1. [call[h] EXCEPT !.at = "insert"] \in Call
    BY DEF Call, Step, Typed
  <2>2. \A g \in Handler : call'[g].at \in {"mark", "create"} => "admin" \in DOMAIN users
    <3>1. CASE call[h].confirmed
      <4>1. Goto(h, [call[h] EXCEPT !.at = "insert"])
        BY <1>10, <3>1 DEF Audit
      <4>2. [call[h] EXCEPT !.at = "insert"].at = "insert"
        BY DEF Call, Typed
      <4> QED BY <2>1, <4>1, <4>2, OneThread
    <3>2. CASE ~call[h].confirmed
      BY <1>1, <1>10, <3>2 DEF Audit
    <3> QED BY <3>1, <3>2
  <2> QED BY <1>2, <1>3, <1>10, <2>2 DEF Audit
<1>11. ASSUME NEW h \in Handler, Insert(h) PROVE Installation'
  BY <1>1, <1>2, <1>3, <1>11 DEF Insert
<1>12. ASSUME NEW h \in Handler, Crash(h) PROVE Installation'
  BY <1>1, <1>2, <1>3, <1>12 DEF Crash
<1>13. ASSUME NEW n \in Name, Disable(n) PROVE Installation'
  <2>1. DOMAIN users' = DOMAIN users /\ UNCHANGED <<flag, call, boots>>
    BY <1>13 DEF Disable
  <2> QED BY <1>3, <2>1
<1> QED BY <1>4, <1>5, <1>6, <1>7, <1>8, <1>9, <1>10, <1>11, <1>12, <1>13 DEF Next, Commit

\* A step that lets no new submission through keeps Pending.
LEMMA PendingStep == AccessInv /\ [Next]_vars => Pending'
<1> SUFFICES ASSUME AccessInv, [Next]_vars PROVE Pending'
  OBVIOUS
<1> USE DEF AccessInv
<1>1. Pending' = \A g \in Handler : PendingOK(call'[g])
  BY DEF Pending, PendingOK, Whitelisted
<1>2. ASSUME NEW h \in Handler, NEW c \in Call, Goto(h, c), PendingOK(c) PROVE Pending'
  BY <1>1, <1>2, OneThread DEF Pending
<1>3. ASSUME NEW h \in Handler, Goto(h, Idle) PROVE Pending'
  BY <1>2, <1>3, IdleIsCall, BackToIdle
<1>4. CASE UNCHANGED call
  BY <1>1, <1>4 DEF Pending
<1>5. ASSUME NEW h \in Handler, Request(h) PROVE Pending'
  BY <1>2, <1>5, RequestStep DEF Accepted
<1>6. ASSUME NEW h \in Handler, Audit(h) PROVE Pending'
  <2>1. CASE call[h].confirmed
    <3> DEFINE c == [call[h] EXCEPT !.at = "insert"]
    <3>1. c \in Call /\ c.at = "insert" /\ c.name = call[h].name /\ c.entry = call[h].entry
      BY DEF Call, Step, Typed
    <3>2. Goto(h, c) /\ call[h].at = "audit"
      BY <1>6, <2>1 DEF Audit, At
    <3> HIDE DEF c
    <3>3. PendingOK(c)
      BY <3>1, <3>2 DEF Pending, PendingOK
    <3> QED BY <1>2, <3>1, <3>2, <3>3
  <2>2. CASE ~call[h].confirmed
    BY <1>3, <1>6, <2>2 DEF Audit
  <2> QED BY <2>1, <2>2
<1> QED BY <1>3, <1>4, <1>5, <1>6
        DEF Next, Commit, Mark, Bootstrap, InsertUser, Switch, Insert, Crash, Disable, vars

\* Only a submission that is whitelisted becomes a record (batch).
LEMMA RecordStep == AccessInv /\ [Next]_vars => CommandsAreWhitelisted'
<1> SUFFICES ASSUME AccessInv, [Next]_vars PROVE CommandsAreWhitelisted'
  OBVIOUS
<1> USE DEF AccessInv
<1>1. CASE UNCHANGED record
  BY <1>1 DEF CommandsAreWhitelisted, Whitelisted
<1>2. ASSUME NEW h \in Handler, Insert(h) PROVE CommandsAreWhitelisted'
  <2>1. call[h].entry \in Entry /\ Whitelisted(call[h].entry)
    BY <1>2 DEF Insert, At, Pending, PendingOK
  <2>2. record \in Seq(Entry) /\ record' = Append(record, call[h].entry)
    BY <1>2 DEF Insert, Typed
  <2>3. ASSUME NEW i \in DOMAIN record' PROVE Whitelisted(record'[i])
    BY <2>1, <2>2 DEF CommandsAreWhitelisted
  <2>4. CommandsAreWhitelisted' = \A i \in DOMAIN record' : Whitelisted(record'[i])
    BY DEF CommandsAreWhitelisted, Whitelisted
  <2> QED BY <2>3, <2>4
<1>3. ASSUME NEW h \in Handler, Request(h) PROVE UNCHANGED record
  BY <1>3, RequestStep DEF Accepted
<1> QED BY <1>1, <1>2, <1>3
        DEF Next, Commit, Mark, Bootstrap, InsertUser, Switch, Audit, Crash, Disable, vars

-----------------------------------------------------------------------------
(* Counting.                                                               *)

\* The commands and the submissions of a user can be counted.
LEMMA Countable ==
  ASSUME NEW n \in Name, Typed
  PROVE  /\ IsFiniteSet(Commands(n)) /\ Cardinality(Commands(n)) \in Nat
         /\ IsFiniteSet(Allowed(n)) /\ Cardinality(Allowed(n)) \in Nat
<1>1. Commands(n) \subseteq 1 .. Len(record) /\ Len(record) \in Nat
  BY DEF Typed, Commands
<1>2. IsFiniteSet(Commands(n))
  <2>1. IsFiniteSet(1 .. Len(record))
    BY <1>1, FS_Interval
  <2> QED BY <1>1, <2>1, FS_Subset
<1>3. IsFiniteSet(Allowed(n))
  BY AccessAssumption, FS_Subset DEF Allowed, AccessAssumption
<1> QED BY <1>2, <1>3, FS_CardinalityType

\* A step that records nothing and lets no further arbitrary command through
\* keeps what was paid for.
LEMMA NothingToPay ==
  ASSUME NEW n \in Name, Typed, PaidFor(n), UNCHANGED record,
         used'[n] = used[n], Allowed(n)' \subseteq Allowed(n)
  PROVE  PaidFor(n)'
<1>1. Commands(n)' = Commands(n)
  BY DEF Commands
<1>2. Cardinality(Allowed(n)') \in Nat /\ Cardinality(Allowed(n)') <= Cardinality(Allowed(n))
  BY Countable, FS_Subset, FS_CardinalityType
<1>3. used[n] \in Nat
  BY DEF Typed
<1> QED BY <1>1, <1>2, <1>3, Countable DEF PaidFor

\* A request that ends leaves the other ones of its user.
LEMMA EndedIsNotAllowed ==
  ASSUME NEW n \in Name, NEW h \in Handler, Typed, Goto(h, Idle)
  PROVE  Allowed(n)' = Allowed(n) \ {h}
BY BackToIdle DEF Allowed

\* A use is audited before its command can run, and each use pays for one
\* (_resolve_command, batch).
LEMMA AuditedStep == AccessInv /\ [Next]_vars => Audited'
<1> SUFFICES ASSUME AccessInv, [Next]_vars, NEW n \in Name
             PROVE  PaidFor(n)'
  BY DEF Audited
<1> USE DEF AccessInv
<1>1. PaidFor(n) /\ used[n] \in Nat
  BY DEF Audited, Typed
<1>2. ASSUME UNCHANGED <<record, used, call>> PROVE PaidFor(n)'
  BY <1>1, <1>2, NothingToPay DEF Allowed
<1>3. ASSUME NEW h \in Handler, Goto(h, Idle), UNCHANGED <<record, used>> PROVE PaidFor(n)'
  BY <1>1, <1>3, EndedIsNotAllowed, NothingToPay
<1>4. ASSUME NEW h \in Handler, Request(h) PROVE PaidFor(n)'
  <2>1. PICK c \in Call : Goto(h, c) /\ (c.at = "insert" => c.entry.exec_type = "fixed")
    BY <1>4, RequestStep DEF Accepted
  <2>2. Allowed(n)' \subseteq Allowed(n)
    BY <2>1, OneThread DEF Allowed
  <2>3. UNCHANGED <<record, used>>
    BY <1>4, RequestStep DEF Accepted
  <2> QED BY <1>1, <2>2, <2>3, NothingToPay
<1>5. ASSUME NEW h \in Handler, Audit(h) PROVE PaidFor(n)'
  <2>1. /\ call[h].at = "audit" /\ call[h].name \in Name
        /\ call[h].entry.user = call[h].name
        /\ used' = [used EXCEPT ![call[h].name] = @ + 1]
        /\ UNCHANGED record
    BY <1>5 DEF Audit, At, Typed, Call, Pending, PendingOK
  <2>2. CASE ~call[h].confirmed
    <3>1. Allowed(n)' \subseteq Allowed(n)
      BY <1>5, <2>2, EndedIsNotAllowed DEF Audit
    <3>2. CASE n # call[h].name
      BY <1>1, <2>1, <3>1, <3>2, NothingToPay DEF Typed
    <3>3. CASE n = call[h].name
      <4>1. used'[n] = used[n] + 1
        BY <2>1, <3>3 DEF Typed
      <4>2. Cardinality(Allowed(n)') \in Nat /\ Cardinality(Allowed(n)') <= Cardinality(Allowed(n))
        BY <3>1, Countable, FS_Subset, FS_CardinalityType
      <4>3. Commands(n)' = Commands(n)
        BY <2>1 DEF Commands
      <4> QED BY <1>1, <4>1, <4>2, <4>3, Countable DEF PaidFor
    <3> QED BY <3>2, <3>3
  <2>3. CASE call[h].confirmed
    <3> DEFINE c == [call[h] EXCEPT !.at = "insert"]
    <3>1. c \in Call /\ c.entry = call[h].entry
      BY DEF Call, Step, Typed
    <3>2. Goto(h, c)
      BY <1>5, <2>3 DEF Audit
    <3> HIDE DEF c
    <3>3. CASE n # call[h].name
      <4>1. Allowed(n)' \subseteq Allowed(n)
        BY <2>1, <3>1, <3>2, <3>3, OneThread DEF Allowed
      <4> QED BY <1>1, <2>1, <3>3, <4>1, NothingToPay DEF Typed
    <3>4. CASE n = call[h].name
      <4>1. used'[n] = used[n] + 1
        BY <2>1, <3>4 DEF Typed
      <4>2. Allowed(n)' \subseteq Allowed(n) \cup {h}
        BY <3>2, <3>1, OneThread DEF Allowed
      <4>3. h \notin Allowed(n)
        BY <2>1 DEF Allowed
      <4>4. /\ IsFiniteSet(Allowed(n) \cup {h})
            /\ Cardinality(Allowed(n) \cup {h}) = Cardinality(Allowed(n)) + 1
        BY <4>3, Countable, FS_AddElement
      <4>5. /\ Cardinality(Allowed(n)') \in Nat
            /\ Cardinality(Allowed(n)') <= Cardinality(Allowed(n)) + 1
        BY <4>2, <4>4, FS_Subset, FS_CardinalityType
      <4>6. Commands(n)' = Commands(n)
        BY <2>1 DEF Commands
      <4> QED BY <1>1, <4>1, <4>5, <4>6, Countable DEF PaidFor
    <3> QED BY <3>3, <3>4
  <2> QED BY <2>2, <2>3
<1>6. ASSUME NEW h \in Handler, Insert(h) PROVE PaidFor(n)'
  <2> DEFINE e == call[h].entry
  <2>1. /\ call[h].at = "insert" /\ e \in Entry
        /\ record \in Seq(Entry) /\ record' = Append(record, e)
        /\ Goto(h, Idle) /\ used' = used
    BY <1>6 DEF Insert, At, Typed, Pending, PendingOK
  <2>2. Allowed(n)' = Allowed(n) \ {h}
    BY <2>1, EndedIsNotAllowed
  <2>3. CASE e.exec_type = "break_glass" /\ e.user = n
    <3>1. h \in Allowed(n)
      BY <2>1, <2>3 DEF Allowed
    <3>2. Cardinality(Allowed(n)') = Cardinality(Allowed(n)) - 1
      BY <2>2, <3>1, Countable, FS_RemoveElement
    <3>3. Commands(n)' = Commands(n) \cup {Len(record) + 1}
      BY <2>1, <2>3 DEF Commands
    <3>4. Len(record) + 1 \notin Commands(n)
      BY <2>1 DEF Commands
    <3>5. Cardinality(Commands(n)') = Cardinality(Commands(n)) + 1
      BY <3>3, <3>4, Countable, FS_AddElement
    <3> QED BY <1>1, <2>1, <3>2, <3>5, Countable DEF PaidFor
  <2>4. CASE ~(e.exec_type = "break_glass" /\ e.user = n)
    <3>1. Commands(n)' = Commands(n)
      BY <2>1, <2>4 DEF Commands
    <3>2. /\ Cardinality(Allowed(n)') \in Nat
          /\ Cardinality(Allowed(n)') <= Cardinality(Allowed(n))
      BY <2>2, Countable, FS_Subset, FS_CardinalityType
    <3> QED BY <1>1, <2>1, <3>1, <3>2, Countable DEF PaidFor
  <2> QED BY <2>3, <2>4
<1> QED BY <1>2, <1>3, <1>4, <1>5, <1>6
        DEF Next, Commit, Mark, Bootstrap, InsertUser, Switch, Crash, Disable, vars

-----------------------------------------------------------------------------
(* Theorems.                                                               *)

\* What a request read before its commit still holds as far as it relies on it.
THEOREM AccessInvariant == Spec => []AccessInv
<1>1. AccessInv /\ [Next]_vars => AccessInv'
  BY TypedStep, InstallationStep, PendingStep, RecordStep, AuditedStep DEF AccessInv
<1> QED BY InitInv, <1>1, PTL DEF Spec

\* Every variable has its type.
THEOREM TypesAreRight == Spec => []TypeOK
<1>1. AccessInv => TypeOK
  <2> SUFFICES ASSUME AccessInv PROVE TypeOK
    OBVIOUS
  <2>1. \A i \in DOMAIN record : record[i] \in Entry
    BY DEF AccessInv, Typed
  <2>2. \A i \in DOMAIN record : record[i].user \in Name /\ record[i].exec_type \in ExecType
    BY <2>1 DEF Entry
  <2>3. \A h \in Handler : call[h] \in Call
    BY DEF AccessInv, Typed
  <2> QED BY <2>2, <2>3 DEF AccessInv, Typed, TypeOK, Call
<1> QED BY AccessInvariant, <1>1, PTL

\* The administrator is installed at most once (init_admin).
THEOREM AdministratorInstalledOnce == Spec => []InstalledOnce
<1>1. AccessInv => InstalledOnce
  BY DEF AccessInv, Installation, InstalledOnce
<1> QED BY AccessInvariant, <1>1, PTL

\* Every parameter that reaches a command is whitelisted (validate_and_build).
THEOREM EveryCommandIsWhitelisted == Spec => []CommandsAreWhitelisted
<1>1. AccessInv => CommandsAreWhitelisted
  BY DEF AccessInv
<1> QED BY AccessInvariant, <1>1, PTL

\* Every arbitrary command was audited before it was recorded (_resolve_command).
THEOREM EveryBreakGlassIsAudited == Spec => []BreakGlassIsAudited
<1>1. AccessInv => BreakGlassIsAudited
  <2> SUFFICES ASSUME AccessInv, NEW n \in Name PROVE Cardinality(Commands(n)) <= used[n]
    BY DEF BreakGlassIsAudited
  <2>1. PaidFor(n) /\ used[n] \in Nat
    BY DEF AccessInv, Audited, Typed
  <2> QED BY <2>1, Countable DEF PaidFor, AccessInv
<1> QED BY AccessInvariant, <1>1, PTL

\* No account is replaced or given another role (create_user, init_admin).
THEOREM NoAccountIsReplaced == Spec => AccountsAreKept
<1> DEFINE Kept == \A n \in DOMAIN users : n \in DOMAIN users' /\ users'[n].role = users[n].role
<1>1. ASSUME AccessInv, [Next]_vars PROVE Kept
  <2> USE DEF AccessInv
  <2>1. CASE UNCHANGED users
    BY <2>1
  <2>2. ASSUME NEW h \in Handler, Request(h) PROVE Kept
    BY <1>1, <2>2, RequestStep DEF Accepted
  <2>3. ASSUME NEW h \in Handler, Bootstrap(h) PROVE Kept
    BY <2>3 DEF Bootstrap, AddUser
  <2>4. ASSUME NEW h \in Handler, InsertUser(h) PROVE Kept
    BY <2>4 DEF InsertUser, AddUser
  <2>5. ASSUME NEW n \in Name, Disable(n) PROVE Kept
    BY <1>1, <2>5 DEF Disable, Typed, User
  <2> QED BY <1>1, <2>1, <2>2, <2>3, <2>4, <2>5
          DEF Next, Commit, Mark, Switch, Audit, Insert, Crash, vars
<1>2. AccessInv /\ [Next]_vars => [Kept]_vars
  BY <1>1
<1> QED BY AccessInvariant, <1>2, PTL DEF Spec, AccountsAreKept
=============================================================================
