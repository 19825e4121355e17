----------------------------- MODULE Operations -----------------------------
(***************************************************************************)
(* The catalogue of fixed operations and the validation of their           *)
(* parameters (services/operations.py).  A value that a user sends is      *)
(* known by what the validation asks of it; what it is quoted with and     *)
(* spliced into is left out.                                               *)
(***************************************************************************)
EXTENDS Integers, FiniteSets

NoNumber == -1

\* A value: null, or a text with the number it reads as, the whitelists it
\* matches, and whether it is longer than 256 characters.
Whitelist == {"_SERVICE", "_PATH"}
Value     == [null : BOOLEAN, num : Int, match : SUBSET Whitelist, long : BOOLEAN]

Null      == [null |-> TRUE,  num |-> NoNumber, match |-> {}, long |-> FALSE]
Digits(n) == [null |-> FALSE, num |-> n, match |-> {"_SERVICE"}, long |-> FALSE]
Word(ws)  == [null |-> FALSE, num |-> NoNumber, match |-> ws, long |-> FALSE]

\* OperationParam, of kind str and of kind int.
Str(list, required) == [kind |-> "str", match |-> list, min |-> 0, max |-> 0,
                        default |-> Null, required |-> required]
Num(min, max, default) == [kind |-> "int", match |-> "none", min |-> min, max |-> max,
                           default |-> default, required |-> FALSE]

Operation == {"disk_usage", "memory_usage", "service_status", "service_restart",
              "log_tail", "port_listen"}
Parameter == {"path", "service", "lines", "port"}

\* OPERATIONS: the parameters of each operation, and those that the command
\* is built from whether or not they are there.
OPERATIONS == [op \in Operation |->
  CASE op = "disk_usage" ->
         [risk |-> "read", params |-> [path |-> Str("_PATH", FALSE)], uses |-> {}]
    [] op = "memory_usage" ->
         [risk |-> "read", params |-> << >>, uses |-> {}]
    [] op = "service_status" ->
         [risk |-> "read", params |-> [service |-> Str("_SERVICE", TRUE)], uses |-> {"service"}]
    [] op = "service_restart" ->
         [risk |-> "write", params |-> [service |-> Str("_SERVICE", TRUE)], uses |-> {"service"}]
    [] op = "log_tail" ->
         [risk |-> "read", params |-> [lines |-> Num(1, 200, Digits(50)),
                                       path |-> Str("_PATH", FALSE)], uses |-> {"lines"}]
    [] op = "port_listen" ->
         [risk |-> "read", params |-> [port |-> Num(1, 65535, Null)], uses |-> {}]]

\* params.get(key, default): a null that is sent is not replaced.
Given(p, key, sent) == IF key \in DOMAIN sent THEN sent[key] ELSE p.default

\* Mutation of Invalid: a limit is not looked at.
InvalidUpTo(p, v) ==
  IF v.null THEN p.required
  ELSE IF p.kind = "int" THEN v.num = NoNumber \/ v.num < p.min
  ELSE p.match \notin v.match \/ v.long

\* What raises ValueError.
Invalid(p, v) ==
  IF v.null THEN p.required
  ELSE IF p.kind = "int" THEN v.num = NoNumber \/ v.num < p.min \/ v.num > p.max
  ELSE p.match \notin v.match \/ v.long

\* The parameters that reach the command.
Cleaned(op, sent) ==
  LET params == OPERATIONS[op].params
      kept   == {k \in DOMAIN params : ~Given(params[k], k, sent).null}
  IN [k \in kept |-> Given(params[k], k, sent)]

\* build_fixed_command succeeds: no parameter is invalid (ValueError, 400), and
\* the command does not name one that is missing (KeyError, 500).
Builds(op, sent) ==
  /\ op \in Operation
  /\ LET params == OPERATIONS[op].params IN
       \A k \in DOMAIN params : ~Invalid(params[k], Given(params[k], k, sent))
  /\ OPERATIONS[op].uses \subseteq DOMAIN Cleaned(op, sent)

is_write_operation(op) == op \in Operation /\ OPERATIONS[op].risk = "write"
=============================================================================
