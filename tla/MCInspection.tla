---------------------------- MODULE MCInspection ----------------------------
(* Instances of Inspection for TLC. *)
EXTENDS Inspection, TLC

CONSTANTS a1, a2

One  == {<<a1>>}
Both == {<<a1, a2>>}

Root(unit, pct) == [mount |-> "/", pseudo |-> FALSE, unit |-> unit, pct |-> pct]
Tmpfs == [mount |-> "/run", pseudo |-> TRUE, unit |-> "G", pct |-> 1000]

\* A host with nothing to complain about, and what differs from it.
Well ==
  [conn |-> "ok", broken |-> {}, load_5 |-> 10, memory |-> [used |-> 1, total |-> 2],
   swap |-> [used |-> 0, total |-> 1], disks |-> {Root("G", 500), Tmpfs},
   inodes |-> {Root("G", 100)}, ports |-> {"22"}, services |-> {"nginx"}]
Full     == [Well EXCEPT !.disks = {Root("G", 970), Tmpfs}, !.inodes = {Root("G", 950)}]
\* Memory is short, df hangs, and ss is not installed.
Pressed  == [Well EXCEPT !.memory = [used |-> 19, total |-> 20], !.broken = {"ports", "disk"}]
Locked   == [Well EXCEPT !.conn = "locked"]
Refused  == [Well EXCEPT !.conn = "error"]
Terabyte == [Well EXCEPT !.disks = {Root("T", 970), Tmpfs}]

Answers == a1 :> {Well, Pressed} @@ a2 :> {Full, Locked, Refused}
Large   == a1 :> {Terabyte}

\* A rule of the user's, and one that has the name of a default and asks a
\* number for its items.
Own    == Rule("own", "disk_used_pct", "gt", Number("40", 400), "warning")
Absurd == Rule("memory", "load_5", "contains", Number("4", 40), "warning")
Some   == {r \in DefaultRules : r.name \in {"disk full", "inode", "memory", "service"}}
FreshOrOwn == {{}, {Own}}
Fresh      == {{}}
Payloads   == {Absurd}
=============================================================================
