------------------------------ MODULE HostFacts ------------------------------
(***************************************************************************)
(* Collecting the facts of one host (services/host_inspection.py): what a  *)
(* host answers to the probes, and what the parsers make of it.  Only the  *)
(* probes that rules read are kept; hostname, os-release, uname and nproc  *)
(* fill columns that nothing but the web page reads.                       *)
(*                                                                         *)
(* Percentages and loads are integers in tenths: the code rounds to one    *)
(* decimal.                                                                *)
(***************************************************************************)
EXTENDS Integers, FiniteSets, FiniteSetsExt

NoData == -1

Probe == {"uptime", "memory", "disk", "inode", "ports", "services"}

\* What may end a collection before the first probe: the caller could not
\* decrypt the credentials, there is no session, or there is none and the
\* exception has no text (the EOFError of a peer that closes during the key
\* exchange).
Connection == {"ok", "locked", "error", "silent"}

\* df appends a unit to the sizes of a line ("M": one of them is below a
\* gigabyte), and it lists file systems that are no disks.
Unit == {"M", "G", "T"}
Disk == [mount : STRING, pseudo : BOOLEAN, unit : Unit, pct : Int]

\* The output of free -m: used and total of a line, or no such line.
Share == [used : Int, total : Int]

\* A line whose size does not read as a number once a trailing G is gone is
\* dropped, and so is one without a percentage.  "1.5T" becomes "1.5G".
ParseDf(disks) == {d \in disks : ~d.pseudo /\ d.unit = "G" /\ d.pct # NoData}

\* Inodes are counted, not sized: the last line of a mount wins, and each
\* mount has one.
ParseDfI(disks, mount) ==
  LET lines == {d \in disks : ~d.pseudo /\ d.pct # NoData /\ d.mount = mount}
  IN IF lines = {} THEN NoData ELSE (CHOOSE d \in lines : TRUE).pct

\* used_pct of memory and swap, rounded to a decimal; no total, no value.
Percent(s, default) ==
  IF s.total \in {NoData, 0} THEN default
  ELSE (2000 * s.used + s.total) \div (2 * s.total)

NoShare == [used |-> NoData, total |-> NoData]

\* to_dict of a HostFacts nobody filled in: swap_used_pct is 0, not None.
Blank ==
  [unavailable |-> FALSE, load_5 |-> NoData, memory_used_pct |-> NoData,
   swap_used_pct |-> 0, used_pct |-> {}, inode_pct |-> {},
   listening_ports |-> {}, active_services |-> {}, probes_failed |-> {}]

\* The probes of an open session that work are parsed, each for itself.
Probed(a, works) ==
  LET disks == IF "disk" \in works THEN ParseDf(a.disks) ELSE {}
      inode == {ParseDfI(a.inodes, d.mount) : d \in disks}
  IN [unavailable     |-> FALSE,
      load_5          |-> IF "uptime" \in works THEN a.load_5 ELSE NoData,
      memory_used_pct |-> Percent(IF "memory" \in works THEN a.memory ELSE NoShare, NoData),
      swap_used_pct   |-> Percent(IF "memory" \in works THEN a.swap ELSE NoShare, 0),
      used_pct        |-> {d.pct : d \in disks},
      inode_pct       |-> IF "inode" \in works THEN inode \ {NoData} ELSE {},
      listening_ports |-> IF "ports" \in works THEN a.ports ELSE {},
      active_services |-> IF "services" \in works THEN a.services ELSE {},
      probes_failed   |-> Probe \ works]

\* Mutation of Collect: the first probe that fails ends the collection.
CollectTogether(a) ==
  CASE a.conn = "ok"     -> Probed(a, IF a.broken = {} THEN Probe ELSE {})
    [] a.conn = "silent" -> [Blank EXCEPT !.probes_failed = {"connect"}]
    [] a.conn = "error"  -> [Blank EXCEPT !.probes_failed = {"connect"},
                                          !.unavailable = TRUE]

\* collect_host_facts: a failed connection leaves its text as the reason why
\* nothing is available, and an empty text is none.
Collect(a) ==
  CASE a.conn = "ok"     -> Probed(a, Probe \ a.broken)
    [] a.conn = "silent" -> [Blank EXCEPT !.probes_failed = {"connect"}]
    [] a.conn = "error"  -> [Blank EXCEPT !.probes_failed = {"connect"},
                                          !.unavailable = TRUE]

-----------------------------------------------------------------------------
(* What the host is really like, for the properties to compare with.       *)

\* The probes that a metric is read from: inodes are noted with the disks.
ProbesOf(metric) ==
  CASE metric = "disk_used_pct"      -> {"disk"}
    [] metric = "inode_used_pct"     -> {"disk", "inode"}
    [] metric = "load_5"             -> {"uptime"}
    [] metric = "service_stopped"    -> {"services"}
    [] metric = "port_not_listening" -> {"ports"}
    [] OTHER                         -> {"memory"}
=============================================================================
