--------------------------- MODULE InspectionRules ---------------------------
(***************************************************************************)
(* The rule engine (services/inspection_rules.py): facts and rules in, a   *)
(* verdict out, or an exception.                                           *)
(*                                                                         *)
(* A threshold is a text and the number it reads as, in tenths, if any.    *)
(***************************************************************************)
EXTENDS HostFacts

\* STATUS.ORDER.  A severity outside it is a KeyError.
Order == [unknown |-> 0, healthy |-> 1, warning |-> 2, critical |-> 3]
Verdict == DOMAIN Order

Metric   == {"disk_used_pct", "inode_used_pct", "memory_used_pct", "swap_used_pct",
             "load_5", "service_stopped", "port_not_listening"}
Listed   == {"service_stopped", "port_not_listening"}
Numeric  == {"gt", "lt", "eq", "ne"}
Contains == {"contains", "not_contains"}

Text(t)      == [text |-> t, num |-> NoData]
Number(t, n) == [text |-> t, num |-> n]

Rule(name, metric, operator, threshold, severity) ==
  [name |-> name, metric |-> metric, operator |-> operator,
   threshold |-> threshold, severity |-> severity, enabled |-> TRUE]

DefaultRules ==
  {Rule("disk high", "disk_used_pct", "gt", Number("90", 900), "warning"),
   Rule("disk full", "disk_used_pct", "gt", Number("95", 950), "critical"),
   Rule("inode", "inode_used_pct", "gt", Number("90", 900), "warning"),
   Rule("memory", "memory_used_pct", "gt", Number("90", 900), "warning"),
   Rule("swap", "swap_used_pct", "gt", Number("50", 500), "warning"),
   Rule("load", "load_5", "gt", Number("4", 40), "warning"),
   Rule("service", "service_stopped", "not_contains", Text("nginx"), "critical"),
   Rule("port", "port_not_listening", "not_contains", Number("22", 220), "warning")}

Highest(pcts) == IF pcts = {} THEN NoData ELSE Max(pcts)

\* _metric_value of a metric that is a number, and of one that is a list.
Value(f, metric) ==
  CASE metric = "disk_used_pct"   -> Highest(f.used_pct)
    [] metric = "inode_used_pct"  -> Highest(f.inode_pct)
    [] metric = "memory_used_pct" -> f.memory_used_pct
    [] metric = "swap_used_pct"   -> f.swap_used_pct
    [] metric = "load_5"          -> f.load_5
    [] OTHER                      -> NoData
Items(f, metric) == IF metric = "service_stopped" THEN f.active_services
                                                  ELSE f.listening_ports

Missing(f, r) == r.metric \notin Listed /\ Value(f, r.metric) = NoData

\* _compare; a number has no items, and zero counts as an empty list.
Triggers(f, r) ==
  LET v == Value(f, r.metric)
      t == r.threshold
      Has == r.metric \in Listed /\ t.text \in Items(f, r.metric)
  IN \/ r.metric \notin Listed /\ t.num # NoData
        /\ \/ r.operator = "gt" /\ v > t.num
           \/ r.operator = "lt" /\ v < t.num
           \/ r.operator = "eq" /\ v = t.num
           \/ r.operator = "ne" /\ v # t.num
     \/ r.operator = "contains" /\ Has
     \/ r.operator = "not_contains" /\ ~Has

RuleStatus(f, r) == IF Missing(f, r) THEN "unknown"
                    ELSE IF Triggers(f, r) THEN r.severity ELSE "healthy"

\* What ends the evaluation by an exception: iterating over a number that is
\* not zero, and a severity that has no place in the order.
Raises(f, r) ==
  ~Missing(f, r) /\ \/ r.operator \in Contains /\ r.metric \notin Listed
                       /\ Value(f, r.metric) # 0
                    \/ RuleStatus(f, r) \notin Verdict

EvaluationRaises(f, rules) ==
  ~f.unavailable /\ \E r \in rules : r.enabled /\ Raises(f, r)

\* One result for each enabled rule; none at all when nothing was collected.
Results(f, rules) ==
  IF f.unavailable THEN {}
  ELSE {[rule |-> r, status |-> RuleStatus(f, r)] : r \in {q \in rules : q.enabled}}

Worst(ranks) == LET worst == Max({Order["healthy"]} \cup ranks)
                IN CHOOSE s \in Verdict : Order[s] = worst

\* Mutation of Overall: no rule, no complaint.
OverallLenient(f, rules) ==
  IF f.unavailable THEN "unknown"
  ELSE Worst({Order[x.status] : x \in Results(f, rules)})

\* The worst status wins, starting from "healthy".
Overall(f, rules) ==
  IF f.unavailable \/ Results(f, rules) = {} THEN "unknown"
  ELSE Worst({Order[x.status] : x \in Results(f, rules)})

-----------------------------------------------------------------------------
(* A reference for one rule: what it is about, read off the host itself.   *)

\* A rule that describes a state of the host.
Describes(r) ==
  /\ r.severity \in {"warning", "critical"}
  /\ \/ r.metric \in Metric \ Listed /\ r.operator = "gt" /\ r.threshold.num \in Nat
     \/ r.metric \in Listed /\ r.operator \in Contains

\* The host is in that state (the descriptions of default_rules: "any disk",
\* "any inode table", "the service is not running").
Alarm(a, r) ==
  LET n           == r.threshold.num
      Full(lines) == \E d \in lines : ~d.pseudo /\ d.pct > n
      Short(s)    == s.total > 0 /\ 1000 * s.used > n * s.total
      Off(S)      == r.operator = "contains" <=> r.threshold.text \in S
  IN CASE r.metric = "disk_used_pct"      -> Full(a.disks)
       [] r.metric = "inode_used_pct"     -> Full(a.inodes)
       [] r.metric = "memory_used_pct"    -> Short(a.memory)
       [] r.metric = "swap_used_pct"      -> Short(a.swap)
       [] r.metric = "load_5"             -> a.load_5 > n
       [] r.metric = "service_stopped"    -> Off(a.services)
       [] r.metric = "port_not_listening" -> Off(a.ports)

\* What the parsers make of the answer does not hide that state: df measures
\* every disk in gigabytes and lists each in both of its tables, once; and a
\* share that exceeds the threshold does so after it is rounded.
Legible(a, r) ==
  LET n        == r.threshold.num
      Disks(S) == {d \in S : ~d.pseudo /\ d.pct # NoData}
      Sized    == \A d \in Disks(a.disks) : d.unit = "G" /\ d.pct \in 0 .. 1000
      Paired   == \A d \in Disks(a.inodes) :
                    /\ d.pct \in 0 .. 1000
                    /\ \E e \in Disks(a.disks) : e.mount = d.mount
                    /\ \A e \in Disks(a.inodes) : e.mount = d.mount => e.pct = d.pct
      Sharp(s) == \/ s.total \in {0, NoData}
                  \/ /\ s.total \in Nat /\ s.used \in Nat
                     /\ 1000 * s.used > n * s.total => 2000 * s.used >= (2 * n + 1) * s.total
  IN CASE r.metric = "disk_used_pct"   -> Sized
       [] r.metric = "inode_used_pct"  -> Sized /\ Paired
       [] r.metric = "memory_used_pct" -> Sharp(a.memory)
       [] r.metric = "swap_used_pct"   -> Sharp(a.swap)
       [] OTHER                        -> TRUE
=============================================================================
