------------------------------- MODULE SgOpen -------------------------------
(***************************************************************************)
(* The sg-open handler on one security group: which entries plan wants     *)
(* revoked, and the one call of apply, while people go on authorising and  *)
(* revoking rules.                                                         *)
(*                                                                         *)
(* EC2 keeps a group as permission entries, one per protocol and port      *)
(* range, each with its set of sources.  What an entry means is the set of *)
(* flows it admits, and that is what the properties speak of.              *)
(***************************************************************************)
EXTENDS Integers, FiniteSets

CONSTANTS
    Entries,     \* the permission entries a group may have: [protocol, from, to]
    AnyPort,     \* from or to of an entry without that field, which is no port
    FlowPorts,   \* the ports at which flows are told apart
    MaxRules     \* bound: sources in a group, over all its entries

World   == {"0.0.0.0/0", "::/0"}
Sources == World \cup {"10.0.0.0/8"}

SENSITIVE_PORTS ==
    {20, 21, 22, 23, 25, 135, 137, 138, 139, 389, 445, 512, 513, 514, 1433,
     1521, 2375, 2376, 2379, 3000, 3306, 3389, 4333, 5432, 5439, 5500, 5601,
     5900, 5984, 6379, 7000, 7001, 8020, 8086, 8500, 9042, 9200, 9300, 11211,
     27017, 27018, 50070}

VARIABLES
    group,      \* entry -> its sources
    pc,
    before,     \* snapshot: the entries and sources that plan described
    outcome,    \* what became of the invocation
    grown       \* history: somebody authorised a source since plan described

vars == <<group, pc, before, outcome, grown>>

Empty == [p \in Entries |-> {}]

-----------------------------------------------------------------------------
(* Mutation: the upper end of a range is left out. *)
CoveredHalfOpen(p) ==
    CASE p.protocol = "-1" -> SENSITIVE_PORTS
      [] p.protocol \notin {"-1", "tcp", "udp"} -> {}
      [] OTHER -> SENSITIVE_PORTS \cap (p.from .. (p.to - 1))

(* _covered_sensitive_ports: a range may be given from high to low. *)
Covered(p) ==
    CASE p.protocol = "-1" -> SENSITIVE_PORTS
      [] p.protocol \notin {"-1", "tcp", "udp"} -> {}
      [] p.protocol \in {"tcp", "udp"} /\ AnyPort \in {p.from, p.to} -> SENSITIVE_PORTS
      [] OTHER -> SENSITIVE_PORTS \cap ((p.from .. p.to) \cup (p.to .. p.from))

(* Mutation: the whole entry is revoked, internal sources included. *)
NarrowedWhole(p, sources) == IF World \cap sources # {} /\ Covered(p) # {} THEN sources ELSE {}

(* _world_open_dangerous_part: what of the entry is to be revoked. *)
Narrowed(p, sources) == IF Covered(p) # {} THEN World \cap sources ELSE {}

(* plan's revocations, and whether there are none. *)
Revocations(g) == [p \in Entries |-> Narrowed(p, g[p])]
Harmless(g)    == Revocations(g) = Empty

Init ==
    /\ group = Empty
    /\ pc = "people"
    /\ before = Empty
    /\ outcome = "NONE"
    /\ grown = FALSE

(* People authorise a source on an entry, within the group's quota. *)
Authorize(p, s) ==
    /\ Cardinality({r \in Entries \X Sources : r[2] \in group[r[1]]}) < MaxRules
    /\ group' = [group EXCEPT ![p] = @ \cup {s}]
    /\ grown' = TRUE
    /\ UNCHANGED <<pc, before, outcome>>

(* People revoke one. *)
Revoke(p, s) ==
    /\ s \in group[p]
    /\ group' = [group EXCEPT ![p] = @ \ {s}]
    /\ UNCHANGED <<pc, before, outcome, grown>>

(* plan describes the group and decides. *)
Describe ==
    /\ pc = "people"
    /\ before' = group
    /\ grown' = FALSE
    /\ IF Harmless(group) THEN pc' = "done" /\ outcome' = "HARMLESS"
                          ELSE pc' = "interfaces" /\ UNCHANGED outcome
    /\ UNCHANGED group

(* The event names no group, being of a call by the group's name, or the   *)
(* answer has none: plan returns as of a harmless one, having read nothing.*)
DescribeNothing ==
    /\ pc = "people"
    /\ pc' = "done"
    /\ outcome' = "NO_GROUP"
    /\ UNCHANGED <<group, before, grown>>

(* The group is not there, or may not be described: plan raises.           *)
DescribeRaises ==
    /\ pc = "people"
    /\ pc' = "done"
    /\ outcome' = "RAISED"
    /\ UNCHANGED <<group, before, grown>>

(* The count of attached interfaces, -1 when it cannot be had, only        *)
(* informs: plan goes on either way.                                       *)
CountInterfaces ==
    /\ pc = "interfaces"
    /\ pc' = "apply"
    /\ UNCHANGED <<group, before, outcome, grown>>

(* apply's one call removes all, though its answer may be lost; or, when a *)
(* rule is gone or the call is refused, nothing.                           *)
Apply ==
    /\ pc = "apply"
    /\ pc' = "done"
    /\ \/ /\ \A p \in Entries : Revocations(before)[p] \subseteq group[p]
          /\ group' = [p \in Entries |-> group[p] \ Revocations(before)[p]]
          /\ outcome' \in {"APPLIED", "FAILED"}
       \/ outcome' = "FAILED" /\ UNCHANGED group
    /\ UNCHANGED <<before, grown>>

(* Another event of the group. *)
Again ==
    /\ pc = "done"
    /\ pc' = "people"
    /\ outcome' = "NONE"
    /\ before' = Empty
    /\ grown' = FALSE
    /\ UNCHANGED group

Next ==
    \/ \E p \in Entries, s \in Sources : Authorize(p, s) \/ Revoke(p, s)
    \/ Describe \/ DescribeNothing \/ DescribeRaises \/ CountInterfaces \/ Apply \/ Again

Spec == Init /\ [][Next]_vars

-----------------------------------------------------------------------------
(* What an entry means, independently of how the handler computes it: the  *)
(* flows it admits.                                                        *)
Flows == [protocol : {"tcp", "udp"}, port : FlowPorts, source : Sources]

Passes(p, f) ==
    \/ p.protocol = "-1"
    \/ /\ p.protocol = f.protocol
       /\ AnyPort \in {p.from, p.to} \/ (p.from <= f.port /\ f.port <= p.to)

Admits(g, f) == \E p \in Entries : f.source \in g[p] /\ Passes(p, f)

IsIncident(f) == f.source \in World /\ f.port \in SENSITIVE_PORTS

(* sg_open/handler.py:1-9: a group remediated, or found harmless when it   *)
(* was described, admits no incident from anywhere, unless somebody        *)
(* authorised a source since.                                              *)
RemediatedIsClosed ==
    outcome \in {"APPLIED", "HARMLESS"} /\ ~grown
        => \A f \in Flows : Admits(group, f) => ~IsIncident(f)

(* The remediation is surgical: a flow it ends came from the world, through*)
(* an entry that admitted an incident from that source as well.  The flow  *)
(* itself may be to a harmless port of that entry.                         *)
Surgical ==
    [][Apply => \A f \in Flows :
          Admits(group, f) /\ ~Admits(group', f) =>
              \E p \in Entries :
                  /\ f.source \in group[p] /\ Passes(p, f)
                  /\ \E i \in Flows : IsIncident(i) /\ i.source = f.source /\ Passes(p, i)
      ]_vars
=============================================================================
