---------------------------- MODULE MCInvocation ----------------------------
(* Small instances of the parts of an invocation.                          *)
EXTENDS Invocation

(* Ports 443 and 3385 are not sensitive, 22 and 3389 are; the range from   *)
(* 3380 ends in one that is; an entry without ports has them all.          *)
MCAnyPort == -1
MCEntries ==
    {[protocol |-> "tcp", from |-> 443, to |-> 443],
     [protocol |-> "tcp", from |-> MCAnyPort, to |-> MCAnyPort],
     [protocol |-> "udp", from |-> 3380, to |-> 3389],
     [protocol |-> "-1", from |-> MCAnyPort, to |-> MCAnyPort]}
MCFlowPorts == {22, 443, 3385, 3389}

MCPartners == {"partner"}
MCBlocks   == {{}, {"BlockPublicAcls", "IgnorePublicAcls"}, {"RestrictPublicBuckets"}}

(* A call of the remediation role, in two envelopes, one of an             *)
(* administrator in a session named like it, one of an IAM user named like *)
(* it, one of root, and two updates of one finding about a user.           *)
ApiCall(id, kind, name, session, envelopes) ==
    [kind |-> kind, name |-> name, session |-> session, principal |-> "AID",
     eventId |-> id, eventTime |-> "t1", envelopes |-> envelopes]

Finding(time, envelope) ==
    [kind |-> "finding", name |-> "alice", session |-> "none", principal |-> "AID",
     eventId |-> "f1", eventTime |-> time, envelopes |-> {envelope}]

MCHappenings ==
    {ApiCall("c1", "role", "pac-s3", "cli", {"e1", "e2"}),
     ApiCall("c2", "role", "admin", "pac-x", {"e3"}),
     ApiCall("c3", "user", "pac-x", "none", {"e4"}),
     ApiCall("c4", "root", "none", "none", {"e5"}),
     Finding("t1", "e6"), Finding("t2", "e7")}
MCPacNames == {"pac-s3", "pac-x"}

(* Values of two leaves, nested two deep, and texts.  A password is        *)
(* sensitive, and a tag's key may be a token.                              *)
AtHead(what) == [what |-> what, at |-> "head"]
AtTail(what) == [what |-> what, at |-> "tail"]

Paths    == {<<k>> : k \in {"name", "password", "xoxb"}} \cup [1 .. 2 -> {"name", "password"}]
Leaves   == [path : Paths, says : SUBSET {AtHead("secret"), AtHead("token"), AtHead("id"), AtTail("id")}]
MCValues == {{a, b} : a, b \in Leaves}
MCTexts  == {{}, {AtHead("id")}, {AtHead("token"), AtTail("id")}, {AtHead("id"), AtTail("token")}}
=============================================================================
