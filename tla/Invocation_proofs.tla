--------------------------- MODULE Invocation_proofs ---------------------------
(***************************************************************************)
(* What holds of the handlers for any entries, accounts and settings, and  *)
(* however people's changes fall between their calls; and of the parsing   *)
(* of events and of the redaction for any events and values.  Each part    *)
(* has an invariant of its own.                                            *)
(***************************************************************************)
EXTENDS Invocation, TLAPS

(* s3-public.                                                              *)

(* How far the reads of an invocation have come. *)
AclRead    == pc \in {"policy", "block", "tags"} \/ outcome = "BENIGN"
PolicyRead == pc \in {"block", "tags"} \/ outcome = "BENIGN"
BlockRead  == pc = "tags" \/ outcome = "BENIGN"

(* What plan has read still covers the bucket, unless it was opened since. *)
ReadsHold ==
    /\ AclRead => ("AllUsers" \in grants => AclIsPublic) \/ opened
    /\ PolicyRead => (policy = "open" => PolicyIsPublic) \/ opened
    /\ BlockRead => seenBlock \subseteq block \/ opened

(* What apply has done stands, unless a setting was turned off since. *)
BlockHolds ==
    pc = "putAcl" \/ outcome = "APPLIED" =>
        FULL_BLOCK_PUBLIC_ACCESS \subseteq block \/ weakened

(* The snapshot has every grant but those that joined later. *)
GrantsSeen ==
    pc \in {"policy", "block", "tags", "putBlock", "putAcl"} =>
        grants \subseteq seenGrants \cup joined

(* The decision follows from what was read. *)
Decided ==
    /\ pc # "done" => outcome = "NONE"
    /\ outcome = "BENIGN" => IsBenign
    /\ pc \in {"putBlock", "putAcl"} \/ outcome = "APPLIED" => ~IsBenign

BInv == ReadsHold /\ BlockHolds /\ GrantsSeen /\ Decided

LEMMA InitBInv == Init => BInv
  BY DEF Init, BInv, ReadsHold, AclRead, PolicyRead, BlockRead, BlockHolds, GrantsSeen, Decided

LEMMA PeopleBInv == BInv /\ People => BInv'
<1> SUFFICES ASSUME BInv, People PROVE BInv'
  OBVIOUS
<1> USE DEF BInv, ReadsHold, AclRead, PolicyRead, BlockRead, BlockHolds, GrantsSeen, Decided, PublicPolicies,
            AclIsPublic, PolicyIsPublic, BlockIsComplete, IsBenign, seen, history
<1>1. ASSUME NEW g \in SUBSET Grantees, PutAcl(g) PROVE BInv'
  BY <1>1 DEF PutAcl
<1>2. ASSUME NEW p \in Policies, PutPolicy(p) PROVE BInv'
  BY <1>2 DEF PutPolicy
<1>3. ASSUME NEW b \in Blocks, PutBlock(b) PROVE BInv'
  BY <1>3 DEF PutBlock
<1> QED
  BY <1>1, <1>2, <1>3 DEF People

LEMMA HandlerBInv == BInv /\ Handler => BInv'
<1> SUFFICES ASSUME BInv, Handler PROVE BInv'
  OBVIOUS
<1> USE DEF BInv, ReadsHold, AclRead, PolicyRead, BlockRead, BlockHolds, GrantsSeen, Decided,
            AclIsPublic, PolicyIsPublic, BlockIsComplete, IsBenign, bucket, seen, history
<1>1. CASE ReadAcl
  BY <1>1 DEF ReadAcl
<1>2. CASE ReadPolicy
  BY <1>2 DEF ReadPolicy
<1>3. CASE ReadBlock
  BY <1>3 DEF ReadBlock
<1>4. CASE ReadTags
  BY <1>4 DEF ReadTags
<1>5. CASE NoBucket \/ ReadRaises
  BY <1>5 DEF NoBucket, ReadRaises
<1>6. CASE BlockPublicAccess
  BY <1>6 DEF BlockPublicAccess
<1>7. CASE ResetAcl
  BY <1>7 DEF ResetAcl
<1>8. CASE ApplyRaises
  BY <1>8 DEF ApplyRaises
<1>9. CASE Again
  BY <1>9 DEF Again
<1> QED
  BY <1>1, <1>2, <1>3, <1>4, <1>5, <1>6, <1>7, <1>8, <1>9 DEF Handler

LEMMA NextBInv == BInv /\ [Next]_vars => BInv'
<1>1. BInv /\ UNCHANGED vars => BInv'
  BY DEF BInv, ReadsHold, AclRead, PolicyRead, BlockRead, BlockHolds, GrantsSeen, Decided,
         AclIsPublic, PolicyIsPublic, BlockIsComplete, IsBenign, vars, bucket, seen, history
<1> QED
  BY <1>1, PeopleBInv, HandlerBInv DEF Next

LEMMA AlwaysBInv == Spec => []BInv
  BY InitBInv, NextBInv, PTL DEF Spec

(* Although plan's reads may mix two states of the bucket, it calls only a *)
(* bucket harmless wrongly that was opened after its first read, or that   *)
(* is public by a policy that has a condition.                             *)
THEOREM BenignIsTrueHolds == Spec => []BenignIsTrue
<1>1. BInv => BenignIsTrue
  BY DEF BInv, ReadsHold, AclRead, PolicyRead, BlockRead, Decided, BenignIsTrue, PublicByAcl, PublicByPolicy,
         PublicPolicies, PolicyIsPublic, IsBenign, BlockIsComplete, FULL_BLOCK_PUBLIC_ACCESS
<1> QED
  BY AlwaysBInv, <1>1, PTL

(* A remediated bucket is not public until a setting is turned off, though *)
(* its policy stays (handler.py:9-12).                                     *)
THEOREM AppliedIsTrueHolds == Spec => []AppliedIsTrue
<1>1. BInv => AppliedIsTrue
  BY DEF BInv, BlockHolds, AppliedIsTrue, IsPublic, PublicByAcl, PublicByPolicy,
         FULL_BLOCK_PUBLIC_ACCESS
<1> QED
  BY AlwaysBInv, <1>1, PTL

(* The handler drops no grant that neither its snapshot has nor was added  *)
(* after plan read the ACL.                                                *)
THEOREM ResetIsEvidencedHolds == Spec => ResetIsEvidenced
<1>1. BInv /\ [Next]_vars => [Handler => grants \subseteq grants' \cup seenGrants \cup joined]_vars
  <2> SUFFICES ASSUME BInv, Handler PROVE grants \subseteq grants' \cup seenGrants \cup joined
    BY DEF vars
  <2>1. CASE ResetAcl
    BY <2>1 DEF ResetAcl, BInv, GrantsSeen
  <2>2. CASE ApplyRaises
    BY <2>2 DEF ApplyRaises, BInv, GrantsSeen
  <2>3. CASE grants' = grants
    BY <2>3
  <2> QED
    BY <2>1, <2>2, <2>3 DEF Handler, NoBucket, ReadAcl, ReadPolicy, ReadBlock, ReadTags, ReadRaises,
       BlockPublicAccess, Again, bucket
<1> QED
  BY AlwaysBInv, <1>1, PTL DEF Spec, ResetIsEvidenced

-----------------------------------------------------------------------------
(* sg-open.                                                                *)

(* A sensitive port that an entry lets through is one that the handler     *)
(* finds covered.                                                          *)
LEMMA PassesCovered ==
    ASSUME NEW p \in Entries, NEW f \in Sg!Flows, Sg!Passes(p, f), f.port \in Sg!SENSITIVE_PORTS
    PROVE  f.port \in Sg!Covered(p)
<1>1. f.port \in Int /\ f.protocol \in {"tcp", "udp"}
  BY FlowPortsAssumption DEF Sg!Flows
<1>2. CASE p.protocol = "-1"
  BY <1>2 DEF Sg!Covered
<1>3. CASE p.protocol # "-1"
  <2>1. p.protocol \in {"tcp", "udp"}
    BY <1>1, <1>3 DEF Sg!Passes
  <2>2. CASE AnyPort \in {p.from, p.to}
    BY <2>1, <2>2 DEF Sg!Covered
  <2>3. CASE AnyPort \notin {p.from, p.to}
    <3>1. f.port \in p.from .. p.to
      BY <1>1, <1>3, <2>3, EntriesAssumption DEF Sg!Passes
    <3> QED
      BY <2>1, <2>3, <3>1 DEF Sg!Covered
  <2> QED
    BY <2>2, <2>3
<1> QED
  BY <1>2, <1>3

(* An entry that covers a sensitive port and lets some flow through lets   *)
(* an incident through, from any source of the world.                      *)
LEMMA CoveredPasses ==
    ASSUME NEW p \in Entries, NEW f \in Sg!Flows, Sg!Passes(p, f), Sg!Covered(p) # {},
           f.source \in Sg!World
    PROVE  \E i \in Sg!Flows : Sg!IsIncident(i) /\ i.source = f.source /\ Sg!Passes(p, i)
<1>1. PICK n \in Sg!Covered(p) : n \in FlowPorts
  BY FlowPortsAssumption
<1> DEFINE i == [protocol |-> f.protocol, port |-> n, source |-> f.source]
<1>2. f.protocol \in {"tcp", "udp"} /\ f.source \in Sg!Sources /\ f.port \in Int
  BY FlowPortsAssumption DEF Sg!Flows
<1>3. i \in Sg!Flows
  BY <1>1, <1>2 DEF Sg!Flows
<1>4. n \in Int /\ n \in Sg!SENSITIVE_PORTS
  BY <1>1, FlowPortsAssumption DEF Sg!Covered
<1>5. Sg!Passes(p, i)
  <2>1. CASE p.protocol = "-1"
    BY <2>1 DEF Sg!Passes
  <2>2. CASE p.protocol # "-1" /\ AnyPort \in {p.from, p.to}
    BY <2>2 DEF Sg!Passes
  <2>3. CASE p.protocol # "-1" /\ AnyPort \notin {p.from, p.to}
    <3>1. p.protocol = f.protocol /\ p.from <= f.port /\ f.port <= p.to
      BY <2>3 DEF Sg!Passes
    <3>2. p.from \in Int /\ p.to \in Int
      BY EntriesAssumption
    <3>3. n \in p.from .. p.to \/ n \in p.to .. p.from
      BY <1>2, <2>3, <3>1 DEF Sg!Covered
    <3>4. p.from <= n /\ n <= p.to
      BY <1>2, <1>4, <3>1, <3>2, <3>3
    <3> QED
      BY <3>1, <3>4 DEF Sg!Passes
  <2> QED
    BY <2>1, <2>2, <2>3
<1> QED
  BY <1>3, <1>4, <1>5 DEF Sg!IsIncident

(* The types of the group and of the snapshot, how far the invocation has  *)
(* come, what of the group the snapshot still knows, and what a verdict    *)
(* says of it.                                                             *)
SgTypes ==
    /\ group \in [Entries -> SUBSET Sg!Sources]
    /\ before \in [Entries -> SUBSET Sg!Sources]

SgDecided == sgPc # "done" => sgOutcome = "NONE"

SgSnapshotCovers ==
    sgPc \in {"interfaces", "apply"} /\ ~grown => \A p \in Entries : group[p] \subseteq before[p]

SgClosed ==
    sgOutcome \in {"APPLIED", "HARMLESS"} /\ ~grown =>
        \A p \in Entries : Sg!Narrowed(p, group[p]) = {}

SgInv == SgTypes /\ SgDecided /\ SgSnapshotCovers /\ SgClosed

LEMMA SgInit == Sg!Init => SgInv
  BY DEF Sg!Init, Sg!Empty, SgInv, SgTypes, SgDecided, SgSnapshotCovers, SgClosed

LEMMA SgPeople ==
    ASSUME SgInv, NEW p \in Entries, NEW s \in Sg!Sources, Sg!Authorize(p, s) \/ Sg!Revoke(p, s)
    PROVE  SgInv'
<1> USE DEF SgInv, SgTypes, SgDecided, SgSnapshotCovers, SgClosed
<1>1. CASE Sg!Authorize(p, s)
  BY <1>1 DEF Sg!Authorize
<1>2. CASE Sg!Revoke(p, s)
  <2>1. \A q \in Entries : group'[q] \subseteq group[q]
    BY <1>2 DEF Sg!Revoke
  <2>2. \A q \in Entries : Sg!Narrowed(q, group[q]) = {} => Sg!Narrowed(q, group'[q]) = {}
    BY <2>1 DEF Sg!Narrowed
  <2> QED
    BY <1>2, <2>1, <2>2 DEF Sg!Revoke
<1> QED
  BY <1>1, <1>2

(* apply takes away what plan wanted revoked, which is all there is when   *)
(* nothing was authorised since.                                           *)
LEMMA SgApply == SgInv /\ Sg!Apply => SgInv'
<1> SUFFICES ASSUME SgInv, Sg!Apply PROVE SgInv'
  OBVIOUS
<1> USE DEF SgInv, SgTypes, SgDecided, SgSnapshotCovers, SgClosed
<1>1. CASE sgOutcome' = "FAILED" /\ UNCHANGED group
  BY <1>1 DEF Sg!Apply
<1>2. CASE group' = [p \in Entries |-> group[p] \ Sg!Revocations(before)[p]]
  <2>1. SgTypes' /\ SgDecided' /\ SgSnapshotCovers'
    BY <1>2 DEF Sg!Apply
  <2>2. ASSUME ~grown, NEW p \in Entries PROVE Sg!Narrowed(p, group'[p]) = {}
    <3>1. group[p] \subseteq before[p]
      BY <2>2 DEF Sg!Apply
    <3>2. group'[p] = group[p] \ Sg!Narrowed(p, before[p])
      BY <1>2 DEF Sg!Revocations
    <3> QED
      BY <3>1, <3>2 DEF Sg!Narrowed
  <2> QED
    BY <2>1, <2>2 DEF Sg!Apply
<1> QED
  BY <1>1, <1>2 DEF Sg!Apply

LEMMA SgNext == SgInv /\ [Sg!Next]_(Sg!vars) => SgInv'
<1> SUFFICES ASSUME SgInv, [Sg!Next]_(Sg!vars) PROVE SgInv'
  OBVIOUS
<1>1. CASE \E p \in Entries, s \in Sg!Sources : Sg!Authorize(p, s) \/ Sg!Revoke(p, s)
  BY <1>1, SgPeople
<1> USE DEF SgInv, SgTypes, SgDecided, SgSnapshotCovers, SgClosed
<1>2. CASE Sg!Describe
  <2>1. ASSUME Sg!Harmless(group), NEW p \in Entries PROVE Sg!Narrowed(p, group[p]) = {}
    <3>1. Sg!Revocations(group)[p] = Sg!Empty[p]
      BY <2>1 DEF Sg!Harmless
    <3> QED
      BY <3>1 DEF Sg!Revocations, Sg!Empty
  <2> QED
    BY <1>2, <2>1 DEF Sg!Describe
<1>3. CASE Sg!DescribeNothing \/ Sg!DescribeRaises
  BY <1>3 DEF Sg!DescribeNothing, Sg!DescribeRaises
<1>4. CASE Sg!CountInterfaces
  BY <1>4 DEF Sg!CountInterfaces
<1>5. CASE Sg!Apply
  BY <1>5, SgApply
<1>6. CASE Sg!Again
  BY <1>6 DEF Sg!Again, Sg!Empty
<1>7. CASE UNCHANGED Sg!vars
  BY <1>7 DEF Sg!vars
<1> QED
  BY <1>1, <1>2, <1>3, <1>4, <1>5, <1>6, <1>7 DEF Sg!Next

LEMMA AlwaysSgInv == Sg!Spec => []SgInv
  BY SgInit, SgNext, PTL DEF Sg!Spec

(* Whatever entries a group may have and whatever is authorised and        *)
(* revoked between the handler's calls, a group called remediated or       *)
(* harmless admits no incident, unless a source was authorised since plan  *)
(* described it (sg_open/handler.py:1-9).                                  *)
THEOREM RemediatedIsClosedHolds == Sg!Spec => []RemediatedIsClosed
<1>1. SgInv => RemediatedIsClosed
  <2> SUFFICES ASSUME SgInv, sgOutcome \in {"APPLIED", "HARMLESS"}, ~grown,
                      NEW f \in Sg!Flows, NEW p \in Entries,
                      f.source \in group[p], Sg!Passes(p, f), Sg!IsIncident(f)
               PROVE  FALSE
    BY DEF RemediatedIsClosed, Sg!RemediatedIsClosed, Sg!Admits
  <2>1. f.port \in Sg!Covered(p)
    BY PassesCovered DEF Sg!IsIncident
  <2>2. f.source \in Sg!Narrowed(p, group[p])
    BY <2>1 DEF Sg!Narrowed, Sg!IsIncident
  <2> QED
    BY <2>2 DEF SgInv, SgClosed
<1> QED
  BY <1>1, AlwaysSgInv, PTL

(* The remediation is surgical: a flow it ends came from the world through *)
(* an entry that admitted an incident from there; it may be to a harmless  *)
(* port of that entry.                                                     *)
THEOREM SurgicalHolds == Sg!Spec => Surgical
<1> DEFINE Through(f) == \E p \in Entries :
                            /\ f.source \in group[p] /\ Sg!Passes(p, f)
                            /\ \E i \in Sg!Flows : Sg!IsIncident(i) /\ i.source = f.source
                                                   /\ Sg!Passes(p, i)
<1>1. ASSUME SgInv, Sg!Apply, NEW f \in Sg!Flows, Sg!Admits(group, f), ~Sg!Admits(group', f)
      PROVE  Through(f)
  <2>1. PICK p \in Entries : f.source \in group[p] /\ Sg!Passes(p, f)
    BY <1>1 DEF Sg!Admits
  <2>2. f.source \notin group'[p]
    BY <1>1, <2>1 DEF Sg!Admits
  <2>3. f.source \in Sg!Narrowed(p, before[p])
    <3>1. group' = [q \in Entries |-> group[q] \ Sg!Revocations(before)[q]]
      BY <1>1, <2>1, <2>2 DEF Sg!Apply
    <3> QED
      BY <2>1, <2>2, <3>1 DEF Sg!Revocations
  <2>4. f.source \in Sg!World /\ Sg!Covered(p) # {}
    BY <2>3 DEF Sg!Narrowed
  <2> QED
    BY <2>1, <2>4, CoveredPasses
<1>2. SgInv /\ [Sg!Next]_(Sg!vars) =>
          [Sg!Apply => \A f \in Sg!Flows :
               Sg!Admits(group, f) /\ ~Sg!Admits(group', f) => Through(f)]_(Sg!vars)
  BY <1>1
<1> QED
  BY <1>2, AlwaysSgInv, PTL DEF Sg!Spec, Surgical, Sg!Surgical

-----------------------------------------------------------------------------
(* iam-key-leak.                                                           *)

(* How far the invocation has come: what plan has listed, what it has read *)
(* of the tags, what the check let pass, and what became of it.            *)
IamDecided ==
    /\ key \in {"Active", "Inactive", "Deleted"}
    /\ iamPc # "done" => iamOutcome = "NONE" /\ ~ours

KeyListed ==
    iamPc \in {"tags", "exclusion", "apply"} => key \in {"Active", "Deleted"} \/ touched

TagsRead ==
    iamPc \in {"exclusion", "apply"} => (tagged => tags) \/ unread \/ retagged

TagsChecked == iamPc = "apply" => ~tags

IamClosed == ExclusionHonoured /\ AppliedIsOurs /\ KeyIsDisabled

IamInv == IamDecided /\ KeyListed /\ TagsRead /\ TagsChecked /\ IamClosed

LEMMA IamInit == Iam!Init => IamInv
  BY DEF Iam!Init, IamInv, IamDecided, KeyListed, TagsRead, TagsChecked, IamClosed,
         ExclusionHonoured, Iam!ExclusionHonoured, AppliedIsOurs, Iam!AppliedIsOurs,
         KeyIsDisabled, Iam!KeyIsDisabled

LEMMA IamNext == IamInv /\ [Iam!Next]_(Iam!vars) => IamInv'
<1> SUFFICES ASSUME IamInv, [Iam!Next]_(Iam!vars) PROVE IamInv'
  OBVIOUS
<1> USE DEF IamInv, IamDecided, KeyListed, TagsRead, TagsChecked, IamClosed,
            ExclusionHonoured, Iam!ExclusionHonoured, AppliedIsOurs, Iam!AppliedIsOurs,
            KeyIsDisabled, Iam!KeyIsDisabled, Iam!Finish, Iam!local, Iam!history
<1>1. ASSUME NEW s \in {"Active", "Inactive", "Deleted"}, Iam!SetKey(s) PROVE IamInv'
  BY <1>1 DEF Iam!SetKey
<1>2. CASE Iam!TagUser
  BY <1>2 DEF Iam!TagUser
<1>3. ASSUME NEW h \in Iam!Holders, Iam!Receive(h) PROVE IamInv'
  BY <1>3 DEF Iam!Receive
<1>4. CASE Iam!LastUsed
  BY <1>4 DEF Iam!LastUsed
<1>5. CASE Iam!ListKeys
  BY <1>5 DEF Iam!ListKeys
<1>6. CASE Iam!ListKeysRaises
  BY <1>6 DEF Iam!ListKeysRaises
<1>7. CASE Iam!UserTags
  BY <1>7 DEF Iam!UserTags
<1>8. CASE Iam!Exclusion
  BY <1>8 DEF Iam!Exclusion
<1>9. CASE Iam!Apply
  BY <1>9 DEF Iam!Apply
<1>10. CASE Iam!ApplyRaises
  BY <1>10 DEF Iam!ApplyRaises
<1>11. CASE Iam!Again
  BY <1>11 DEF Iam!Again
<1>12. CASE UNCHANGED Iam!vars
  BY <1>12 DEF Iam!vars
<1> QED
  BY <1>1, <1>2, <1>3, <1>4, <1>5, <1>6, <1>7, <1>8, <1>9, <1>10, <1>11, <1>12 DEF Iam!Next

LEMMA AlwaysIamInv == Iam!Spec => []IamInv
  BY IamInit, IamNext, PTL DEF Iam!Spec

(* An excluded user's key is deactivated only when the tags could not be   *)
(* read or were changed after they were (handler.py:167-171).              *)
THEOREM ExclusionHonouredHolds == Iam!Spec => []ExclusionHonoured
<1>1. IamInv => ExclusionHonoured
  BY DEF IamInv, IamClosed
<1> QED
  BY <1>1, AlwaysIamInv, PTL

(* A deactivation on record was made by this invocation, unless people     *)
(* changed the key between its listing and the write (handler.py:77-78).   *)
THEOREM AppliedIsOursHolds == Iam!Spec => []AppliedIsOurs
<1>1. IamInv => AppliedIsOurs
  BY DEF IamInv, IamClosed
<1> QED
  BY <1>1, AlwaysIamInv, PTL

(* A key called deactivated or inactive cannot be used until somebody      *)
(* activates it again.                                                     *)
THEOREM KeyIsDisabledHolds == Iam!Spec => []KeyIsDisabled
<1>1. IamInv => KeyIsDisabled
  BY DEF IamInv, IamClosed
<1> QED
  BY <1>1, AlwaysIamInv, PTL

-----------------------------------------------------------------------------
(* Events.                                                                 *)

(* Every record is of a delivery of one of the happenings, in an envelope  *)
(* of its own, and stands under the key that parse made of it; every       *)
(* delivery went where the loop guard sent it.                             *)
IsDelivery(v) ==
    /\ v.what \in Happenings
    /\ \E e \in v.what.envelopes : v.key = Ev!AuditKey(v.what, e, v.missing)

EvInv ==
    /\ \A v \in log : IsDelivery(v)
    /\ \A s \in skipped : s[1] \in Happenings /\ Ev!IsPacAutomation(s[1], s[2])
    /\ \A p \in planned : p[1] \in Happenings /\ ~Ev!IsPacAutomation(p[1], p[2])

LEMMA EvInit == Ev!Init => EvInv
  BY DEF Ev!Init, EvInv

LEMMA EvNext == EvInv /\ [Ev!Next]_(Ev!vars) => EvInv'
<1> SUFFICES ASSUME EvInv, [Ev!Next]_(Ev!vars) PROVE EvInv'
  OBVIOUS
<1>1. ASSUME NEW h \in Happenings, NEW missing \in SUBSET Ev!Carries(h), NEW e \in h.envelopes,
             Ev!Deliver(h, e, missing)
      PROVE  EvInv'
  <2> DEFINE w == [what |-> h, missing |-> missing, key |-> Ev!AuditKey(h, e, missing)]
  <2>1. IsDelivery(w)
    BY DEF IsDelivery
  <2>2. \A v \in log' : IsDelivery(v)
    BY <1>1, <2>1 DEF Ev!Deliver, EvInv
  <2>3. CASE Ev!IsPacAutomation(h, missing)
    BY <1>1, <2>2, <2>3 DEF Ev!Deliver, EvInv
  <2>4. CASE ~Ev!IsPacAutomation(h, missing)
    BY <1>1, <2>2, <2>4 DEF Ev!Deliver, EvInv
  <2> QED
    BY <2>3, <2>4
<1>2. CASE Ev!Reject
  BY <1>2 DEF Ev!Reject, EvInv
<1>3. CASE UNCHANGED Ev!vars
  BY <1>3 DEF Ev!vars, EvInv
<1> QED
  BY <1>1, <1>2, <1>3 DEF Ev!Next

LEMMA AlwaysEvInv == Ev!Spec => []EvInv
  BY EvInit, EvNext, PTL DEF Ev!Spec

(* Calls are told apart by any id, and updates of one finding by their     *)
(* time.                                                                   *)
LEMMA KeysDiffer ==
    ASSUME NEW h \in Happenings, NEW i \in Happenings, h # i,
           NEW e \in h.envelopes, NEW f \in i.envelopes, NEW m, NEW n,
           Ev!AuditKey(h, e, m) = Ev!AuditKey(i, f, n)
    PROVE  IF h.eventId = i.eventId
             THEN "eventTime" \in m \cap n
             ELSE {"eventId", "id"} \subseteq m \cap n
<1>1. Ev!EventTime(h, m) = Ev!EventTime(i, n) /\ Ev!EventId(h, e, m) = Ev!EventId(i, f, n)
  BY DEF Ev!AuditKey
<1>2. CASE h.eventId = i.eventId
  <2>1. h.eventTime # i.eventTime
    BY <1>2, HappeningsAssumption
  <2>2. h.eventTime \notin {"now", "unknown"} /\ i.eventTime \notin {"now", "unknown"}
    BY HappeningsAssumption
  <2> QED
    BY <1>1, <1>2, <2>1, <2>2 DEF Ev!EventTime, Ev!Text
<1>3. CASE h.eventId # i.eventId
  <2>1. e # f
    BY HappeningsAssumption
  <2>2. {h.eventId, i.eventId} \cap {e, f, "unknown"} = {} /\ "unknown" \notin {e, f}
    BY HappeningsAssumption
  <2> QED
    BY <1>1, <1>3, <2>1, <2>2 DEF Ev!EventId, Ev!Text
<1> QED
  BY <1>2, <1>3

(* Two happenings share a record only when what tells them apart is        *)
(* missing from both, for any events whose ids the services keep apart.    *)
THEOREM RecordsKeptApartHolds == Ev!Spec => []RecordsKeptApart
<1>1. EvInv => RecordsKeptApart
  <2> SUFFICES ASSUME EvInv, NEW v \in log, NEW w \in log, v.key = w.key, v.what # w.what
               PROVE  IF v.what.eventId = w.what.eventId
                        THEN "eventTime" \in v.missing \cap w.missing
                        ELSE {"eventId", "id"} \subseteq v.missing \cap w.missing
    BY DEF RecordsKeptApart, Ev!RecordsKeptApart
  <2>1. PICK e \in v.what.envelopes : v.key = Ev!AuditKey(v.what, e, v.missing)
    BY DEF EvInv, IsDelivery
  <2>2. PICK f \in w.what.envelopes : w.key = Ev!AuditKey(w.what, f, w.missing)
    BY DEF EvInv, IsDelivery
  <2>3. v.what \in Happenings /\ w.what \in Happenings
    BY DEF EvInv, IsDelivery
  <2>4. Ev!AuditKey(v.what, e, v.missing) = Ev!AuditKey(w.what, f, w.missing)
    BY <2>1, <2>2
  <2> QED
    BY <2>1, <2>2, <2>3, <2>4, KeysDiffer
<1> QED
  BY <1>1, AlwaysEvInv, PTL

(* A happening that carries its id and time has one record, however many   *)
(* envelopes bring it.                                                     *)
THEOREM OneRecordHolds == Ev!Spec => []OneRecord
<1>1. EvInv => OneRecord
  BY DEF EvInv, IsDelivery, OneRecord, Ev!OneRecord, Ev!AuditKey, Ev!EventId, Ev!EventTime, Ev!Text
<1> QED
  BY <1>1, AlwaysEvInv, PTL

(* Who is skipped has a name with the prefix, whatever a session is called;*)
(* a call of a role with the prefix is skipped, unless both ARN and issuer *)
(* are lost (models.py:61-77).                                             *)
THEOREM GuardGoesByNameHolds == Ev!Spec => []GuardGoesByName
<1>1. EvInv => GuardGoesByName
  <2> SUFFICES ASSUME EvInv PROVE GuardGoesByName
    OBVIOUS
  <2> USE DEF EvInv, Ev!IsPacAutomation, Ev!RoleName, Ev!Name
  <2>1. ASSUME NEW s \in skipped PROVE s[1].name \in PacNames
    BY <2>1, PacNamesAssumption
  <2>2. ASSUME NEW p \in planned, p[1].kind = "role", p[1].name \in PacNames
        PROVE  {"arn", "issuer"} \subseteq p[2]
    <3>1. Ev!Identity(p[1]) = {"arn", "issuer", "principalId"}
      BY <2>2 DEF Ev!Identity
    <3> QED
      BY <2>2, <3>1
  <2> QED
    BY <2>1, <2>2 DEF GuardGoesByName, Ev!GuardGoesByName
<1> QED
  BY <1>1, AlwaysEvInv, PTL

-----------------------------------------------------------------------------
(* Redaction.                                                              *)

(* Before the alert the item has the scrubbed form of the value, or nothing*)
(* of it, and the raw texts have what the outcome says; the alert is clean *)
(* and says what is evidence in the outcome.                               *)
ReInv ==
    /\ value \in Re!InputValues \cup {{}}
    /\ item \in {{}, Re!scrub(value)}
    /\ Re!Secrets(text) = {}
    /\ \A c \in text : c.what = "id" => c \in raw
    /\ stage = "plan" => item = {}
    /\ stage \in {"plan", "close"} => text = {}
    /\ stage # "done" => alert = {}
    /\ \A leaf \in alert : Re!Credentials(leaf.says) = {}
    /\ alert # {} => \A c \in text : Re!IsEvidence(c) => \E leaf \in alert : c \in leaf.says

(* Scrubbing leaves no credential: a token is known by its shape, a secret *)
(* by its key.                                                             *)
LEMMA LeafIsClean ==
    ASSUME NEW v \in Re!InputValues \cup {{}}, NEW leaf \in Re!scrub(v)
    PROVE  Re!Credentials(leaf.says) = {}
<1>1. PICK unclean \in v : leaf = Re!ScrubLeaf(unclean)
  BY DEF Re!scrub
<1>2. CASE Re!SensitiveAt(unclean.path) = {}
  <2>1. Re!Secrets(unclean.says) = {}
    BY <1>2 DEF Re!InputValues, Re!IsNamed, Re!SensitiveAt
  <2> QED
    BY <1>1, <1>2, <2>1 DEF Re!ScrubLeaf, Re!scrub_text, Re!Credentials, Re!Secrets
<1>3. CASE Re!SensitiveAt(unclean.path) # {}
  BY <1>1, <1>3 DEF Re!ScrubLeaf, Re!Credentials
<1> QED
  BY <1>2, <1>3

(* Under the key of the payload a text without secrets becomes clean and   *)
(* keeps its evidence.                                                     *)
LEMMA BlockIsClean ==
    ASSUME NEW says, Re!Secrets(says) = {},
           NEW leaf, leaf = Re!ScrubLeaf([path |-> <<"blocks">>, says |-> says])
    PROVE  /\ Re!Credentials(leaf.says) = {}
           /\ \A c \in says : Re!IsEvidence(c) => c \in leaf.says
<1>1. Re!SensitiveAt(<<"blocks">>) = {}
  BY SensitiveAssumption DEF Re!SensitiveAt
<1>2. leaf.says = Re!scrub_text(says)
  BY <1>1 DEF Re!ScrubLeaf
<1> QED
  BY <1>2 DEF Re!scrub_text, Re!Credentials, Re!Secrets, Re!IsEvidence

LEMMA ReInit == Re!Init => ReInv
  BY DEF Re!Init, ReInv, Re!scrub, Re!Secrets

(* The alert is made of the scrubbed value and of the outcome's texts.     *)
LEMMA ReAlert ==
    ASSUME ReInv, NEW uncut, Re!Alert(uncut)
    PROVE  ReInv'
<1> DEFINE first  == Re!ScrubLeaf([path |-> <<"blocks">>, says |-> uncut])
           second == Re!ScrubLeaf([path |-> <<"blocks">>, says |-> Re!scrub_text(text)])
<1>1. alert' = {first, second}
  BY DEF Re!Alert, Re!scrub
<1>2. Re!Secrets(Re!scrub_text(text)) = {}
  BY DEF ReInv, Re!scrub_text, Re!Secrets
<1>3. Re!Secrets(uncut) = {}
  <2>1. ASSUME NEW c \in Re!RenderBlastRadius(value) PROVE c.what # "secret"
    <3>1. c \in Re!Flatten(Re!scrub(value)) /\ c.what # "token"
      BY <2>1 DEF Re!RenderBlastRadius, Re!scrub_text
    <3>2. PICK leaf \in Re!scrub(value) : c \in leaf.says \cup Re!KeysSay(leaf.path)
      BY <3>1 DEF Re!Flatten
    <3>3. c \in leaf.says
      BY <3>1, <3>2 DEF Re!KeysSay
    <3>4. Re!Credentials(leaf.says) = {}
      BY LeafIsClean DEF ReInv
    <3> QED
      BY <3>3, <3>4 DEF Re!Credentials
  <2> QED
    BY <1>2, <2>1 DEF Re!Alert, Re!Secrets
<1>4. Re!Credentials(first.says) = {}
  BY <1>3, BlockIsClean
<1>5. /\ Re!Credentials(second.says) = {}
      /\ \A c \in Re!scrub_text(text) : Re!IsEvidence(c) => c \in second.says
  BY <1>2, BlockIsClean
<1>6. \A c \in text : Re!IsEvidence(c) => c \in second.says
  BY <1>5 DEF Re!scrub_text, Re!IsEvidence
<1> HIDE DEF first, second
<1> QED
  BY <1>1, <1>4, <1>5, <1>6 DEF Re!Alert, ReInv

LEMMA ReNext == ReInv /\ [Re!Next]_(Re!vars) => ReInv'
<1> SUFFICES ASSUME ReInv, [Re!Next]_(Re!vars) PROVE ReInv'
  OBVIOUS
<1>1. ASSUME NEW v \in Re!InputValues, NEW t \in Re!InputTexts, Re!Open(v, t) PROVE ReInv'
  BY <1>1 DEF Re!Open, ReInv
<1>2. ASSUME NEW v \in Re!InputValues, NEW t \in Re!InputTexts, Re!RecordUnplanned(v, t)
      PROVE  ReInv'
  BY <1>2 DEF Re!RecordUnplanned, ReInv, Re!InputTexts
<1>3. ASSUME NEW t \in Re!InputTexts, Re!Close(t) PROVE ReInv'
  BY <1>3 DEF Re!Close, ReInv, Re!InputTexts
<1>4. CASE UNCHANGED Re!vars
  BY <1>4 DEF Re!vars, ReInv
<1> QED
  BY <1>1, <1>2, <1>3, <1>4, ReAlert DEF Re!Next

LEMMA AlwaysReInv == Re!Spec => []ReInv
  BY ReInit, ReNext, PTL DEF Re!Spec

(* What goes through scrub has no credential in it, whatever is nested in  *)
(* a value, although rendering it turns its keys into text (redact.py:     *)
(* 3-11); nothing is said of what the audit item has as it is.             *)
THEOREM ScrubbedIsCleanHolds == Re!Spec => []ScrubbedIsClean
<1>1. ReInv => ScrubbedIsClean
  <2> SUFFICES ASSUME ReInv, NEW leaf \in item \cup alert PROVE Re!Credentials(leaf.says) = {}
    BY DEF ScrubbedIsClean, Re!ScrubbedIsClean
  <2>1. CASE leaf \in item
    <3>1. leaf \in Re!scrub(value)
      BY <2>1 DEF ReInv
    <3> QED
      BY <3>1, LeafIsClean DEF ReInv
  <2>2. CASE leaf \in alert
    BY <2>2 DEF ReInv
  <2> QED
    BY <2>1, <2>2
<1> QED
  BY <1>1, AlwaysReInv, PTL

(* The identifiers that are evidence get through to the item and, of the   *)
(* outcome's own texts, to the alert, unless the text is cut off or a key  *)
(* hides them.                                                             *)
THEOREM EvidenceStaysHolds == Re!Spec => []EvidenceStays
<1>1. ReInv => EvidenceStays
  <2>1. ASSUME ReInv, item # {}, NEW leaf \in value, NEW c \in leaf.says,
               Re!IsEvidence(c), ~Re!IsNamed(leaf)
        PROVE  \E kept \in item : kept.path = leaf.path /\ c \in kept.says
    <3>1. Re!SensitiveAt(leaf.path) = {}
      BY <2>1 DEF Re!IsNamed, Re!SensitiveAt
    <3>2. Re!ScrubLeaf(leaf) = [path |-> leaf.path, says |-> Re!scrub_text(leaf.says)]
      BY <3>1 DEF Re!ScrubLeaf
    <3>3. Re!ScrubLeaf(leaf) \in item
      BY <2>1 DEF ReInv, Re!scrub
    <3>4. c \in Re!scrub_text(leaf.says)
      BY <2>1 DEF Re!scrub_text, Re!IsEvidence
    <3> QED
      BY <3>2, <3>3, <3>4
  <2> QED
    BY <2>1 DEF EvidenceStays, Re!EvidenceStays, ReInv
<1> QED
  BY <1>1, AlwaysReInv, PTL

-----------------------------------------------------------------------------
(* A behaviour of the composition is one of each part, so that what was    *)
(* proved of a part holds of it there as well.                             *)
THEOREM PartsRun == InvocationSpec => Sg!Spec /\ Spec /\ Iam!Spec /\ Ev!Spec /\ Re!Spec
<1>1. InvocationInit => Sg!Init /\ Init /\ Iam!Init /\ Ev!Init /\ Re!Init
  BY DEF InvocationInit
<1>2. [InvocationNext]_<<part, sgVars, vars, iamVars, evVars, reVars>> =>
        /\ [Sg!Next]_(Sg!vars) /\ [Next]_vars /\ [Iam!Next]_(Iam!vars)
        /\ [Ev!Next]_(Ev!vars) /\ [Re!Next]_(Re!vars)
  BY DEF InvocationNext, sgVars, iamVars, evVars, reVars, vars, bucket, seen, history,
         Sg!vars, Iam!vars, Iam!local, Iam!history, Ev!vars, Re!vars
<1> QED
  BY <1>1, <1>2, PTL DEF InvocationSpec, Sg!Spec, Spec, Iam!Spec, Ev!Spec, Re!Spec
=============================================================================
