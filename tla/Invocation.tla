------------------------------ MODULE Invocation ------------------------------
(***************************************************************************)
(* The parts of an invocation around the pipeline: the three handlers, of  *)
(* which a function has one, the parsing of events and the redaction of    *)
(* what is written.  They share no state, so a behaviour runs one of them, *)
(* the part it has chosen, and leaves the others alone.  The s3-public     *)
(* handler is taken as it is; the others are instances, with variables of  *)
(* their own.                                                              *)
(***************************************************************************)
EXTENDS S3Public, Integers, TLC

CONSTANTS
    Entries, AnyPort, FlowPorts, MaxRules,   \* of SgOpen
    Happenings, PacNames, MaxDeliveries,     \* of Events
    Sensitive, TokenKeys, Values, Texts      \* of Redact

VARIABLES
    part,
    group, sgPc, before, sgOutcome, grown,
    key, tagged, iamPc, holder, metadata, tags, iamOutcome,
    unread, retagged, touched, reactivated, ours,
    log, planned, skipped, rejected,
    stage, value, text, item, raw, alert

Sg  == INSTANCE SgOpen WITH pc <- sgPc, outcome <- sgOutcome
Iam == INSTANCE IamKeyLeak WITH pc <- iamPc, outcome <- iamOutcome
Ev  == INSTANCE Events
Re  == INSTANCE Redact

(* The ends of an entry are ports or left out.                             *)
ASSUME EntriesAssumption == \A p \in Entries : p.from \in Int /\ p.to \in Int

(* Flows are told apart finely enough to have one at a sensitive port of   *)
(* each entry that covers any.                                             *)
ASSUME FlowPortsAssumption ==
    /\ FlowPorts \subseteq Int
    /\ \A p \in Entries : Sg!Covered(p) # {} => Sg!Covered(p) \cap FlowPorts # {}

(* What the services guarantee of ids: an API call has an eventID of its   *)
(* own, an update of a finding a time of its own, an envelope an id of its *)
(* own.  "unknown" and the time "now" at which EventBridge takes an event  *)
(* are none of them.                                                       *)
ASSUME HappeningsAssumption ==
    \A h, i \in Happenings :
        /\ h.kind \in Ev!Kinds
        /\ h.eventId = i.eventId /\ h.eventTime = i.eventTime => h = i
        /\ h # i => h.envelopes \cap i.envelopes = {}
        /\ i.eventId \notin h.envelopes \cup {"unknown"} /\ "unknown" \notin h.envelopes
        /\ h.eventTime \notin {"now", "unknown"}

(* The prefix is pac-: neither an unknown name nor the id of a principal,  *)
(* which AWS makes, begins with it.                                        *)
ASSUME PacNamesAssumption ==
    "unknown" \notin PacNames /\ \A h \in Happenings : h.principal \notin PacNames

(* The payload of an alert is not under a sensitive key. *)
ASSUME SensitiveAssumption == "blocks" \notin Sensitive

-----------------------------------------------------------------------------
sgVars  == <<group, sgPc, before, sgOutcome, grown>>
iamVars == <<key, tagged, iamPc, holder, metadata, tags, iamOutcome,
             unread, retagged, touched, reactivated, ours>>
evVars  == <<log, planned, skipped, rejected>>
reVars  == <<stage, value, text, item, raw, alert>>

InvocationInit ==
    /\ part \in {"sg", "s3", "iam", "events", "redact"}
    /\ Sg!Init /\ Init /\ Iam!Init /\ Ev!Init /\ Re!Init

InvocationNext ==
    /\ UNCHANGED part
    /\ \/ part = "sg" /\ Sg!Next /\ UNCHANGED <<vars, iamVars, evVars, reVars>>
       \/ part = "s3" /\ Next /\ UNCHANGED <<sgVars, iamVars, evVars, reVars>>
       \/ part = "iam" /\ Iam!Next /\ UNCHANGED <<sgVars, vars, evVars, reVars>>
       \/ part = "events" /\ Ev!Next /\ UNCHANGED <<sgVars, vars, iamVars, reVars>>
       \/ part = "redact" /\ Re!Next /\ UNCHANGED <<sgVars, vars, iamVars, evVars>>

InvocationSpec ==
    InvocationInit /\ [][InvocationNext]_<<part, sgVars, vars, iamVars, evVars, reVars>>

-----------------------------------------------------------------------------
(* The properties of the instances, each stated and explained in its       *)
(* module.                                                                 *)
(* sg-open: a remediated or harmless group admits no incident.             *)
RemediatedIsClosed == Sg!RemediatedIsClosed
(* sg-open: only flows of the world through entries with an incident end.  *)
Surgical           == Sg!Surgical
(* iam-key-leak: the exclusion tag is honoured but for two races.          *)
ExclusionHonoured  == Iam!ExclusionHonoured
(* iam-key-leak: an APPLIED is ours, or people have changed the key.       *)
AppliedIsOurs      == Iam!AppliedIsOurs
(* iam-key-leak: a key called disabled is, until it is activated.          *)
KeyIsDisabled      == Iam!KeyIsDisabled
(* events: two happenings do not share a record.                           *)
RecordsKeptApart   == Ev!RecordsKeptApart
(* events: one happening has one record.                                   *)
OneRecord          == Ev!OneRecord
(* events: the loop guard goes by the caller's name, not the session's.    *)
GuardGoesByName    == Ev!GuardGoesByName
(* redaction: what is scrubbed has no credential in it.                    *)
ScrubbedIsClean    == Re!ScrubbedIsClean
(* redaction: the identifiers that are evidence stay.                      *)
EvidenceStays      == Re!EvidenceStays
=============================================================================
