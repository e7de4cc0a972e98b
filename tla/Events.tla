------------------------------- MODULE Events -------------------------------
(***************************************************************************)
(* What events.parse makes of a raw event, and what hangs on it: the key   *)
(* of the audit record and the loop guard.                                 *)
(*                                                                         *)
(* A happening is an API call, with an eventID of its own, or one update   *)
(* of a GuardDuty finding, whose id stays while its eventLastSeen moves.   *)
(* It may reach the function in several envelopes, each with an id of its  *)
(* own, and any of the fields that parse reads may be missing.             *)
(***************************************************************************)
EXTENDS Naturals, FiniteSets

CONSTANTS
    Happenings,    \* [kind, name, session, principal, eventId, eventTime, ids of envelopes]
    PacNames,      \* the names that begin with the prefix
    MaxDeliveries  \* bound

(* Who is behind a happening: a call is made in a session of a role or of a*)
(* federated user, by an IAM user or by root; a finding is about a user.   *)
Kinds == {"role", "federated", "user", "root", "finding"}

(* What of the caller an event of the kind carries.  The principalId that  *)
(* parse reads is an id of AWS's making, not a name.                       *)
Identity(h) ==
    CASE h.kind \in {"role", "federated"} -> {"arn", "issuer", "principalId"}
      [] h.kind = "user" -> {"arn", "userName", "principalId"}
      [] h.kind = "root" -> {"arn", "principalId"}
      [] h.kind = "finding" -> {"userName"}

(* What may be missing: of the detail, of the envelope, of the caller. *)
Carries(h) == {"eventId", "eventTime", "id", "time"} \cup Identity(h)

VARIABLES
    log,       \* the writes: the happening, what was missing, the key
    planned,   \* deliveries that went on to plan: the happening, what was missing
    skipped,   \* those that the loop guard stopped
    rejected   \* deliveries from an unsupported source

vars == <<log, planned, skipped, rejected>>

-----------------------------------------------------------------------------
(* _text: a field, or the default when it is missing. *)
Text(field, missing, value, default) == IF field \in missing THEN default ELSE value

(* Mutation: an event is known by its envelope. *)
EventIdOfEnvelope(h, e, missing) == Text("id", missing, e, "unknown")

EventId(h, e, missing) ==
    Text("eventId", missing, h.eventId, Text("id", missing, e, "unknown"))

(* Mutation: an event is timed by its envelope; envelopes taken in the     *)
(* same second have the same time.                                         *)
EventTimeOfEnvelope(h, missing) == Text("time", missing, "now", "unknown")

EventTime(h, missing) ==
    Text("eventTime", missing, h.eventTime, Text("time", missing, "now", "unknown"))

(* The audit key, of one resource throughout. *)
AuditKey(h, e, missing) == <<EventTime(h, missing), EventId(h, e, missing)>>

(* Principal.name: the name in the identity or of the session's issuer,    *)
(* which is the role of an assumed role's session; or else the principalId.*)
Name(h, missing) ==
    LET there == Identity(h) \ missing
    IN  IF there \cap {"userName", "issuer"} # {} THEN h.name
        ELSE IF "principalId" \in there THEN h.principal ELSE "unknown"

(* Principal.role_name: the ARN of an assumed role's session has the role  *)
(* in it; without such an ARN the name stands in.                          *)
RoleName(h, missing) ==
    IF h.kind = "role" /\ "arn" \notin missing THEN h.name ELSE Name(h, missing)

(* Mutation: the prefix is looked for in the whole ARN. *)
IsPacAutomationByArn(h, missing) ==
    \/ RoleName(h, missing) \in PacNames
    \/ h.kind = "role" /\ "arn" \notin missing /\ h.session \in PacNames

IsPacAutomation(h, missing) == RoleName(h, missing) \in PacNames

Init == log = {} /\ planned = {} /\ skipped = {} /\ rejected = 0

(* A delivery is parsed; the loop guard decides; either way a record is    *)
(* written in the end.                                                     *)
Deliver(h, e, missing) ==
    /\ log' = log \cup {[what |-> h, missing |-> missing, key |-> AuditKey(h, e, missing)]}
    /\ IF IsPacAutomation(h, missing)
         THEN skipped' = skipped \cup {<<h, missing>>} /\ UNCHANGED planned
         ELSE planned' = planned \cup {<<h, missing>>} /\ UNCHANGED skipped
    /\ UNCHANGED rejected

(* Any other source: UnsupportedEventError, before anything is written. *)
Reject ==
    /\ rejected' = rejected + 1
    /\ UNCHANGED <<log, planned, skipped>>

Next ==
    /\ Cardinality(log) + rejected < MaxDeliveries
    /\ \/ \E h \in Happenings :
             \E missing \in SUBSET Carries(h), e \in h.envelopes : Deliver(h, e, missing)
       \/ Reject

Spec == Init /\ [][Next]_vars

-----------------------------------------------------------------------------
(* Two happenings share a record, and the later overwrites the earlier,    *)
(* only when what tells them apart is missing from both: of two calls      *)
(* every id, of two updates of one finding the time of the update.         *)
RecordsKeptApart ==
    \A v, w \in log :
        v.key = w.key /\ v.what # w.what =>
            IF v.what.eventId = w.what.eventId
              THEN "eventTime" \in v.missing \cap w.missing
              ELSE {"eventId", "id"} \subseteq v.missing \cap w.missing

(* A happening has one record however many envelopes bring it, as long as  *)
(* they carry its id and time: retries and duplicates find it again.       *)
OneRecord ==
    \A v, w \in log :
        v.what = w.what /\ (v.missing \cup w.missing) \cap {"eventId", "eventTime"} = {}
            => v.key = w.key

(* The loop guard goes by the caller's name and never by the session's     *)
(* (models.py:61-77): who is skipped has a name with the prefix, and it    *)
(* takes the loss of both the ARN and the issuer for a call of our own role*)
(* to be planned for.  The name need not be a role's, for all that         *)
(* models.py:68 says: an IAM user called pac-* is skipped as well (57-58). *)
GuardGoesByName ==
    /\ \A s \in skipped : s[1].name \in PacNames
    /\ \A p \in planned :
          p[1].kind = "role" /\ p[1].name \in PacNames => {"arn", "issuer"} \subseteq p[2]
=============================================================================
