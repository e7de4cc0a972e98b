---------------------------- MODULE Remediation ----------------------------
(***************************************************************************)
(* What the pipeline promises, with nothing said of deliveries, retries,   *)
(* breaker, alerts or how many calls a remediation takes.  People change   *)
(* resources as they like.  For each event the system may put evidence on  *)
(* record, remove what is in evidence, and rule; a ruling that calls the   *)
(* resource of the latest change safe must be true when it is made.        *)
(***************************************************************************)
EXTENDS Integers, Sequences

CONSTANTS
    Resources,   \* what is watched
    Touchable,   \* those of them that the system may change at all
    Parts,       \* what can be dangerous about a resource
    Benign,      \* the sets of parts that are safe
    EventIds,    \* the events there may be
    Tellings,    \* how it may be told of a change
    Rulings      \* the final statuses of a record

VARIABLES
    exposure,   \* resource -> its dangerous parts
    events,     \* the changes so far: resource, whether ours, how told of
    evidence,   \* event -> parts ever put on record for it
    removed,    \* event -> parts removed on its account
    ruling,     \* event -> what its record says: ABSENT, PLANNED or a ruling
    dismissed   \* the events recorded as needing nothing

vars == <<exposure, events, evidence, removed, ruling, dismissed>>

Resource(e) == events[e].resource

(* No later event of the resource is somebody else's doing. *)
Latest(e) ==
    /\ ~events[e].self
    /\ \A f \in DOMAIN events :
          f > e /\ Resource(f) = Resource(e) => events[f].self

Safe(e) == exposure[Resource(e)] \in Benign

Init ==
    /\ exposure = [r \in Resources |-> {}]
    /\ events = <<>>
    /\ evidence = [e \in EventIds |-> {}]
    /\ removed = [e \in EventIds |-> {}]
    /\ ruling = [e \in EventIds |-> "ABSENT"]
    /\ dismissed = {}

(* Somebody makes a resource more dangerous; the system hears of it, by an *)
(* event that names the resource or by one that does not, or never does.   *)
Expose(r, more, told) ==
    /\ exposure' = [exposure EXCEPT ![r] = @ \cup more]
    /\ events' = Append(events, [resource |-> r, self |-> FALSE, told |-> told])
    /\ UNCHANGED <<evidence, removed, ruling, dismissed>>

Repair(r, less) ==
    /\ exposure' = [exposure EXCEPT ![r] = @ \ less]
    /\ UNCHANGED <<events, evidence, removed, ruling, dismissed>>

(* The state of the resource is put on record. *)
Record(e, parts) ==
    /\ ~events[e].self
    /\ evidence' = [evidence EXCEPT ![e] = @ \cup parts]
    /\ ruling' = [ruling EXCEPT ![e] = "PLANNED"]
    /\ UNCHANGED <<exposure, events, removed, dismissed>>

(* Parts in evidence are removed, while the event has a record; the        *)
(* removal may be heard of as a change.                                    *)
Remove(e, parts) ==
    /\ Resource(e) \in Touchable
    /\ parts \subseteq evidence[e] /\ ruling[e] # "ABSENT"
    /\ exposure' = [exposure EXCEPT ![Resource(e)] = @ \ parts]
    /\ removed' = [removed EXCEPT ![e] = @ \cup (parts \cap exposure[Resource(e)])]
    /\ events' \in {events, Append(events, [resource |-> Resource(e), self |-> TRUE, told |-> "named"])}
    /\ UNCHANGED <<evidence, ruling, dismissed>>

(* The record says what has become of the resource. *)
Rule(e, status) ==
    /\ ~events[e].self
    /\ ruling[e] = "ABSENT" => status = "SKIPPED"
    /\ status = "APPLIED" /\ Latest(e) => Safe(e)
    /\ ruling' = [ruling EXCEPT ![e] = status]
    /\ UNCHANGED <<exposure, events, evidence, removed, dismissed>>

(* The record says that the event needs nothing: it is our own, or the     *)
(* resource is safe, or nobody has said what it is about.                  *)
Dismiss(e) ==
    /\ Latest(e) /\ events[e].told = "named" => Safe(e)
    /\ dismissed' = dismissed \cup {e}
    /\ UNCHANGED <<exposure, events, evidence, removed, ruling>>

Next ==
    \/ \E r \in Resources, parts \in SUBSET Parts :
          Repair(r, parts) \/ \E told \in Tellings : Expose(r, parts, told)
    \/ \E e \in DOMAIN events :
          \/ \E parts \in SUBSET Parts : Record(e, parts) \/ Remove(e, parts)
          \/ \E status \in Rulings : Rule(e, status)
          \/ Dismiss(e)

Spec == Init /\ [][Next]_vars
=============================================================================
