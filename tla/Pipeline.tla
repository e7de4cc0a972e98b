------------------------------ MODULE Pipeline ------------------------------
(***************************************************************************)
(* The remediation pipeline of one detection: from an event on a resource, *)
(* through its asynchronous deliveries to the Lambda function, to          *)
(* runtime.execute, the audit table, the breaker, the handler's apply and  *)
(* the alert.                                                              *)
(*                                                                         *)
(* A resource is the set of its dangerous parts (the world-open rules of a *)
(* security group, the public grants of a bucket, an active key).  People  *)
(* expose, repair and tag resources at any time, and each exposure is an   *)
(* event, which may name its resource, fail to, or never be heard of.  The *)
(* event bus may deliver an event more than once, and the asynchronous     *)
(* invocation is retried when the function dies or raises, so several      *)
(* deliveries of one event may run, at once or one after another.          *)
(* Each call to AWS is one step; the function may fail between any two.    *)
(***************************************************************************)
EXTENDS Integers, FiniteSets, Sequences

CONSTANTS
    Resources,     \* what the detection watches
    NoResource,    \* the resource id "none" of an outcome without a plan
    Parts,         \* what can be dangerous about a resource
    Benign,        \* the sets of parts for which plan returns None
    Calls,         \* the parts each API call of apply removes, in order
    Idempotent,    \* whether a call succeeds when a part is already gone
    SelfEvents,    \* whether a call emits an event of the watched kind
    Tellings,      \* how the bus may tell of a change: see Told
    Manual,        \* resources whose plan has no intended actions
    Denied,        \* resources the role may not inspect
    DryRun,        \* PAC_DRY_RUN
    Limit,         \* PAC_CIRCUIT_BREAKER_MAX_ACTIONS
    Concurrency,   \* reserved_concurrent_executions
    MaxTries,      \* invocations of one delivery: the first and its retries
    SlackUp,       \* whether every post reaches Slack
    RepliesLost,   \* whether the reply to a claim may be lost and it is resent
    Copies,        \* bound: deliveries of one event
    MaxEvents,     \* bound: events
    MaxWindows     \* bound: breaker windows

(* A change is reported by an event that names its resource, by one that   *)
(* does not (a call by group name has no group id), or not at all (a key   *)
(* activated again is no finding).                                         *)
Told == {"named", "nameless", "unheard"}

ASSUME PipelineAssumption ==
    /\ NoResource \notin Resources
    /\ Tellings \subseteq Told
    /\ Benign \subseteq SUBSET Parts /\ {} \in Benign
    /\ Calls \in Seq(SUBSET Parts) /\ Calls # <<>>
    /\ Manual \subseteq Resources /\ Denied \subseteq Resources
    /\ {Idempotent, SelfEvents, DryRun, SlackUp, RepliesLost} \subseteq BOOLEAN
    /\ Limit \in Nat \ {0} /\ Concurrency \in Nat \ {0} /\ MaxTries \in Nat \ {0}
    /\ Copies \in Nat \ {0} /\ MaxEvents \in Nat /\ MaxWindows \in Nat

Removable == UNION {Calls[k] : k \in DOMAIN Calls}

(* Removing parts never makes a resource dangerous, and what no call of    *)
(* apply removes is not dangerous by itself.                               *)
ASSUME BenignAssumption ==
    /\ \A B \in Benign : SUBSET B \subseteq Benign
    /\ Parts \ Removable \in Benign

EventIds   == 1 .. MaxEvents
Deliveries == EventIds \X (1 .. Copies)
Keys       == (Resources \cup {NoResource}) \X EventIds
Statuses   == {"APPLIED", "DRY_RUN", "SKIPPED", "ESCALATED", "BLOCKED", "FAILED"}

NoRecord  == [status |-> "ABSENT", snapshot |-> {}]
NoOutcome == [status |-> "ABSENT", resource |-> NoResource]

VARIABLES
    exposure,   \* resource -> its dangerous parts
    excluded,   \* the resources carrying the exclusion tag
    events,     \* the changes so far: resource, whether ours, how told of
    pc,         \* delivery -> where it is
    tries,      \* delivery -> invocations of it that failed
    snapshot,   \* delivery -> the parts its plan saw
    call,       \* delivery -> the next call of its apply
    outcome,    \* delivery -> its Outcome
    audit,      \* the AUDIT# items
    attempts,   \* the breaker item of the current window
    windows,    \* breaker windows that have passed
    claimed,    \* the DEDUP# items: fingerprints inside their window
    sent,       \* history: the claimed fingerprints posted in their window
    muted,      \* history: those whose last claimer took its item for another's
    owed,       \* history: <<event, status>> on record and not alerted on since
    written,    \* history: event -> parts in a snapshot put under its key
    removed     \* history: event -> parts removed on its account

world   == <<exposure, excluded, events>>
local   == <<snapshot, call, outcome>>
table   == <<audit, attempts, windows, claimed>>
alerts  == <<sent, muted, owed>>
history == <<alerts, written, removed>>
vars    == <<world, pc, tries, local, table, history>>

-----------------------------------------------------------------------------
Event(d)    == d[1]
Resource(d) == events[Event(d)].resource
Key(d)      == <<outcome[d].resource, Event(d)>>

(* Mutation: the key leaves out the event. *)
PlanKeyOfResource(d) == <<Resource(d), 1>>

PlanKey(d) == <<Resource(d), Event(d)>>

(* Identity of an alert; the severity follows from the status here. *)
Fingerprint(d) == <<outcome[d].resource, outcome[d].status>>

InFlight == {"plan", "record", "open", "breaker", "apply", "close", "claim", "post", "return"}
Ended    == {"done", "dead"}
Running  == {d \in Deliveries : pc[d] \in InFlight}

Goto(d, label) == pc' = [pc EXCEPT ![d] = label]
Decide(d, status, resource) ==
    outcome' = [outcome EXCEPT ![d] = [status |-> status, resource |-> resource]]

(* The invocation is over, and its locals with it. *)
Leave(d, label) ==
    /\ Goto(d, label)
    /\ snapshot' = [snapshot EXCEPT ![d] = {}]
    /\ call' = [call EXCEPT ![d] = 1]
    /\ outcome' = [outcome EXCEPT ![d] = NoOutcome]

(* Resource r has changed; when the event bus hears of it, it queues one   *)
(* delivery.                                                               *)
Emit(r, self, told) ==
    /\ events' = Append(events, [resource |-> r, self |-> self, told |-> told])
    /\ pc' = IF told = "unheard" THEN pc
             ELSE [pc EXCEPT ![<<Len(events) + 1, 1>>] = "queued"]

-----------------------------------------------------------------------------
Init ==
    /\ exposure = [r \in Resources |-> {}]
    /\ excluded = {}
    /\ events = <<>>
    /\ pc = [d \in Deliveries |-> "idle"]
    /\ tries = [d \in Deliveries |-> 0]
    /\ snapshot = [d \in Deliveries |-> {}]
    /\ call = [d \in Deliveries |-> 1]
    /\ outcome = [d \in Deliveries |-> NoOutcome]
    /\ audit = [k \in Keys |-> NoRecord]
    /\ attempts = 0
    /\ windows = 0
    /\ claimed = {}
    /\ sent = {}
    /\ muted = {}
    /\ owed = {}
    /\ written = [e \in EventIds |-> {}]
    /\ removed = [e \in EventIds |-> {}]

(* Somebody changes a resource, perhaps making more of it dangerous.       *)
Expose(r) ==
    /\ Len(events) < MaxEvents
    /\ \E more \in SUBSET (Parts \ exposure[r]) :
          exposure' = [exposure EXCEPT ![r] = @ \cup more]
    /\ \E told \in Tellings : Emit(r, FALSE, told)
    /\ UNCHANGED <<excluded, tries, local, table, history>>

(* Somebody closes part of it by hand. *)
Repair(r) ==
    /\ \E less \in (SUBSET exposure[r]) \ {{}} :
          exposure' = [exposure EXCEPT ![r] = @ \ less]
    /\ UNCHANGED <<excluded, events, pc, tries, local, table, history>>

(* Somebody adds or removes the exclusion tag. *)
Tag(r) ==
    /\ excluded' = IF r \in excluded THEN excluded \ {r} ELSE excluded \cup {r}
    /\ UNCHANGED <<exposure, events, pc, tries, local, table, history>>

(* The bus delivers an event once more. *)
Duplicate(d) ==
    /\ Event(d) <= Len(events)
    /\ events[Event(d)].told # "unheard"
    /\ pc[d] = "idle"
    /\ Goto(d, "queued")
    /\ UNCHANGED <<world, tries, local, table, history>>

(* A new breaker window begins: the next attempt counts in a new item.     *)
(* Windows without an attempt have no item and are not told apart.         *)
NextWindow ==
    /\ windows < MaxWindows
    /\ attempts > 0
    /\ windows' = windows + 1
    /\ attempts' = 0
    /\ UNCHANGED <<world, pc, tries, local, audit, claimed, history>>

(* The dedup window of a fingerprint ends. *)
DedupExpires(f) ==
    /\ claimed' = claimed \ {f}
    /\ sent' = sent \ {f}
    /\ UNCHANGED <<world, pc, tries, local, audit, attempts, windows, muted, owed, written, removed>>

-----------------------------------------------------------------------------
(* Mutation: events of our own making are not recognised. *)
OwnNever(d) == FALSE

(* is_pac_automation *)
Own(d) == events[Event(d)].self

(* An invocation starts: loop prevention, then planning. *)
Start(d) ==
    /\ pc[d] = "queued"
    /\ Cardinality(Running) < Concurrency
    /\ IF Own(d) THEN Decide(d, "SKIPPED", NoResource) /\ Goto(d, "record")
                 ELSE UNCHANGED outcome /\ Goto(d, "plan")
    /\ UNCHANGED <<world, tries, snapshot, call, table, history>>

(* plan finds no resource named in the event and returns None unseen. *)
PlanNameless(d) ==
    /\ pc[d] = "plan"
    /\ events[Event(d)].told = "nameless"
    /\ Decide(d, "SKIPPED", NoResource)
    /\ Goto(d, "record")
    /\ UNCHANGED <<world, tries, snapshot, call, table, history>>

(* plan inspects the resource, if the role may. *)
Inspect(d) ==
    /\ pc[d] = "plan"
    /\ events[Event(d)].told = "named"
    /\ Resource(d) \notin Denied

(* Mutation: only a resource with every part exposed is acted on. *)
DangerousWhenFull(d) == Resource(d) \in Manual \/ exposure[Resource(d)] = Parts

Dangerous(d) == Resource(d) \in Manual \/ exposure[Resource(d)] \notin Benign

(* plan returns None of a resource it has seen. *)
PlanBenign(d) ==
    /\ Inspect(d)
    /\ ~Dangerous(d)
    /\ Decide(d, "SKIPPED", NoResource)
    /\ Goto(d, "record")
    /\ UNCHANGED <<world, tries, snapshot, call, table, history>>

(* plan finds the exclusion tag. *)
PlanExcluded(d) ==
    /\ Inspect(d)
    /\ Dangerous(d)
    /\ Resource(d) \in excluded \ Manual
    /\ Decide(d, "SKIPPED", Resource(d))
    /\ Goto(d, "record")
    /\ UNCHANGED <<world, tries, snapshot, call, table, history>>

(* Mutation: the record is opened after the remediation, not before. *)
PlanDangerousApplyFirst(d) ==
    /\ Inspect(d)
    /\ Dangerous(d)
    /\ Resource(d) \notin excluded \ Manual
    /\ snapshot' = [snapshot EXCEPT ![d] = exposure[Resource(d)]]
    /\ call' = [call EXCEPT ![d] = 1]
    /\ Goto(d, IF Resource(d) \in Manual THEN "open" ELSE "breaker")
    /\ UNCHANGED <<world, tries, outcome, table, history>>

(* plan returns a plan with the snapshot of what is to be removed. *)
PlanDangerous(d) ==
    /\ Inspect(d)
    /\ Dangerous(d)
    /\ Resource(d) \notin excluded \ Manual
    /\ snapshot' = [snapshot EXCEPT ![d] = exposure[Resource(d)]]
    /\ call' = [call EXCEPT ![d] = 1]
    /\ Goto(d, "open")
    /\ UNCHANGED <<world, tries, outcome, table, history>>

(* What is put on record about a resource is to be alerted on. *)
Owe(d) == owed' = owed \cup {<<Event(d), outcome[d].status>>}

(* Mutation: an exclusion is put on record and not alerted on. *)
RecordQuietly(d) ==
    /\ pc[d] = "record"
    /\ audit' = [audit EXCEPT ![Key(d)] = [status |-> "SKIPPED", snapshot |-> {}]]
    /\ IF outcome[d].resource = NoResource THEN UNCHANGED owed ELSE Owe(d)
    /\ Goto(d, "return")
    /\ UNCHANGED <<world, tries, local, attempts, windows, claimed, sent, muted, written, removed>>

(* audit.record_unplanned; only the exclusion goes on to an alert.         *)
Record(d) ==
    /\ pc[d] = "record"
    /\ audit' = [audit EXCEPT ![Key(d)] = [status |-> "SKIPPED", snapshot |-> {}]]
    /\ IF outcome[d].resource = NoResource
         THEN Goto(d, "return") /\ UNCHANGED owed
         ELSE Goto(d, "claim") /\ Owe(d)
    /\ UNCHANGED <<world, tries, local, attempts, windows, claimed, sent, muted, written, removed>>

(* audit.open; a plan without intended actions is escalated at once.       *)
Open(d) ==
    /\ pc[d] = "open"
    /\ audit' = [audit EXCEPT ![PlanKey(d)] =
                    [status |-> "PLANNED", snapshot |-> snapshot[d]]]
    /\ written' = [written EXCEPT ![Event(d)] = @ \cup snapshot[d]]
    /\ IF Resource(d) \in Manual
         THEN Decide(d, "ESCALATED", Resource(d)) /\ Goto(d, "close")
         ELSE UNCHANGED outcome /\ Goto(d, "breaker")
    /\ UNCHANGED <<world, tries, snapshot, call, attempts, windows, claimed, alerts, removed>>

(* check_and_increment, then the dry-run switch.  (The increment that is   *)
(* sent again and counts twice is in CircuitBreaker.)                      *)
Breaker(d) ==
    /\ pc[d] = "breaker"
    /\ attempts' = attempts + 1
    /\ \/ /\ attempts' > Limit
          /\ Decide(d, "BLOCKED", Resource(d))
          /\ Goto(d, "close")
       \/ /\ attempts' <= Limit
          /\ DryRun
          /\ Decide(d, "DRY_RUN", Resource(d))
          /\ Goto(d, "close")
       \/ /\ attempts' <= Limit
          /\ ~DryRun
          /\ UNCHANGED outcome
          /\ Goto(d, "apply")
    /\ UNCHANGED <<world, tries, snapshot, call, audit, windows, claimed, history>>

(* The parts the next call of apply is asked to remove. *)
Target(d) == Calls[call[d]] \cap snapshot[d]

(* AWS carries out the call: the parts are gone, the trail may echo the    *)
(* call as an event, and the invocation goes on.                           *)
Carry(d, label) ==
    /\ Idempotent \/ Target(d) \subseteq exposure[Resource(d)]
    /\ exposure' = [exposure EXCEPT ![Resource(d)] = @ \ Target(d)]
    /\ removed' = [removed EXCEPT ![Event(d)] =
                      @ \cup (Target(d) \cap exposure[Resource(d)])]
    /\ IF SelfEvents /\ Target(d) # {} /\ Len(events) < MaxEvents
         THEN /\ events' = Append(events, [resource |-> Resource(d), self |-> TRUE, told |-> "named"])
              /\ pc' = [pc EXCEPT ![d] = label, ![<<Len(events) + 1, 1>>] = "queued"]
         ELSE UNCHANGED events /\ Goto(d, label)

(* A call of apply succeeds; after the last one the outcome is APPLIED.    *)
Apply(d) ==
    /\ pc[d] = "apply"
    /\ IF call[d] = Len(Calls)
         THEN Carry(d, "close") /\ Decide(d, "APPLIED", Resource(d))
         ELSE Carry(d, "apply") /\ UNCHANGED outcome
    /\ call' = [call EXCEPT ![d] = @ + 1]
    /\ UNCHANGED <<excluded, tries, snapshot, table, alerts, written>>

(* A call of apply does not succeed, whether or not AWS carried it out. *)
Raise(d) ==
    /\ pc[d] = "apply"
    /\ Target(d) # {}
    /\ \/ Carry(d, "close")
       \/ Goto(d, "close") /\ UNCHANGED <<exposure, events, removed>>
    /\ UNCHANGED <<excluded, tries, snapshot, call, table, alerts, written>>

(* Mutation: a failed remediation is closed as applied. *)
ApplyRaisesUnnoticed(d) == Raise(d) /\ Decide(d, "APPLIED", Resource(d))

(* The exception is caught and the remediation has FAILED. *)
ApplyRaises(d) == Raise(d) /\ Decide(d, "FAILED", Resource(d))

(* Mutation: the outcome is never written to the record. *)
CloseForgotten(d) ==
    /\ pc[d] = "close"
    /\ Owe(d)
    /\ Goto(d, "claim")
    /\ UNCHANGED <<world, tries, local, table, sent, muted, written, removed>>

(* Mutation: closing puts a new item instead of updating the status. *)
CloseAnew(d) ==
    /\ pc[d] = "close"
    /\ audit' = [audit EXCEPT ![Key(d)] = [status |-> outcome[d].status, snapshot |-> {}]]
    /\ Owe(d)
    /\ Goto(d, "claim")
    /\ UNCHANGED <<world, tries, local, attempts, windows, claimed, sent, muted, written, removed>>

(* audit.close *)
Close(d) ==
    /\ pc[d] = "close"
    /\ audit' = [audit EXCEPT ![Key(d)].status = outcome[d].status]
    /\ Owe(d)
    /\ Goto(d, "claim")
    /\ UNCHANGED <<world, tries, local, attempts, windows, claimed, sent, muted, written, removed>>

(* The fingerprint is another's claim, or seems to be: the alert is left   *)
(* to the claimer, and is as good as made when that has posted.            *)
Suppressed(d) ==
    /\ Goto(d, "return")
    /\ owed' = IF Fingerprint(d) \in sent THEN owed \ {<<Event(d), outcome[d].status>>}
               ELSE owed

(* notify claims the fingerprint before it posts.  When the reply to its   *)
(* put is lost, the put is sent again and meets its own item.              *)
Claim(d) ==
    LET f == Fingerprint(d)
    IN  /\ pc[d] = "claim"
        /\ claimed' = claimed \cup {f}
        /\ \/ /\ f \in claimed
              /\ Suppressed(d)
              /\ UNCHANGED muted
           \/ /\ f \notin claimed
              /\ Goto(d, "post")
              /\ muted' = muted \ {f}
              /\ UNCHANGED owed
           \/ /\ f \notin claimed /\ RepliesLost
              /\ Goto(d, "return")
              /\ muted' = muted \cup {f}
              /\ UNCHANGED owed
        /\ UNCHANGED <<world, tries, local, audit, attempts, windows, sent, written, removed>>

(* What an alert that is owed would say, and the records an alert covers. *)
Due(o) == <<events[o[1]].resource, o[2]>>
Covered(f) == {o \in owed : Due(o) = f}

(* The alert is posted, or is undeliverable and dropped with a log line.   *)
Post(d) ==
    /\ pc[d] = "post"
    /\ \/ /\ sent' = sent \cup ({Fingerprint(d)} \cap claimed)
          /\ owed' = owed \ Covered(Fingerprint(d))
       \/ ~SlackUp /\ UNCHANGED <<sent, owed>>
    /\ Goto(d, "return")
    /\ UNCHANGED <<world, tries, local, table, muted, written, removed>>

(* execute returns the outcome and Lambda hears of it. *)
Return(d) ==
    /\ pc[d] = "return"
    /\ Leave(d, "done")
    /\ UNCHANGED <<world, tries, table, history>>

(* Mutation: a failed invocation is dropped without a trace. *)
FailSilently(d) ==
    /\ pc[d] \in InFlight
    /\ tries' = [tries EXCEPT ![d] = @ + 1]
    /\ Leave(d, IF tries[d] + 1 < MaxTries THEN "queued" ELSE "done")
    /\ UNCHANGED <<world, table, history>>

(* Mutation: a failed invocation is always tried again. *)
FailForever(d) ==
    /\ pc[d] \in InFlight
    /\ tries' = [tries EXCEPT ![d] = @ + 1]
    /\ Leave(d, "queued")
    /\ UNCHANGED <<world, table, history>>

(* Mutation: the last failed try loses the event. *)
FailLost(d) ==
    /\ pc[d] \in InFlight
    /\ tries' = [tries EXCEPT ![d] = @ + 1]
    /\ Leave(d, IF tries[d] + 1 < MaxTries THEN "queued" ELSE "idle")
    /\ UNCHANGED <<world, table, history>>

(* The invocation is killed or raises: Lambda invokes it again, from the   *)
(* start, or sends the event to the dead-letter queue.                     *)
Fail(d) ==
    /\ pc[d] \in InFlight
    /\ tries' = [tries EXCEPT ![d] = @ + 1]
    /\ Leave(d, IF tries[d] + 1 < MaxTries THEN "queued" ELSE "dead")
    /\ UNCHANGED <<world, table, history>>

Step(d) ==
    \/ Start(d)
    \/ PlanNameless(d) \/ PlanBenign(d) \/ PlanExcluded(d) \/ PlanDangerous(d)
    \/ Record(d) \/ Open(d) \/ Breaker(d)
    \/ Apply(d) \/ ApplyRaises(d)
    \/ Close(d) \/ Claim(d) \/ Post(d) \/ Return(d)
    \/ Fail(d)

Environment ==
    \/ \E r \in Resources : Expose(r) \/ Repair(r) \/ Tag(r)
    \/ \E d \in Deliveries : Duplicate(d)
    \/ NextWindow
    \/ \E f \in claimed : DedupExpires(f)

Next == Environment \/ \E d \in Deliveries : Step(d)

Spec == Init /\ [][Next]_vars

(* Lambda keeps invoking a queued delivery and an invocation ends, if only *)
(* by its timeout; what people do is not fair.                             *)
FairSpec == Spec /\ \A d \in Deliveries : WF_vars(Step(d))

-----------------------------------------------------------------------------
(* Every variable has its type. *)
TypeOK ==
    /\ exposure \in [Resources -> SUBSET Parts]
    /\ excluded \subseteq Resources
    /\ events \in Seq([resource : Resources, self : BOOLEAN, told : Told])
    /\ Len(events) <= MaxEvents
    /\ pc \in [Deliveries -> {"idle", "queued"} \cup InFlight \cup Ended]
    /\ tries \in [Deliveries -> 0 .. MaxTries]
    /\ snapshot \in [Deliveries -> SUBSET Parts]
    /\ call \in [Deliveries -> 1 .. Len(Calls) + 1]
    /\ outcome \in [Deliveries -> [status : Statuses \cup {"ABSENT"},
                                    resource : Resources \cup {NoResource}]]
    /\ audit \in [Keys -> [status : Statuses \cup {"PLANNED", "ABSENT"},
                            snapshot : SUBSET Parts]]
    /\ attempts \in Nat
    /\ windows \in 0 .. MaxWindows
    /\ claimed \subseteq (Resources \X Statuses)
    /\ sent \subseteq (Resources \X Statuses)
    /\ muted \subseteq (Resources \X Statuses)
    /\ owed \subseteq (EventIds \X Statuses)
    /\ written \in [EventIds -> SUBSET Parts]
    /\ removed \in [EventIds -> SUBSET Parts]

(* Snapshot first: whatever was ever removed on account of an event had    *)
(* been put into a snapshot under that event's key, however the deliveries *)
(* of the event interleave, fail and are retried.                          *)
SnapshotFirst == \A e \in EventIds : removed[e] \subseteq written[e]

(* What runtime.py:96-97 and audit.py:5-9 promise: the original state of   *)
(* everything removed is in the audit table still.                         *)
RollbackSource ==
    \A e \in DOMAIN events :
        removed[e] \subseteq audit[<<events[e].resource, e>>].snapshot

DeliveriesOf(e) == {d \in Deliveries : Event(d) = e}

(* The invocations of a delivery that have begun, and whether all those of *)
(* an event are one at most.                                               *)
Begun(d) == tries[d] + (IF pc[d] \in InFlight \cup {"done"} THEN 1 ELSE 0)

Once(e) ==
    \E d \in DeliveriesOf(e) :
        Begun(d) <= 1 /\ \A c \in DeliveriesOf(e) \ {d} : Begun(c) = 0

(* How far that promise is kept: until an event is worked on a second      *)
(* time, by a retry or a duplicate, its record has the original state of   *)
(* everything removed on its account, whatever has failed and however long *)
(* ago, and whoever has changed the resource since.                        *)
RollbackUnlessRepeated ==
    \A e \in DOMAIN events :
        Once(e) => removed[e] \subseteq audit[<<events[e].resource, e>>].snapshot

(* Whether an event is the latest change of its resource that others       *)
(* caused.                                                                 *)
Latest(e) ==
    /\ ~events[e].self
    /\ \A f \in DOMAIN events :
          f > e /\ events[f].resource = events[e].resource => events[f].self

Latests == {e \in DOMAIN events : Latest(e)}

StatusOf(e)  == audit[<<events[e].resource, e>>].status
Dismissed(e) == audit[<<NoResource, e>>].status = "SKIPPED"

(* The dismissal of an event that names its resource speaks for the        *)
(* resource.  That of any other has the same words (runtime.py:74-76) and  *)
(* nobody has looked.                                                      *)
FoundBenign(e) == Dismissed(e) /\ events[e].told = "named"

(* A verdict of the audit table is true of the world: when the latest      *)
(* event of a resource is recorded as applied, or as not dangerous and it  *)
(* names the resource, the resource is harmless, whatever other deliveries *)
(* did meanwhile.                                                          *)
VerdictIsTrue ==
    \A e \in Latests :
        StatusOf(e) = "APPLIED" \/ FoundBenign(e)
          => exposure[events[e].resource] \in Benign

Loud(e) ==
    \/ StatusOf(e) \in Statuses \ {"APPLIED"}
    \/ \E d \in DeliveriesOf(e) : pc[d] = "dead"

Settled(e) == \A d \in DeliveriesOf(e) : pc[d] \in Ended \cup {"idle"}

(* The two ways in which a dangerous resource escapes the system: its last *)
(* change reached no delivery, or only an event that names no resource,    *)
(* which is on record as in need of nothing.                               *)
Escapes(e) ==
    \/ events[e].told = "unheard"
    \/ events[e].told = "nameless" /\ Dismissed(e)

(* No silent exposure but for those two: once every delivery of the latest *)
(* event has ended, a resource that is still dangerous has a record that   *)
(* says so or a dead letter.                                               *)
NoSilentExposure ==
    \A e \in Latests :
        Settled(e) /\ exposure[events[e].resource] \notin Benign => Loud(e) \/ Escapes(e)

(* audit.py:46-48: a record left PLANNED means that an invocation died     *)
(* between opening the record and closing it.                              *)
PlannedMeansDied ==
    \A e \in DOMAIN events :
        StatusOf(e) = "PLANNED" =>
            \E d \in DeliveriesOf(e) : tries[d] > 0 \/ pc[d] \in {"breaker", "apply", "close"}

(* The loop guard: an event that the system's own calls caused never opens *)
(* a record of its own, even when the resource is dangerous again by then. *)
EchoesInert ==
    \A e \in DOMAIN events : events[e].self => StatusOf(e) = "ABSENT"

(* What s3_public/handler.py:212-217 says of every read but a missing      *)
(* configuration: AccessDenied surfaces as a FAILED outcome.               *)
DeniedIsFailed ==
    \A e \in Latests :
        events[e].resource \in Denied /\ events[e].told = "named" /\ Settled(e)
          => StatusOf(e) = "FAILED"

(* runtime.py:152: a failed remediation must alert.                        *)
FailedAlerts ==
    \A o \in owed :
        o[2] = "FAILED" /\ Settled(o[1]) =>
            \E d \in DeliveriesOf(o[1]) : pc[d] = "dead"

Died(r) ==
    \E x \in Deliveries : Event(x) \in DOMAIN events /\ Resource(x) = r /\ tries[x] > 0

Posting(f) == \E x \in Deliveries : pc[x] = "post" /\ Fingerprint(x) = f

(* How far that promise is kept, for a failed remediation and for every    *)
(* other status put on record: once the event's deliveries have ended, an  *)
(* alert that says so has been posted since, or had been in the dedup      *)
(* window, or its claimer is posting it.  It is lost only when an          *)
(* invocation has died on the resource, or when the last claimer took its  *)
(* own item for another's.                                                 *)
AlertsUnlessLost ==
    SlackUp => \A o \in owed :
        Settled(o[1]) =>
            Posting(Due(o)) \/ Died(events[o[1]].resource) \/ Due(o) \in muted

(* Every delivery comes to an end. *)
Settles == \A d \in Deliveries : pc[d] = "queued" ~> pc[d] \in Ended

-----------------------------------------------------------------------------
(* The pipeline carries out the promise of module Remediation: an event    *)
(* stands for all its deliveries, its ruling is the status of the record   *)
(* of its resource, and it is dismissed by the record without one.         *)
rulingBar    == [e \in EventIds |-> IF e \in DOMAIN events THEN StatusOf(e) ELSE "ABSENT"]
dismissedBar == {e \in DOMAIN events : Dismissed(e)}

Promise == INSTANCE Remediation WITH
    Touchable <- IF DryRun THEN {} ELSE Resources \ Manual,
    Rulings   <- Statuses,
    evidence  <- written,
    ruling    <- rulingBar,
    dismissed <- dismissedBar

(* However deliveries of events interleave, fail and are retried, each     *)
(* step is one that the promise allows: removals only of what is in        *)
(* evidence, on record and permitted; rulings only when they are true.     *)
KeepsPromise == Promise!Spec
=============================================================================
