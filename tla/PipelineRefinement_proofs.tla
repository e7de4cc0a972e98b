---------------------- MODULE PipelineRefinement_proofs -----------------------
(***************************************************************************)
(* The pipeline keeps the promise of module Remediation, for any           *)
(* resources, deliveries and retries: the initial states map to its        *)
(* initial state, and every step to one of its steps or to a stutter.      *)
(*                                                                         *)
(* GInv adds to what is known of records and snapshots that a delivery     *)
(* about to remove something has a record, and may remove it (Gate).       *)
(***************************************************************************)
EXTENDS PipelineRecord_proofs

(* Only what is permitted and on record gets as far as a removal. *)
Gate(x) ==
    /\ pc[x] \in Acting => StatusOf(Event(x)) # "ABSENT"
    /\ pc[x] \in {"breaker", "apply"} => Resource(x) \notin Manual
    /\ pc[x] = "apply" => ~DryRun

GInv == RInv /\ SInv /\ \A x \in Deliveries : Gate(x)

(* A record, once there, is never taken away. *)
Lasting ==
    \A e \in DOMAIN events : StatusOf(e) # "ABSENT" => StatusOf(e)' # "ABSENT"

(* The step is one that the promise allows, or none that it sees. *)
Promised == [Promise!Next]_(Promise!vars)

-----------------------------------------------------------------------------
(* What the promise sees of the audit table: nothing changes with it ...   *)
LEMMA BarsKept ==
    ASSUME RInv, RInv', Grown, UNCHANGED audit
    PROVE  rulingBar' = rulingBar /\ dismissedBar' = dismissedBar /\ Lasting
<1>1. /\ events \in Seq([resource : Resources, self : BOOLEAN, told : Told])
      /\ events' \in Seq([resource : Resources, self : BOOLEAN, told : Told])
      /\ Len(events') <= MaxEvents /\ Len(events) <= Len(events')
  BY DEF Grown, RInv, VInv, TInv, TypeOK
<1>2. ASSUME NEW e \in DOMAIN events
      PROVE  /\ e \in DOMAIN events'
             /\ StatusOf(e)' = StatusOf(e) /\ Dismissed(e)' = Dismissed(e)
  <2>1. e \in DOMAIN events'
    BY <1>1
  <2>2. events'[e] = events[e]
    BY DEF Grown
  <2> QED
    BY <2>1, <2>2 DEF StatusOf, Dismissed
<1>3. ASSUME NEW e \in DOMAIN events', e \notin DOMAIN events
      PROVE  StatusOf(e)' = "ABSENT" /\ ~Dismissed(e)'
  <2>1. e \in EventIds /\ e > Len(events)
    BY <1>1, <1>3, PipelineAssumption DEF EventIds
  <2>2. events'[e] \in [resource : Resources, self : BOOLEAN, told : Told]
    <3>1. e \in 1 .. Len(events')
      BY <1>1
    <3> QED
      BY <1>1, <3>1, ElementOfSeq
  <2>3. events'[e].resource \in Resources
    BY <2>2
  <2>4. audit[<<events'[e].resource, e>>] = NoRecord /\ audit[<<NoResource, e>>] = NoRecord
    BY <2>1, <2>3 DEF RInv, VInv, Blank
  <2> QED
    BY <2>4 DEF StatusOf, Dismissed, NoRecord
<1>4. rulingBar' = rulingBar
  BY <1>2, <1>3 DEF rulingBar
<1>5. dismissedBar' = dismissedBar
  BY <1>2, <1>3 DEF dismissedBar
<1> QED
  BY <1>2, <1>4, <1>5 DEF Lasting

(* ... or the ruling of the event does ...                                 *)
LEMMA RulingWritten ==
    ASSUME RInv, UNCHANGED events, NEW d \in Deliveries, Event(d) \in DOMAIN events,
           NEW status, status # "ABSENT",
           audit'[<<Resource(d), Event(d)>>].status = status,
           \A k \in Keys : k # <<Resource(d), Event(d)>> => audit'[k] = audit[k]
    PROVE  /\ rulingBar' = [rulingBar EXCEPT ![Event(d)] = status]
           /\ dismissedBar' = dismissedBar /\ Lasting
<1>1. \A e \in DOMAIN events : e \in EventIds /\ events[e].resource \in Resources
  <2>1. \A e \in DOMAIN events : e \in EventIds
    BY PipelineAssumption DEF EventIds, RInv, VInv, TInv, TypeOK
  <2> QED
    BY <2>1, ResourceOfEvent DEF RInv, VInv
<1>2. NoResource \notin Resources /\ Resource(d) = events[Event(d)].resource
  BY PipelineAssumption DEF Resource
<1>3. ASSUME NEW e \in DOMAIN events
      PROVE  /\ e # Event(d) => StatusOf(e)' = StatusOf(e)
             /\ e = Event(d) => StatusOf(e)' = status
             /\ Dismissed(e)' = Dismissed(e)
  <2>1. <<events[e].resource, e>> \in Keys /\ <<NoResource, e>> \in Keys
    BY <1>1 DEF Keys
  <2>2. <<NoResource, e>> # <<Resource(d), Event(d)>>
    BY <1>1, <1>2
  <2> QED
    BY <1>2, <2>1, <2>2 DEF StatusOf, Dismissed
<1>4. rulingBar' = [rulingBar EXCEPT ![Event(d)] = status]
  BY <1>1, <1>3 DEF rulingBar
<1> QED
  BY <1>3, <1>4 DEF dismissedBar, Lasting

(* ... or its dismissal. *)
LEMMA DismissalWritten ==
    ASSUME RInv, UNCHANGED events, NEW d \in Deliveries, Event(d) \in DOMAIN events,
           audit'[<<NoResource, Event(d)>>].status = "SKIPPED",
           \A k \in Keys : k # <<NoResource, Event(d)>> => audit'[k] = audit[k]
    PROVE  /\ rulingBar' = rulingBar
           /\ dismissedBar' = dismissedBar \cup {Event(d)} /\ Lasting
<1>1. \A e \in DOMAIN events : e \in EventIds /\ events[e].resource \in Resources
  <2>1. \A e \in DOMAIN events : e \in EventIds
    BY PipelineAssumption DEF EventIds, RInv, VInv, TInv, TypeOK
  <2> QED
    BY <2>1, ResourceOfEvent DEF RInv, VInv
<1>2. NoResource \notin Resources
  BY PipelineAssumption
<1>3. ASSUME NEW e \in DOMAIN events
      PROVE  /\ StatusOf(e)' = StatusOf(e)
             /\ e # Event(d) => Dismissed(e)' = Dismissed(e)
             /\ e = Event(d) => Dismissed(e)'
  <2>1. <<events[e].resource, e>> \in Keys /\ <<NoResource, e>> \in Keys
    BY <1>1 DEF Keys
  <2>2. <<events[e].resource, e>> # <<NoResource, Event(d)>>
    BY <1>1, <1>2
  <2> QED
    BY <2>1, <2>2 DEF StatusOf, Dismissed
<1>4. rulingBar' = rulingBar
  BY <1>3 DEF rulingBar
<1>5. dismissedBar' = dismissedBar \cup {Event(d)}
  BY <1>3 DEF dismissedBar
<1> QED
  BY <1>3, <1>4, <1>5 DEF Lasting

LEMMA Unseen ==
    ASSUME RInv, RInv', UNCHANGED <<exposure, events, audit, written, removed>>
    PROVE  Promised /\ Grown /\ Lasting
<1>1. Grown
  BY DEF Grown, RInv, VInv, TInv, TypeOK
<1> QED
  BY <1>1, BarsKept DEF Promised, Promise!vars

-----------------------------------------------------------------------------
LEMMA KeptGate ==
    ASSUME GInv, Grown, Lasting, NEW x \in Deliveries, pc'[x] = pc[x] \/ Woken(x)
    PROVE  Gate(x)'
<1>1. CASE pc'[x] \notin Acting
  BY <1>1 DEF Gate, Acting
<1>2. CASE pc'[x] \in Acting
  <2>1. pc'[x] = pc[x] /\ pc[x] # "idle"
    BY <1>2 DEF Woken, Acting
  <2>2. Event(x) \in DOMAIN events /\ Resource(x)' = Resource(x)
    BY <2>1, SameEvent DEF GInv
  <2>3. Event(x)' = Event(x)
    BY DEF Event
  <2> QED
    BY <2>1, <2>2, <2>3 DEF GInv, Gate, Lasting
<1> QED
  BY <1>1, <1>2

(* A delivery that acts already, or does not act. *)
LEMMA OnGate ==
    ASSUME GInv, Grown, Lasting, NEW d \in Deliveries,
           pc'[d] \in Acting => pc[d] \in Acting,
           pc'[d] \in {"breaker", "apply"} => pc[d] \in {"breaker", "apply"},
           pc'[d] = "apply" => pc[d] = "apply" \/ ~DryRun
    PROVE  Gate(d)'
<1>1. CASE pc'[d] \notin Acting
  BY <1>1 DEF Gate, Acting
<1>2. CASE pc'[d] \in Acting
  <2>1. pc[d] # "idle"
    BY <1>2 DEF Acting
  <2>2. Event(d) \in DOMAIN events /\ Resource(d)' = Resource(d)
    BY <2>1, SameEvent DEF GInv
  <2>3. Event(d)' = Event(d)
    BY DEF Event
  <2> QED
    BY <1>2, <2>2, <2>3 DEF GInv, Gate, Lasting
<1> QED
  BY <1>1, <1>2

-----------------------------------------------------------------------------
LEMMA EnvironmentPromised ==
    ASSUME GInv, RInv', Environment
    PROVE  Promised /\ \A x \in Deliveries : Gate(x)'
<1> USE DEF world, local, table, history, alerts
<1> RInv
  BY DEF GInv
<1>1. ASSUME NEW r \in Resources, Expose(r)
      PROVE  Promised /\ \A x \in Deliveries : Gate(x)'
  <2>1. Grown /\ \A x \in Deliveries : pc'[x] = pc[x] \/ Woken(x)
    BY <1>1, ExposeFacts DEF Kept, RInv, VInv
  <2>2. rulingBar' = rulingBar /\ dismissedBar' = dismissedBar /\ Lasting
    BY <1>1, <2>1, BarsKept DEF Expose
  <2>3. PICK more \in SUBSET Parts : exposure' = [exposure EXCEPT ![r] = @ \cup more]
    BY <1>1 DEF Expose
  <2>4. PICK told \in Tellings : Emit(r, FALSE, told)
    BY <1>1 DEF Expose
  <2>5. Promise!Expose(r, more, told)
    BY <1>1, <2>2, <2>3, <2>4 DEF Promise!Expose, Expose, Emit
  <2> QED
    BY <2>1, <2>2, <2>5, KeptGate DEF Promised, Promise!Next
<1>2. ASSUME NEW r \in Resources, Repair(r)
      PROVE  Promised /\ \A x \in Deliveries : Gate(x)'
  <2>1. PICK less \in SUBSET exposure[r] : exposure' = [exposure EXCEPT ![r] = @ \ less]
    BY <1>2 DEF Repair
  <2>2. less \in SUBSET Parts
    BY DEF RInv, VInv, TInv, TypeOK
  <2>3. UNCHANGED <<events, pc, audit, written, removed>>
    BY <1>2 DEF Repair
  <2>4. Grown
    BY <2>3 DEF Grown, RInv, VInv, TInv, TypeOK
  <2>5. rulingBar' = rulingBar /\ dismissedBar' = dismissedBar /\ Lasting
    BY <2>3, <2>4, BarsKept
  <2>6. Promise!Repair(r, less)
    BY <2>1, <2>3, <2>5 DEF Promise!Repair
  <2> QED
    BY <2>2, <2>3, <2>4, <2>5, <2>6, KeptGate DEF Promised, Promise!Next
<1>3. ASSUME NEW r \in Resources, Tag(r)
      PROVE  Promised /\ \A x \in Deliveries : Gate(x)'
  BY <1>3, Unseen, KeptGate DEF Tag
<1>4. ASSUME NEW d \in Deliveries, Duplicate(d)
      PROVE  Promised /\ \A x \in Deliveries : Gate(x)'
  <2>1. \A x \in Deliveries : pc'[x] = pc[x] \/ Woken(x)
    BY <1>4 DEF Duplicate, Goto, Woken, RInv, VInv, TInv, TypeOK
  <2> QED
    BY <1>4, <2>1, Unseen, KeptGate DEF Duplicate
<1>5. ASSUME NextWindow \/ \E f \in claimed : DedupExpires(f)
      PROVE  Promised /\ \A x \in Deliveries : Gate(x)'
  BY <1>5, Unseen, KeptGate DEF NextWindow, DedupExpires
<1> QED
  BY <1>1, <1>2, <1>3, <1>4, <1>5 DEF Environment

(* Steps that the promise does not see. *)
LEMMA QuietPromised ==
    ASSUME GInv, RInv', NEW d \in Deliveries,
           Start(d) \/ PlanNameless(d) \/ PlanBenign(d) \/ PlanExcluded(d) \/ PlanDangerous(d) \/ Breaker(d)
              \/ Claim(d) \/ Post(d) \/ Return(d) \/ Fail(d)
    PROVE  Promised /\ \A x \in Deliveries : Gate(x)'
<1> USE DEF world, local, table, history, alerts
<1> RInv /\ TInv
  BY DEF GInv, RInv, VInv
<1>1. UNCHANGED <<exposure, events, audit, written, removed>>
  BY DEF Start, PlanNameless, PlanBenign, PlanExcluded, PlanDangerous, Breaker, Claim, Suppressed, Post, Return, Fail
<1>2. Promised /\ Grown /\ Lasting
  BY <1>1, Unseen
<1>3. \E label \in Live \cup Ended :
         /\ Goto(d, label)
         /\ label \in Acting => pc[d] = "breaker" /\ label \in {"close", "apply"}
         /\ label = "apply" => ~DryRun
  <2>1. CASE Start(d)
    BY <2>1 DEF Start, Live, InFlight, Acting
  <2>2. CASE PlanNameless(d) \/ PlanBenign(d) \/ PlanExcluded(d) \/ PlanDangerous(d)
    BY <2>2 DEF PlanNameless, PlanBenign, PlanExcluded, PlanDangerous, Live, InFlight, Acting
  <2>3. CASE Breaker(d)
    BY <2>3 DEF Breaker, Live, InFlight, Acting
  <2>4. CASE Claim(d) \/ Post(d)
    BY <2>4 DEF Claim, Suppressed, Post, Live, InFlight, Acting
  <2>5. CASE Return(d) \/ Fail(d)
    BY <2>5 DEF Return, Fail, Leave, Live, InFlight, Ended, Acting
  <2> QED
    BY <2>1, <2>2, <2>3, <2>4, <2>5
<1>4. PICK label : /\ Goto(d, label)
                   /\ label \in Acting => pc[d] = "breaker" /\ label \in {"close", "apply"}
                   /\ label = "apply" => ~DryRun
  BY <1>3
<1>5. pc'[d] = label /\ \A x \in Deliveries : x # d => pc'[x] = pc[x]
  BY <1>4, GotoFacts
<1>6. Gate(d)'
  BY <1>2, <1>4, <1>5, OnGate DEF Acting
<1> QED
  BY <1>2, <1>5, <1>6, KeptGate

-----------------------------------------------------------------------------
LEMMA RecordPromised ==
    ASSUME GInv, RInv', NEW d \in Deliveries, Record(d)
    PROVE  Promised /\ \A x \in Deliveries : Gate(x)'
<1> USE DEF world, local, table, history, alerts
<1> RInv /\ TInv
  BY DEF GInv, RInv, VInv
<1> DEFINE item == [status |-> "SKIPPED", snapshot |-> {}]
<1>1. /\ pc[d] = "record" /\ UNCHANGED <<exposure, events, written, removed>>
      /\ audit' = [audit EXCEPT ![<<outcome[d].resource, Event(d)>>] = item]
  BY DEF Record, Key
<1>2. Grown
  BY <1>1 DEF Grown, TInv, TypeOK
<1>3. /\ Event(d) \in DOMAIN events /\ Resource(d) \in Resources
      /\ outcome[d].resource \in {NoResource, Resource(d)}
      /\ Own(d) => outcome[d].resource = NoResource
  BY <1>1, <1>2, SameEvent DEF RInv, Sited
<1>4. /\ outcome[d].resource = Resource(d) =>
            /\ rulingBar' = [rulingBar EXCEPT ![Event(d)] = "SKIPPED"]
            /\ dismissedBar' = dismissedBar
      /\ outcome[d].resource = NoResource =>
            /\ rulingBar' = rulingBar
            /\ dismissedBar' = dismissedBar \cup {Event(d)}
      /\ Lasting
  <2>1. <<outcome[d].resource, Event(d)>> \in Keys
    BY <1>3, DeliveryFacts DEF Keys
  <2>2. /\ audit'[<<outcome[d].resource, Event(d)>>].status = "SKIPPED"
        /\ \A k \in Keys : k # <<outcome[d].resource, Event(d)>> => audit'[k] = audit[k]
    BY <1>1, <2>1 DEF TInv, TypeOK
  <2>3. CASE outcome[d].resource = Resource(d)
    BY <1>1, <1>3, <2>2, <2>3, RulingWritten, PipelineAssumption
  <2>4. CASE outcome[d].resource = NoResource
    BY <1>1, <1>3, <2>2, <2>4, DismissalWritten, PipelineAssumption
  <2> QED
    BY <1>3, <2>3, <2>4
<1>5. \A x \in Deliveries : Gate(x)'
  <2>1. pc'[d] \in {"return", "claim"} /\ \A x \in Deliveries : x # d => pc'[x] = pc[x]
    BY GotoFacts DEF Record
  <2>2. Gate(d)'
    BY <2>1 DEF Gate, Acting
  <2> QED
    BY <1>2, <1>4, <2>1, <2>2, KeptGate
<1>6. CASE outcome[d].resource = NoResource
  <2>1. Event(d) \in dismissedBar'
    BY <1>4, <1>6
  <2>2. Dismissed(Event(d))'
    BY <2>1 DEF dismissedBar
  <2>3. Promise!Latest(Event(d)) => Event(d) \in Latests'
    BY <1>1, <1>3 DEF Promise!Latest, Promise!Resource, Latests, Latest
  <2>4. Promise!Latest(Event(d)) /\ events[Event(d)].told = "named" => Promise!Safe(Event(d))
    BY <1>1, <2>2, <2>3 DEF FoundBenign, Promise!Safe, Promise!Resource, RInv, VInv, VerdictIsTrue
  <2>5. Promise!Dismiss(Event(d))
    BY <1>1, <1>4, <1>6, <2>4 DEF Promise!Dismiss
  <2> QED
    BY <1>3, <1>5, <2>5 DEF Promised, Promise!Next
<1>7. CASE outcome[d].resource = Resource(d) /\ outcome[d].resource # NoResource
  <2>1. Promise!Rule(Event(d), "SKIPPED")
    BY <1>1, <1>3, <1>4, <1>7 DEF Promise!Rule, Own
  <2> QED
    BY <1>3, <1>5, <2>1 DEF Promised, Promise!Next, Statuses
<1> QED
  BY <1>3, <1>6, <1>7

LEMMA OpenPromised ==
    ASSUME GInv, RInv', NEW d \in Deliveries, Open(d)
    PROVE  Promised /\ \A x \in Deliveries : Gate(x)'
<1> USE DEF world, local, table, history, alerts
<1> RInv /\ TInv
  BY DEF GInv, RInv, VInv
<1> DEFINE item == [status |-> "PLANNED", snapshot |-> snapshot[d]]
<1>1. /\ pc[d] = "open" /\ UNCHANGED <<exposure, events, removed>>
      /\ audit' = [audit EXCEPT ![<<Resource(d), Event(d)>>] = item]
      /\ written' = [written EXCEPT ![Event(d)] = @ \cup snapshot[d]]
  BY DEF Open, PlanKey
<1>2. Grown
  BY <1>1 DEF Grown, TInv, TypeOK
<1>3. /\ Event(d) \in DOMAIN events /\ Resource(d) \in Resources
      /\ Resource(d)' = Resource(d) /\ ~Own(d)
  BY <1>1, <1>2, SameEvent DEF RInv, Sited, Ignoring
<1>4. /\ rulingBar' = [rulingBar EXCEPT ![Event(d)] = "PLANNED"]
      /\ dismissedBar' = dismissedBar /\ Lasting
  <2>1. <<Resource(d), Event(d)>> \in Keys
    BY <1>3, DeliveryFacts DEF Keys
  <2>2. /\ audit'[<<Resource(d), Event(d)>>].status = "PLANNED"
        /\ \A k \in Keys : k # <<Resource(d), Event(d)>> => audit'[k] = audit[k]
    BY <1>1, <2>1 DEF TInv, TypeOK
  <2> QED
    BY <1>1, <1>3, <2>2, RulingWritten
<1>5. \A x \in Deliveries : Gate(x)'
  <2>1. /\ pc'[d] \in {"close", "breaker"}
        /\ pc'[d] = "breaker" => Resource(d) \notin Manual
        /\ \A x \in Deliveries : x # d => pc'[x] = pc[x]
    BY GotoFacts DEF Open
  <2>2. StatusOf(Event(d))' = "PLANNED"
    <3>1. <<Resource(d), Event(d)>> \in Keys
      BY <1>3, DeliveryFacts DEF Keys
    <3> QED
      BY <1>1, <3>1 DEF StatusOf, Resource, TInv, TypeOK
  <2>3. Gate(d)'
    BY <1>3, <2>1, <2>2 DEF Gate, Event
  <2> QED
    BY <1>2, <1>4, <2>1, <2>3, KeptGate
<1>6. Promise!Record(Event(d), snapshot[d])
  BY <1>1, <1>3, <1>4 DEF Promise!Record, Own
<1>7. snapshot[d] \in SUBSET Parts
  BY DEF TInv, TypeOK
<1> QED
  BY <1>3, <1>5, <1>6, <1>7 DEF Promised, Promise!Next

LEMMA ClosePromised ==
    ASSUME GInv, RInv', NEW d \in Deliveries, Close(d)
    PROVE  Promised /\ \A x \in Deliveries : Gate(x)'
<1> USE DEF world, local, table, history, alerts
<1> RInv /\ TInv
  BY DEF GInv, RInv, VInv
<1>1. pc[d] = "close" /\ UNCHANGED <<exposure, events, written, removed>>
  BY DEF Close
<1>2. Grown
  BY <1>1 DEF Grown, TInv, TypeOK
<1>3. /\ Event(d) \in DOMAIN events /\ Event(d) \in EventIds /\ Resource(d) \in Resources
      /\ ~Own(d) /\ outcome[d].resource = Resource(d) /\ outcome[d].status \in Statuses
  BY <1>1, <1>2, SameEvent, DeliveryFacts DEF RInv, Sited, Ignoring, TInv, Sound
<1>4. <<Resource(d), Event(d)>> \in Keys /\ outcome[d].status # "ABSENT"
  BY <1>3 DEF Keys, Statuses
<1>5. /\ audit'[<<Resource(d), Event(d)>>].status = outcome[d].status
      /\ \A k \in Keys : k # <<Resource(d), Event(d)>> => audit'[k] = audit[k]
  <2>1. Key(d) = <<Resource(d), Event(d)>>
    BY <1>3 DEF Key
  <2> QED
    BY <1>4, <2>1 DEF Close, TInv, TypeOK
<1>6. /\ rulingBar' = [rulingBar EXCEPT ![Event(d)] = outcome[d].status]
      /\ dismissedBar' = dismissedBar /\ Lasting
  BY <1>1, <1>3, <1>4, <1>5, RulingWritten
<1>7. \A x \in Deliveries : Gate(x)'
  <2>1. pc'[d] = "claim" /\ \A x \in Deliveries : x # d => pc'[x] = pc[x]
    BY GotoFacts DEF Close
  <2>2. Gate(d)'
    BY <2>1 DEF Gate, Acting
  <2> QED
    BY <1>2, <1>6, <2>1, <2>2, KeptGate
<1>8. rulingBar[Event(d)] # "ABSENT"
  BY <1>1, <1>3 DEF GInv, Gate, Acting, rulingBar
<1>9. outcome[d].status = "APPLIED" /\ Promise!Latest(Event(d)) => Promise!Safe(Event(d))
  <2> SUFFICES ASSUME outcome[d].status = "APPLIED", Promise!Latest(Event(d))
               PROVE  Promise!Safe(Event(d))
    OBVIOUS
  <2>1. Event(d) \in Latests'
    BY <1>1, <1>3 DEF Promise!Latest, Promise!Resource, Latests, Latest
  <2>2. rulingBar'[Event(d)] = "APPLIED"
    BY <1>3, <1>6 DEF rulingBar
  <2>3. StatusOf(Event(d))' = "APPLIED"
    BY <1>1, <1>3, <2>2 DEF rulingBar
  <2> QED
    BY <1>1, <2>1, <2>3 DEF Promise!Safe, Promise!Resource, RInv, VInv, VerdictIsTrue
<1>10. Promise!Rule(Event(d), outcome[d].status)
  BY <1>1, <1>3, <1>6, <1>8, <1>9 DEF Promise!Rule, Own
<1> QED
  BY <1>3, <1>7, <1>10 DEF Promised, Promise!Next

LEMMA ApplyPromised ==
    ASSUME GInv, RInv', NEW d \in Deliveries, Apply(d) \/ ApplyRaises(d)
    PROVE  Promised /\ \A x \in Deliveries : Gate(x)'
<1> USE DEF world, local, table, history, alerts
<1> RInv /\ TInv
  BY DEF GInv, RInv, VInv
<1>1. pc[d] = "apply" /\ UNCHANGED <<audit, written>>
  BY DEF Apply, ApplyRaises, Raise
<1>2. PICK label \in {"close", "apply"} :
         Carry(d, label) \/ (Goto(d, label) /\ UNCHANGED <<exposure, events, removed>>)
  BY DEF Apply, ApplyRaises, Raise
<1>3. /\ Grown /\ pc'[d] = label
      /\ \A x \in Deliveries : x # d => pc'[x] = pc[x] \/ Woken(x)
  <2>1. CASE Carry(d, label)
    BY <1>1, <2>1, CarryFacts
  <2>2. CASE Goto(d, label) /\ UNCHANGED <<exposure, events, removed>>
    BY <2>2, GotoFacts DEF Grown, TInv, TypeOK
  <2> QED
    BY <1>2, <2>1, <2>2
<1>4. rulingBar' = rulingBar /\ dismissedBar' = dismissedBar /\ Lasting
  BY <1>1, <1>3, BarsKept
<1>5. \A x \in Deliveries : Gate(x)'
  <2>1. Gate(d)'
    BY <1>1, <1>3, <1>4, OnGate DEF Acting
  <2> QED
    BY <1>3, <1>4, <2>1, KeptGate
<1>6. CASE Goto(d, label) /\ UNCHANGED <<exposure, events, removed>>
  BY <1>1, <1>5, <1>6, Unseen
<1>7. CASE Carry(d, label)
  <2>1. Event(d) \in DOMAIN events /\ Resource(d) \in Resources /\ Event(d) \in EventIds
    BY <1>1, <1>3, SameEvent, DeliveryFacts
  <2>2. Resource(d) \notin Manual /\ ~DryRun /\ rulingBar[Event(d)] # "ABSENT"
    BY <1>1, <2>1 DEF GInv, Gate, Acting, rulingBar
  <2>3. Target(d) \subseteq written[Event(d)] /\ Target(d) \in SUBSET Parts
    BY <1>1 DEF GInv, SInv, Evidenced, Target, TInv, TypeOK
  <2>4. Promise!Resource(Event(d)) = Resource(d)
    BY DEF Promise!Resource, Resource
  <2>5. /\ exposure' = [exposure EXCEPT ![Resource(d)] = @ \ Target(d)]
        /\ removed' = [removed EXCEPT ![Event(d)] = @ \cup (Target(d) \cap exposure[Resource(d)])]
        /\ events' \in {events, Append(events, [resource |-> Resource(d), self |-> TRUE, told |-> "named"])}
    BY <1>7 DEF Carry
  <2>6. Promise!Remove(Event(d), Target(d))
    BY <1>1, <1>4, <2>1, <2>2, <2>3, <2>4, <2>5 DEF Promise!Remove
  <2> QED
    BY <1>5, <2>1, <2>3, <2>6 DEF Promised, Promise!Next
<1> QED
  BY <1>2, <1>6, <1>7

-----------------------------------------------------------------------------
LEMMA InitGInv == Init => GInv
<1>1. Init => \A x \in Deliveries : Gate(x)
  BY DEF Init, Gate, Acting
<1> QED
  BY <1>1, InitRInv, InitSInv DEF GInv

LEMMA NextGInv == GInv /\ [Next]_vars => GInv' /\ Promised
<1> SUFFICES ASSUME GInv, [Next]_vars PROVE GInv' /\ Promised
  OBVIOUS
<1>1. RInv' /\ SInv'
  BY NextRInv, NextSInv DEF GInv
<1>2. ASSUME NEW d \in Deliveries, Step(d) PROVE Promised /\ \A x \in Deliveries : Gate(x)'
  BY <1>1, <1>2, QuietPromised, RecordPromised, OpenPromised, ClosePromised, ApplyPromised
     DEF Step
<1>3. CASE UNCHANGED vars
  BY <1>1, <1>3, Unseen, KeptGate DEF GInv, vars, world, local, table, history, alerts
<1>4. CASE Environment
  BY <1>1, <1>4, EnvironmentPromised DEF GInv
<1> QED
  BY <1>1, <1>2, <1>3, <1>4 DEF GInv, Next

LEMMA InitPromise == Init => Promise!Init
<1> SUFFICES ASSUME Init PROVE Promise!Init
  OBVIOUS
<1>1. DOMAIN events = {}
  BY DEF Init
<1>2. rulingBar = [e \in EventIds |-> "ABSENT"] /\ dismissedBar = {}
  BY <1>1 DEF rulingBar, dismissedBar
<1> QED
  BY <1>2 DEF Init, Promise!Init

(* The pipeline implements the promise: nothing is removed that is not in  *)
(* evidence, on record and permitted, and no ruling is false, in any order *)
(* of deliveries, deaths and retries.                                      *)
THEOREM KeepsPromiseHolds == Spec => KeepsPromise
<1>1. Init => GInv /\ Promise!Init
  BY InitGInv, InitPromise
<1>2. GInv /\ [Next]_vars => GInv' /\ [Promise!Next]_(Promise!vars)
  BY NextGInv DEF Promised
<1> QED
  BY <1>1, <1>2, PTL DEF Spec, KeepsPromise, Promise!Spec
=============================================================================
