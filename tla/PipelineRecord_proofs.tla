----------------------- MODULE PipelineRecord_proofs ------------------------
(***************************************************************************)
(* What the records of an event say, for any resources, deliveries and     *)
(* retries: no exposure goes unrecorded, a record left PLANNED means a     *)
(* death, and an event of our own making has no record of its resource.    *)
(*                                                                         *)
(* RInv joins what holds of each event (Heard) with what each delivery     *)
(* carries to its record (Sited), on top of the truth of the verdicts.     *)
(***************************************************************************)
EXTENDS PipelineVerdict_proofs

(* Where a delivery still owes a record, or has left a dead letter. *)
Busy == {"queued", "plan", "record", "open", "breaker", "apply", "close", "dead"}

(* Where a delivery stands between opening its record and closing it. *)
Acting == {"breaker", "apply", "close"}

(* Where a delivery of an event of our own making can be. *)
Ignoring == {"idle", "queued", "record", "return", "done", "dead"}

(* A delivery writes under the key of its own resource, or under "none". *)
Sited(x) ==
    /\ pc[x] = "close" => outcome[x].resource = Resource(x)
    /\ pc[x] = "record" => outcome[x].resource \in {NoResource, Resource(x)}
    /\ Event(x) \in DOMAIN events /\ Own(x) =>
          pc[x] \in Ignoring /\ (pc[x] = "record" => outcome[x].resource = NoResource)

Heard(e) ==
    /\ \/ events[e].told = "unheard" \/ Dismissed(e) \/ StatusOf(e) \in Statuses
       \/ \E y \in DeliveriesOf(e) : pc[y] \in Busy
    /\ StatusOf(e) = "PLANNED" => \E y \in DeliveriesOf(e) : tries[y] > 0 \/ pc[y] \in Acting
    /\ events[e].self => StatusOf(e) = "ABSENT"

RInv ==
    /\ VInv
    /\ \A x \in Deliveries : Sited(x)
    /\ \A e \in DOMAIN events : Heard(e)

LEMMA InitRInv == Init => RInv
<1> SUFFICES ASSUME Init PROVE RInv
  OBVIOUS
<1>1. VInv
  BY InitVInv
<1>2. \A x \in Deliveries : Sited(x)
  BY DEF Init, Sited
<1>3. \A e \in DOMAIN events : Heard(e)
  BY DEF Init
<1> QED
  BY <1>1, <1>2, <1>3 DEF RInv

-----------------------------------------------------------------------------
(* What an event is told stays told when its records and its deliveries    *)
(* keep what they owe.                                                     *)
LEMMA HeardKept ==
    ASSUME RInv, Grown, NEW e \in DOMAIN events,
           audit'[<<events[e].resource, e>>] = audit[<<events[e].resource, e>>],
           audit'[<<NoResource, e>>] = audit[<<NoResource, e>>],
           \A x \in DeliveriesOf(e) :
              /\ pc[x] \in Busy => pc'[x] \in Busy
              /\ tries[x] > 0 \/ pc[x] \in Acting => tries'[x] > 0 \/ pc'[x] \in Acting
    PROVE  Heard(e)'
<1>1. events'[e] = events[e]
  BY DEF Grown
<1>2. Heard(e)
  BY DEF RInv
<1>3. DeliveriesOf(e)' = DeliveriesOf(e)
  BY DEF DeliveriesOf, Event
<1>4. StatusOf(e)' = StatusOf(e) /\ Dismissed(e)' = Dismissed(e)
  BY <1>1 DEF StatusOf, Dismissed
<1> QED
  BY <1>1, <1>2, <1>3, <1>4 DEF Heard

LEMMA KeptOwes ==
    ASSUME NEW x \in Deliveries, Kept(x)
    PROVE  /\ pc[x] \in Busy => pc'[x] \in Busy
           /\ tries[x] > 0 \/ pc[x] \in Acting => tries'[x] > 0 \/ pc'[x] \in Acting
  BY DEF Kept, Woken, Busy, Acting

LEMMA KeptSited ==
    ASSUME RInv, Grown, events' \in Seq([resource : Resources, self : BOOLEAN, told : Told]),
           NEW x \in Deliveries, Kept(x)
    PROVE  Sited(x)'
<1>1. Sited(x)
  BY DEF RInv
<1>2. CASE pc'[x] = pc[x] /\ Event(x) \in DOMAIN events
  <2>1. events'[Event(x)] = events[Event(x)]
    BY <1>2 DEF Grown
  <2>2. Resource(x)' = Resource(x) /\ Own(x)' = Own(x)
    BY <2>1 DEF Resource, Own, Event
  <2> QED
    BY <1>1, <1>2, <2>2 DEF Sited, Kept
<1>3. CASE pc'[x] = pc[x] /\ Event(x) \notin DOMAIN events
  <2>1. pc[x] = "idle"
    BY <1>3, EventFacts DEF RInv, VInv
  <2> QED
    BY <1>3, <2>1 DEF Sited, Ignoring
<1>4. CASE Woken(x)
  BY <1>4 DEF Woken, Sited, Ignoring
<1> QED
  BY <1>2, <1>3, <1>4 DEF Kept

(* A new event wakes a delivery, if it is heard of, and has no record. *)
LEMMA HeardNew ==
    ASSUME RInv, events' \in Seq([resource : Resources, self : BOOLEAN, told : Told]),
           Len(events') <= MaxEvents,
           NEW e \in DOMAIN events', e \notin DOMAIN events,
           events'[e].told # "unheard" => \E y \in Deliveries : Event(y) = e /\ pc'[y] = "queued",
           \A r \in Resources \cup {NoResource} : audit'[<<r, e>>] = audit[<<r, e>>]
    PROVE  Heard(e)'
<1>1. e \in EventIds /\ e > Len(events)
  BY PipelineAssumption DEF EventIds, RInv, VInv, TInv, TypeOK
<1>2. e \in 1 .. Len(events')
  OBVIOUS
<1>3. events'[e] \in [resource : Resources, self : BOOLEAN, told : Told]
  BY <1>2, ElementOfSeq
<1>4. events'[e].resource \in Resources
  BY <1>3
<1>5. audit'[<<events'[e].resource, e>>] = NoRecord
  BY <1>1, <1>4 DEF RInv, VInv, Blank
<1>6. StatusOf(e)' = "ABSENT"
  BY <1>5 DEF StatusOf, NoRecord
<1>7. events'[e].told # "unheard" => \E y \in DeliveriesOf(e)' : pc'[y] \in Busy
  BY DEF DeliveriesOf, Event, Busy
<1> QED
  BY <1>6, <1>7 DEF Heard

(* The frame of a step of d: it writes no record but its own event's. *)
LEMMA FrameRInv ==
    ASSUME RInv, VInv', Grown, NEW d \in Deliveries,
           \A x \in Deliveries : x # d => Kept(x),
           \A e \in DOMAIN events' : e \notin DOMAIN events =>
              \E y \in Deliveries : Event(y) = e /\ pc'[y] = "queued",
           \A r \in Resources \cup {NoResource}, e \in EventIds :
              e # Event(d) => audit'[<<r, e>>] = audit[<<r, e>>],
           Event(d) \in DOMAIN events,
           Sited(d)',
           Heard(Event(d))'
    PROVE  RInv'
<1>1. events' \in Seq([resource : Resources, self : BOOLEAN, told : Told]) /\ Len(events') <= MaxEvents
  BY DEF VInv, TInv, TypeOK
<1>2. \A x \in Deliveries : Sited(x)'
  BY <1>1, KeptSited
<1>3. ASSUME NEW e \in DOMAIN events, e # Event(d) PROVE Heard(e)'
  <2>1. e \in EventIds
    BY PipelineAssumption DEF EventIds, RInv, VInv, TInv, TypeOK
  <2>2. events[e].resource \in Resources
    BY ResourceOfEvent DEF RInv, VInv
  <2>3. \A x \in DeliveriesOf(e) : x \in Deliveries /\ x # d
    BY <1>3 DEF DeliveriesOf
  <2> QED
    BY <1>3, <2>1, <2>2, <2>3, HeardKept, KeptOwes
<1>4. ASSUME NEW e \in DOMAIN events', e \notin DOMAIN events PROVE Heard(e)'
  <2>1. e \in EventIds /\ e # Event(d)
    BY <1>1, <1>4, PipelineAssumption DEF EventIds
  <2> QED
    BY <1>1, <1>4, <2>1, HeardNew
<1>5. \A e \in DOMAIN events' : Heard(e)'
  BY <1>3, <1>4
<1> QED
  BY <1>2, <1>5 DEF RInv

(* Of these, a step that writes no record at all. *)
LEMMA QuietRInv ==
    ASSUME RInv, VInv', UNCHANGED <<events, audit>>, NEW d \in Deliveries,
           \A x \in Deliveries : x # d => Kept(x),
           pc[d] # "idle",
           pc[d] \in Busy => pc'[d] \in Busy,
           tries[d] > 0 \/ pc[d] \in Acting => tries'[d] > 0 \/ pc'[d] \in Acting,
           Sited(d)'
    PROVE  RInv'
<1>1. Grown
  BY DEF Grown, RInv, VInv, TInv, TypeOK
<1>2. Event(d) \in DOMAIN events
  BY EventFacts DEF RInv, VInv
<1>3. Heard(Event(d))'
  <2>1. \A x \in DeliveriesOf(Event(d)) : x = d \/ (x \in Deliveries /\ Kept(x))
    BY DEF DeliveriesOf
  <2> QED
    BY <1>1, <1>2, <2>1, HeardKept, KeptOwes
<1> QED
  BY <1>1, <1>2, <1>3, FrameRInv

LEMMA EnvironmentRInv == ASSUME RInv, VInv', Environment PROVE RInv'
<1> USE DEF world, local, table, history, alerts
<1>1. ASSUME Grown, UNCHANGED audit, \A x \in Deliveries : Kept(x),
             \A e \in DOMAIN events' : e \notin DOMAIN events /\ events'[e].told # "unheard" =>
                   \E y \in Deliveries : Event(y) = e /\ pc'[y] = "queued"
      PROVE  RInv'
  <2>1. events' \in Seq([resource : Resources, self : BOOLEAN, told : Told]) /\ Len(events') <= MaxEvents
    BY DEF VInv, TInv, TypeOK
  <2>2. \A x \in Deliveries : Sited(x)'
    BY <1>1, <2>1, KeptSited
  <2>3. ASSUME NEW e \in DOMAIN events PROVE Heard(e)'
    <3>1. \A x \in DeliveriesOf(e) : x \in Deliveries
      BY DEF DeliveriesOf
    <3> QED
      BY <1>1, <3>1, HeardKept, KeptOwes
  <2>4. ASSUME NEW e \in DOMAIN events', e \notin DOMAIN events PROVE Heard(e)'
    BY <1>1, <2>1, <2>4, HeardNew
  <2>5. \A e \in DOMAIN events' : Heard(e)'
    BY <2>3, <2>4
  <2> QED
    BY <2>2, <2>5 DEF RInv
<1>2. ASSUME UNCHANGED <<events, pc, tries, snapshot, call, outcome, audit>> PROVE RInv'
  <2>1. Grown /\ \A x \in Deliveries : Kept(x)
    BY <1>2 DEF Grown, Kept, RInv, VInv, TInv, TypeOK
  <2> QED
    BY <1>1, <1>2, <2>1
<1>3. ASSUME NEW r \in Resources, Repair(r) \/ Tag(r) PROVE RInv'
  BY <1>2, <1>3 DEF Repair, Tag
<1>4. ASSUME NextWindow \/ \E f \in claimed : DedupExpires(f) PROVE RInv'
  BY <1>2, <1>4 DEF NextWindow, DedupExpires
<1>5. ASSUME NEW d \in Deliveries, Duplicate(d) PROVE RInv'
  <2>1. Grown /\ \A x \in Deliveries : Kept(x)
    BY <1>5 DEF Duplicate, Goto, Grown, Kept, Woken, RInv, VInv, TInv, TypeOK
  <2> QED
    BY <1>1, <1>5, <2>1 DEF Duplicate
<1>6. ASSUME NEW r \in Resources, Expose(r) PROVE RInv'
  <2>1. /\ Grown /\ UNCHANGED audit /\ \A x \in Deliveries : Kept(x)
        /\ DOMAIN events' = DOMAIN events \cup {Len(events) + 1}
        /\ events'[Len(events) + 1].told # "unheard" =>
              \E y \in Deliveries : Event(y) = Len(events) + 1 /\ pc'[y] = "queued"
    BY <1>6, ExposeFacts DEF RInv, VInv
  <2> QED
    BY <1>1, <2>1
<1> QED
  BY <1>3, <1>4, <1>5, <1>6 DEF Environment

-----------------------------------------------------------------------------
(* While the event stands, so do the resource and the maker. *)
LEMMA SameEvent ==
    ASSUME RInv, Grown, NEW d \in Deliveries, pc[d] # "idle"
    PROVE  /\ Event(d) \in DOMAIN events
           /\ Resource(d) \in Resources
           /\ Resource(d)' = Resource(d) /\ Own(d)' = Own(d)
<1>1. Event(d) \in DOMAIN events /\ Resource(d) \in Resources
  BY EventFacts DEF RInv, VInv
<1> QED
  BY <1>1 DEF Grown, Resource, Own, Event

LEMMA StartRInv == ASSUME RInv, VInv', NEW d \in Deliveries, Start(d) PROVE RInv'
<1> USE DEF world, local, table, history, alerts
<1>1. pc[d] = "queued" /\ UNCHANGED <<events, audit, tries>>
  BY DEF Start
<1>2. \A x \in Deliveries : x # d => Kept(x)
  BY DEF Start, Goto, Decide, Kept, RInv, VInv, TInv, TypeOK
<1>3. Own(d)' = Own(d) /\ Resource(d)' = Resource(d)
  BY <1>1 DEF Own, Resource, Event
<1>4. \/ Own(d) /\ pc'[d] = "record" /\ outcome'[d].resource = NoResource
      \/ ~Own(d) /\ pc'[d] = "plan"
  BY GotoFacts DEF Start, Decide, RInv, VInv, TInv, TypeOK
<1>5. Sited(d)'
  BY <1>3, <1>4 DEF Sited, Ignoring
<1> QED
  BY <1>1, <1>2, <1>4, <1>5, QuietRInv DEF Busy, Acting

LEMMA PlanRInv ==
    ASSUME RInv, VInv', NEW d \in Deliveries,
           PlanNameless(d) \/ PlanBenign(d) \/ PlanExcluded(d) \/ PlanDangerous(d)
    PROVE  RInv'
<1> USE DEF world, local, table, history, alerts
<1>1. pc[d] = "plan" /\ UNCHANGED <<events, audit, tries>>
  BY DEF PlanNameless, PlanBenign, PlanExcluded, PlanDangerous, Inspect
<1>2. \A x \in Deliveries : x # d => Kept(x)
  BY DEF PlanNameless, PlanBenign, PlanExcluded, PlanDangerous, Goto, Decide, Kept, RInv, VInv, TInv, TypeOK
<1>3. Own(d)' = Own(d) /\ Resource(d)' = Resource(d) /\ ~Own(d)
  <2>1. Event(d) \in DOMAIN events
    BY <1>1, EventFacts DEF RInv, VInv
  <2>2. ~Own(d)
    BY <1>1, <2>1 DEF RInv, Sited, Ignoring
  <2> QED
    BY <1>1, <2>2 DEF Own, Resource, Event
<1>4. \/ pc'[d] = "record" /\ outcome'[d].resource \in {NoResource, Resource(d)}
      \/ pc'[d] = "open"
  BY GotoFacts DEF PlanNameless, PlanBenign, PlanExcluded, PlanDangerous, Decide, RInv, VInv, TInv, TypeOK
<1>5. Sited(d)'
  BY <1>3, <1>4 DEF Sited
<1> QED
  BY <1>1, <1>2, <1>4, <1>5, QuietRInv DEF Busy, Acting

LEMMA BreakerRInv == ASSUME RInv, VInv', NEW d \in Deliveries, Breaker(d) PROVE RInv'
<1> USE DEF world, local, table, history, alerts
<1>1. pc[d] = "breaker" /\ UNCHANGED <<events, audit, tries>>
  BY DEF Breaker
<1>2. \A x \in Deliveries : x # d => Kept(x)
  BY DEF Breaker, Goto, Decide, Kept, RInv, VInv, TInv, TypeOK
<1>3. Own(d)' = Own(d) /\ Resource(d)' = Resource(d) /\ ~Own(d)
  <2>1. Event(d) \in DOMAIN events
    BY <1>1, EventFacts DEF RInv, VInv
  <2>2. ~Own(d)
    BY <1>1, <2>1 DEF RInv, Sited, Ignoring
  <2> QED
    BY <1>1, <2>2 DEF Own, Resource, Event
<1>4. \/ pc'[d] = "close" /\ outcome'[d].resource = Resource(d)
      \/ pc'[d] = "apply"
  BY GotoFacts DEF Breaker, Decide, RInv, VInv, TInv, TypeOK
<1>5. Sited(d)'
  BY <1>3, <1>4 DEF Sited
<1> QED
  BY <1>1, <1>2, <1>4, <1>5, QuietRInv DEF Busy, Acting

LEMMA AlertRInv ==
    ASSUME RInv, VInv', NEW d \in Deliveries, Claim(d) \/ Post(d) \/ Return(d) \/ Fail(d)
    PROVE  RInv'
<1> USE DEF world, local, table, history, alerts
<1>1. UNCHANGED <<events, audit>> /\ pc[d] \in InFlight
  BY DEF Claim, Suppressed, Post, Return, Fail, InFlight
<1>2. pc[d] # "idle"
  BY <1>1 DEF InFlight
<1>3. Event(d) \in DOMAIN events /\ Own(d)' = Own(d) /\ Resource(d)' = Resource(d)
  BY <1>1, <1>2, EventFacts DEF RInv, VInv, Own, Resource, Event
<1>4. CASE Claim(d) \/ Post(d)
  <2>1. pc'[d] \in {"return", "post"} /\ pc[d] \in {"claim", "post"} /\ tries' = tries
    BY <1>4, GotoFacts DEF Claim, Suppressed, Post, RInv, VInv
  <2>2. \A x \in Deliveries : x # d => Kept(x)
    BY <1>4 DEF Claim, Suppressed, Post, Goto, Kept, RInv, VInv, TInv, TypeOK
  <2>3. ~Own(d)
    BY <1>3, <2>1 DEF RInv, Sited, Ignoring
  <2>4. Sited(d)'
    BY <1>3, <2>1, <2>3 DEF Sited
  <2> QED
    BY <1>1, <1>2, <2>1, <2>2, <2>4, QuietRInv DEF Busy, Acting
<1>5. ASSUME NEW label \in {"done", "queued", "dead"}, Leave(d, label),
             \A x \in Deliveries : x # d => tries'[x] = tries[x],
             label = "done" => pc[d] = "return" /\ tries'[d] = tries[d],
             label # "done" => tries'[d] > 0
      PROVE  RInv'
  <2>1. pc'[d] = label /\ \A x \in Deliveries : x # d => Kept(x)
    BY <1>5, LeaveFacts DEF Kept, RInv, VInv
  <2>2. Sited(d)'
    BY <2>1 DEF Sited, Ignoring
  <2> QED
    BY <1>1, <1>2, <1>5, <2>1, <2>2, QuietRInv DEF Busy, Acting
<1>6. CASE Return(d)
  BY <1>5, <1>6 DEF Return
<1>7. CASE Fail(d)
  <2>1. (\A x \in Deliveries : x # d => tries'[x] = tries[x]) /\ tries'[d] = tries[d] + 1
    BY <1>7 DEF Fail, RInv, VInv, TInv, TypeOK
  <2>2. tries[d] \in Nat
    BY PipelineAssumption DEF RInv, VInv, TInv, TypeOK
  <2> QED
    BY <1>5, <1>7, <2>1, <2>2 DEF Fail
<1> QED
  BY <1>4, <1>6, <1>7

(* What d writes leaves the records of other events alone. *)
LEMMA OtherRecords ==
    ASSUME RInv, NEW d \in Deliveries,
           NEW q, NEW v, audit' = [audit EXCEPT ![<<q, Event(d)>>] = v]
    PROVE  \A r \in Resources \cup {NoResource}, e \in EventIds :
              e # Event(d) => audit'[<<r, e>>] = audit[<<r, e>>]
  BY DEF RInv, VInv, TInv, TypeOK, Keys

LEMMA RecordRInv == ASSUME RInv, VInv', NEW d \in Deliveries, Record(d) PROVE RInv'
<1> USE DEF world, local, table, history, alerts
<1>1. /\ pc[d] = "record" /\ UNCHANGED <<events, tries>>
      /\ audit' = [audit EXCEPT ![<<outcome[d].resource, Event(d)>>] =
                       [status |-> "SKIPPED", snapshot |-> {}]]
  BY DEF Record, Key
<1>2. Grown
  BY <1>1 DEF Grown, RInv, VInv, TInv, TypeOK
<1>3. \A x \in Deliveries : x # d => Kept(x)
  BY DEF Record, Goto, Kept, RInv, VInv, TInv, TypeOK
<1>4. /\ Event(d) \in DOMAIN events /\ Event(d) \in EventIds /\ Resource(d) \in Resources
      /\ Resource(d)' = Resource(d) /\ Own(d)' = Own(d)
  BY <1>1, <1>2, SameEvent, DeliveryFacts
<1>5. /\ pc'[d] = IF outcome[d].resource = NoResource THEN "return" ELSE "claim"
      /\ outcome' = outcome
  BY GotoFacts DEF Record, RInv, VInv
<1>6. /\ outcome[d].resource \in {NoResource, Resource(d)}
      /\ Own(d) => outcome[d].resource = NoResource
  BY <1>1, <1>4 DEF RInv, Sited
<1>7. Sited(d)'
  BY <1>4, <1>5, <1>6 DEF Sited, Ignoring
<1>8. Heard(Event(d))'
  <2>1. Heard(Event(d)) /\ DeliveriesOf(Event(d))' = DeliveriesOf(Event(d))
    BY <1>4 DEF RInv, DeliveriesOf, Event
  <2>2. <<NoResource, Event(d)>> \in Keys /\ <<Resource(d), Event(d)>> \in Keys
    BY <1>4 DEF Keys
  <2>3. CASE outcome[d].resource = NoResource
    <3>1. Dismissed(Event(d))'
      BY <1>1, <2>2, <2>3 DEF Dismissed, Event, RInv, VInv, TInv, TypeOK
    <3>2. <<Resource(d), Event(d)>> # <<NoResource, Event(d)>>
      BY <1>4, PipelineAssumption
    <3>3. audit'[<<Resource(d), Event(d)>>] = audit[<<Resource(d), Event(d)>>]
      BY <1>1, <2>2, <2>3, <3>2 DEF RInv, VInv, TInv, TypeOK
    <3>4. StatusOf(Event(d))' = StatusOf(Event(d))
      BY <1>1, <3>3 DEF StatusOf, Resource, Event
    <3>5. \A y \in DeliveriesOf(Event(d)) :
             tries[y] > 0 \/ pc[y] \in Acting => tries'[y] > 0 \/ pc'[y] \in Acting
      <4>1. \A y \in DeliveriesOf(Event(d)) : y \in Deliveries
        BY DEF DeliveriesOf
      <4> QED
        BY <1>1, <1>3, <4>1, KeptOwes DEF Acting
    <3> QED
      BY <1>1, <2>1, <3>1, <3>4, <3>5 DEF Heard, Event
  <2>4. CASE outcome[d].resource # NoResource
    <3>1. outcome[d].resource = Resource(d) /\ ~Own(d)
      BY <1>6, <2>4
    <3>2. audit'[<<Resource(d), Event(d)>>].status = "SKIPPED"
      BY <1>1, <2>2, <3>1 DEF RInv, VInv, TInv, TypeOK
    <3>3. StatusOf(Event(d))' = "SKIPPED"
      BY <1>1, <3>2 DEF StatusOf, Resource, Event
    <3> QED
      BY <1>1, <3>1, <3>3 DEF Heard, Own, Event, Statuses
  <2> QED
    BY <2>3, <2>4
<1>9. \A r \in Resources \cup {NoResource}, e \in EventIds :
         e # Event(d) => audit'[<<r, e>>] = audit[<<r, e>>]
  BY <1>1, OtherRecords
<1> QED
  BY <1>1, <1>2, <1>3, <1>4, <1>7, <1>8, <1>9, FrameRInv

LEMMA OpenRInv == ASSUME RInv, VInv', NEW d \in Deliveries, Open(d) PROVE RInv'
<1> USE DEF world, local, table, history, alerts
<1>1. /\ pc[d] = "open" /\ UNCHANGED <<events, tries>>
      /\ audit' = [audit EXCEPT ![<<Resource(d), Event(d)>>] =
                       [status |-> "PLANNED", snapshot |-> snapshot[d]]]
  BY DEF Open, PlanKey
<1>2. Grown
  BY <1>1 DEF Grown, RInv, VInv, TInv, TypeOK
<1>3. \A x \in Deliveries : x # d => Kept(x)
  BY DEF Open, Goto, Decide, Kept, RInv, VInv, TInv, TypeOK
<1>4. /\ Event(d) \in DOMAIN events /\ Event(d) \in EventIds /\ Resource(d) \in Resources
      /\ Resource(d)' = Resource(d) /\ Own(d)' = Own(d)
  BY <1>1, <1>2, SameEvent, DeliveryFacts
<1>5. \/ pc'[d] = "close" /\ outcome'[d].resource = Resource(d)
      \/ pc'[d] = "breaker"
  BY GotoFacts DEF Open, Decide, RInv, VInv, TInv, TypeOK
<1>6. ~Own(d)
  BY <1>1, <1>4 DEF RInv, Sited, Ignoring
<1>7. Sited(d)'
  BY <1>4, <1>5, <1>6 DEF Sited
<1>8. Heard(Event(d))'
  <2>1. d \in DeliveriesOf(Event(d))'
    BY DEF DeliveriesOf, Event
  <2>2. pc'[d] \in Busy /\ pc'[d] \in Acting
    BY <1>5 DEF Busy, Acting
  <2>3. ~events'[Event(d)].self
    BY <1>1, <1>6 DEF Own
  <2> QED
    BY <2>1, <2>2, <2>3 DEF Heard, Event
<1>9. \A r \in Resources \cup {NoResource}, e \in EventIds :
         e # Event(d) => audit'[<<r, e>>] = audit[<<r, e>>]
  BY <1>1, OtherRecords
<1> QED
  BY <1>1, <1>2, <1>3, <1>4, <1>7, <1>8, <1>9, FrameRInv

LEMMA CloseRInv == ASSUME RInv, VInv', NEW d \in Deliveries, Close(d) PROVE RInv'
<1> USE DEF world, local, table, history, alerts
<1>1. pc[d] = "close" /\ UNCHANGED <<events, tries>>
  BY DEF Close
<1>2. Grown
  BY <1>1 DEF Grown, RInv, VInv, TInv, TypeOK
<1>3. \A x \in Deliveries : x # d => Kept(x)
  BY DEF Close, Goto, Kept, RInv, VInv, TInv, TypeOK
<1>4. /\ Event(d) \in DOMAIN events /\ Event(d) \in EventIds /\ Resource(d) \in Resources
      /\ Resource(d)' = Resource(d) /\ Own(d)' = Own(d)
  BY <1>1, <1>2, SameEvent, DeliveryFacts
<1>5. pc'[d] = "claim"
  BY GotoFacts DEF Close, RInv, VInv
<1>6. ~Own(d) /\ outcome[d].resource = Resource(d) /\ outcome[d].status \in Statuses
  BY <1>1, <1>4 DEF RInv, Sited, Ignoring, VInv, TInv, Sound
<1>7. Sited(d)'
  BY <1>4, <1>5, <1>6 DEF Sited
<1> DEFINE K == <<Resource(d), Event(d)>>
<1>8. audit' = [audit EXCEPT ![K] = [audit[K] EXCEPT !.status = outcome[d].status]]
  BY <1>6 DEF Close, Key
<1>9. Heard(Event(d))'
  <2>1. K \in Keys
    BY <1>4 DEF Keys
  <2>2. audit'[K].status = outcome[d].status
    BY <1>8, <2>1 DEF RInv, VInv, TInv, TypeOK
  <2>3. StatusOf(Event(d))' \in Statuses
    BY <1>1, <1>6, <2>2 DEF StatusOf, Resource, Event
  <2>4. ~events'[Event(d)].self
    BY <1>1, <1>6 DEF Own
  <2> QED
    BY <2>3, <2>4 DEF Heard, Event, Statuses
<1>10. \A r \in Resources \cup {NoResource}, e \in EventIds :
          e # Event(d) => audit'[<<r, e>>] = audit[<<r, e>>]
  BY <1>8, OtherRecords
<1> QED
  BY <1>1, <1>2, <1>3, <1>4, <1>7, <1>9, <1>10, FrameRInv

LEMMA ApplyRInv == ASSUME RInv, VInv', NEW d \in Deliveries, Apply(d) \/ ApplyRaises(d) PROVE RInv'
<1> USE DEF world, local, table, history, alerts
<1>1. pc[d] = "apply" /\ UNCHANGED <<audit, tries, snapshot>>
  BY DEF Apply, ApplyRaises, Raise
<1>2. PICK label \in {"close", "apply"} :
         /\ Carry(d, label) \/ (Goto(d, label) /\ UNCHANGED events)
         /\ label = "close" => outcome'[d].resource = Resource(d)
  BY DEF Apply, ApplyRaises, Raise, Decide, RInv, VInv, TInv, TypeOK
<1>3. \A x \in Deliveries : x # d => call'[x] = call[x] /\ outcome'[x] = outcome[x]
  BY DEF Apply, ApplyRaises, Raise, Decide, RInv, VInv, TInv, TypeOK
<1>4. /\ Grown /\ pc'[d] = label
      /\ \A x \in Deliveries : x # d => pc'[x] = pc[x] \/ Woken(x)
      /\ \A e \in DOMAIN events' : e \notin DOMAIN events =>
            \E y \in Deliveries : Event(y) = e /\ pc'[y] = "queued"
  <2>1. CASE Carry(d, label)
    BY <1>1, <2>1, CarryFacts DEF RInv, VInv
  <2>2. CASE Goto(d, label) /\ UNCHANGED events
    BY <2>2, GotoFacts DEF Grown, RInv, VInv, TInv, TypeOK
  <2> QED
    BY <1>2, <2>1, <2>2
<1>5. \A x \in Deliveries : x # d => Kept(x)
  BY <1>1, <1>3, <1>4 DEF Kept
<1>6. /\ Event(d) \in DOMAIN events /\ Resource(d) \in Resources
      /\ Resource(d)' = Resource(d) /\ Own(d)' = Own(d)
  BY <1>1, <1>4, SameEvent
<1>7. ~Own(d)
  BY <1>1, <1>6 DEF RInv, Sited, Ignoring
<1>8. Sited(d)'
  BY <1>2, <1>4, <1>6, <1>7 DEF Sited
<1>9. Heard(Event(d))'
  <2>1. d \in DeliveriesOf(Event(d))'
    BY DEF DeliveriesOf, Event
  <2>2. pc'[d] \in Busy /\ pc'[d] \in Acting
    BY <1>4 DEF Busy, Acting
  <2>3. ~events'[Event(d)].self
    BY <1>6, <1>7 DEF Own, Event, Grown
  <2> QED
    BY <2>1, <2>2, <2>3 DEF Heard, Event
<1> QED
  BY <1>1, <1>4, <1>5, <1>6, <1>8, <1>9, FrameRInv

LEMMA NextRInv == RInv /\ [Next]_vars => RInv'
<1> SUFFICES ASSUME RInv, [Next]_vars PROVE RInv'
  OBVIOUS
<1>1. VInv'
  BY NextVInv DEF RInv
<1>2. ASSUME NEW d \in Deliveries, Step(d) PROVE RInv'
  BY <1>1, <1>2, StartRInv, PlanRInv, RecordRInv, OpenRInv, BreakerRInv, ApplyRInv,
     CloseRInv, AlertRInv DEF Step
<1>3. CASE UNCHANGED vars
  <2> USE DEF vars, world, local, table, history, alerts
  <2>1. \A x \in Deliveries : Sited(x)'
    BY <1>3 DEF RInv, Sited, Resource, Own, Event
  <2>2. \A e \in DOMAIN events' : Heard(e)'
    BY <1>3 DEF RInv, Heard, Dismissed, StatusOf, DeliveriesOf, Event
  <2> QED
    BY <1>1, <2>1, <2>2 DEF RInv
<1> QED
  BY <1>1, <1>2, <1>3, EnvironmentRInv DEF Next

LEMMA AlwaysRInv == Spec => []RInv
  BY InitRInv, NextRInv, PTL DEF Spec

(* A resource that its latest event leaves dangerous has a record that     *)
(* says so, or a dead letter, once the deliveries of the event have ended. *)
THEOREM NoSilentExposureHolds == Spec => []NoSilentExposure
<1>1. RInv => NoSilentExposure
  <2> SUFFICES ASSUME RInv, NEW e \in Latests, Settled(e),
                      exposure[events[e].resource] \notin Benign, ~Escapes(e)
               PROVE  Loud(e)
    BY DEF NoSilentExposure
  <2>a. events[e].told \in Told
    <3>1. e \in 1 .. Len(events) /\ events \in Seq([resource : Resources, self : BOOLEAN, told : Told])
      BY DEF Latests, RInv, VInv, TInv, TypeOK
    <3>2. events[e] \in [resource : Resources, self : BOOLEAN, told : Told]
      BY <3>1, ElementOfSeq
    <3> QED
      BY <3>2
  <2>1. StatusOf(e) # "APPLIED" /\ ~FoundBenign(e)
    BY DEF RInv, VInv, VerdictIsTrue
  <2>b. ~Dismissed(e) /\ events[e].told # "unheard"
    BY <2>a, <2>1 DEF FoundBenign, Escapes, Told
  <2>2. Heard(e)
    BY DEF RInv, Latests
  <2>3. \A y \in DeliveriesOf(e) : pc[y] \in Busy => pc[y] = "dead"
    BY DEF Settled, Busy, Ended
  <2> QED
    BY <2>1, <2>b, <2>2, <2>3 DEF Heard, Loud
<1> QED
  BY AlwaysRInv, <1>1, PTL

(* A record left PLANNED is evidence that an invocation died. *)
THEOREM PlannedMeansDiedHolds == Spec => []PlannedMeansDied
<1>1. RInv => PlannedMeansDied
  BY DEF RInv, Heard, PlannedMeansDied, Acting
<1> QED
  BY AlwaysRInv, <1>1, PTL

(* The loop guard: no event of our own making opens a record. *)
THEOREM EchoesInertHolds == Spec => []EchoesInert
<1>1. RInv => EchoesInert
  BY DEF RInv, Heard, EchoesInert
<1> QED
  BY AlwaysRInv, <1>1, PTL
-----------------------------------------------------------------------------
(* What the steps of the environment, and of a delivery d, leave alone.    *)
LEMMA EnvironmentKeeps ==
    ASSUME RInv, Environment
    PROVE  /\ Grown /\ \A x \in Deliveries : Kept(x)
           /\ UNCHANGED <<audit, muted, owed, removed>>
           /\ claimed' \subseteq claimed /\ sent \cap claimed' \subseteq sent'
<1> USE DEF world, local, table, history, alerts
<1> TInv
  BY DEF RInv, VInv
<1>1. /\ UNCHANGED <<audit, muted, owed, removed, tries, snapshot, call, outcome>>
      /\ claimed' \subseteq claimed /\ sent \cap claimed' \subseteq sent'
  BY DEF Environment, Expose, Repair, Tag, Duplicate, NextWindow, DedupExpires
<1>2. Grown /\ \A x \in Deliveries : pc'[x] = pc[x] \/ Woken(x)
  <2>1. ASSUME NEW r \in Resources, Expose(r)
        PROVE  Grown /\ \A x \in Deliveries : pc'[x] = pc[x] \/ Woken(x)
    BY <2>1, ExposeFacts DEF Kept
  <2>2. ASSUME UNCHANGED events, (\E d \in Deliveries : Duplicate(d)) \/ UNCHANGED pc
        PROVE  Grown /\ \A x \in Deliveries : pc'[x] = pc[x] \/ Woken(x)
    BY <2>2 DEF Duplicate, Goto, Grown, Woken, TInv, TypeOK
  <2> QED
    BY <2>1, <2>2 DEF Environment, Repair, Tag, Duplicate, NextWindow, DedupExpires
<1>3. \A x \in Deliveries : Kept(x)
  BY <1>1, <1>2 DEF Kept
<1> QED
  BY <1>1, <1>2, <1>3

LEMMA StepKeeps ==
    ASSUME RInv, NEW d \in Deliveries, Step(d)
    PROVE  /\ Grown /\ pc[d] # "idle"
           /\ \A x \in Deliveries : x # d => Kept(x)
<1> USE DEF world, local, table, history, alerts
<1> TInv
  BY DEF RInv, VInv
<1>1. ASSUME UNCHANGED events PROVE Grown
  BY <1>1 DEF Grown, TInv, TypeOK
<1>2. CASE Start(d) \/ PlanNameless(d) \/ PlanBenign(d) \/ PlanExcluded(d) \/ PlanDangerous(d)
  BY <1>1, <1>2 DEF Start, PlanNameless, PlanBenign, PlanExcluded, PlanDangerous, Inspect, Goto, Decide, Kept,
     TInv, TypeOK
<1>3. CASE Record(d) \/ Open(d) \/ Breaker(d) \/ Close(d) \/ Claim(d) \/ Post(d)
  BY <1>1, <1>3 DEF Record, Open, Breaker, Close, Claim, Suppressed, Post, Goto, Decide, Kept, TInv, TypeOK
<1>4. CASE Apply(d) \/ ApplyRaises(d)
  <2>1. pc[d] = "apply" /\ UNCHANGED <<tries, snapshot>>
    BY <1>4 DEF Apply, ApplyRaises, Raise
  <2>2. PICK label \in {"close", "apply"} : Carry(d, label) \/ (Goto(d, label) /\ UNCHANGED events)
    BY <1>4 DEF Apply, ApplyRaises, Raise
  <2>3. \A x \in Deliveries : x # d => call'[x] = call[x] /\ outcome'[x] = outcome[x]
    BY <1>4 DEF Apply, ApplyRaises, Raise, Decide, TInv, TypeOK
  <2>4. Grown /\ \A x \in Deliveries : x # d => pc'[x] = pc[x] \/ Woken(x)
    BY <1>1, <2>1, <2>2, CarryFacts, GotoFacts
  <2> QED
    BY <2>1, <2>3, <2>4 DEF Kept
<1>5. CASE Return(d) \/ Fail(d)
  <2>1. PICK label : Leave(d, label)
    BY <1>5 DEF Return, Fail
  <2>2. /\ pc[d] \in InFlight /\ UNCHANGED events
        /\ \A x \in Deliveries : x # d => tries'[x] = tries[x]
    BY <1>5 DEF Return, Fail, InFlight, TInv, TypeOK
  <2> QED
    BY <1>1, <2>1, <2>2, LeaveFacts DEF Kept, InFlight
<1> QED
  BY <1>2, <1>3, <1>4, <1>5 DEF Step

-----------------------------------------------------------------------------
(***************************************************************************)
(* RollbackUnlessRepeated: nobody else writes under the key of an event's  *)
(* record as long as one invocation of it has begun.  QInv adds to RInv    *)
(* what that invocation has done up to where it stands, and that nothing   *)
(* was removed before it began.                                            *)
(***************************************************************************)

(* Where an invocation has not opened its record yet. *)
Before == {"plan", "record", "open"}

Alone(x) ==
    Once(Event(x)) =>
        /\ pc[x] \in Before => removed[Event(x)] = {}
        /\ pc[x] \in {"breaker", "apply"} => snapshot[x] \subseteq audit[PlanKey(x)].snapshot

Untouched(e) ==
    e \notin DOMAIN events \/ (\A x \in DeliveriesOf(e) : Begun(x) = 0) => removed[e] = {}

QInv ==
    /\ RInv
    /\ RollbackUnlessRepeated
    /\ \A e \in EventIds : Untouched(e)
    /\ \A x \in Deliveries : Alone(x)

LEMMA InitQInv == Init => QInv
<1>1. Init => /\ RollbackUnlessRepeated
              /\ \A e \in EventIds : Untouched(e)
              /\ \A x \in Deliveries : Alone(x)
  BY DeliveryFacts DEF Init, RollbackUnlessRepeated, Untouched, Alone
<1> QED
  BY <1>1, InitRInv DEF QInv

LEMMA KeptBegun ==
    ASSUME TInv, NEW x \in Deliveries, Kept(x)
    PROVE  Begun(x) \in Nat /\ Begun(x)' = Begun(x)
  BY PipelineAssumption DEF Kept, Woken, Begun, InFlight, TInv, TypeOK

(* When an event has had one invocation at most, whoever has begun is it.  *)
LEMMA OnlyOne ==
    ASSUME TInv', NEW d \in Deliveries, Once(Event(d))', 1 <= Begun(d)'
    PROVE  /\ Begun(d)' = 1
           /\ \A x \in Deliveries :
                 x # d /\ Event(x) = Event(d) => Begun(x)' = 0 /\ pc'[x] \notin InFlight
<1>1. PICK c \in DeliveriesOf(Event(d))' :
         Begun(c)' <= 1 /\ \A y \in DeliveriesOf(Event(d))' \ {c} : Begun(y)' = 0
  BY DEF Once
<1>2. \A x \in Deliveries : Event(x) = Event(d) => x \in DeliveriesOf(Event(d))'
  BY DEF DeliveriesOf, Event
<1>3. Begun(d)' \in Nat
  BY PipelineAssumption DEF Begun, TInv, TypeOK
<1>4. c = d
  BY <1>1, <1>2
<1>5. \A x \in Deliveries : Begun(x)' = 0 => pc'[x] \notin InFlight
  BY PipelineAssumption DEF Begun, TInv, TypeOK
<1> QED
  BY <1>1, <1>2, <1>3, <1>4, <1>5

(* An event that has had one invocation at most had no more before. *)
LEMMA OnceBefore ==
    ASSUME NEW e, Once(e)',
           \A x \in DeliveriesOf(e) : Begun(x) \in Nat /\ Begun(x)' \in Nat /\ Begun(x) <= Begun(x)'
    PROVE  Once(e)
<1>1. DeliveriesOf(e)' = DeliveriesOf(e)
  BY DEF DeliveriesOf, Event
<1>2. PICK c \in DeliveriesOf(e) :
         Begun(c)' <= 1 /\ \A x \in DeliveriesOf(e) \ {c} : Begun(x)' = 0
  BY <1>1 DEF Once
<1>3. Begun(c) <= 1 /\ \A x \in DeliveriesOf(e) \ {c} : Begun(x) = 0
  BY <1>2
<1> QED
  BY <1>3 DEF Once

(* The frame of a step: f is the event of the delivery that steps, or 0    *)
(* for a step of the environment.                                          *)
LEMMA FrameQInv ==
    ASSUME QInv, RInv', Grown, NEW f \in Nat,
           \A x \in Deliveries : Event(x) # f => Kept(x),
           \A e \in EventIds : e # f =>
              /\ removed'[e] = removed[e]
              /\ \A r \in Resources \cup {NoResource} : audit'[<<r, e>>] = audit[<<r, e>>],
           \A x \in Deliveries : Event(x) = f => Alone(x)',
           f \in EventIds =>
              /\ f \in DOMAIN events
              /\ Untouched(f)'
              /\ Once(f)' => removed'[f] \subseteq audit'[<<events[f].resource, f>>].snapshot
    PROVE  QInv'
<1> TInv /\ TInv'
  BY DEF QInv, RInv, VInv
<1>1. /\ events \in Seq([resource : Resources, self : BOOLEAN, told : Told])
      /\ events' \in Seq([resource : Resources, self : BOOLEAN, told : Told])
      /\ Len(events') <= MaxEvents /\ Len(events) <= Len(events')
  BY DEF Grown, TInv, TypeOK
<1>2. ASSUME NEW e \in EventIds, e # f PROVE Once(e)' => Once(e)
  <2>1. \A x \in DeliveriesOf(e) : Begun(x) \in Nat /\ Begun(x)' = Begun(x)
    BY <1>2, KeptBegun DEF DeliveriesOf
  <2> QED
    BY <2>1, OnceBefore
<1>3. ASSUME NEW x \in Deliveries, Event(x) # f, Once(Event(x))'
      PROVE  /\ pc'[x] \in Before => removed'[Event(x)] = {}
             /\ pc'[x] \in {"breaker", "apply"} => snapshot'[x] \subseteq audit'[PlanKey(x)'].snapshot
  <2>1. Alone(x) /\ Kept(x) /\ Event(x) \in EventIds
    BY <1>3, DeliveryFacts DEF QInv
  <2>2. Once(Event(x))
    BY <1>2, <1>3, <2>1
  <2>3. pc'[x] \in Before => pc[x] = pc'[x]
    BY <2>1 DEF Kept, Woken, Before
  <2>4. ASSUME pc'[x] \in {"breaker", "apply"}
        PROVE  snapshot'[x] \subseteq audit'[PlanKey(x)'].snapshot
    <3>1. pc[x] = pc'[x] /\ snapshot'[x] = snapshot[x]
      BY <2>1, <2>4 DEF Kept, Woken
    <3>2. Event(x) \in DOMAIN events /\ Resource(x) \in Resources /\ Resource(x)' = Resource(x)
      BY <2>4, <3>1, SameEvent DEF QInv
    <3>3. PlanKey(x)' = PlanKey(x)
      BY <3>2 DEF PlanKey, Event
    <3>4. audit'[PlanKey(x)] = audit[PlanKey(x)]
      BY <1>3, <2>1, <3>2 DEF PlanKey
    <3> QED
      BY <2>1, <2>2, <2>4, <3>1, <3>3, <3>4 DEF Alone
  <2> QED
    BY <1>3, <2>1, <2>2, <2>3, <2>4 DEF Alone
<1>4. \A x \in Deliveries : Alone(x)'
  BY <1>3 DEF Alone, Event
<1>5. ASSUME NEW e \in EventIds PROVE Untouched(e)'
  <2>1. CASE e = f
    BY <2>1
  <2>2. CASE e # f
    <3>1. \A x \in DeliveriesOf(e) : Begun(x)' = Begun(x)
      BY <2>2, KeptBegun DEF DeliveriesOf
    <3>2. DeliveriesOf(e)' = DeliveriesOf(e) /\ (e \notin DOMAIN events' => e \notin DOMAIN events)
      BY <1>1 DEF DeliveriesOf, Event
    <3> QED
      BY <2>2, <3>1, <3>2 DEF QInv, Untouched
  <2> QED
    BY <2>1, <2>2
<1>6. ASSUME NEW e \in DOMAIN events', Once(e)'
      PROVE  removed'[e] \subseteq audit'[<<events'[e].resource, e>>].snapshot
  <2>1. e \in EventIds
    BY <1>1, PipelineAssumption DEF EventIds
  <2>2. CASE e = f
    <3>1. events'[f] = events[f]
      BY <2>1, <2>2 DEF Grown
    <3> QED
      BY <1>6, <2>1, <2>2, <3>1
  <2>3. CASE e # f /\ e \in DOMAIN events
    <3>1. events'[e] = events[e] /\ events[e].resource \in Resources
      BY <2>3, ResourceOfEvent DEF Grown
    <3>2. removed[e] \subseteq audit[<<events[e].resource, e>>].snapshot
      BY <1>2, <1>6, <2>1, <2>3 DEF QInv, RollbackUnlessRepeated
    <3> QED
      BY <2>1, <2>3, <3>1, <3>2
  <2>4. CASE e # f /\ e \notin DOMAIN events
    <3>1. removed'[e] = {}
      BY <2>1, <2>4 DEF QInv, Untouched
    <3> QED
      BY <3>1
  <2> QED
    BY <2>2, <2>3, <2>4
<1> QED
  BY <1>4, <1>5, <1>6 DEF QInv, RollbackUnlessRepeated

(* The frame of a step of d.  Two facts about d, its own and its record's, *)
(* are needed only as long as it is the one invocation of its event.       *)
LEMMA FrameOfStep ==
    ASSUME QInv, RInv', Grown, NEW d \in Deliveries, pc[d] # "idle",
           \A x \in Deliveries : x # d => Kept(x),
           1 <= Begun(d)', Begun(d) <= Begun(d)',
           \A e \in EventIds : e # Event(d) =>
              /\ removed'[e] = removed[e]
              /\ \A r \in Resources \cup {NoResource} : audit'[<<r, e>>] = audit[<<r, e>>],
           Once(Event(d)) /\ Once(Event(d))' => Alone(d)',
           Once(Event(d)) => removed'[Event(d)] \subseteq audit'[PlanKey(d)].snapshot
    PROVE  QInv'
<1> TInv /\ TInv'
  BY DEF QInv, RInv, VInv
<1>1. Event(d) \in Nat /\ Event(d) \in DOMAIN events /\ d \in DeliveriesOf(Event(d))
  BY EventFacts, DeliveryFacts DEF EventIds, DeliveriesOf
<1>2. Once(Event(d))' => Once(Event(d))
  <2>1. Begun(d) \in Nat /\ Begun(d)' \in Nat
    BY PipelineAssumption DEF Begun, TInv, TypeOK
  <2>2. \A x \in DeliveriesOf(Event(d)) : x # d => Begun(x) \in Nat /\ Begun(x)' = Begun(x)
    BY KeptBegun DEF DeliveriesOf
  <2>3. Once(Event(d))' => Once(Event(d))
    BY <2>1, <2>2, OnceBefore DEF Event
  <2> QED
    BY <2>3
<1>3. ASSUME NEW x \in Deliveries, Event(x) = Event(d) PROVE Alone(x)'
  <2>1. CASE x = d
    BY <1>2, <2>1 DEF Alone, Event
  <2>2. CASE x # d /\ Once(Event(d))'
    <3>1. pc'[x] \notin InFlight
      BY <1>3, <2>2, OnlyOne
    <3> QED
      BY <3>1 DEF Alone, Before, InFlight
  <2>3. CASE ~Once(Event(d))'
    BY <1>3, <2>3 DEF Alone, Event
  <2> QED
    BY <2>1, <2>2, <2>3
<1>4. Untouched(Event(d))'
  <2>1. Event(d) \in DOMAIN events'
    BY <1>1 DEF Grown, TInv, TypeOK
  <2>2. d \in DeliveriesOf(Event(d))' /\ Begun(d)' # 0
    BY <1>1 DEF DeliveriesOf, Event
  <2> QED
    BY <2>1, <2>2 DEF Untouched, Event
<1>5. Once(Event(d))' =>
         removed'[Event(d)] \subseteq audit'[<<events[Event(d)].resource, Event(d)>>].snapshot
  BY <1>2 DEF PlanKey, Resource
<1>6. \A x \in Deliveries : Event(x) # Event(d) => Kept(x)
  OBVIOUS
<1> QED
  BY <1>1, <1>3, <1>4, <1>5, <1>6, FrameQInv DEF Event

(* A step of d that writes no record and removes nothing. *)
LEMMA QuietQInv ==
    ASSUME QInv, RInv', UNCHANGED <<events, audit, removed>>,
           NEW d \in Deliveries, \A x \in Deliveries : x # d => Kept(x),
           pc[d] # "idle", 1 <= Begun(d)', Begun(d) <= Begun(d)',
           Once(Event(d))' /\ pc'[d] \in Before => pc[d] \in Before \/ removed[Event(d)] = {},
           pc'[d] \in {"breaker", "apply"} =>
              pc[d] \in {"breaker", "apply"} /\ snapshot'[d] = snapshot[d]
    PROVE  QInv'
<1>1. Grown
  BY DEF Grown, QInv, RInv, VInv, TInv, TypeOK
<1>2. Event(d) \in DOMAIN events /\ PlanKey(d)' = PlanKey(d)
  BY EventFacts DEF QInv, RInv, VInv, PlanKey, Resource, Event
<1>3. Once(Event(d)) /\ Once(Event(d))' => Alone(d)'
  BY <1>2 DEF QInv, Alone, Event
<1>4. Once(Event(d)) => removed'[Event(d)] \subseteq audit'[PlanKey(d)].snapshot
  BY <1>2 DEF QInv, RollbackUnlessRepeated, PlanKey, Resource
<1> QED
  BY <1>1, <1>3, <1>4, FrameOfStep

LEMMA EnvironmentQInv == ASSUME QInv, RInv', Environment PROVE QInv'
<1>1. /\ Grown /\ \A x \in Deliveries : Kept(x)
      /\ UNCHANGED <<audit, removed>>
  BY EnvironmentKeeps DEF QInv
<1>2. \A x \in Deliveries : Event(x) # 0
  BY DEF Deliveries, Event, EventIds
<1>3. 0 \in Nat /\ 0 \notin EventIds
  BY DEF EventIds
<1> QED
  BY <1>1, <1>2, <1>3, FrameQInv

(* An invocation goes on. *)
LEMMA Onward ==
    ASSUME TInv, NEW d \in Deliveries, UNCHANGED tries, pc[d] \in InFlight,
           pc'[d] \in InFlight
    PROVE  1 <= Begun(d)' /\ Begun(d) <= Begun(d)'
  BY PipelineAssumption DEF Begun, TInv, TypeOK

LEMMA QuietStepQInv ==
    ASSUME QInv, RInv', NEW d \in Deliveries,
           Start(d) \/ PlanNameless(d) \/ PlanBenign(d) \/ PlanExcluded(d) \/ PlanDangerous(d) \/ Breaker(d)
              \/ Claim(d) \/ Post(d) \/ Return(d) \/ Fail(d)
    PROVE  QInv'
<1> USE DEF world, local, table, history, alerts
<1> TInv
  BY DEF QInv, RInv, VInv
<1> TInv'
  BY DEF RInv, VInv
<1>1. UNCHANGED <<events, audit, removed>>
  BY DEF Start, PlanNameless, PlanBenign, PlanExcluded, PlanDangerous, Breaker, Claim, Suppressed, Post, Return, Fail
<1>2. pc[d] # "idle" /\ \A x \in Deliveries : x # d => Kept(x)
  BY StepKeeps DEF QInv, Step
<1>3. CASE Start(d)
  <2>1. pc[d] = "queued" /\ pc'[d] \in {"plan", "record"} /\ tries' = tries
    BY <1>3, GotoFacts DEF Start
  <2>3. tries[d] \in Nat /\ Begun(d) = tries[d] /\ Begun(d)' = tries[d] + 1
    <3>1. tries[d] \in Nat /\ tries'[d] = tries[d]
      BY <2>1, PipelineAssumption DEF TInv, TypeOK
    <3>2. pc[d] \notin InFlight \cup {"done"} /\ pc'[d] \in InFlight \cup {"done"}
      BY <2>1 DEF InFlight
    <3> QED
      BY <3>1, <3>2 DEF Begun
  <2>4. ASSUME Once(Event(d))' PROVE removed[Event(d)] = {}
    <3>1. Begun(d)' = 1 /\ \A x \in Deliveries : x # d /\ Event(x) = Event(d) => Begun(x)' = 0
      BY <2>3, <2>4, OnlyOne
    <3>2. ASSUME NEW x \in Deliveries, Event(x) = Event(d) PROVE Begun(x) = 0
      <4>1. CASE x = d
        BY <2>3, <3>1, <4>1
      <4>2. CASE x # d
        BY <1>2, <3>1, <3>2, <4>2, KeptBegun
      <4> QED
        BY <4>1, <4>2
    <3> QED
      BY <3>2, DeliveryFacts DEF QInv, Untouched, DeliveriesOf
  <2> QED
    BY <1>1, <1>2, <2>1, <2>3, <2>4, QuietQInv
<1>4. CASE PlanNameless(d) \/ PlanBenign(d) \/ PlanExcluded(d) \/ PlanDangerous(d)
  <2>1. pc[d] = "plan" /\ pc'[d] \in {"record", "open"} /\ tries' = tries
    BY <1>4, GotoFacts DEF PlanNameless, PlanBenign, PlanExcluded, PlanDangerous, Inspect
  <2>3. 1 <= Begun(d)' /\ Begun(d) <= Begun(d)'
    BY <2>1, Onward DEF InFlight
  <2> QED
    BY <1>1, <1>2, <2>1, <2>3, QuietQInv DEF Before
<1>5. CASE Breaker(d) \/ Claim(d) \/ Post(d)
  <2>1. /\ pc'[d] \in {"close", "apply", "return", "post"}
        /\ pc'[d] = "apply" => pc[d] = "breaker"
        /\ pc[d] \in InFlight
        /\ UNCHANGED <<snapshot, tries>>
    BY <1>5, GotoFacts DEF Breaker, Claim, Suppressed, Post, InFlight
  <2>3. pc'[d] \notin Before /\ pc'[d] \in InFlight
    BY <2>1 DEF Before, InFlight
  <2>4. 1 <= Begun(d)' /\ Begun(d) <= Begun(d)'
    BY <2>1, <2>3, Onward
  <2>5. pc'[d] \in {"breaker", "apply"} =>
           pc[d] \in {"breaker", "apply"} /\ snapshot'[d] = snapshot[d]
    BY <2>1
  <2> QED
    BY <1>1, <1>2, <2>3, <2>4, <2>5, QuietQInv
<1>6. CASE Return(d) \/ Fail(d)
  <2>1. PICK label \in {"queued", "done", "dead"} :
           /\ Leave(d, label)
           /\ (label = "done" /\ tries' = tries) \/ tries' = [tries EXCEPT ![d] = @ + 1]
    BY <1>6 DEF Return, Fail
  <2>2. pc'[d] = label
    BY <2>1, LeaveFacts
  <2>3. pc[d] \in InFlight
    BY <1>6 DEF Return, Fail, InFlight
  <2>4. /\ tries[d] \in Nat
        /\ (label = "done" /\ tries'[d] = tries[d]) \/ tries'[d] = tries[d] + 1
    BY <2>1, PipelineAssumption DEF TInv, TypeOK
  <2>5. 1 <= Begun(d)' /\ Begun(d) <= Begun(d)'
    BY <2>2, <2>3, <2>4 DEF Begun, InFlight
  <2>6. pc'[d] \notin Before /\ pc'[d] \notin {"breaker", "apply"}
    BY <2>1, <2>2 DEF Before
  <2> QED
    BY <1>1, <1>2, <2>2, <2>5, <2>6, QuietQInv
<1> QED
  BY <1>3, <1>4, <1>5, <1>6

(* The steps of d that write its record, or remove what is in it. *)
LEMMA WriteStepQInv ==
    ASSUME QInv, RInv', NEW d \in Deliveries,
           Record(d) \/ Open(d) \/ Close(d) \/ Apply(d) \/ ApplyRaises(d)
    PROVE  QInv'
<1> USE DEF world, local, table, history, alerts
<1> TInv /\ RInv
  BY DEF QInv, RInv, VInv
<1>1. pc[d] # "idle" /\ \A x \in Deliveries : x # d => Kept(x)
  BY StepKeeps DEF Step
<1>2. Grown
  BY StepKeeps DEF Step
<1>3. /\ Event(d) \in DOMAIN events /\ Event(d) \in EventIds /\ Resource(d) \in Resources
      /\ PlanKey(d)' = PlanKey(d) /\ PlanKey(d) \in Keys
  BY <1>1, <1>2, SameEvent, DeliveryFacts, EventFacts DEF PlanKey, Event
<1>4. Once(Event(d)) => removed[Event(d)] \subseteq audit[PlanKey(d)].snapshot
  BY <1>3 DEF QInv, RollbackUnlessRepeated, PlanKey, Resource
<1>5. /\ \A e \in EventIds : e # Event(d) =>
            /\ removed'[e] = removed[e]
            /\ \A r \in Resources \cup {NoResource} : audit'[<<r, e>>] = audit[<<r, e>>]
      /\ 1 <= Begun(d)' /\ Begun(d) <= Begun(d)'
      /\ Once(Event(d)) => Alone(d)'
      /\ Once(Event(d)) => removed'[Event(d)] \subseteq audit'[PlanKey(d)].snapshot
  <2>1. CASE Record(d)
    <3>2. pc'[d] \in {"return", "claim"} /\ UNCHANGED removed
      BY <2>1, GotoFacts DEF Record
    <3>3. Once(Event(d)) => removed[Event(d)] = {}
      BY <2>1 DEF Record, QInv, Alone, Before
    <3>4. audit' = [audit EXCEPT ![<<outcome[d].resource, Event(d)>>] =
                       [status |-> "SKIPPED", snapshot |-> {}]]
      BY <2>1 DEF Record, Key
    <3>5. 1 <= Begun(d)' /\ Begun(d) <= Begun(d)'
      BY <2>1, <3>2, Onward DEF Record, InFlight
    <3> QED
      BY <3>2, <3>3, <3>4, <3>5, OtherRecords DEF Alone, Before
  <2>2. CASE Open(d)
    <3>2. pc'[d] \in {"close", "breaker"} /\ UNCHANGED <<removed, snapshot>>
      BY <2>2, GotoFacts DEF Open
    <3>3. Once(Event(d)) => removed[Event(d)] = {}
      BY <2>2 DEF Open, QInv, Alone, Before
    <3>4. audit' = [audit EXCEPT ![<<Resource(d), Event(d)>>] =
                       [status |-> "PLANNED", snapshot |-> snapshot[d]]]
      BY <2>2 DEF Open, PlanKey
    <3>5. audit'[PlanKey(d)].snapshot = snapshot[d]
      BY <1>3, <3>4 DEF PlanKey, TInv, TypeOK
    <3>6. 1 <= Begun(d)' /\ Begun(d) <= Begun(d)'
      BY <2>2, <3>2, Onward DEF Open, InFlight
    <3> QED
      BY <1>3, <3>2, <3>3, <3>4, <3>5, <3>6, OtherRecords DEF Alone, Before, Event
  <2>3. CASE Close(d)
    <3>2. pc'[d] = "claim" /\ UNCHANGED removed
      BY <2>3, GotoFacts DEF Close
    <3>3. outcome[d].resource = Resource(d)
      BY <2>3, <1>3 DEF Close, RInv, Sited
    <3>4. audit' = [audit EXCEPT ![<<Resource(d), Event(d)>>] =
                       [audit[<<Resource(d), Event(d)>>] EXCEPT !.status = outcome[d].status]]
      BY <2>3, <3>3 DEF Close, Key
    <3>5. audit'[PlanKey(d)].snapshot = audit[PlanKey(d)].snapshot
      BY <1>3, <3>4 DEF PlanKey, TInv, TypeOK
    <3>6. 1 <= Begun(d)' /\ Begun(d) <= Begun(d)'
      BY <2>3, <3>2, Onward DEF Close, InFlight
    <3> QED
      BY <1>4, <3>2, <3>4, <3>5, <3>6, OtherRecords DEF Alone, Before
  <2>4. CASE Apply(d) \/ ApplyRaises(d)
    <3>1. pc[d] = "apply" /\ UNCHANGED <<audit, tries, snapshot>>
      BY <2>4 DEF Apply, ApplyRaises, Raise
    <3>2. PICK label \in {"close", "apply"} :
             Carry(d, label) \/ (Goto(d, label) /\ UNCHANGED <<events, removed>>)
      BY <2>4 DEF Apply, ApplyRaises, Raise
    <3>4. pc'[d] = label
      BY <3>1, <3>2, CarryFacts, GotoFacts
    <3>6. Once(Event(d)) => snapshot[d] \subseteq audit[PlanKey(d)].snapshot
      BY <3>1 DEF QInv, Alone
    <3>7. /\ \A e \in EventIds : e # Event(d) => removed'[e] = removed[e]
          /\ removed'[Event(d)] \subseteq removed[Event(d)] \cup snapshot[d]
      BY <1>3, <3>2 DEF Carry, Target, TInv, TypeOK
    <3>8. Once(Event(d)) => Alone(d)'
      BY <1>3, <3>1, <3>4, <3>6 DEF Alone, Before
    <3>9. 1 <= Begun(d)' /\ Begun(d) <= Begun(d)'
      BY <3>1, <3>2, <3>4, Onward DEF InFlight
    <3> QED
      BY <1>4, <3>1, <3>6, <3>7, <3>8, <3>9
  <2> QED
    BY <2>1, <2>2, <2>3, <2>4
<1> QED
  BY <1>1, <1>2, <1>5, FrameOfStep

LEMMA NextQInv == QInv /\ [Next]_vars => QInv'
<1> SUFFICES ASSUME QInv, [Next]_vars PROVE QInv'
  OBVIOUS
<1>1. RInv'
  BY NextRInv DEF QInv
<1>2. ASSUME NEW d \in Deliveries, Step(d) PROVE QInv'
  BY <1>1, <1>2, QuietStepQInv, WriteStepQInv DEF Step
<1>3. CASE UNCHANGED vars
  BY <1>1, <1>3 DEF QInv, RollbackUnlessRepeated, Untouched, Once, Begun, DeliveriesOf, Alone,
     PlanKey, Resource, Event, vars, world, local, table, history, alerts
<1> QED
  BY <1>1, <1>2, <1>3, EnvironmentQInv DEF Next

LEMMA AlwaysQInv == Spec => []QInv
  BY InitQInv, NextQInv, PTL DEF Spec

(* For any number of deliveries and retries: until an event is worked on a *)
(* second time, its record has all that was removed on its account.        *)
THEOREM RollbackUnlessRepeatedHolds == Spec => []RollbackUnlessRepeated
<1>1. QInv => RollbackUnlessRepeated
  BY DEF QInv
<1> QED
  BY AlwaysQInv, <1>1, PTL

-----------------------------------------------------------------------------
(***************************************************************************)
(* AlertsUnlessLost: a fingerprint is claimed before it is posted, so that *)
(* the invariant follows the claim.  Carried says of a fingerprint that    *)
(* somebody is posting it, has died or has taken its own item for          *)
(* another's; AInv adds to RInv that a claimed fingerprint is posted or    *)
(* carried, and that an alert that is owed is carried or about to be       *)
(* claimed by a delivery of its event.                                     *)
(***************************************************************************)
Carried(f) == Posting(f) \/ Died(f[1]) \/ f \in muted

(* A delivery at its alert speaks of its own resource. *)
Sounding(x) == pc[x] \in {"claim", "post"} => outcome[x].resource = Resource(x)

Claiming(o) == \E x \in DeliveriesOf(o[1]) : pc[x] = "claim" /\ outcome[x].status = o[2]

Pending(o) == o[1] \in DOMAIN events /\ (Carried(Due(o)) \/ Claiming(o))

AInv ==
    /\ RInv
    /\ \A x \in Deliveries : Sounding(x)
    /\ \A f \in claimed : f \in sent \/ Carried(f)
    /\ \A o \in owed : Pending(o)

(* What a step that posts F lets become of a delivery: a death is not      *)
(* forgotten, and an alert is let go of only when it is posted, left to    *)
(* its claimer or lost.                                                    *)
Pledge(x, F) ==
    /\ tries[x] > 0 => tries'[x] > 0
    /\ pc[x] = "post" =>
          \/ pc'[x] = "post" /\ outcome'[x] = outcome[x]
          \/ tries'[x] > 0
          \/ Fingerprint(x) \in F
    /\ pc[x] = "claim" =>
          \/ pc'[x] \in {"claim", "post"} /\ outcome'[x] = outcome[x]
          \/ tries'[x] > 0
          \/ Fingerprint(x) \in muted'
          \/ <<Event(x), outcome[x].status>> \notin owed'
          \/ F = {} /\ Fingerprint(x) \in claimed \ sent

LEMMA InitAInv == Init => AInv
<1> SUFFICES ASSUME Init PROVE AInv
  OBVIOUS
<1>1. \A x \in Deliveries : Sounding(x)
  BY DEF Init, Sounding
<1> QED
  BY <1>1, InitRInv DEF Init, AInv

LEMMA KeptPledge == ASSUME NEW F, NEW x \in Deliveries, Kept(x) PROVE Pledge(x, F)
  BY DEF Kept, Woken, Pledge

LEMMA KeptSounding ==
    ASSUME AInv, Grown, NEW x \in Deliveries, Kept(x)
    PROVE  Sounding(x)'
<1>1. Sounding(x)
  BY DEF AInv
<1>2. CASE pc[x] = "idle"
  BY <1>2 DEF Kept, Woken, Sounding
<1>3. CASE pc[x] # "idle"
  BY <1>1, <1>3, SameEvent DEF Kept, Woken, Sounding, AInv
<1> QED
  BY <1>2, <1>3

LEMMA StillInLog ==
    ASSUME RInv, RInv', Grown, NEW e \in DOMAIN events
    PROVE  e \in DOMAIN events' /\ events'[e] = events[e]
  BY DEF RInv, VInv, TInv, TypeOK, Grown

(* A delivery that dies at its alert is a death on the alert's resource. *)
LEMMA DeathCarries ==
    ASSUME AInv, RInv', Grown, NEW x \in Deliveries, pc[x] \in {"claim", "post"}, tries'[x] > 0,
           NEW f, f = Fingerprint(x)
    PROVE  Carried(f)'
<1>1. pc[x] # "idle" /\ RInv
  BY DEF AInv
<1>2. f[1] = Resource(x)
  BY DEF AInv, Sounding, Fingerprint
<1>3. Event(x) \in DOMAIN events' /\ Resource(x)' = Resource(x)
  BY <1>1, SameEvent, StillInLog
<1>4. Died(f[1])'
  BY <1>2, <1>3 DEF Died, Event
<1> QED
  BY <1>4 DEF Carried

(* What is carried stays carried unless it is posted. *)
LEMMA CarriedKept ==
    ASSUME AInv, RInv', Grown, NEW F, \A x \in Deliveries : Pledge(x, F),
           \A g \in muted : g \in muted' \/ Posting(g)',
           NEW f, f \notin F, Carried(f)
    PROVE  Carried(f)'
<1>1. CASE f \in muted
  BY <1>1 DEF Carried
<1>2. CASE Posting(f)
  <2>1. PICK x \in Deliveries : pc[x] = "post" /\ Fingerprint(x) = f
    BY <1>2 DEF Posting
  <2>2. (pc'[x] = "post" /\ outcome'[x] = outcome[x]) \/ tries'[x] > 0
    BY <2>1 DEF Pledge
  <2> QED
    BY <2>1, <2>2, DeathCarries DEF Carried, Posting, Fingerprint
<1>3. CASE Died(f[1])
  <2>1. PICK x \in Deliveries : Event(x) \in DOMAIN events /\ Resource(x) = f[1] /\ tries[x] > 0
    BY <1>3 DEF Died
  <2>2. Event(x) \in DOMAIN events' /\ events'[Event(x)] = events[Event(x)]
    BY <2>1, StillInLog DEF AInv
  <2>3. tries'[x] > 0
    BY <2>1 DEF Pledge
  <2> QED
    BY <2>1, <2>2, <2>3 DEF Carried, Died, Resource, Event
<1> QED
  BY <1>1, <1>2, <1>3 DEF Carried

(* An alert that is owed still is carried or about to be claimed. *)
LEMMA PendingKept ==
    ASSUME AInv, RInv', Grown, NEW F, \A x \in Deliveries : Pledge(x, F),
           \A g \in muted : g \in muted' \/ Posting(g)',
           NEW o, o \in owed, o \in owed', Due(o) \notin F
    PROVE  Pending(o)'
<1> RInv /\ TInv
  BY DEF AInv, RInv, VInv
<1>1. o[1] \in DOMAIN events /\ (Carried(Due(o)) \/ Claiming(o)) /\ o = <<o[1], o[2]>>
  BY DEF AInv, Pending, TInv, TypeOK
<1>2. o[1] \in DOMAIN events' /\ events'[o[1]] = events[o[1]]
  BY <1>1, StillInLog
<1>3. PICK f : f = Due(o)
  OBVIOUS
<1>4. Due(o)' = f /\ f \notin F
  BY <1>2, <1>3 DEF Due
<1>5. CASE Carried(f)
  BY <1>2, <1>4, <1>5, CarriedKept DEF Pending
<1>6. CASE Claiming(o)
  <2>1. PICK x \in Deliveries : Event(x) = o[1] /\ pc[x] = "claim" /\ outcome[x].status = o[2]
    BY <1>6 DEF Claiming, DeliveriesOf
  <2>2. Fingerprint(x) = f
    BY <1>3, <2>1 DEF AInv, Sounding, Fingerprint, Due, Resource
  <2>3. x \in DeliveriesOf(o[1])'
    BY <2>1 DEF DeliveriesOf, Event
  <2>4. \/ pc'[x] \in {"claim", "post"} /\ outcome'[x] = outcome[x]
        \/ tries'[x] > 0
        \/ f \in muted'
        \/ F = {} /\ f \in claimed \ sent
    BY <1>1, <2>1, <2>2 DEF Pledge
  <2>5. CASE pc'[x] = "claim" /\ outcome'[x] = outcome[x]
    BY <1>2, <2>1, <2>3, <2>5 DEF Pending, Claiming
  <2>6. CASE pc'[x] = "post" /\ outcome'[x] = outcome[x]
    BY <1>2, <1>4, <2>2, <2>6 DEF Pending, Carried, Posting, Fingerprint
  <2>7. CASE tries'[x] > 0
    BY <1>2, <1>4, <2>1, <2>2, <2>7, DeathCarries DEF Pending
  <2>8. CASE f \in muted'
    BY <1>2, <1>4, <2>8 DEF Pending, Carried
  <2>9. CASE f \in claimed \ sent
    BY <1>2, <1>4, <2>9, CarriedKept DEF Pending, AInv
  <2> QED
    BY <2>4, <2>5, <2>6, <2>7, <2>8, <2>9
<1> QED
  BY <1>1, <1>3, <1>5, <1>6

(* The frame of a step that posts F: what it owes somebody will claim, and *)
(* what it claims is carried.                                              *)
LEMMA FrameAInv ==
    ASSUME AInv, RInv', Grown, NEW F,
           \A x \in Deliveries : Pledge(x, F) /\ Sounding(x)',
           \A f \in muted : f \in muted' \/ Posting(f)',
           \A f \in claimed' : f \in claimed \/ Carried(f)',
           \A f \in claimed' : (f \in sent \/ f \in F) => f \in sent',
           \A o \in owed' : (o \in owed /\ Due(o) \notin F)
                             \/ (o[1] \in DOMAIN events /\ Claiming(o)')
    PROVE  AInv'
<1> RInv
  BY DEF AInv
<1>1. \A f \in claimed' : f \in sent' \/ Carried(f)'
  BY CarriedKept DEF AInv
<1>2. ASSUME NEW o \in owed' PROVE Pending(o)'
  <2>1. CASE o \in owed /\ Due(o) \notin F
    BY <2>1, PendingKept
  <2>2. CASE o[1] \in DOMAIN events /\ Claiming(o)'
    BY <2>2, StillInLog DEF Pending
  <2> QED
    BY <2>1, <2>2
<1> QED
  BY <1>1, <1>2 DEF AInv

LEMMA EnvironmentAInv == ASSUME AInv, RInv', Environment PROVE AInv'
<1>1. /\ Grown /\ \A x \in Deliveries : Kept(x)
      /\ UNCHANGED <<muted, owed>>
      /\ claimed' \subseteq claimed /\ sent \cap claimed' \subseteq sent'
  BY EnvironmentKeeps DEF AInv
<1>2. \A x \in Deliveries : Pledge(x, {}) /\ Sounding(x)'
  BY <1>1, KeptPledge, KeptSounding
<1> QED
  BY <1>1, <1>2, FrameAInv

(* What is left to show of a step of d. *)
LEMMA StepAInv ==
    ASSUME AInv, RInv', NEW d \in Deliveries, Step(d), NEW F,
           Pledge(d, F), Sounding(d)',
           \A f \in muted : f \in muted' \/ Posting(f)',
           \A f \in claimed' : f \in claimed \/ Carried(f)',
           \A f \in claimed' : (f \in sent \/ f \in F) => f \in sent',
           \A o \in owed' : (o \in owed /\ Due(o) \notin F)
                             \/ (o[1] \in DOMAIN events /\ Claiming(o)')
    PROVE  AInv'
<1>1. Grown /\ \A x \in Deliveries : x # d => Kept(x)
  BY StepKeeps DEF AInv
<1>2. \A x \in Deliveries : Pledge(x, F) /\ Sounding(x)'
  BY <1>1, KeptPledge, KeptSounding
<1> QED
  BY <1>1, <1>2, FrameAInv

(* The steps of d that neither rule nor alert. *)
LEMMA QuietStepAInv ==
    ASSUME AInv, RInv', NEW d \in Deliveries,
           \/ Start(d) \/ PlanNameless(d) \/ PlanBenign(d) \/ PlanExcluded(d)
           \/ PlanDangerous(d) \/ Open(d) \/ Breaker(d) \/ Apply(d) \/ ApplyRaises(d)
    PROVE  AInv'
<1> USE DEF world, local, table, history, alerts
<1> TInv
  BY DEF AInv, RInv, VInv
<1>1. UNCHANGED <<muted, owed, sent, claimed, tries>> /\ pc[d] \notin {"claim", "post"}
  BY DEF Start, PlanNameless, PlanBenign, PlanExcluded, PlanDangerous, Inspect, Open, Breaker,
     Apply, ApplyRaises, Raise
<1>2. pc'[d] \notin {"claim", "post"}
  <2>1. CASE \/ Start(d) \/ PlanNameless(d) \/ PlanBenign(d) \/ PlanExcluded(d)
             \/ PlanDangerous(d) \/ Open(d) \/ Breaker(d)
    BY <2>1, GotoFacts
    DEF Start, PlanNameless, PlanBenign, PlanExcluded, PlanDangerous, Open, Breaker
  <2>2. CASE Apply(d) \/ ApplyRaises(d)
    <3>1. PICK label \in {"close", "apply"} : Carry(d, label) \/ Goto(d, label)
      BY <2>2 DEF Apply, ApplyRaises, Raise
    <3>2. pc[d] = "apply"
      BY <2>2 DEF Apply, ApplyRaises, Raise
    <3> QED
      BY <3>1, <3>2, CarryFacts, GotoFacts
  <2> QED
    BY <2>1, <2>2
<1>3. Pledge(d, {}) /\ Sounding(d)'
  BY <1>1, <1>2 DEF Pledge, Sounding
<1> QED
  BY <1>1, <1>3, StepAInv DEF Step

(* A ruling is written by a delivery that goes on to claim its alert. *)
LEMMA RuleStepAInv ==
    ASSUME AInv, RInv', NEW d \in Deliveries, Record(d) \/ Close(d)
    PROVE  AInv'
<1> USE DEF world, local, table, history, alerts
<1> TInv /\ RInv
  BY DEF AInv, RInv, VInv
<1>1. UNCHANGED <<events, sent, muted, claimed, tries, outcome>> /\ pc[d] \in {"record", "close"}
  BY DEF Record, Close
<1>2. Event(d) \in DOMAIN events /\ Resource(d) \in Resources /\ Resource(d)' = Resource(d)
  BY <1>1, EventFacts DEF Resource, Event
<1>3. /\ outcome[d].resource \in {NoResource, Resource(d)}
      /\ pc[d] = "close" => outcome[d].resource = Resource(d)
  BY <1>1, <1>2 DEF RInv, Sited
<1>4. \/ pc'[d] = "return" /\ outcome[d].resource = NoResource /\ UNCHANGED owed
      \/ /\ pc'[d] = "claim" /\ outcome[d].resource = Resource(d)
         /\ owed' = owed \cup {<<Event(d), outcome[d].status>>}
  BY <1>2, <1>3, PipelineAssumption, GotoFacts DEF Record, Close, Owe
<1>5. Pledge(d, {}) /\ Sounding(d)'
  BY <1>1, <1>2, <1>4 DEF Pledge, Sounding
<1>6. ASSUME NEW o \in owed', o \notin owed PROVE o[1] \in DOMAIN events /\ Claiming(o)'
  <2>1. o[1] = Event(d) /\ o[2] = outcome[d].status /\ pc'[d] = "claim"
    BY <1>4, <1>6
  <2>2. d \in DeliveriesOf(o[1])'
    BY <2>1 DEF DeliveriesOf, Event
  <2> QED
    BY <1>1, <1>2, <2>1, <2>2 DEF Claiming
<1> QED
  BY <1>1, <1>5, <1>6, StepAInv DEF Step

(* The steps of d from its claim to its end. *)
LEMMA ClaimStepAInv == ASSUME AInv, RInv', NEW d \in Deliveries, Claim(d) PROVE AInv'
<1> USE DEF world, local, table, history, alerts
<1> TInv
  BY DEF AInv, RInv, VInv
<1>1. /\ UNCHANGED <<events, sent, tries, outcome>> /\ pc[d] = "claim"
      /\ claimed' = claimed \cup {Fingerprint(d)}
      /\ owed' \subseteq owed
  BY DEF Claim, Suppressed
<1>2. Resource(d)' = Resource(d) /\ Fingerprint(d)' = Fingerprint(d)
  BY <1>1 DEF Resource, Event, Fingerprint
<1>3. \/ /\ pc'[d] = "return" /\ UNCHANGED muted /\ Fingerprint(d) \in claimed
         /\ Fingerprint(d) \in sent => <<Event(d), outcome[d].status>> \notin owed'
      \/ pc'[d] = "post" /\ muted' = muted \ {Fingerprint(d)}
      \/ pc'[d] = "return" /\ muted' = muted \cup {Fingerprint(d)}
  BY GotoFacts DEF Claim, Suppressed
<1>4. Pledge(d, {})
  BY <1>1, <1>3 DEF Pledge
<1>5. Sounding(d)'
  BY <1>1, <1>2 DEF AInv, Sounding
<1>6. pc'[d] = "post" => Posting(Fingerprint(d))'
  BY <1>1 DEF Posting, Fingerprint
<1>7. \A f \in muted : f \in muted' \/ Posting(f)'
  BY <1>2, <1>3, <1>6
<1>8. \A f \in claimed' : f \in claimed \/ Carried(f)'
  BY <1>1, <1>2, <1>3, <1>6 DEF Carried
<1> QED
  BY <1>1, <1>4, <1>5, <1>7, <1>8, StepAInv DEF Step

LEMMA EndStepAInv ==
    ASSUME AInv, RInv', SlackUp, NEW d \in Deliveries, Post(d) \/ Return(d) \/ Fail(d)
    PROVE  AInv'
<1> USE DEF world, local, table, history, alerts
<1> TInv
  BY DEF AInv, RInv, VInv
<1>1. UNCHANGED <<events, muted, claimed>>
  BY DEF Post, Return, Fail
<1>2. CASE Post(d)
  <2> DEFINE F == {Fingerprint(d)}
  <2>1. /\ pc[d] = "post" /\ pc'[d] = "return" /\ UNCHANGED tries
        /\ sent' = sent \cup (F \cap claimed) /\ owed' = owed \ Covered(Fingerprint(d))
    BY <1>2, GotoFacts DEF Post
  <2>2. \A o \in owed' : o \in owed /\ Due(o) \notin F
    BY <2>1 DEF Covered
  <2>3. Pledge(d, F) /\ Sounding(d)'
    BY <2>1 DEF Pledge, Sounding
  <2> QED
    BY <1>1, <1>2, <2>1, <2>2, <2>3, StepAInv DEF Step
<1>3. CASE Return(d)
  <2>1. pc[d] = "return" /\ pc'[d] = "done" /\ UNCHANGED <<tries, sent, owed>>
    BY <1>3, LeaveFacts DEF Return
  <2>2. Pledge(d, {}) /\ Sounding(d)'
    BY <2>1 DEF Pledge, Sounding
  <2> QED
    BY <1>1, <1>3, <2>1, <2>2, StepAInv DEF Step
<1>4. CASE Fail(d)
  <2>1. pc'[d] \in {"queued", "dead"} /\ UNCHANGED <<sent, owed>>
    BY <1>4, LeaveFacts DEF Fail
  <2>2. tries'[d] > 0
    BY <1>4, PipelineAssumption DEF Fail, TInv, TypeOK
  <2>3. Pledge(d, {}) /\ Sounding(d)'
    BY <2>1, <2>2 DEF Pledge, Sounding
  <2> QED
    BY <1>1, <1>4, <2>1, <2>3, StepAInv DEF Step
<1> QED
  BY <1>2, <1>3, <1>4

LEMMA NextAInv == (SlackUp => AInv) /\ [Next]_vars => (SlackUp => AInv)'
<1> SUFFICES ASSUME SlackUp, AInv, [Next]_vars PROVE AInv'
  OBVIOUS
<1>1. RInv'
  BY NextRInv DEF AInv
<1>2. ASSUME NEW d \in Deliveries, Step(d) PROVE AInv'
  BY <1>1, <1>2, QuietStepAInv, RuleStepAInv, ClaimStepAInv, EndStepAInv DEF Step
<1>3. CASE UNCHANGED vars
  BY <1>1, <1>3 DEF AInv, Sounding, Pending, Claiming, Carried, Posting, Died, Due, Fingerprint,
     DeliveriesOf, Resource, Event, vars, world, local, table, history, alerts
<1> QED
  BY <1>1, <1>2, <1>3, EnvironmentAInv DEF Next

(* Where posts reach Slack, an alert on a settled event is lost only to a  *)
(* death on the resource or to a claimer that suppressed itself.           *)
THEOREM AlertsUnlessLostHolds == Spec => []AlertsUnlessLost
<1>1. (SlackUp => AInv) => AlertsUnlessLost
  BY DEF AInv, Pending, Carried, Claiming, Due, AlertsUnlessLost, Settled, Ended
<1>2. Init => (SlackUp => AInv)
  BY InitAInv
<1> QED
  BY <1>1, <1>2, NextAInv, PTL DEF Spec
=============================================================================
