----------------------- MODULE PipelineVerdict_proofs -----------------------
(***************************************************************************)
(* The verdicts of the audit table are true of the world, for any          *)
(* resources, deliveries and retries: THEOREM VerdictIsTrueHolds.          *)
(*                                                                         *)
(* VerdictIsTrue is not inductive: the verdict is decided several steps    *)
(* before it is written.  VInv adds what each delivery of the latest event *)
(* of a resource knows about the resource on the way, and that an event to *)
(* come has no record.  It rests on one fact about the world: after the    *)
(* latest event that others caused, exposure only shrinks.                 *)
(***************************************************************************)
EXTENDS Pipeline_proofs

(* An event that has not happened has no record. *)
Blank ==
    \A r \in Resources \cup {NoResource}, e \in EventIds :
        e > Len(events) => audit[<<r, e>>] = NoRecord

(* What a delivery of the latest event knows of its resource. *)
Knows(x) ==
    /\ pc[x] \in {"open", "breaker", "apply"} => exposure[Resource(x)] \subseteq snapshot[x]
    /\ pc[x] \in {"open", "breaker"} => call[x] = 1
    /\ pc[x] = "apply" =>
          \A k \in 1 .. (call[x] - 1) : Calls[k] \cap exposure[Resource(x)] = {}
    /\ pc[x] = "close" /\ outcome[x].status = "APPLIED" => exposure[Resource(x)] \in Benign
    /\ pc[x] = "record" /\ outcome[x].resource = NoResource /\ events[Event(x)].told = "named"
          => exposure[Resource(x)] \in Benign

Truthful(x) == Event(x) \in Latests => Knows(x)

VInv ==
    /\ TInv
    /\ Blank
    /\ \A x \in Deliveries : Truthful(x)
    /\ VerdictIsTrue

LEMMA InitVInv == Init => VInv
<1> SUFFICES ASSUME Init PROVE VInv
  OBVIOUS
<1>1. TInv
  BY InitTInv
<1>2. Blank /\ Latests = {}
  BY DEF Init, Blank, Latests, Keys
<1> QED
  BY <1>1, <1>2 DEF VInv, Truthful, VerdictIsTrue

(***************************************************************************)
(* The world shrinks: nobody exposes anything, and the log grows at most   *)
(* by events of our own making.                                            *)
(***************************************************************************)
Shrinks ==
    /\ Grown
    /\ events' \in Seq([resource : Resources, self : BOOLEAN, told : Told])
    /\ \A e \in DOMAIN events' : e \notin DOMAIN events => events'[e].self
    /\ \A r \in Resources : exposure'[r] \subseteq exposure[r]

LEMMA ResourceOfEvent ==
    ASSUME TInv, NEW e \in DOMAIN events
    PROVE  events[e].resource \in Resources
<1>1. events \in Seq([resource : Resources, self : BOOLEAN, told : Told])
  BY DEF TInv, TypeOK
<1>2. e \in 1 .. Len(events)
  BY <1>1
<1>3. events[e] \in [resource : Resources, self : BOOLEAN, told : Told]
  BY <1>1, <1>2, ElementOfSeq
<1> QED
  BY <1>3

LEMMA LatestBefore ==
    ASSUME TInv, Grown, events' \in Seq([resource : Resources, self : BOOLEAN, told : Told]),
           NEW e \in DOMAIN events, Latest(e)'
    PROVE  Latest(e) /\ events'[e] = events[e] /\ e \in Latests
<1>1. events \in Seq([resource : Resources, self : BOOLEAN, told : Told])
  BY DEF TInv, TypeOK
<1>2. DOMAIN events \subseteq DOMAIN events'
  BY <1>1 DEF Grown
<1>3. events'[e] = events[e] /\ \A f \in DOMAIN events : events'[f] = events[f]
  BY DEF Grown
<1>4. Latest(e)
  BY <1>2, <1>3 DEF Latest
<1> QED
  BY <1>3, <1>4 DEF Latests

LEMMA LatestsShrink ==
    ASSUME TInv, Shrinks, NEW e \in Latests'
    PROVE  e \in Latests /\ e \in DOMAIN events /\ events'[e] = events[e]
<1>1. e \in DOMAIN events' /\ Latest(e)'
  BY DEF Latests
<1>2. e \in DOMAIN events
  BY <1>1 DEF Shrinks, Latest
<1> QED
  BY <1>1, <1>2, LatestBefore DEF Shrinks

LEMMA BenignSmaller ==
    ASSUME NEW B \in Benign, NEW C, C \subseteq B
    PROVE  C \in Benign
  BY BenignAssumption

(* What a delivery knows stays true when it stands still. *)
LEMMA KeptTruthful ==
    ASSUME VInv, Shrinks, NEW x \in Deliveries, Kept(x)
    PROVE  Truthful(x)'
<1> SUFFICES ASSUME Event(x) \in Latests' PROVE Knows(x)'
  BY DEF Truthful, Event
<1>1. Event(x) \in Latests /\ Event(x) \in DOMAIN events /\ events'[Event(x)] = events[Event(x)]
  BY LatestsShrink DEF VInv
<1>2. Knows(x)
  BY <1>1 DEF VInv, Truthful
<1>3. Resource(x)' = Resource(x)
  BY <1>1 DEF Resource, Event
<1>4. Resource(x) \in Resources
  BY <1>1, ResourceOfEvent DEF Resource, VInv
<1>5. exposure'[Resource(x)] \subseteq exposure[Resource(x)]
  BY <1>4 DEF Shrinks
<1>6. CASE pc'[x] = pc[x]
  BY <1>1, <1>2, <1>3, <1>5, <1>6, BenignSmaller DEF Knows, Kept, Event
<1>7. CASE Woken(x)
  BY <1>7 DEF Woken, Knows
<1> QED
  BY <1>6, <1>7 DEF Kept

(* The verdicts stay true when the table is left alone. *)
LEMMA KeptVerdict ==
    ASSUME VInv, Shrinks,
           NEW e \in Latests',
           (StatusOf(e) = "APPLIED")' \/ FoundBenign(e)',
           (StatusOf(e) = "APPLIED")' => StatusOf(e) = "APPLIED",
           FoundBenign(e)' => FoundBenign(e)
    PROVE  exposure'[events'[e].resource] \in Benign
<1>1. e \in Latests /\ e \in DOMAIN events /\ events'[e] = events[e]
  BY LatestsShrink DEF VInv
<1>2. exposure[events[e].resource] \in Benign
  BY <1>1 DEF VInv, VerdictIsTrue
<1>3. events[e].resource \in Resources
  BY <1>1, ResourceOfEvent DEF VInv
<1> QED
  BY <1>1, <1>2, <1>3, BenignSmaller DEF Shrinks

(* The frame of a step that leaves the audit table alone. *)
LEMMA FrameVInv ==
    ASSUME VInv, TInv', Shrinks, UNCHANGED audit, NEW d \in Deliveries,
           \A x \in Deliveries : x # d => Kept(x),
           Truthful(d)'
    PROVE  VInv'
<1>1. Blank'
  <2>1. Len(events) \in Nat /\ Len(events') \in Nat /\ Len(events) <= Len(events')
    BY DEF VInv, TInv, TypeOK, Shrinks, Grown
  <2>2. \A e \in EventIds : e > Len(events') => e > Len(events)
    BY <2>1, PipelineAssumption DEF EventIds
  <2> QED
    BY <2>2 DEF VInv, Blank
<1>2. \A x \in Deliveries : Truthful(x)'
  BY KeptTruthful
<1>3. ASSUME NEW e \in Latests', (StatusOf(e) = "APPLIED")' \/ FoundBenign(e)'
      PROVE  exposure'[events'[e].resource] \in Benign
  <2>1. events'[e] = events[e]
    BY LatestsShrink DEF VInv
  <2> QED
    BY <1>3, <2>1, KeptVerdict DEF StatusOf, FoundBenign, Dismissed
<1>4. VerdictIsTrue'
  BY <1>3 DEF VerdictIsTrue
<1> QED
  BY <1>1, <1>2, <1>4 DEF VInv

(* A step in which only d moves leaves the world as it is. *)
LEMMA StillShrinks ==
    ASSUME TInv, UNCHANGED <<exposure, events>>
    PROVE  Shrinks
  BY DEF Shrinks, Grown, TInv, TypeOK

-----------------------------------------------------------------------------
(* Somebody exposes r: no earlier event of r is the latest any more, and   *)
(* of the others nothing changes.                                          *)
LEMMA ExposeVInv == ASSUME VInv, TInv', NEW r \in Resources, Expose(r) PROVE VInv'
<1> USE DEF world, local, table, history, alerts
<1>1. Len(events) < MaxEvents /\ UNCHANGED <<audit, snapshot, call, outcome>>
  BY ExposeFacts DEF VInv
<1>2. /\ events' \in Seq([resource : Resources, self : BOOLEAN, told : Told])
      /\ Len(events') = Len(events) + 1
      /\ DOMAIN events' = DOMAIN events \cup {Len(events) + 1}
      /\ events'[Len(events) + 1].resource = r /\ ~events'[Len(events) + 1].self
      /\ \A x \in Deliveries : Kept(x)
  BY ExposeFacts DEF VInv
<1>3. events \in Seq([resource : Resources, self : BOOLEAN, told : Told]) /\ Len(events) \in Nat
  BY DEF VInv, TInv, TypeOK
<1>4. Grown
  BY ExposeFacts DEF VInv
<1>5. ASSUME NEW e \in Latests', e \in DOMAIN events
      PROVE  /\ e \in Latests /\ events'[e] = events[e] /\ events[e].resource # r
             /\ exposure'[events[e].resource] = exposure[events[e].resource]
  <2>1. Latest(e)'
    BY DEF Latests
  <2>2. Latest(e) /\ e \in Latests /\ events'[e] = events[e]
    BY <1>2, <1>4, <1>5, <2>1, LatestBefore DEF VInv
  <2>3. Len(events) + 1 \in DOMAIN events' /\ Len(events) + 1 > e
    BY <1>2, <1>3, <1>5
  <2>4. events[e].resource # r
    BY <1>2, <2>1, <2>2, <2>3 DEF Latest
  <2>5. events[e].resource \in Resources
    BY <1>5, ResourceOfEvent DEF VInv
  <2>6. exposure'[events[e].resource] = exposure[events[e].resource]
    BY <2>4, <2>5 DEF Expose, VInv, TInv, TypeOK
  <2> QED
    BY <2>2, <2>4, <2>6
<1>6. ASSUME NEW e \in Latests', e \notin DOMAIN events PROVE e = Len(events) + 1
  BY <1>2, <1>3, <1>6 DEF Latests
<1>7. Blank'
  <2>1. \A e \in EventIds : e > Len(events') => e > Len(events)
    BY <1>2, <1>3, PipelineAssumption DEF EventIds
  <2> QED
    BY <1>1, <2>1 DEF VInv, Blank
<1>8. ASSUME NEW x \in Deliveries PROVE Truthful(x)'
  <2>1. SUFFICES ASSUME Event(x) \in Latests' PROVE Knows(x)'
    BY DEF Truthful, Event
  <2>2. CASE Woken(x)
    BY <2>2 DEF Woken, Knows
  <2>3. CASE pc'[x] = pc[x] /\ Event(x) \in DOMAIN events
    <3>1. /\ Event(x) \in Latests /\ Resource(x)' = Resource(x)
          /\ exposure'[Resource(x)] = exposure[Resource(x)]
          /\ events'[Event(x)] = events[Event(x)]
      BY <1>5, <2>1, <2>3 DEF Resource, Event
    <3> QED
      BY <1>1, <1>2, <2>3, <3>1 DEF VInv, Truthful, Knows, Event
  <2>4. CASE pc'[x] = pc[x] /\ Event(x) \notin DOMAIN events
    <3>1. pc[x] = "idle"
      BY <2>4, EventFacts DEF VInv
    <3> QED
      BY <2>4, <3>1 DEF Knows
  <2> QED
    BY <1>2, <2>2, <2>3, <2>4 DEF Kept
<1>9. VerdictIsTrue'
  <2>1. SUFFICES ASSUME NEW e \in Latests', (StatusOf(e) = "APPLIED")' \/ FoundBenign(e)'
                 PROVE  exposure'[events'[e].resource] \in Benign
    BY DEF VerdictIsTrue
  <2>2. CASE e \in DOMAIN events
    BY <1>1, <1>5, <2>1, <2>2 DEF StatusOf, FoundBenign, Dismissed, VInv, VerdictIsTrue
  <2>3. CASE e \notin DOMAIN events
    <3>1. e = Len(events) + 1 /\ e \in EventIds /\ e > Len(events)
      BY <1>1, <1>3, <1>6, <2>3, PipelineAssumption DEF EventIds
    <3>2. events'[e].resource = r
      BY <1>2, <3>1
    <3>3. audit[<<r, e>>] = NoRecord /\ audit[<<NoResource, e>>] = NoRecord
      BY <3>1 DEF VInv, Blank
    <3> QED
      BY <1>1, <2>1, <3>2, <3>3 DEF StatusOf, FoundBenign, Dismissed, NoRecord
  <2> QED
    BY <2>2, <2>3
<1> QED
  BY <1>7, <1>8, <1>9 DEF VInv

LEMMA EnvironmentVInv == ASSUME VInv, TInv', Environment PROVE VInv'
<1> USE DEF world, local, table, history, alerts
<1>1. ASSUME NEW r \in Resources, Expose(r) PROVE VInv'
  BY <1>1, ExposeVInv
<1>2. ASSUME UNCHANGED <<events, pc, tries, snapshot, call, outcome, audit>>,
             \A r \in Resources : exposure'[r] \subseteq exposure[r]
      PROVE  VInv'
  <2>1. Shrinks
    BY <1>2 DEF Shrinks, Grown, VInv, TInv, TypeOK
  <2>2. \A x \in Deliveries : Kept(x)
    BY <1>2 DEF Kept
  <2>3. \A x \in Deliveries : Truthful(x)'
    BY <2>1, <2>2, KeptTruthful
  <2>4. Blank'
    BY <1>2 DEF VInv, Blank
  <2>5. VerdictIsTrue'
    BY <1>2, <2>1, KeptVerdict DEF VerdictIsTrue, StatusOf, FoundBenign, Dismissed
  <2> QED
    BY <2>3, <2>4, <2>5 DEF VInv
<1>3. ASSUME NEW r \in Resources, Repair(r) PROVE VInv'
  <2>1. \A q \in Resources : exposure'[q] \subseteq exposure[q]
    BY <1>3 DEF Repair, VInv, TInv, TypeOK
  <2> QED
    BY <1>2, <1>3, <2>1 DEF Repair
<1>4. ASSUME NEW r \in Resources, Tag(r) PROVE VInv'
  BY <1>2, <1>4 DEF Tag
<1>5. ASSUME NextWindow \/ \E f \in claimed : DedupExpires(f) PROVE VInv'
  BY <1>2, <1>5 DEF NextWindow, DedupExpires
<1>6. ASSUME NEW d \in Deliveries, Duplicate(d) PROVE VInv'
  <2>1. Shrinks
    BY <1>6, StillShrinks DEF Duplicate, VInv
  <2>2. pc'[d] = "queued" /\ \A x \in Deliveries : x # d => pc'[x] = pc[x]
    BY <1>6, GotoFacts DEF Duplicate, VInv
  <2>3. \A x \in Deliveries : x # d => Kept(x)
    BY <1>6, <2>2 DEF Duplicate, Kept
  <2>4. Truthful(d)'
    BY <2>2 DEF Truthful, Knows
  <2> QED
    BY <1>6, <2>1, <2>3, <2>4, FrameVInv DEF Duplicate
<1> QED
  BY <1>1, <1>3, <1>4, <1>5, <1>6 DEF Environment

-----------------------------------------------------------------------------
(* Steps that touch neither the world nor the audit table. *)
LEMMA QuietVInv ==
    ASSUME VInv, TInv', UNCHANGED <<exposure, events, audit>>, NEW d \in Deliveries,
           \A x \in Deliveries : x # d => Kept(x),
           Truthful(d)'
    PROVE  VInv'
  BY FrameVInv, StillShrinks DEF VInv

LEMMA StartVInv == ASSUME VInv, TInv', NEW d \in Deliveries, Start(d) PROVE VInv'
<1> USE DEF world, local, table, history, alerts
<1>1. UNCHANGED <<exposure, events, audit>>
  BY DEF Start
<1>2. \A x \in Deliveries : x # d => Kept(x)
  BY DEF Start, Goto, Decide, Kept, VInv, TInv, TypeOK
<1>3. Truthful(d)'
  <2>1. CASE Own(d)
    BY <1>1, <2>1 DEF Own, Truthful, Latests, Latest, Event
  <2>2. CASE ~Own(d)
    <3>1. pc'[d] = "plan"
      BY <2>2, GotoFacts DEF Start, VInv
    <3> QED
      BY <3>1 DEF Truthful, Knows
  <2> QED
    BY <2>1, <2>2
<1> QED
  BY <1>1, <1>2, <1>3, QuietVInv

LEMMA PlanVInv ==
    ASSUME VInv, TInv', NEW d \in Deliveries,
           PlanNameless(d) \/ PlanBenign(d) \/ PlanExcluded(d) \/ PlanDangerous(d)
    PROVE  VInv'
<1> USE DEF world, local, table, history, alerts
<1>1. UNCHANGED <<exposure, events, audit>>
  BY DEF PlanNameless, PlanBenign, PlanExcluded, PlanDangerous
<1>2. Resource(d) \in Resources /\ Resource(d)' = Resource(d)
  BY <1>1, EventFacts
  DEF PlanNameless, PlanBenign, PlanExcluded, PlanDangerous, Inspect, VInv, Resource, Event
<1>3. CASE PlanBenign(d)
  <2>1. \A x \in Deliveries : x # d => Kept(x)
    BY <1>3 DEF PlanBenign, Goto, Decide, Kept, VInv, TInv, TypeOK
  <2>2. pc'[d] = "record" /\ exposure'[Resource(d)] \in Benign
    BY <1>1, <1>3, GotoFacts DEF PlanBenign, Dangerous, VInv
  <2> QED
    BY <1>1, <1>2, <2>1, <2>2, QuietVInv DEF Truthful, Knows
<1>a. CASE PlanNameless(d)
  <2>1. \A x \in Deliveries : x # d => Kept(x)
    BY <1>a DEF PlanNameless, Goto, Decide, Kept, VInv, TInv, TypeOK
  <2>2. pc'[d] = "record" /\ events'[Event(d)].told # "named"
    BY <1>1, <1>a, GotoFacts DEF PlanNameless, VInv
  <2> QED
    BY <1>1, <2>1, <2>2, QuietVInv DEF Truthful, Knows, Event
<1>4. CASE PlanExcluded(d)
  <2>1. \A x \in Deliveries : x # d => Kept(x)
    BY <1>4 DEF PlanExcluded, Goto, Decide, Kept, VInv, TInv, TypeOK
  <2>2. pc'[d] = "record" /\ outcome'[d].resource = Resource(d)
    BY <1>4, GotoFacts DEF PlanExcluded, Decide, VInv, TInv, TypeOK
  <2>3. outcome'[d].resource # NoResource
    BY <1>2, <2>2, PipelineAssumption
  <2> QED
    BY <1>1, <2>1, <2>2, <2>3, QuietVInv DEF Truthful, Knows
<1>5. CASE PlanDangerous(d)
  <2>1. \A x \in Deliveries : x # d => Kept(x)
    BY <1>5 DEF PlanDangerous, Goto, Kept, VInv, TInv, TypeOK
  <2>2. pc'[d] = "open" /\ snapshot'[d] = exposure[Resource(d)] /\ call'[d] = 1
    BY <1>5, GotoFacts DEF PlanDangerous, VInv, TInv, TypeOK
  <2> QED
    BY <1>1, <1>2, <2>1, <2>2, QuietVInv DEF Truthful, Knows
<1> QED
  BY <1>3, <1>a, <1>4, <1>5

LEMMA BreakerVInv == ASSUME VInv, TInv', NEW d \in Deliveries, Breaker(d) PROVE VInv'
<1> USE DEF world, local, table, history, alerts
<1>1. pc[d] = "breaker" /\ UNCHANGED <<exposure, events, audit, snapshot, call>>
  BY DEF Breaker
<1>2. \A x \in Deliveries : x # d => Kept(x)
  BY DEF Breaker, Goto, Decide, Kept, VInv, TInv, TypeOK
<1>3. \/ pc'[d] = "close" /\ outcome'[d].status # "APPLIED"
      \/ pc'[d] = "apply"
  BY GotoFacts DEF Breaker, Decide, VInv, TInv, TypeOK
<1>4. Truthful(d)'
  <2>1. SUFFICES ASSUME Event(d) \in Latests' PROVE Knows(d)'
    BY DEF Truthful, Event
  <2>2. Event(d) \in Latests /\ Resource(d)' = Resource(d)
    BY <1>1, <2>1 DEF Latests, Latest, Resource, Event
  <2>3. exposure[Resource(d)] \subseteq snapshot[d] /\ call[d] = 1
    BY <1>1, <2>2 DEF VInv, Truthful, Knows
  <2> QED
    BY <1>1, <1>3, <2>2, <2>3 DEF Knows
<1> QED
  BY <1>1, <1>2, <1>4, QuietVInv

LEMMA AlertVInv ==
    ASSUME VInv, TInv', NEW d \in Deliveries, Claim(d) \/ Post(d) \/ Return(d) \/ Fail(d)
    PROVE  VInv'
<1> USE DEF world, local, table, history, alerts
<1>1. UNCHANGED <<exposure, events, audit>>
  BY DEF Claim, Post, Return, Fail
<1>2. CASE Claim(d) \/ Post(d)
  <2>1. pc'[d] \in {"return", "post"}
    BY <1>2, GotoFacts DEF Claim, Suppressed, Post, VInv
  <2>2. \A x \in Deliveries : x # d => Kept(x)
    BY <1>2 DEF Claim, Suppressed, Post, Goto, Kept, VInv, TInv, TypeOK
  <2> QED
    BY <1>1, <2>1, <2>2, QuietVInv DEF Truthful, Knows
<1>3. ASSUME NEW label \in {"done", "queued", "dead"}, Leave(d, label),
             \A x \in Deliveries : x # d => tries'[x] = tries[x]
      PROVE  VInv'
  <2>1. pc'[d] = label /\ \A x \in Deliveries : x # d => Kept(x)
    BY <1>3, LeaveFacts DEF Kept, VInv
  <2> QED
    BY <1>1, <2>1, QuietVInv DEF Truthful, Knows
<1>4. CASE Return(d)
  BY <1>3, <1>4 DEF Return
<1>5. CASE Fail(d)
  <2>1. \A x \in Deliveries : x # d => tries'[x] = tries[x]
    BY <1>5 DEF Fail, VInv, TInv, TypeOK
  <2> QED
    BY <1>3, <1>5, <2>1 DEF Fail
<1> QED
  BY <1>2, <1>4, <1>5

-----------------------------------------------------------------------------
(* Steps that write a record. *)
LEMMA WriteVInv ==
    ASSUME VInv, TInv', UNCHANGED <<exposure, events>>, NEW d \in Deliveries,
           \A x \in Deliveries : x # d => Kept(x),
           Truthful(d)',
           \A r \in Resources \cup {NoResource}, e \in EventIds :
              e > Len(events) => audit'[<<r, e>>] = audit[<<r, e>>],
           \A e \in Latests :
              \/ audit'[<<events[e].resource, e>>].status = "APPLIED"
              \/ audit'[<<NoResource, e>>].status = "SKIPPED" /\ events[e].told = "named"
              => StatusOf(e) = "APPLIED" \/ FoundBenign(e) \/ exposure[events[e].resource] \in Benign
    PROVE  VInv'
<1>1. Blank'
  BY DEF VInv, Blank
<1>2. \A x \in Deliveries : Truthful(x)'
  BY KeptTruthful, StillShrinks DEF VInv
<1>3. Latests' = Latests
  BY DEF Latests, Latest
<1>4. VerdictIsTrue'
  BY <1>3 DEF VInv, VerdictIsTrue, StatusOf, FoundBenign, Dismissed
<1> QED
  BY <1>1, <1>2, <1>4 DEF VInv

(* What a delivery writes is a record of its own event. *)
LEMMA OwnRecord ==
    ASSUME TInv, NEW d \in Deliveries, pc[d] # "idle",
           NEW q, NEW v, audit' = [audit EXCEPT ![<<q, Event(d)>>] = v]
    PROVE  \A r \in Resources \cup {NoResource}, e \in EventIds :
              e > Len(events) => audit'[<<r, e>>] = audit[<<r, e>>]
<1>1. Event(d) <= Len(events) /\ Event(d) \in Nat /\ Len(events) \in Nat
  BY DeliveryFacts, PipelineAssumption DEF TInv, TypeOK, Sound, EventIds
<1>2. \A e \in EventIds : e > Len(events) => e # Event(d)
  BY <1>1, PipelineAssumption DEF EventIds
<1> QED
  BY <1>2 DEF TInv, TypeOK, Keys

LEMMA RecordVInv == ASSUME VInv, TInv', NEW d \in Deliveries, Record(d) PROVE VInv'
<1> USE DEF world, local, table, history, alerts
<1>1. /\ pc[d] = "record" /\ UNCHANGED <<exposure, events>>
      /\ audit' = [audit EXCEPT ![<<outcome[d].resource, Event(d)>>] =
                       [status |-> "SKIPPED", snapshot |-> {}]]
  BY DEF Record, Key
<1>2. \A x \in Deliveries : x # d => Kept(x)
  BY DEF Record, Goto, Kept, VInv, TInv, TypeOK
<1>3. pc'[d] \in {"return", "claim"}
  BY GotoFacts DEF Record, VInv
<1>4. Truthful(d)'
  BY <1>3 DEF Truthful, Knows
<1>5. ASSUME NEW e \in Latests,
             \/ audit'[<<events[e].resource, e>>].status = "APPLIED"
             \/ audit'[<<NoResource, e>>].status = "SKIPPED" /\ events[e].told = "named"
      PROVE  StatusOf(e) = "APPLIED" \/ FoundBenign(e) \/ exposure[events[e].resource] \in Benign
  <2>1. CASE e = Event(d) /\ outcome[d].resource = NoResource
    <3>1. CASE events[e].told = "named"
      BY <1>1, <2>1, <3>1 DEF VInv, Truthful, Knows, Resource
    <3>2. CASE events[e].told # "named"
      BY <1>1, <1>5, <3>2 DEF StatusOf, VInv, TInv, TypeOK
    <3> QED
      BY <3>1, <3>2
  <2>2. CASE ~(e = Event(d) /\ outcome[d].resource = NoResource)
    <3>1. <<NoResource, e>> # <<outcome[d].resource, Event(d)>>
      BY <2>2
    <3>2. audit'[<<NoResource, e>>] = audit[<<NoResource, e>>]
      BY <1>1, <3>1 DEF VInv, TInv, TypeOK, Keys
    <3>3. audit'[<<events[e].resource, e>>].status = "APPLIED" => StatusOf(e) = "APPLIED"
      BY <1>1 DEF StatusOf, VInv, TInv, TypeOK
    <3> QED
      BY <1>5, <3>2, <3>3 DEF FoundBenign, Dismissed
  <2> QED
    BY <2>1, <2>2
<1>6. \A r \in Resources \cup {NoResource}, e \in EventIds :
         e > Len(events) => audit'[<<r, e>>] = audit[<<r, e>>]
  BY <1>1, OwnRecord DEF VInv
<1> QED
  BY <1>1, <1>2, <1>4, <1>5, <1>6, WriteVInv

LEMMA OpenVInv == ASSUME VInv, TInv', NEW d \in Deliveries, Open(d) PROVE VInv'
<1> USE DEF world, local, table, history, alerts
<1>1. /\ pc[d] = "open" /\ UNCHANGED <<exposure, events, snapshot, call>>
      /\ audit' = [audit EXCEPT ![<<Resource(d), Event(d)>>] =
                       [status |-> "PLANNED", snapshot |-> snapshot[d]]]
  BY DEF Open, PlanKey
<1>2. Resource(d) \in Resources
  BY <1>1, EventFacts DEF VInv
<1>3. \A x \in Deliveries : x # d => Kept(x)
  BY DEF Open, Goto, Decide, Kept, VInv, TInv, TypeOK
<1>4. \/ pc'[d] = "close" /\ outcome'[d].status # "APPLIED"
      \/ pc'[d] = "breaker"
  BY GotoFacts DEF Open, Decide, VInv, TInv, TypeOK
<1>5. Truthful(d)'
  <2>1. SUFFICES ASSUME Event(d) \in Latests' PROVE Knows(d)'
    BY DEF Truthful, Event
  <2>2. Event(d) \in Latests /\ Resource(d)' = Resource(d)
    BY <1>1, <2>1 DEF Latests, Latest, Resource, Event
  <2>3. exposure[Resource(d)] \subseteq snapshot[d] /\ call[d] = 1
    BY <1>1, <2>2 DEF VInv, Truthful, Knows
  <2> QED
    BY <1>1, <1>4, <2>2, <2>3 DEF Knows
<1>6. ASSUME NEW e \in Latests,
             \/ audit'[<<events[e].resource, e>>].status = "APPLIED"
             \/ audit'[<<NoResource, e>>].status = "SKIPPED" /\ events[e].told = "named"
      PROVE  StatusOf(e) = "APPLIED" \/ FoundBenign(e) \/ exposure[events[e].resource] \in Benign
  BY <1>1, <1>6 DEF StatusOf, FoundBenign, Dismissed, VInv, TInv, TypeOK
<1>7. \A r \in Resources \cup {NoResource}, e \in EventIds :
         e > Len(events) => audit'[<<r, e>>] = audit[<<r, e>>]
  BY <1>1, OwnRecord DEF VInv
<1> QED
  BY <1>1, <1>3, <1>5, <1>6, <1>7, WriteVInv

LEMMA CloseVInv == ASSUME VInv, TInv', NEW d \in Deliveries, Close(d) PROVE VInv'
<1> USE DEF world, local, table, history, alerts
<1> DEFINE K == <<outcome[d].resource, Event(d)>>
<1>1. /\ pc[d] = "close" /\ UNCHANGED <<exposure, events>>
      /\ audit' = [audit EXCEPT ![K].status = outcome[d].status]
  BY DEF Close, Key
<1>2. outcome[d].resource \in Resources
  BY <1>1 DEF VInv, TInv, Sound
<1>3. \A x \in Deliveries : x # d => Kept(x)
  BY DEF Close, Goto, Kept, VInv, TInv, TypeOK
<1>4. pc'[d] = "claim"
  BY GotoFacts DEF Close, VInv
<1>5. Truthful(d)'
  BY <1>4 DEF Truthful, Knows
<1>6. \A k \in Keys : k # K => audit'[k] = audit[k]
  BY <1>1 DEF VInv, TInv, TypeOK
<1>7. audit'[K].status = outcome[d].status
  <2>1. K \in Keys
    BY <1>2, DeliveryFacts DEF Keys
  <2> QED
    BY <1>1, <2>1 DEF VInv, TInv, TypeOK
<1>8. ASSUME NEW e \in Latests,
             \/ audit'[<<events[e].resource, e>>].status = "APPLIED"
             \/ audit'[<<NoResource, e>>].status = "SKIPPED" /\ events[e].told = "named"
      PROVE  StatusOf(e) = "APPLIED" \/ FoundBenign(e) \/ exposure[events[e].resource] \in Benign
  <2>1. e \in DOMAIN events /\ e \in EventIds /\ events[e].resource \in Resources
    <3>1. e \in DOMAIN events
      BY DEF Latests
    <3>2. e \in EventIds
      BY <3>1, PipelineAssumption DEF VInv, TInv, TypeOK, EventIds
    <3> QED
      BY <3>1, <3>2, ResourceOfEvent DEF VInv
  <2>2. <<NoResource, e>> \in Keys /\ <<NoResource, e>> # K
    BY <1>2, <2>1, PipelineAssumption DEF Keys
  <2>3. audit'[<<NoResource, e>>] = audit[<<NoResource, e>>]
    BY <1>6, <2>2
  <2>4. CASE <<events[e].resource, e>> = K
    <3>1. e = Event(d)
      BY <2>4
    <3>2. outcome[d].status = "APPLIED" => exposure[events[e].resource] \in Benign
      BY <1>1, <3>1 DEF VInv, Truthful, Knows, Resource
    <3> QED
      BY <1>7, <1>8, <2>3, <2>4, <3>2 DEF FoundBenign, Dismissed
  <2>5. CASE <<events[e].resource, e>> # K
    <3>1. <<events[e].resource, e>> \in Keys
      BY <2>1 DEF Keys
    <3>2. audit'[<<events[e].resource, e>>] = audit[<<events[e].resource, e>>]
      BY <1>6, <2>5, <3>1
    <3> QED
      BY <1>8, <2>3, <3>2 DEF StatusOf, FoundBenign, Dismissed
  <2> QED
    BY <2>4, <2>5
<1>9. \A r \in Resources \cup {NoResource}, e \in EventIds :
         e > Len(events) => audit'[<<r, e>>] = audit[<<r, e>>]
  <2>1. audit' = [audit EXCEPT ![K] = [audit[K] EXCEPT !.status = outcome[d].status]]
    BY <1>1
  <2> QED
    BY <1>1, <2>1, OwnRecord DEF VInv
<1> QED
  BY <1>1, <1>3, <1>5, <1>8, <1>9, WriteVInv

-----------------------------------------------------------------------------
(* The calls of apply. *)
LEMMA CarryShrinks ==
    ASSUME VInv, NEW d \in Deliveries, pc[d] = "apply", NEW label, Carry(d, label)
    PROVE  /\ Shrinks
           /\ exposure'[Resource(d)] = exposure[Resource(d)] \ Target(d)
<1>1. Resource(d) \in Resources
  BY EventFacts DEF VInv
<1>2. exposure' = [exposure EXCEPT ![Resource(d)] = exposure[Resource(d)] \ Target(d)]
  BY DEF Carry
<1>3. \A r \in Resources : exposure'[r] \subseteq exposure[r]
  BY <1>1, <1>2 DEF VInv, TInv, TypeOK
<1>4. /\ Grown /\ events' \in Seq([resource : Resources, self : BOOLEAN, told : Told])
      /\ \A e \in DOMAIN events' : e \notin DOMAIN events => events'[e].self
  BY CarryFacts DEF VInv
<1> QED
  BY <1>1, <1>2, <1>3, <1>4 DEF Shrinks, VInv, TInv, TypeOK

LEMMA ApplyVInv == ASSUME VInv, TInv', NEW d \in Deliveries, Apply(d) PROVE VInv'
<1> USE DEF world, local, table, history, alerts
<1>1. /\ pc[d] = "apply" /\ UNCHANGED <<audit, snapshot, tries>>
      /\ call' = [call EXCEPT ![d] = @ + 1]
  BY DEF Apply
<1>2. PICK label \in {"close", "apply"} :
         /\ Carry(d, label)
         /\ label = "close" => call[d] = Len(Calls)
         /\ label = "apply" => UNCHANGED outcome
         /\ \A x \in Deliveries : x # d => outcome'[x] = outcome[x]
  BY DEF Apply, Decide, VInv, TInv, TypeOK
<1>3. Shrinks /\ exposure'[Resource(d)] = exposure[Resource(d)] \ Target(d)
  BY <1>1, <1>2, CarryShrinks
<1>4. pc'[d] = label /\ \A x \in Deliveries : x # d => Kept(x)
  BY <1>1, <1>2, CarryFacts DEF Kept, VInv, TInv, TypeOK
<1>5. call[d] \in 1 .. Len(Calls) /\ call'[d] = call[d] + 1 /\ Len(Calls) \in Nat
  BY <1>1, CallsFacts DEF VInv, TInv, TypeOK, Sound
<1>6. Truthful(d)'
  <2>1. SUFFICES ASSUME Event(d) \in Latests' PROVE Knows(d)'
    BY DEF Truthful, Event
  <2>2. Event(d) \in Latests /\ events'[Event(d)] = events[Event(d)]
    BY <1>3, <2>1, LatestsShrink DEF VInv
  <2>3. Resource(d)' = Resource(d)
    BY <2>2 DEF Resource, Event
  <2>4. /\ exposure[Resource(d)] \subseteq snapshot[d]
        /\ \A k \in 1 .. (call[d] - 1) : Calls[k] \cap exposure[Resource(d)] = {}
    BY <1>1, <2>2 DEF VInv, Truthful, Knows
  <2>5. exposure'[Resource(d)] \subseteq exposure[Resource(d)]
    BY <1>3
  <2>6. Calls[call[d]] \cap exposure'[Resource(d)] = {}
    BY <1>3, <2>4 DEF Target
  <2>7. \A k \in 1 .. call[d] : Calls[k] \cap exposure'[Resource(d)] = {}
    BY <1>5, <2>4, <2>5, <2>6
  <2>8. CASE label = "close"
    <3>1. exposure'[Resource(d)] \cap Removable = {}
      BY <1>2, <1>5, <2>7, <2>8, PipelineAssumption DEF Removable
    <3>2. exposure'[Resource(d)] \subseteq Parts
      BY <1>1, <2>5, EventFacts DEF VInv, TInv, TypeOK
    <3>3. exposure'[Resource(d)] \in Benign
      BY <3>1, <3>2, BenignAssumption, BenignSmaller
    <3> QED
      BY <1>4, <2>3, <2>8, <3>3 DEF Knows
  <2>9. CASE label = "apply"
    BY <1>1, <1>4, <1>5, <2>3, <2>4, <2>5, <2>7, <2>9 DEF Knows
  <2> QED
    BY <2>8, <2>9
<1> QED
  BY <1>1, <1>3, <1>4, <1>6, FrameVInv

LEMMA ApplyRaisesVInv == ASSUME VInv, TInv', NEW d \in Deliveries, ApplyRaises(d) PROVE VInv'
<1> USE DEF world, local, table, history, alerts
<1>1. /\ pc[d] = "apply" /\ UNCHANGED <<audit, snapshot, tries, call>>
      /\ Decide(d, "FAILED", Resource(d))
  BY DEF ApplyRaises, Raise
<1>2. outcome'[d].status = "FAILED" /\ \A x \in Deliveries : x # d => outcome'[x] = outcome[x]
  BY <1>1 DEF Decide, VInv, TInv, TypeOK
<1>3. CASE Carry(d, "close")
  <2>1. Shrinks
    BY <1>1, <1>3, CarryShrinks
  <2>2. pc'[d] = "close" /\ \A x \in Deliveries : x # d => Kept(x)
    BY <1>1, <1>2, <1>3, CarryFacts DEF Kept, VInv, TInv, TypeOK
  <2> QED
    BY <1>1, <1>2, <2>1, <2>2, FrameVInv DEF Truthful, Knows
<1>4. CASE Goto(d, "close") /\ UNCHANGED <<exposure, events, removed>>
  <2>1. pc'[d] = "close" /\ \A x \in Deliveries : x # d => Kept(x)
    BY <1>1, <1>2, <1>4, GotoFacts DEF Kept, VInv
  <2> QED
    BY <1>1, <1>2, <1>4, <2>1, QuietVInv DEF Truthful, Knows
<1> QED
  BY <1>3, <1>4 DEF ApplyRaises, Raise

-----------------------------------------------------------------------------
LEMMA NextVInv == VInv /\ [Next]_vars => VInv'
<1> SUFFICES ASSUME VInv, [Next]_vars PROVE VInv'
  OBVIOUS
<1>1. TInv'
  BY NextTInv DEF VInv
<1>2. ASSUME NEW d \in Deliveries, Step(d) PROVE VInv'
  BY <1>1, <1>2, StartVInv, PlanVInv, RecordVInv, OpenVInv, BreakerVInv, ApplyVInv,
     ApplyRaisesVInv, CloseVInv, AlertVInv DEF Step
<1>3. CASE UNCHANGED vars
  <2> USE DEF vars, world, local, table, history, alerts
  <2>1. \A x \in Deliveries : Truthful(x)'
    BY <1>3, KeptTruthful, StillShrinks DEF Kept, VInv
  <2>2. Latests' = Latests
    BY <1>3 DEF Latests, Latest
  <2>3. VerdictIsTrue' /\ Blank'
    BY <1>3, <2>2 DEF VInv, VerdictIsTrue, StatusOf, FoundBenign, Dismissed, Blank
  <2> QED
    BY <1>1, <2>1, <2>3 DEF VInv
<1> QED
  BY <1>1, <1>2, <1>3, EnvironmentVInv DEF Next

LEMMA AlwaysVInv == Spec => []VInv
  BY InitVInv, NextVInv, PTL DEF Spec

(* Whatever the audit table calls applied or harmless is harmless, if no   *)
(* one has exposed it since: for any number of resources, events,          *)
(* deliveries and retries.                                                 *)
THEOREM VerdictIsTrueHolds == Spec => []VerdictIsTrue
<1>1. VInv => VerdictIsTrue
  BY DEF VInv
<1> QED
  BY AlwaysVInv, <1>1, PTL
=============================================================================
