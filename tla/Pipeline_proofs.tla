-------------------------- MODULE Pipeline_proofs --------------------------
(***************************************************************************)
(* Theorems of Pipeline, for any resources, events, deliveries, retries    *)
(* and shapes of detection.                                                *)
(***************************************************************************)
EXTENDS Pipeline, SequenceTheorems, TLAPS

(***************************************************************************)
(* Types.  Beyond TypeOK: an event that has not happened has no delivery,  *)
(* a delivery that is not dead has not used up its tries, apply has a call *)
(* left to make, and a delivery past the verdict has one.                  *)
(***************************************************************************)
Live == {"idle", "queued", "done"} \cup InFlight

(* What a delivery needs besides its type. *)
Sound(x) ==
    /\ pc[x] # "idle" => Event(x) <= Len(events)
    /\ pc[x] \in Live => tries[x] < MaxTries
    /\ pc[x] \notin {"close", "claim", "post", "return"} => call[x] <= Len(Calls)
    /\ pc[x] \in {"record", "close", "claim", "post", "return"} => outcome[x].status \in Statuses
    /\ pc[x] \in {"close", "claim", "post"} => outcome[x].resource \in Resources

TInv == TypeOK /\ \A x \in Deliveries : Sound(x)

LEMMA CallsFacts ==
    /\ Len(Calls) \in Nat \ {0}
    /\ \A k \in 1 .. Len(Calls) : Calls[k] \subseteq Parts
<1>1. Calls \in Seq(SUBSET Parts) /\ Calls # <<>>
  BY PipelineAssumption
<1> QED
  BY <1>1

LEMMA DeliveryFacts ==
    ASSUME NEW d \in Deliveries
    PROVE  Event(d) \in EventIds
  BY DEF Deliveries, Event

(* A delivery that has left "idle" is of an event that happened. *)
LEMMA EventFacts ==
    ASSUME TInv, NEW d \in Deliveries, pc[d] # "idle"
    PROVE  /\ Event(d) \in DOMAIN events
           /\ events[Event(d)] \in [resource : Resources, self : BOOLEAN, told : Told]
           /\ Resource(d) \in Resources
           /\ PlanKey(d) \in Keys
<1>1. Event(d) \in 1 .. MaxEvents /\ Event(d) <= Len(events)
  BY DeliveryFacts DEF TInv, Sound, EventIds
<1>2. events \in Seq([resource : Resources, self : BOOLEAN, told : Told])
  BY DEF TInv, TypeOK
<1>3. Event(d) \in 1 .. Len(events)
  BY <1>1, <1>2, PipelineAssumption
<1>4. events[Event(d)] \in [resource : Resources, self : BOOLEAN, told : Told]
  BY <1>2, <1>3, ElementOfSeq
<1> QED
  BY <1>2, <1>3, <1>4, DeliveryFacts DEF Resource, PlanKey, Keys

LEMMA InitTInv == Init => TInv
<1> SUFFICES ASSUME Init PROVE TInv
  OBVIOUS
<1>1. TypeOK
  BY PipelineAssumption, CallsFacts
  DEF Init, TypeOK, NoOutcome, NoRecord, InFlight, Ended, Keys
<1>2. \A x \in Deliveries : Sound(x)
  BY PipelineAssumption, CallsFacts DEF Init, Sound
<1> QED
  BY <1>1, <1>2 DEF TInv

(* What a step of a delivery does to the program counters: its own moves,  *)
(* and nobody else's.                                                      *)
LEMMA GotoFacts ==
    ASSUME TInv, NEW d \in Deliveries, NEW label, Goto(d, label)
    PROVE  /\ pc'[d] = label
           /\ \A x \in Deliveries : x # d => pc'[x] = pc[x]
  BY DEF Goto, TInv, TypeOK

LEMMA LeaveFacts ==
    ASSUME TInv, NEW d \in Deliveries, NEW label, Leave(d, label)
    PROVE  /\ pc'[d] = label /\ snapshot'[d] = {} /\ call'[d] = 1 /\ outcome'[d] = NoOutcome
           /\ \A x \in Deliveries :
                x # d => /\ pc'[x] = pc[x] /\ snapshot'[x] = snapshot[x]
                         /\ call'[x] = call[x] /\ outcome'[x] = outcome[x]
           /\ snapshot' \in [Deliveries -> SUBSET Parts]
           /\ call' \in [Deliveries -> 1 .. Len(Calls) + 1]
           /\ outcome' \in [Deliveries -> [status : Statuses \cup {"ABSENT"},
                                           resource : Resources \cup {NoResource}]]
  BY CallsFacts DEF Leave, Goto, TInv, TypeOK, NoOutcome

(***************************************************************************)
(* The frame of a step: the log of events only grows, and the deliveries   *)
(* other than d keep their state, but for the one that a new event wakes.  *)
(***************************************************************************)
Woken(x) == pc[x] = "idle" /\ pc'[x] = "queued" /\ Event(x) <= Len(events')

Grown ==
    /\ Len(events) <= Len(events')
    /\ \A e \in DOMAIN events : events'[e] = events[e]

Kept(x) ==
    /\ pc'[x] = pc[x] \/ Woken(x)
    /\ tries'[x] = tries[x] /\ snapshot'[x] = snapshot[x]
    /\ call'[x] = call[x] /\ outcome'[x] = outcome[x]

LEMMA StillHappened ==
    ASSUME TInv, Grown, events' \in Seq([resource : Resources, self : BOOLEAN, told : Told]),
           NEW d \in Deliveries, pc[d] # "idle"
    PROVE  Event(d) <= Len(events')
<1>1. Event(d) <= Len(events) /\ Event(d) \in Nat
  BY DeliveryFacts, PipelineAssumption DEF TInv, Sound, EventIds
<1>2. Len(events) \in Nat /\ Len(events') \in Nat /\ Len(events) <= Len(events')
  BY DEF TInv, TypeOK, Grown
<1> QED
  BY <1>1, <1>2

LEMMA KeptSound ==
    ASSUME TInv, Grown, events' \in Seq([resource : Resources, self : BOOLEAN, told : Told]),
           NEW x \in Deliveries, Kept(x)
    PROVE  Sound(x)'
<1>1. Len(events) \in Nat /\ Len(events') \in Nat /\ Event(x) \in Nat
  BY DeliveryFacts, PipelineAssumption DEF TInv, TypeOK, EventIds
<1>2. Sound(x)
  BY DEF TInv
<1>3. (pc'[x] # "idle") => Event(x) <= Len(events')
  BY <1>1, <1>2 DEF Kept, Woken, Grown, Sound
<1>4. CASE pc'[x] = pc[x]
  BY <1>2, <1>3, <1>4 DEF Kept, Sound, Event
<1>5. CASE Woken(x)
  BY <1>2, <1>3, <1>5 DEF Kept, Woken, Sound, Event, Live
<1> QED
  BY <1>4, <1>5 DEF Kept

LEMMA FrameTInv ==
    ASSUME TInv, TypeOK', Grown, NEW d \in Deliveries,
           \A x \in Deliveries : x # d => Kept(x),
           Sound(d)'
    PROVE  TInv'
<1>1. \A x \in Deliveries : Sound(x)'
  BY KeptSound DEF TypeOK
<1> QED
  BY <1>1 DEF TInv

(* The frame when nothing is appended and only d moves. *)
LEMMA OnlyMoves ==
    ASSUME TInv, NEW d \in Deliveries, UNCHANGED events,
           \A x \in Deliveries :
             x # d => /\ pc'[x] = pc[x] /\ tries'[x] = tries[x] /\ snapshot'[x] = snapshot[x]
                      /\ call'[x] = call[x] /\ outcome'[x] = outcome[x]
    PROVE  Grown /\ \A x \in Deliveries : x # d => Kept(x)
  BY DEF Grown, Kept, TInv, TypeOK

(* Somebody exposes r: the log grows by one event, which wakes a delivery  *)
(* of its own unless nobody hears of it.                                   *)
LEMMA ExposeFacts ==
    ASSUME TInv, NEW r \in Resources, Expose(r)
    PROVE  /\ events' \in Seq([resource : Resources, self : BOOLEAN, told : Told])
           /\ Len(events) < MaxEvents
           /\ Len(events') = Len(events) + 1
           /\ DOMAIN events' = DOMAIN events \cup {Len(events) + 1}
           /\ events'[Len(events) + 1].resource = r /\ ~events'[Len(events) + 1].self
           /\ events'[Len(events) + 1].told # "unheard" =>
                 \E y \in Deliveries : Event(y) = Len(events) + 1 /\ pc'[y] = "queued"
           /\ Grown
           /\ pc' \in [Deliveries -> {"idle", "queued"} \cup InFlight \cup Ended]
           /\ \A x \in Deliveries : Kept(x)
           /\ UNCHANGED <<excluded, tries, local, table, history>>
<1> DEFINE n == <<Len(events) + 1, 1>>
<1>1. PICK told \in Tellings : Emit(r, FALSE, told)
  BY DEF Expose
<1> DEFINE new == [resource |-> r, self |-> FALSE, told |-> told]
<1>2. /\ Len(events) < MaxEvents /\ events' = Append(events, new)
      /\ UNCHANGED <<excluded, tries, local, table, history>>
  BY <1>1 DEF Expose, Emit
<1>3. events \in Seq([resource : Resources, self : BOOLEAN, told : Told]) /\ Len(events) \in Nat
  BY DEF TInv, TypeOK
<1>4. new \in [resource : Resources, self : BOOLEAN, told : Told]
  BY PipelineAssumption
<1>5. new.resource = r /\ ~new.self /\ new.told = told
  OBVIOUS
<1> HIDE DEF new
<1>6. /\ events' \in Seq([resource : Resources, self : BOOLEAN, told : Told])
      /\ Len(events') = Len(events) + 1
      /\ DOMAIN events' = DOMAIN events \cup {Len(events) + 1}
      /\ \A e \in DOMAIN events : events'[e] = events[e]
      /\ events'[Len(events) + 1] = new
  BY <1>2, <1>3, <1>4, AppendProperties
<1>7. Grown
  BY <1>3, <1>6 DEF Grown
<1>8. n \in Deliveries /\ Event(n) = Len(events) + 1
  BY <1>2, <1>3, PipelineAssumption DEF Deliveries, EventIds, Event
<1>9. pc[n] = "idle"
  <2>1. ~(Len(events) + 1 <= Len(events))
    BY <1>3
  <2> QED
    BY <1>8, <2>1 DEF TInv, Sound
<1>10. pc' = IF told = "unheard" THEN pc ELSE [pc EXCEPT ![n] = "queued"]
  BY <1>1 DEF Emit
<1> HIDE DEF n
<1>11. pc \in [Deliveries -> {"idle", "queued"} \cup InFlight \cup Ended]
  BY DEF TInv, TypeOK
<1>12. pc' \in [Deliveries -> {"idle", "queued"} \cup InFlight \cup Ended]
  BY <1>10, <1>11
<1>13. \A x \in Deliveries : x # n => pc'[x] = pc[x]
  BY <1>10, <1>11
<1>14. pc'[n] = pc[n] \/ Woken(n)
  BY <1>3, <1>6, <1>8, <1>9, <1>10, <1>11 DEF Woken
<1>15. \A x \in Deliveries : Kept(x)
  BY <1>2, <1>13, <1>14 DEF Kept, local
<1>16. told # "unheard" => pc'[n] = "queued"
  BY <1>8, <1>10, <1>11
<1> QED
  BY <1>2, <1>5, <1>6, <1>7, <1>8, <1>12, <1>15, <1>16

-----------------------------------------------------------------------------
LEMMA EnvironmentTInv == ASSUME TInv, Environment PROVE TInv'
<1> USE DEF world, local, table, history, alerts
<1>1. ASSUME NEW r \in Resources, Expose(r) PROVE TInv'
  <2>1. exposure' \in [Resources -> SUBSET Parts]
    BY <1>1 DEF Expose, TInv, TypeOK
  <2>2. Len(events') <= MaxEvents
    BY <1>1, ExposeFacts, PipelineAssumption DEF TInv, TypeOK
  <2>3. TypeOK'
    BY <1>1, <2>1, <2>2, ExposeFacts DEF TInv, TypeOK
  <2> QED
    BY <1>1, <2>3, ExposeFacts, KeptSound DEF TInv
<1>2. ASSUME NEW r \in Resources, Repair(r) \/ Tag(r) PROVE TInv'
  <2>1. TypeOK'
    BY <1>2 DEF Repair, Tag, TInv, TypeOK
  <2>2. \A x \in Deliveries : Sound(x)'
    BY <1>2, PipelineAssumption DEF TInv, Repair, Tag, Sound, Event
  <2> QED
    BY <2>1, <2>2 DEF TInv
<1>3. ASSUME NEW d \in Deliveries, Duplicate(d) PROVE TInv'
  <2>1. pc[d] = "idle" /\ Event(d) <= Len(events) /\ pc' = [pc EXCEPT ![d] = "queued"]
    BY <1>3 DEF Duplicate, Goto
  <2>2. TypeOK'
    BY <1>3, <2>1 DEF Duplicate, TInv, TypeOK
  <2>3. \A x \in Deliveries : Kept(x)
    BY <1>3, <2>1 DEF Duplicate, Kept, Woken, TInv, TypeOK
  <2>4. Grown
    BY <1>3 DEF Duplicate, Grown, TInv, TypeOK
  <2> QED
    BY <2>2, <2>3, <2>4, FrameTInv, KeptSound DEF TypeOK
<1>4. ASSUME NextWindow \/ \E f \in claimed : DedupExpires(f) PROVE TInv'
  <2>1. TypeOK'
    BY <1>4, PipelineAssumption DEF NextWindow, DedupExpires, TInv, TypeOK
  <2>2. \A x \in Deliveries : Sound(x)'
    BY <1>4, PipelineAssumption DEF TInv, NextWindow, DedupExpires, Sound, Event
  <2> QED
    BY <2>1, <2>2 DEF TInv
<1> QED
  BY <1>1, <1>2, <1>3, <1>4 DEF Environment

(* A carried-out call: what it does to the log and to the other deliveries. *)
LEMMA CarryFacts ==
    ASSUME TInv, NEW d \in Deliveries, pc[d] = "apply", NEW label, Carry(d, label)
    PROVE  /\ events' \in Seq([resource : Resources, self : BOOLEAN, told : Told])
           /\ Len(events') <= MaxEvents
           /\ Grown
           /\ \A e \in DOMAIN events' : e \notin DOMAIN events =>
                 events'[e].self /\ events'[e].resource = Resource(d)
           /\ \A e \in DOMAIN events' : e \notin DOMAIN events =>
                 \E y \in Deliveries : Event(y) = e /\ pc'[y] = "queued"
           /\ pc'[d] = label
           /\ \A x \in Deliveries : x # d => pc'[x] = pc[x] \/ Woken(x)
           /\ label \in InFlight =>
                 pc' \in [Deliveries -> {"idle", "queued"} \cup InFlight \cup Ended]
           /\ exposure' \in [Resources -> SUBSET Parts]
           /\ removed' \in [EventIds -> SUBSET Parts]
<1>1. /\ Resource(d) \in Resources /\ Event(d) \in EventIds
      /\ events \in Seq([resource : Resources, self : BOOLEAN, told : Told]) /\ Len(events) \in Nat
      /\ Len(events) <= MaxEvents
  BY EventFacts, DeliveryFacts DEF TInv, TypeOK
<1>2. exposure' \in [Resources -> SUBSET Parts] /\ removed' \in [EventIds -> SUBSET Parts]
  <2>1. snapshot[d] \subseteq Parts
    BY DEF TInv, TypeOK
  <2> QED
    BY <1>1, <2>1 DEF Carry, Target, TInv, TypeOK
<1>3. CASE SelfEvents /\ Target(d) # {} /\ Len(events) < MaxEvents
  <2> DEFINE n == <<Len(events) + 1, 1>>
             new == [resource |-> Resource(d), self |-> TRUE, told |-> "named"]
  <2>1. events' = Append(events, new) /\ pc' = [pc EXCEPT ![d] = label, ![n] = "queued"]
    BY <1>3 DEF Carry
  <2>2. new \in [resource : Resources, self : BOOLEAN, told : Told]
    BY <1>1 DEF Told
  <2> HIDE DEF new
  <2>3. /\ events' \in Seq([resource : Resources, self : BOOLEAN, told : Told])
        /\ Len(events') = Len(events) + 1
        /\ \A e \in 1 .. Len(events) : events'[e] = events[e]
        /\ events'[Len(events) + 1] = new
    BY <1>1, <2>1, <2>2, AppendProperties
  <2>4. n \in Deliveries /\ Event(n) = Len(events')
    BY <1>1, <1>3, <2>3, PipelineAssumption DEF Deliveries, EventIds, Event
  <2>5. pc[n] = "idle"
    <3>1. ~(Len(events) + 1 <= Len(events))
      BY <1>1
    <3> QED
      BY <2>3, <2>4, <3>1 DEF TInv, Sound
  <2>6. pc'[d] = label /\ pc'[n] = "queued" /\ \A x \in Deliveries : x # d /\ x # n => pc'[x] = pc[x]
    BY <2>1, <2>4, <2>5 DEF TInv, TypeOK
  <2>7. Woken(n)
    BY <1>1, <2>3, <2>4, <2>5, <2>6 DEF Woken
  <2>8. Grown
    BY <1>1, <2>3 DEF Grown
  <2>9. \A e \in DOMAIN events' : e \notin DOMAIN events => e = Len(events) + 1
    BY <1>1, <2>3
  <2>10. \A e \in DOMAIN events' : e \notin DOMAIN events =>
            events'[e].self /\ events'[e].resource = Resource(d)
    BY <2>3, <2>9 DEF new
  <2>11. label \in InFlight =>
            pc' \in [Deliveries -> {"idle", "queued"} \cup InFlight \cup Ended]
    BY <2>1 DEF TInv, TypeOK
  <2>12. Len(events') <= MaxEvents
    BY <1>1, <1>3, <2>3, PipelineAssumption
  <2>13. \A x \in Deliveries : x # d => pc'[x] = pc[x] \/ Woken(x)
    BY <2>6, <2>7
  <2>14. \A e \in DOMAIN events' : e \notin DOMAIN events =>
            \E y \in Deliveries : Event(y) = e /\ pc'[y] = "queued"
    BY <2>3, <2>4, <2>6, <2>9
  <2> HIDE DEF n
  <2> QED
    BY <1>2, <2>3, <2>6, <2>8, <2>10, <2>11, <2>12, <2>13, <2>14
<1>4. CASE ~(SelfEvents /\ Target(d) # {} /\ Len(events) < MaxEvents)
  <2>1. events' = events /\ pc' = [pc EXCEPT ![d] = label]
    BY <1>4 DEF Carry, Goto
  <2> QED
    BY <1>1, <1>2, <2>1 DEF Grown, TInv, TypeOK
<1> QED
  BY <1>3, <1>4

-----------------------------------------------------------------------------
(* The steps of a delivery, one by one. *)
LEMMA StartTInv == ASSUME TInv, NEW d \in Deliveries, Start(d) PROVE TInv'
<1> USE DEF world, local, table, history, alerts
<1>0. pc[d] = "queued" /\ Event(d) <= Len(events) /\ tries[d] < MaxTries /\ call[d] <= Len(Calls)
  BY DEF Start, TInv, Sound, Live
<1>1. TypeOK' /\ Sound(d)'
  <2>1. CASE Own(d)
    <3>1. Decide(d, "SKIPPED", NoResource) /\ Goto(d, "record")
      BY <2>1 DEF Start
    <3>2. outcome' \in [Deliveries -> [status : Statuses \cup {"ABSENT"},
                                        resource : Resources \cup {NoResource}]]
      BY <3>1 DEF Decide, TInv, TypeOK, Statuses
    <3>3. TypeOK'
      BY <3>1, <3>2 DEF Start, Goto, TInv, TypeOK, InFlight
    <3>4. Sound(d)'
      BY <1>0, <3>1 DEF Start, Goto, Decide, TInv, TypeOK, Sound, Event, InFlight, Live, Statuses
    <3> QED
      BY <3>3, <3>4
  <2>2. CASE ~Own(d)
    BY <1>0, <2>2 DEF Start, Goto, TInv, TypeOK, Sound, Event, InFlight, Live
  <2> QED
    BY <2>1, <2>2
<1> QED
  BY <1>1, FrameTInv, OnlyMoves DEF Start, Goto, Decide, TInv, TypeOK

LEMMA PlanTInv ==
    ASSUME TInv, NEW d \in Deliveries,
           PlanNameless(d) \/ PlanBenign(d) \/ PlanExcluded(d) \/ PlanDangerous(d)
    PROVE  TInv'
<1> USE DEF world, local, table, history, alerts
<1>0. pc[d] = "plan" /\ Resource(d) \in Resources
  BY EventFacts DEF PlanNameless, PlanBenign, PlanExcluded, PlanDangerous, Inspect
<1>1. CASE PlanNameless(d) \/ PlanBenign(d)
  <2>1. Decide(d, "SKIPPED", NoResource) /\ Goto(d, "record")
        /\ UNCHANGED <<world, tries, snapshot, call, table, history>>
    BY <1>1 DEF PlanNameless, PlanBenign
  <2>2. TypeOK' /\ Sound(d)'
    BY <1>0, <2>1 DEF Goto, Decide, TInv, TypeOK, Sound, Event, InFlight, Live, Statuses
  <2> QED
    BY <2>1, <2>2, FrameTInv, OnlyMoves DEF Goto, Decide, TInv, TypeOK
<1>2. CASE PlanExcluded(d)
  <2>1. TypeOK' /\ Sound(d)'
    BY <1>0, <1>2 DEF PlanExcluded, Goto, Decide, TInv, TypeOK, Sound, Event, InFlight, Live, Statuses
  <2> QED
    BY <1>2, <2>1, FrameTInv, OnlyMoves DEF PlanExcluded, Goto, Decide, TInv, TypeOK
<1>3. CASE PlanDangerous(d)
  <2>1. TypeOK' /\ Sound(d)'
    BY <1>0, <1>3, CallsFacts
    DEF PlanDangerous, Goto, TInv, TypeOK, Sound, Event, InFlight, Live, Statuses
  <2> QED
    BY <1>3, <2>1, FrameTInv, OnlyMoves DEF PlanDangerous, Goto, TInv, TypeOK
<1> QED
  BY <1>1, <1>2, <1>3

LEMMA OweFacts ==
    ASSUME TInv, NEW d \in Deliveries, outcome[d].status \in Statuses, Owe(d)
    PROVE  owed' \subseteq EventIds \X Statuses
  BY DeliveryFacts DEF Owe, TInv, TypeOK

LEMMA RecordTInv == ASSUME TInv, NEW d \in Deliveries, Record(d) PROVE TInv'
<1> USE DEF world, local, table, history, alerts
<1>0. pc[d] = "record" /\ Key(d) \in Keys /\ tries[d] < MaxTries
  BY DeliveryFacts DEF Record, TInv, TypeOK, Sound, Key, Keys, Live, InFlight
<1>1. audit' \in [Keys -> [status : Statuses \cup {"PLANNED", "ABSENT"}, snapshot : SUBSET Parts]]
  BY <1>0 DEF Record, TInv, TypeOK, Statuses
<1>a. owed' \subseteq EventIds \X Statuses
  BY <1>0, OweFacts DEF Record, TInv, TypeOK, Sound
<1>2. TypeOK'
  BY <1>0, <1>1, <1>a DEF Record, Goto, TInv, TypeOK, InFlight
<1>3. Sound(d)'
  BY <1>0 DEF Record, Goto, TInv, TypeOK, Sound, Event, InFlight, Live
<1> QED
  BY <1>2, <1>3, FrameTInv, OnlyMoves DEF Record, Goto, TInv, TypeOK

LEMMA OpenTInv == ASSUME TInv, NEW d \in Deliveries, Open(d) PROVE TInv'
<1> USE DEF world, local, table, history, alerts
<1>0. pc[d] = "open" /\ Resource(d) \in Resources /\ PlanKey(d) \in Keys /\ Event(d) \in EventIds
  BY EventFacts, DeliveryFacts DEF Open
<1>1. audit' \in [Keys -> [status : Statuses \cup {"PLANNED", "ABSENT"}, snapshot : SUBSET Parts]]
  BY <1>0 DEF Open, TInv, TypeOK
<1>2. written' \in [EventIds -> SUBSET Parts]
  BY <1>0 DEF Open, TInv, TypeOK
<1>3. Event(d) <= Len(events) /\ tries[d] < MaxTries /\ call[d] <= Len(Calls)
  BY <1>0 DEF TInv, Sound, Live, InFlight
<1>4. CASE Resource(d) \in Manual
  <2>b. outcome' = [outcome EXCEPT ![d] = [status |-> "ESCALATED", resource |-> Resource(d)]]
    BY <1>4 DEF Open, Decide
  <2>a. outcome' \in [Deliveries -> [status : Statuses \cup {"ABSENT"},
                                      resource : Resources \cup {NoResource}]]
    BY <1>0, <2>b DEF TInv, TypeOK, Statuses
  <2>1. TypeOK'
    BY <1>0, <1>1, <1>2, <1>4, <2>a DEF Open, Goto, TInv, TypeOK, InFlight
  <2>2. Sound(d)'
    BY <1>0, <1>3, <1>4 DEF Open, Goto, Decide, TInv, TypeOK, Sound, Event, Live, Statuses
  <2> QED
    BY <1>4, <2>1, <2>2, FrameTInv, OnlyMoves DEF Open, Goto, Decide, TInv, TypeOK
<1>5. CASE Resource(d) \notin Manual
  <2>1. TypeOK'
    BY <1>0, <1>1, <1>2, <1>5 DEF Open, Goto, TInv, TypeOK, InFlight
  <2>2. Sound(d)'
    BY <1>0, <1>3, <1>5 DEF Open, Goto, TInv, TypeOK, Sound, Event
  <2> QED
    BY <1>5, <2>1, <2>2, FrameTInv, OnlyMoves DEF Open, Goto, TInv, TypeOK
<1> QED
  BY <1>4, <1>5

LEMMA BreakerTInv == ASSUME TInv, NEW d \in Deliveries, Breaker(d) PROVE TInv'
<1> USE DEF world, local, table, history, alerts
<1>0. pc[d] = "breaker" /\ Resource(d) \in Resources
  BY EventFacts DEF Breaker
<1>1. Event(d) <= Len(events) /\ tries[d] < MaxTries /\ call[d] <= Len(Calls)
  BY <1>0 DEF TInv, Sound, Live, InFlight
<1>2. attempts' \in Nat
  BY DEF Breaker, TInv, TypeOK
<1>3. ASSUME NEW status \in {"BLOCKED", "DRY_RUN"},
             Decide(d, status, Resource(d)), Goto(d, "close")
      PROVE  TInv'
  <2>1. TypeOK'
    BY <1>0, <1>2, <1>3 DEF Breaker, Goto, Decide, TInv, TypeOK, InFlight, Statuses
  <2>2. Sound(d)'
    BY <1>0, <1>1, <1>3 DEF Breaker, Goto, Decide, TInv, TypeOK, Sound, Event, Live, Statuses
  <2> QED
    BY <1>3, <2>1, <2>2, FrameTInv, OnlyMoves DEF Breaker, Goto, Decide, TInv, TypeOK
<1>4. ASSUME UNCHANGED outcome, Goto(d, "apply") PROVE TInv'
  <2>1. TypeOK'
    BY <1>2, <1>4 DEF Breaker, Goto, TInv, TypeOK, InFlight
  <2>2. Sound(d)'
    BY <1>1, <1>4 DEF Breaker, Goto, TInv, TypeOK, Sound, Event
  <2> QED
    BY <1>4, <2>1, <2>2, FrameTInv, OnlyMoves DEF Breaker, Goto, TInv, TypeOK
<1> QED
  BY <1>3, <1>4 DEF Breaker

LEMMA ApplyTInv == ASSUME TInv, NEW d \in Deliveries, Apply(d) PROVE TInv'
<1> USE DEF world, local, table, history, alerts
<1>a. pc[d] = "apply" /\ call' = [call EXCEPT ![d] = @ + 1]
  BY DEF Apply
<1>b. Resource(d) \in Resources
  BY <1>a, EventFacts
<1>c. call[d] <= Len(Calls) /\ tries[d] < MaxTries
  BY <1>a DEF TInv, Sound, Live, InFlight
<1>d. call[d] \in 1 .. Len(Calls) + 1
  BY DEF TInv, TypeOK
<1>0. /\ pc[d] = "apply" /\ Resource(d) \in Resources
      /\ call[d] \in 1 .. Len(Calls) /\ call' = [call EXCEPT ![d] = @ + 1]
      /\ tries[d] < MaxTries
  BY <1>a, <1>b, <1>c, <1>d, CallsFacts
<1>1. call' \in [Deliveries -> 1 .. Len(Calls) + 1]
  BY <1>0, CallsFacts DEF TInv, TypeOK
<1>2. CASE call[d] = Len(Calls)
  <2>1. Carry(d, "close") /\ Decide(d, "APPLIED", Resource(d))
    BY <1>2 DEF Apply
  <2>2. TypeOK'
    BY <1>0, <1>1, <2>1, CarryFacts DEF Apply, Decide, TInv, TypeOK, InFlight, Statuses
  <2>3. Event(d) <= Len(events')
    BY <1>0, <2>1, CarryFacts, StillHappened
  <2>4. Sound(d)'
    BY <1>0, <2>1, <2>3, CarryFacts DEF Apply, Decide, TInv, TypeOK, Sound, Event, Statuses
  <2>5. \A x \in Deliveries : x # d => Kept(x)
    BY <1>0, <2>1, CarryFacts DEF Apply, Decide, Kept, TInv, TypeOK
  <2> QED
    BY <1>0, <2>1, <2>2, <2>4, <2>5, CarryFacts, FrameTInv
<1>3. CASE call[d] # Len(Calls)
  <2>1. Carry(d, "apply") /\ UNCHANGED outcome
    BY <1>3 DEF Apply
  <2>2. TypeOK'
    BY <1>0, <1>1, <2>1, CarryFacts DEF Apply, TInv, TypeOK, InFlight
  <2>3. Event(d) <= Len(events')
    BY <1>0, <2>1, CarryFacts, StillHappened
  <2>4. Sound(d)'
    BY <1>0, <1>3, <2>1, <2>3, CarryFacts, CallsFacts DEF Apply, TInv, TypeOK, Sound, Event, Live, InFlight
  <2>5. \A x \in Deliveries : x # d => Kept(x)
    BY <1>0, <2>1, CarryFacts DEF Apply, Kept, TInv, TypeOK
  <2> QED
    BY <1>0, <2>1, <2>2, <2>4, <2>5, CarryFacts, FrameTInv
<1> QED
  BY <1>2, <1>3

LEMMA ApplyRaisesTInv == ASSUME TInv, NEW d \in Deliveries, ApplyRaises(d) PROVE TInv'
<1> USE DEF world, local, table, history, alerts
<1>0. /\ pc[d] = "apply" /\ Decide(d, "FAILED", Resource(d))
      /\ UNCHANGED <<excluded, tries, snapshot, call, table, alerts, written>>
  BY DEF ApplyRaises, Raise
<1>1. Resource(d) \in Resources /\ tries[d] < MaxTries
  BY <1>0, EventFacts DEF TInv, Sound, Live, InFlight
<1>2. CASE Carry(d, "close")
  <2>1. TypeOK'
    BY <1>0, <1>1, <1>2, CarryFacts DEF Decide, TInv, TypeOK, InFlight, Statuses
  <2>2. Event(d) <= Len(events')
    BY <1>0, <1>2, CarryFacts, StillHappened
  <2>3. Sound(d)'
    BY <1>0, <1>1, <1>2, <2>2, CarryFacts DEF Decide, TInv, TypeOK, Sound, Event, Statuses
  <2>4. \A x \in Deliveries : x # d => Kept(x)
    BY <1>0, <1>2, CarryFacts DEF Decide, Kept, TInv, TypeOK
  <2> QED
    BY <1>0, <1>2, <2>1, <2>3, <2>4, CarryFacts, FrameTInv
<1>3. CASE Goto(d, "close") /\ UNCHANGED <<exposure, events, removed>>
  <2>1. TypeOK'
    BY <1>0, <1>1, <1>3 DEF Goto, Decide, TInv, TypeOK, InFlight, Statuses
  <2>2. Sound(d)'
    BY <1>0, <1>1, <1>3 DEF Goto, Decide, TInv, TypeOK, Sound, Event, Statuses
  <2> QED
    BY <1>0, <1>3, <2>1, <2>2, FrameTInv, OnlyMoves DEF Goto, Decide, TInv, TypeOK
<1> QED
  BY <1>2, <1>3 DEF ApplyRaises, Raise

LEMMA CloseTInv == ASSUME TInv, NEW d \in Deliveries, Close(d) PROVE TInv'
<1> USE DEF world, local, table, history, alerts
<1>0. pc[d] = "close" /\ Key(d) \in Keys /\ outcome[d].status \in Statuses
  BY DeliveryFacts DEF Close, TInv, TypeOK, Sound, Key, Keys
<1>1. audit' \in [Keys -> [status : Statuses \cup {"PLANNED", "ABSENT"}, snapshot : SUBSET Parts]]
  BY <1>0 DEF Close, TInv, TypeOK
<1>a. owed' \subseteq EventIds \X Statuses
  BY <1>0, OweFacts DEF Close
<1>2. TypeOK'
  BY <1>0, <1>1, <1>a DEF Close, Goto, TInv, TypeOK, InFlight
<1>3. Sound(d)'
  BY <1>0 DEF Close, Goto, TInv, TypeOK, Sound, Event, InFlight, Live
<1> QED
  BY <1>2, <1>3, FrameTInv, OnlyMoves DEF Close, Goto, TInv, TypeOK

LEMMA ClaimTInv == ASSUME TInv, NEW d \in Deliveries, Claim(d) PROVE TInv'
<1> USE DEF world, local, table, history, alerts
<1>0. /\ pc[d] = "claim" /\ Fingerprint(d) \in Resources \X Statuses
      /\ tries[d] < MaxTries /\ Event(d) <= Len(events)
  BY DEF Claim, TInv, Sound, Fingerprint, Live, InFlight
<1>1. /\ claimed' \subseteq Resources \X Statuses
      /\ muted' \subseteq Resources \X Statuses
      /\ owed' \subseteq EventIds \X Statuses
  BY <1>0 DEF Claim, Suppressed, TInv, TypeOK
<1>a. Goto(d, "return") \/ Goto(d, "post")
  BY DEF Claim, Suppressed
<1>b. UNCHANGED <<world, tries, local, audit, attempts, windows, sent, written, removed>>
  BY DEF Claim
<1>2. TypeOK'
  BY <1>0, <1>1, <1>a, <1>b DEF Goto, TInv, TypeOK, InFlight
<1>3. Sound(d)'
  BY <1>0, <1>a, <1>b DEF Goto, TInv, TypeOK, Sound, Event, InFlight, Live
<1> QED
  BY <1>2, <1>3, <1>a, <1>b, FrameTInv, OnlyMoves DEF Goto, TInv, TypeOK

LEMMA PostTInv == ASSUME TInv, NEW d \in Deliveries, Post(d) PROVE TInv'
<1> USE DEF world, local, table, history, alerts
<1>0. pc[d] = "post" /\ Fingerprint(d) \in Resources \X Statuses
  BY DEF Post, TInv, Sound, Fingerprint
<1>1. sent' \subseteq Resources \X Statuses /\ owed' \subseteq EventIds \X Statuses
  BY <1>0 DEF Post, TInv, TypeOK
<1>2. TypeOK'
  BY <1>0, <1>1 DEF Post, Goto, TInv, TypeOK, InFlight
<1>3. Sound(d)'
  BY <1>0 DEF Post, Goto, TInv, TypeOK, Sound, Event, InFlight, Live
<1> QED
  BY <1>2, <1>3, FrameTInv, OnlyMoves DEF Post, Goto, TInv, TypeOK

LEMMA ReturnTInv == ASSUME TInv, NEW d \in Deliveries, Return(d) PROVE TInv'
<1> USE DEF world, local, table, history, alerts
<1>0. /\ pc[d] = "return" /\ Event(d) <= Len(events) /\ Leave(d, "done")
      /\ tries'[d] < MaxTries
  BY DEF Return, TInv, Sound, Live, InFlight
<1>1. pc' \in [Deliveries -> {"idle", "queued"} \cup InFlight \cup Ended]
  BY <1>0 DEF Leave, Goto, TInv, TypeOK, Ended
<1>2. TypeOK'
  BY <1>0, <1>1, LeaveFacts DEF Return, TInv, TypeOK
<1>3. Sound(d)'
  BY <1>0, LeaveFacts, CallsFacts DEF Return, Sound, Event, InFlight, Live
<1> QED
  BY <1>0, <1>2, <1>3, LeaveFacts, FrameTInv, OnlyMoves DEF Return

LEMMA FailTInv == ASSUME TInv, NEW d \in Deliveries, Fail(d) PROVE TInv'
<1> USE DEF world, local, table, history, alerts
<1>0. pc[d] \in InFlight /\ tries[d] < MaxTries /\ Event(d) <= Len(events) /\ tries[d] \in Nat
  BY PipelineAssumption DEF Fail, TInv, TypeOK, Sound, Live, InFlight
<1>1. tries' = [tries EXCEPT ![d] = @ + 1] /\ tries' \in [Deliveries -> 0 .. MaxTries]
  BY <1>0, PipelineAssumption DEF Fail, TInv, TypeOK
<1> DEFINE label == IF tries[d] + 1 < MaxTries THEN "queued" ELSE "dead"
<1>2. Leave(d, label)
  BY DEF Fail
<1>3. TypeOK'
  BY <1>1, <1>2, LeaveFacts DEF Fail, Leave, Goto, TInv, TypeOK, Ended
<1>4. tries'[d] = tries[d] + 1
  BY <1>1 DEF TInv, TypeOK
<1>5. Sound(d)'
  BY <1>0, <1>2, <1>4, LeaveFacts, CallsFacts DEF Fail, Sound, Event, InFlight, Live
<1>6. \A x \in Deliveries : x # d => tries'[x] = tries[x]
  BY <1>1 DEF TInv, TypeOK
<1> QED
  BY <1>2, <1>3, <1>5, <1>6, LeaveFacts, FrameTInv, OnlyMoves DEF Fail

LEMMA NextTInv == TInv /\ [Next]_vars => TInv'
<1> SUFFICES ASSUME TInv, [Next]_vars PROVE TInv'
  OBVIOUS
<1>1. ASSUME NEW d \in Deliveries, Step(d) PROVE TInv'
  BY <1>1, StartTInv, PlanTInv, RecordTInv, OpenTInv, BreakerTInv, ApplyTInv, ApplyRaisesTInv,
     CloseTInv, ClaimTInv, PostTInv, ReturnTInv, FailTInv DEF Step
<1>2. CASE UNCHANGED vars
  BY <1>2 DEF vars, world, local, table, history, alerts, TInv, TypeOK, Sound, Event
<1> QED
  BY <1>1, <1>2, EnvironmentTInv DEF Next

(* The variables of Pipeline keep their types. *)
THEOREM TypeCorrect == Spec => []TypeOK
<1>1. TInv => TypeOK
  BY DEF TInv
<1> QED
  BY InitTInv, NextTInv, <1>1, PTL DEF Spec

(***************************************************************************)
(* Snapshot first.  A delivery that may still remove something has its     *)
(* whole snapshot in the table; what it removes lies in that snapshot.     *)
(***************************************************************************)
Evidenced(x) == pc[x] \in {"breaker", "apply"} => snapshot[x] \subseteq written[Event(x)]

SInv == TInv /\ SnapshotFirst /\ \A x \in Deliveries : Evidenced(x)

LEMMA InitSInv == Init => SInv
<1>1. Init => SnapshotFirst /\ \A x \in Deliveries : Evidenced(x)
  BY DEF Init, SnapshotFirst, Evidenced
<1> QED
  BY <1>1, InitTInv DEF SInv

(* Every step but Open and the calls of apply leaves the history alone. *)
LEMMA QuietSInv ==
    ASSUME SInv, TInv', UNCHANGED <<written, removed>>,
           \A x \in Deliveries :
              pc'[x] \in {"breaker", "apply"} =>
                 pc[x] \in {"breaker", "apply"} /\ snapshot'[x] = snapshot[x]
    PROVE  SInv'
  BY DEF SInv, SnapshotFirst, Evidenced, Event

LEMMA OpenSInv == ASSUME SInv, TInv', NEW d \in Deliveries, Open(d) PROVE SInv'
<1> USE DEF world, local, table, history, alerts
<1>1. /\ UNCHANGED <<removed, snapshot>>
      /\ written' = [written EXCEPT ![Event(d)] = @ \cup snapshot[d]]
  BY DEF Open
<1>2. Event(d) \in EventIds
  BY DeliveryFacts
<1>3. /\ \A e \in EventIds : written[e] \subseteq written'[e]
      /\ snapshot[d] \subseteq written'[Event(d)]
  BY <1>1, <1>2 DEF SInv, TInv, TypeOK
<1>4. \A x \in Deliveries : x # d => pc'[x] = pc[x]
  BY DEF Open, Goto, SInv, TInv, TypeOK
<1>5. SnapshotFirst'
  BY <1>1, <1>3 DEF SInv, SnapshotFirst
<1>6. ASSUME NEW x \in Deliveries, pc'[x] \in {"breaker", "apply"}
      PROVE  snapshot'[x] \subseteq written'[Event(x)]
  <2>1. CASE x = d
    BY <1>1, <1>3, <2>1
  <2>2. CASE x # d
    BY <1>1, <1>3, <1>4, <1>6, <2>2, DeliveryFacts DEF SInv, Evidenced
  <2> QED
    BY <2>1, <2>2
<1> QED
  BY <1>5, <1>6 DEF SInv, Evidenced, Event

LEMMA ApplySInv ==
    ASSUME SInv, TInv', NEW d \in Deliveries, Apply(d) \/ ApplyRaises(d)
    PROVE  SInv'
<1> USE DEF world, local, table, history, alerts
<1>1. pc[d] = "apply" /\ UNCHANGED <<written, snapshot>>
  BY DEF Apply, ApplyRaises, Raise
<1>2. Event(d) \in EventIds /\ snapshot[d] \subseteq written[Event(d)]
  BY <1>1, DeliveryFacts DEF SInv, Evidenced
<1>3. PICK label \in {"close", "apply"} :
         Carry(d, label) \/ (Goto(d, label) /\ UNCHANGED <<exposure, events, removed>>)
  BY DEF Apply, ApplyRaises, Raise
<1>4. CASE Carry(d, label)
  <2>1. removed' = [removed EXCEPT ![Event(d)] =
                       removed[Event(d)] \cup (Target(d) \cap exposure[Resource(d)])]
    BY <1>4 DEF Carry
  <2>2. SnapshotFirst'
    BY <1>1, <1>2, <2>1 DEF SInv, SnapshotFirst, Target, TInv, TypeOK
  <2>3. \A x \in Deliveries : x # d => pc'[x] = pc[x] \/ pc'[x] = "queued"
    BY <1>1, <1>4, CarryFacts DEF Woken, SInv
  <2>4. \A x \in Deliveries : Evidenced(x)'
    BY <1>1, <1>2, <2>3 DEF SInv, Evidenced, Event
  <2> QED
    BY <2>2, <2>4 DEF SInv
<1>5. CASE Goto(d, label) /\ UNCHANGED <<exposure, events, removed>>
  <2>1. \A x \in Deliveries : x # d => pc'[x] = pc[x]
    BY <1>5, GotoFacts DEF SInv
  <2> QED
    BY <1>1, <1>5, <2>1, QuietSInv
<1> QED
  BY <1>3, <1>4, <1>5

LEMMA NextSInv == SInv /\ [Next]_vars => SInv'
<1> SUFFICES ASSUME SInv, [Next]_vars PROVE SInv'
  OBVIOUS
<1> USE DEF world, local, table, history, alerts
<1>1. TInv'
  BY NextTInv DEF SInv
<1>2. ASSUME NEW d \in Deliveries, Step(d) PROVE SInv'
  <2>1. CASE Open(d)
    BY <1>1, <2>1, OpenSInv
  <2>2. CASE Apply(d) \/ ApplyRaises(d)
    BY <1>1, <2>2, ApplySInv
  <2>3. CASE Start(d) \/ PlanNameless(d) \/ PlanBenign(d) \/ PlanExcluded(d)
    BY <1>1, <2>3, QuietSInv, GotoFacts DEF Start, PlanNameless, PlanBenign, PlanExcluded, SInv
  <2>4. CASE PlanDangerous(d)
    <3>1. \A x \in Deliveries : x # d => pc'[x] = pc[x] /\ snapshot'[x] = snapshot[x]
      BY <2>4, GotoFacts DEF PlanDangerous, SInv, TInv, TypeOK
    <3>2. pc'[d] = "open" /\ UNCHANGED <<written, removed>>
      BY <2>4, GotoFacts DEF PlanDangerous, SInv
    <3> QED
      BY <1>1, <3>1, <3>2, QuietSInv
  <2>5. CASE Breaker(d)
    <3>1. \A x \in Deliveries : x # d => pc'[x] = pc[x]
      BY <2>5, GotoFacts DEF Breaker, SInv
    <3>2. pc[d] = "breaker" /\ UNCHANGED <<snapshot, written, removed>>
      BY <2>5 DEF Breaker
    <3> QED
      BY <1>1, <3>1, <3>2, QuietSInv
  <2>6. CASE Record(d) \/ Close(d) \/ Claim(d) \/ Post(d)
    BY <1>1, <2>6, QuietSInv, GotoFacts DEF Record, Close, Claim, Suppressed, Post, SInv
  <2>7. CASE Return(d) \/ Fail(d)
    BY <1>1, <2>7, QuietSInv, LeaveFacts DEF Return, Fail, SInv
  <2> QED
    BY <1>2, <2>1, <2>2, <2>3, <2>4, <2>5, <2>6, <2>7 DEF Step
<1>3. CASE Environment
  <2>1. UNCHANGED <<written, removed, snapshot>>
    BY <1>3 DEF Environment, Expose, Repair, Tag, Duplicate, NextWindow, DedupExpires
  <2>2. \A x \in Deliveries : pc'[x] \in {"breaker", "apply"} => pc'[x] = pc[x]
    BY <1>3
    DEF Environment, Expose, Emit, Repair, Tag, Duplicate, Goto, NextWindow, DedupExpires,
        SInv, TInv, TypeOK
  <2> QED
    BY <1>1, <2>1, <2>2, QuietSInv
<1>4. CASE UNCHANGED vars
  BY <1>1, <1>4, QuietSInv DEF vars
<1> QED
  BY <1>2, <1>3, <1>4 DEF Next

(* Whatever is removed on account of an event was first put into a         *)
(* snapshot under the key of that event.                                   *)
THEOREM SnapshotFirstHolds == Spec => []SnapshotFirst
<1>1. SInv => SnapshotFirst
  BY DEF SInv
<1> QED
  BY InitSInv, NextSInv, <1>1, PTL DEF Spec
=============================================================================
