----------------------- MODULE CircuitBreaker_proofs -----------------------
(***************************************************************************)
(* The cap of CircuitBreaker, proved for any finite set of invocations,    *)
(* any limit, any window and any timeout no longer than a window.          *)
(***************************************************************************)
EXTENDS CircuitBreaker, FiniteSetTheorems, TLAPS

(* A moment lies in the window of its own start, which is a past moment.   *)
LEMMA WindowOfMoment ==
    ASSUME NEW at \in Times
    PROVE  /\ WindowStart(at) \in Times
           /\ WindowStart(at) <= at
           /\ at < WindowStart(at) + WindowSeconds
<1>1. at \in Nat /\ at <= MaxTime /\ MaxTime \in Nat
  BY BreakerAssumption DEF Times
<1>2. at % WindowSeconds \in 0 .. (WindowSeconds - 1)
  BY <1>1, BreakerAssumption
<1>3. at = WindowSeconds * (at \div WindowSeconds) + (at % WindowSeconds)
  BY <1>1, BreakerAssumption
<1>4. at \div WindowSeconds \in Nat
  BY <1>1, BreakerAssumption
<1>5. WindowSeconds * (at \div WindowSeconds) \in Nat
  BY <1>4, BreakerAssumption
<1>6. at % WindowSeconds <= at
  BY <1>1, <1>2, <1>3, <1>5, BreakerAssumption
<1> QED
  BY <1>1, <1>2, <1>6, BreakerAssumption DEF WindowStart, Times

(* The moments of a span as long as a window lie in two windows at most.   *)
LEMMA SpanMeetsTwoWindows ==
    ASSUME NEW t \in Times, NEW at \in Times,
           t <= at, at <= t + WindowSeconds - 1
    PROVE  \/ WindowStart(at) = WindowStart(t)
           \/ WindowStart(at) = WindowStart(t) + WindowSeconds
<1> DEFINE W == WindowSeconds
           p == t \div W
           q == at \div W
<1>1. t \in Nat /\ at \in Nat /\ W \in Nat \ {0}
  BY BreakerAssumption DEF Times
<1>2. p \in Nat /\ q \in Nat
  BY <1>1
<1>3. WindowStart(t) = W * p /\ WindowStart(at) = W * q
  <2>1. t = W * p + (t % W) /\ at = W * q + (at % W)
    BY <1>1
  <2>2. t % W \in Nat /\ at % W \in Nat /\ W * p \in Nat /\ W * q \in Nat
    BY <1>1, <1>2
  <2> QED
    BY <2>1, <2>2, <1>1 DEF WindowStart
<1>4. W * p <= t /\ t < W * p + W /\ W * q <= at /\ at < W * q + W
  BY <1>3, WindowOfMoment
<1>5. W * q < W * p + 2 * W /\ W * p < W * q + W
  <2>1. W * p \in Nat /\ W * q \in Nat
    BY <1>1, <1>2
  <2> QED
    BY <2>1, <1>1, <1>4
<1>6. q < p + 2 /\ p < q + 1
  <2>1. W * q < W * (p + 2) /\ W * p < W * (q + 1)
    BY <1>1, <1>2, <1>5
  <2> QED
    BY <2>1, <1>1, <1>2
<1>7. q = p \/ q = p + 1
  BY <1>2, <1>6
<1>8. W * (p + 1) = W * p + W
  BY <1>1, <1>2
<1> QED
  BY <1>3, <1>7, <1>8

-----------------------------------------------------------------------------
(***************************************************************************)
(* The inductive invariant.  A count once answered is either still covered *)
(* by the item it came from, or so old that nobody can write to that       *)
(* window any more: a write reaches the table at most TimeoutSeconds after *)
(* the clock was read, and the item outlives its window by that much.      *)
(***************************************************************************)
MomentsPast == \A i \in Invocations : moment[i] <= now

CountsCovered ==
    \A i \in Invocations :
        pc[i] = "answered" =>
            /\ count[i] >= 1
            /\ \/ count[i] <= attempts[WindowStart(moment[i])]
               \/ now > ExpiresAt(WindowStart(moment[i]))

CountsDistinct ==
    \A i, j \in Invocations :
        /\ pc[i] = "answered" /\ pc[j] = "answered" /\ i # j
        /\ WindowStart(moment[i]) = WindowStart(moment[j])
        => count[i] # count[j]

IInv == TypeOK /\ MomentsPast /\ CountsCovered /\ CountsDistinct

LEMMA InitIInv == Init => IInv
<1> SUFFICES ASSUME Init PROVE IInv
  OBVIOUS
<1>1. 0 \in Times
  BY BreakerAssumption DEF Times
<1> QED
  BY <1>1, BreakerAssumption
  DEF Init, IInv, TypeOK, MomentsPast, CountsCovered, CountsDistinct, Times

(* A write to a window makes its count exceed every count that window has  *)
(* answered: the window of a live writer cannot have been deleted.         *)
LEMMA WriteExceeds ==
    ASSUME IInv, NEW i \in Invocations, Add(i),
           NEW j \in Invocations, pc[j] = "answered",
           WindowStart(moment[j]) = WindowStart(moment[i])
    PROVE  count[j] <= attempts[WindowStart(moment[i])]
<1> DEFINE w == WindowStart(moment[i])
<1>1. w \in Times /\ moment[i] < w + WindowSeconds /\ moment[i] \in Times
  BY WindowOfMoment DEF IInv, TypeOK
<1>2. now <= moment[i] + TimeoutSeconds
  BY DEF Add
<1>3. ~(now > ExpiresAt(w))
  BY <1>1, <1>2, BreakerAssumption DEF ExpiresAt, IInv, TypeOK, Times
<1> QED
  BY <1>3 DEF IInv, CountsCovered

LEMMA IncrementIInv ==
    ASSUME IInv, NEW i \in Invocations, Increment(i)
    PROVE  IInv'
<1> DEFINE w == WindowStart(moment[i])
<1> USE DEF IInv
<1>1. w \in Times /\ attempts[w] \in Nat
  BY WindowOfMoment DEF TypeOK
<1>2. attempts'[w] = attempts[w] + 1 /\ count'[i] = attempts[w] + 1
  BY <1>1 DEF Increment, Add, TypeOK
<1>3. \A v \in Times : attempts'[v] \in Nat /\ attempts'[v] >= attempts[v]
  BY <1>1 DEF Increment, Add, TypeOK
<1>4. TypeOK'
  BY <1>1, <1>2, BreakerAssumption DEF Increment, Add, TypeOK
<1>5. MomentsPast'
  BY DEF Increment, MomentsPast
<1>6. CountsCovered'
  <2> SUFFICES ASSUME NEW j \in Invocations, pc'[j] = "answered"
               PROVE  /\ count'[j] >= 1
                      /\ \/ count'[j] <= attempts'[WindowStart(moment[j])]
                         \/ now > ExpiresAt(WindowStart(moment[j]))
    BY DEF CountsCovered, Increment, Add, WindowStart, ExpiresAt
  <2>1. CASE j = i
    BY <2>1, <1>1, <1>2
  <2>2. CASE j # i
    <3>1. pc[j] = "answered" /\ count'[j] = count[j]
      BY <2>2 DEF Increment, Add, TypeOK
    <3>2. WindowStart(moment[j]) \in Times /\ count[j] \in Nat
      BY WindowOfMoment DEF TypeOK
    <3> DEFINE v == WindowStart(moment[j])
    <3>3. attempts[v] \in Nat /\ attempts'[v] \in Nat /\ attempts'[v] >= attempts[v]
      BY <1>3, <3>2 DEF TypeOK
    <3>4. count[j] >= 1 /\ (count[j] <= attempts[v] \/ now > ExpiresAt(v))
      BY <3>1 DEF CountsCovered
    <3> QED
      BY <3>1, <3>2, <3>3, <3>4
  <2> QED
    BY <2>1, <2>2
<1>7. CountsDistinct'
  <2>1. \A j \in Invocations : pc[j] = "answered" /\ WindowStart(moment[j]) = w
                                 => count[j] # count'[i]
    <3> SUFFICES ASSUME NEW j \in Invocations, pc[j] = "answered", WindowStart(moment[j]) = w
                 PROVE  count[j] # count'[i]
      OBVIOUS
    <3>1. count[j] <= attempts[w]
      BY WriteExceeds DEF Increment
    <3> QED
      BY <3>1, <1>1, <1>2 DEF TypeOK
  <2>2. \A j \in Invocations : j # i => count'[j] = count[j] /\ pc'[j] = pc[j]
    BY DEF Increment, Add, TypeOK
  <2>3. moment' = moment
    BY DEF Increment
  <2> QED
    BY <2>1, <2>2, <2>3 DEF CountsDistinct, WindowStart
<1> QED
  BY <1>4, <1>5, <1>6, <1>7

LEMMA NextIInv == IInv /\ [Next]_vars => IInv'
<1> SUFFICES ASSUME IInv, [Next]_vars PROVE IInv'
  OBVIOUS
<1> USE DEF IInv
<1>0. \A i \in Invocations : WindowStart(moment[i]) \in Times
  BY WindowOfMoment DEF TypeOK
<1>1. ASSUME NEW i \in Invocations, ReadClock(i) PROVE IInv'
  <2>1. TypeOK'
    BY <1>1 DEF ReadClock, TypeOK
  <2>2. MomentsPast'
    BY <1>1, BreakerAssumption DEF ReadClock, MomentsPast, TypeOK, Times
  <2>3. \A j \in Invocations :
          pc'[j] = "answered" => pc[j] = "answered" /\ moment'[j] = moment[j]
    BY <1>1 DEF ReadClock, TypeOK
  <2>4. CountsCovered' /\ CountsDistinct'
    BY <1>1, <2>3 DEF ReadClock, CountsCovered, CountsDistinct, WindowStart, ExpiresAt
  <2> QED
    BY <2>1, <2>2, <2>4
<1>2. ASSUME NEW i \in Invocations, Increment(i) PROVE IInv'
  BY <1>2, IncrementIInv
<1>3. ASSUME NEW i \in Invocations, LoseReply(i) PROVE IInv'
  <2> DEFINE w == WindowStart(moment[i])
  <2>1. \A v \in Times : attempts'[v] \in Nat /\ attempts'[v] >= attempts[v]
    BY <1>0, <1>3 DEF LoseReply, Add, TypeOK
  <2>2. TypeOK'
    BY <1>0, <1>3, BreakerAssumption DEF LoseReply, Add, TypeOK
  <2>3. MomentsPast' /\ CountsDistinct'
    BY <1>3 DEF LoseReply, MomentsPast, CountsDistinct, WindowStart
  <2>4. CountsCovered'
    <3> SUFFICES ASSUME NEW j \in Invocations, pc[j] = "answered"
                 PROVE  /\ count[j] >= 1
                        /\ \/ count[j] <= attempts'[WindowStart(moment[j])]
                           \/ now > ExpiresAt(WindowStart(moment[j]))
      BY <1>3 DEF CountsCovered, LoseReply, WindowStart, ExpiresAt
    <3> DEFINE v == WindowStart(moment[j])
    <3>1. v \in Times /\ count[j] \in Nat /\ attempts[v] \in Nat
          /\ attempts'[v] \in Nat /\ attempts'[v] >= attempts[v]
      BY <1>0, <2>1 DEF TypeOK
    <3>2. count[j] >= 1 /\ (count[j] <= attempts[v] \/ now > ExpiresAt(v))
      BY DEF CountsCovered
    <3> QED
      BY <3>1, <3>2
  <2> QED
    BY <2>2, <2>3, <2>4
<1>4. ASSUME NEW i \in Invocations, Kill(i) PROVE IInv'
  <2>1. TypeOK' /\ MomentsPast'
    BY <1>4 DEF Kill, TypeOK, MomentsPast
  <2>2. \A j \in Invocations : pc'[j] = "answered" => pc[j] = "answered"
    BY <1>4 DEF Kill, TypeOK
  <2>3. CountsCovered' /\ CountsDistinct'
    BY <1>4, <2>2 DEF Kill, CountsCovered, CountsDistinct, WindowStart, ExpiresAt
  <2> QED
    BY <2>1, <2>3
<1>5. ASSUME NEW w \in Times, Expire(w) PROVE IInv'
  <2>1. TypeOK' /\ MomentsPast'
    BY <1>5 DEF Expire, TypeOK, MomentsPast
  <2>2. \A v \in Times : v # w => attempts'[v] = attempts[v]
    BY <1>5 DEF Expire, TypeOK
  <2>3. CountsDistinct'
    BY <1>5 DEF Expire, CountsDistinct, WindowStart
  <2>4. CountsCovered'
    BY <1>0, <1>5, <2>2 DEF Expire, CountsCovered, WindowStart, ExpiresAt
  <2> QED
    BY <2>1, <2>3, <2>4
<1>6. ASSUME Tick PROVE IInv'
  <2>1. now' = now + 1 /\ now \in Nat /\ now' \in Times
    BY <1>6, BreakerAssumption DEF Tick, TypeOK, Times
  <2>2. TypeOK' /\ CountsDistinct'
    BY <1>6, <2>1 DEF Tick, TypeOK, CountsDistinct, WindowStart
  <2>3. MomentsPast'
    BY <1>6, <2>1, BreakerAssumption DEF Tick, MomentsPast, TypeOK, Times
  <2>4. CountsCovered'
    <3>1. \A v \in Times : now > ExpiresAt(v) => now' > ExpiresAt(v)
      BY <2>1, BreakerAssumption DEF ExpiresAt, Times
    <3> QED
      BY <1>0, <1>6, <3>1 DEF Tick, CountsCovered, WindowStart, ExpiresAt
  <2> QED
    BY <2>2, <2>3, <2>4
<1>7. CASE UNCHANGED vars
  BY <1>7 DEF vars, TypeOK, MomentsPast, CountsCovered, CountsDistinct, WindowStart, ExpiresAt
<1> QED
  BY <1>1, <1>2, <1>3, <1>4, <1>5, <1>6, <1>7 DEF Next


-----------------------------------------------------------------------------
(* The variables of CircuitBreaker keep their types. *)
THEOREM TypeCorrect == Spec => []TypeOK
<1>1. IInv => TypeOK
  BY DEF IInv
<1> QED
  BY InitIInv, NextIInv, <1>1, PTL DEF Spec

(* Pairwise distinct labels from 1 .. n make at most n elements. *)
LEMMA DistinctLabels ==
    ASSUME NEW S, IsFiniteSet(S), NEW n \in Nat,
           \E f \in [S -> 1 .. n] : \A x, y \in S : x # y => f[x] # f[y]
    PROVE  Cardinality(S) <= n
<1>0. PICK f \in [S -> 1 .. n] : \A x, y \in S : x # y => f[x] # f[y]
  OBVIOUS
<1>1. IsFiniteSet(1 .. n) /\ Cardinality(1 .. n) = n
  BY FS_Interval
<1>2. Cardinality(S) \in Nat
  BY FS_CardinalityType
<1>3. CASE Cardinality(1 .. n) < Cardinality(S)
  <2>1. \E x, y \in S : x # y /\ f[x] = f[y]
    <3> QED
      BY <1>1, <1>3, FS_PigeonHole
  <2> QED
    BY <2>1, <1>0
<1> QED
  BY <1>1, <1>2, <1>3

LEMMA UnionBound ==
    ASSUME NEW A, NEW B, IsFiniteSet(A), IsFiniteSet(B)
    PROVE  Cardinality(A \cup B) <= Cardinality(A) + Cardinality(B)
<1>1. Cardinality(A \cup B) = Cardinality(A) + Cardinality(B) - Cardinality(A \cap B)
  BY FS_Union
<1>2. IsFiniteSet(A \cap B)
  BY FS_Intersection
<1>3. Cardinality(A) \in Nat /\ Cardinality(B) \in Nat /\ Cardinality(A \cap B) \in Nat
  BY <1>2, FS_CardinalityType
<1> QED
  BY <1>1, <1>3

LEMMA AdmittedFinite ==
    /\ \A w : IsFiniteSet(AdmittedIn(w))
    /\ \A a, b : IsFiniteSet(AdmittedDuring(a, b))
<1>1. \A w : AdmittedIn(w) \in SUBSET Invocations
  BY DEF AdmittedIn
<1>2. \A a, b : AdmittedDuring(a, b) \in SUBSET Invocations
  BY DEF AdmittedDuring
<1> QED
  BY <1>1, <1>2, FS_Subset, BreakerAssumption

(* Distinct counts, none above the limit: no more admissions than the limit. *)
LEMMA IInvWindowCap == IInv => WindowCap
<1> SUFFICES ASSUME IInv, NEW w \in Times
             PROVE  Cardinality(AdmittedIn(w)) <= Limit
  BY DEF WindowCap
<1> DEFINE S == AdmittedIn(w)
           f == [i \in S |-> count[i]]
<1>1. IsFiniteSet(S) /\ Cardinality(S) \in Nat
  BY AdmittedFinite, FS_CardinalityType
<1>2. f \in [S -> 1 .. Limit]
  BY BreakerAssumption
  DEF AdmittedIn, Admitted, Open, IInv, TypeOK, CountsCovered
<1>3. \A i, j \in S : i # j => f[i] # f[j]
  BY DEF AdmittedIn, Admitted, IInv, CountsDistinct
<1>4. \E g \in [S -> 1 .. Limit] : \A i, j \in S : i # j => g[i] # g[j]
  BY <1>2, <1>3
<1> HIDE DEF S
<1>5. Cardinality(S) <= Limit
  BY <1>1, <1>4, DistinctLabels, BreakerAssumption
<1> QED
  BY <1>5 DEF S

(* The cap of one window, for every number of invocations, every limit and  *)
(* every window at least as long as the function's timeout.                 *)
THEOREM WindowCapHolds == Spec => []WindowCap
<1> QED
  BY InitIInv, NextIInv, IInvWindowCap, PTL DEF Spec

(* Twice the limit bounds any span as long as a window. *)
THEOREM RollingBoundHolds == Spec => []RollingBound
<1>1. IInv => RollingBound
  <2> SUFFICES ASSUME IInv, NEW t \in Times
               PROVE  Cardinality(AdmittedDuring(t, t + WindowSeconds - 1)) <= 2 * Limit
    BY DEF RollingBound
  <2> DEFINE D == AdmittedDuring(t, t + WindowSeconds - 1)
             v == WindowStart(t)
             A == AdmittedIn(v)
             B == AdmittedIn(v + WindowSeconds)
  <2>1. v \in Times
    BY WindowOfMoment
  <2>2. ASSUME NEW i \in D PROVE i \in A \cup B
    <3>1. i \in Invocations /\ Admitted(i) /\ moment[i] \in Times
          /\ t <= moment[i] /\ moment[i] <= t + WindowSeconds - 1
      BY BreakerAssumption DEF AdmittedDuring, IInv, TypeOK, Times
    <3> QED
      BY <3>1, SpanMeetsTwoWindows DEF AdmittedIn
  <2>3. IsFiniteSet(A) /\ IsFiniteSet(B) /\ IsFiniteSet(A \cup B)
    BY AdmittedFinite, FS_Union
  <2>4. Cardinality(A \cup B) <= Cardinality(A) + Cardinality(B)
    BY <2>3, UnionBound
  <2>5. Cardinality(A) <= Limit
    BY <2>1, IInvWindowCap DEF WindowCap
  <2>6. Cardinality(B) <= Limit
    <3>1. CASE v + WindowSeconds \in Times
      BY <3>1, IInvWindowCap DEF WindowCap
    <3>2. CASE v + WindowSeconds \notin Times
      <4>1. B = {}
        BY <3>2, WindowOfMoment DEF AdmittedIn, IInv, TypeOK
      <4> QED
        BY <4>1, FS_EmptySet, BreakerAssumption
    <3> QED
      BY <3>1, <3>2
  <2>7. Cardinality(D) <= Cardinality(A \cup B)
    BY <2>2, <2>3, FS_Subset
  <2>8. /\ Cardinality(A) \in Nat /\ Cardinality(B) \in Nat
        /\ Cardinality(A \cup B) \in Nat /\ Cardinality(D) \in Nat
    BY <2>3, AdmittedFinite, FS_CardinalityType
  <2> QED
    BY <2>4, <2>5, <2>6, <2>7, <2>8, BreakerAssumption
<1> QED
  BY InitIInv, NextIInv, <1>1, PTL DEF Spec

(* A window that refused an attempt admits none that is counted later. *)
THEOREM StaysOpenHolds == Spec => StaysOpen
<1> DEFINE Later ==
      \A i, j \in Invocations :
          Blocked(i) /\ ~Admitted(j) /\ WindowStart(moment[i]) = WindowStart(moment[j])
            => ~Admitted(j)'
<1>1. IInv /\ [Next]_vars => [Later]_vars
  <2> SUFFICES ASSUME IInv, Next, NEW i \in Invocations, NEW j \in Invocations,
                      Blocked(i), ~Admitted(j), Admitted(j)',
                      WindowStart(moment[i]) = WindowStart(moment[j])
               PROVE  FALSE
    OBVIOUS
  <2>1. pc[j] # "answered" \/ count[j] # count'[j]
    BY DEF Admitted, Open
  <2>2. Increment(j)
    BY <2>1 DEF Next, ReadClock, Increment, Add, LoseReply, Kill, Expire, Tick,
                Admitted, IInv, TypeOK
  <2> DEFINE w == WindowStart(moment[j])
  <2>3. w \in Times /\ attempts[w] \in Nat /\ count[i] \in Nat
    BY WindowOfMoment DEF IInv, TypeOK
  <2>4. count'[j] = attempts[w] + 1
    BY <2>2, <2>3 DEF Increment, Add, IInv, TypeOK
  <2>5. count[i] <= attempts[w]
    BY <2>2, WriteExceeds DEF Increment, Blocked
  <2> QED
    BY <2>3, <2>4, <2>5, BreakerAssumption DEF Blocked, Admitted, Open
<1> QED
  BY InitIInv, NextIInv, <1>1, PTL DEF Spec, StaysOpen
=============================================================================
