--------------------------- MODULE CircuitBreaker ---------------------------
(***************************************************************************)
(* The per-detection circuit breaker, remediations/common/circuit_breaker. *)
(* Every invocation of a detection's function reads the clock, picks the   *)
(* counter item of the window that moment falls in, and adds one to it     *)
(* with a DynamoDB ADD, which is atomic and returns the new value.  The    *)
(* attempt is refused when that value exceeds the limit.  The items carry  *)
(* a TTL, so the table may delete them.                                    *)
(*                                                                         *)
(* What makes it hard: the clock is read before the write, any number of   *)
(* invocations are between the two, the function may be killed there, the  *)
(* SDK resends a write whose reply was lost, and the table deletes expired *)
(* items whenever it likes.                                                *)
(***************************************************************************)
EXTENDS Integers, FiniteSets

CONSTANTS
    Invocations,      \* the invocations of one detection's function
    Limit,            \* circuit_breaker_max_actions
    WindowSeconds,    \* circuit_breaker_window_seconds
    TimeoutSeconds,   \* the function's timeout, infra/modules/detection
    MaxTime,          \* bound: the clock stops here
    MaxSends          \* bound: times the SDK sends one write

ASSUME BreakerAssumption ==
    /\ IsFiniteSet(Invocations)
    /\ Limit \in Nat \ {0}
    /\ WindowSeconds \in Nat \ {0}
    /\ TimeoutSeconds \in Nat
    /\ TimeoutSeconds <= WindowSeconds
    /\ MaxTime \in Nat
    /\ MaxSends \in Nat \ {0}

VARIABLES
    now,        \* the wall clock, in seconds
    attempts,   \* window start -> attempts of its item, 0 when there is none
    pc,         \* invocation -> where it is in check_and_increment
    moment,     \* invocation -> the clock value it read
    sends,      \* invocation -> writes its SDK has sent
    count       \* invocation -> the count it was answered

vars == <<now, attempts, pc, moment, sends, count>>

Times == 0 .. MaxTime

(* The window a moment belongs to: the clock cut into fixed slices. *)
WindowStart(at) == at - (at % WindowSeconds)

(* Mutation: a TTL counted from the moment the window starts. *)
ExpiresAtStart(window) == window

(* An item outlives its window by one more window. *)
ExpiresAt(window) == window + (WindowSeconds * 2)

(* Mutation: the limit is off by one. *)
OpenOneLate(n) == n > Limit + 1

(* BreakerState.open: the attempt that makes the count exceed the limit.   *)
Open(n) == n > Limit

Admitted(i) == pc[i] = "answered" /\ ~Open(count[i])
Blocked(i)  == pc[i] = "answered" /\ Open(count[i])

-----------------------------------------------------------------------------
Init ==
    /\ now = 0
    /\ attempts = [w \in Times |-> 0]
    /\ pc = [i \in Invocations |-> "idle"]
    /\ moment = [i \in Invocations |-> 0]
    /\ sends = [i \in Invocations |-> 0]
    /\ count = [i \in Invocations |-> 0]

(* Mutation: the clock is read in milliseconds. *)
ReadClockMillis(i) ==
    /\ pc[i] = "idle"
    /\ pc' = [pc EXCEPT ![i] = "read"]
    /\ moment' = [moment EXCEPT ![i] = now * 1000]
    /\ UNCHANGED <<now, attempts, sends, count>>

(* check_and_increment is entered: the clock is read, nothing is written. *)
ReadClock(i) ==
    /\ pc[i] = "idle"
    /\ pc' = [pc EXCEPT ![i] = "read"]
    /\ moment' = [moment EXCEPT ![i] = now]
    /\ UNCHANGED <<now, attempts, sends, count>>

(* The table applies ADD attempts :one to the item of the window; the      *)
(* invocation is alive to send it only before its timeout.                 *)
Add(i) ==
    /\ pc[i] = "read"
    /\ sends[i] < MaxSends
    /\ now <= moment[i] + TimeoutSeconds
    /\ attempts' = [attempts EXCEPT ![WindowStart(moment[i])] = @ + 1]
    /\ sends' = [sends EXCEPT ![i] = @ + 1]

(* The reply arrives: UPDATED_NEW is the count this write produced. *)
Increment(i) ==
    /\ Add(i)
    /\ count' = [count EXCEPT ![i] = attempts'[WindowStart(moment[i])]]
    /\ pc' = [pc EXCEPT ![i] = "answered"]
    /\ UNCHANGED <<now, moment>>

(* The reply is lost: the SDK will send the same ADD again. *)
LoseReply(i) ==
    /\ Add(i)
    /\ UNCHANGED <<now, pc, moment, count>>

(* The function times out, or dies, between the read and the answer. *)
Kill(i) ==
    /\ pc[i] = "read"
    /\ pc' = [pc EXCEPT ![i] = "killed"]
    /\ UNCHANGED <<now, attempts, moment, sends, count>>

(* DynamoDB deletes an item some time after its expires_at has passed. *)
Expire(w) ==
    /\ attempts[w] > 0
    /\ now > ExpiresAt(w)
    /\ attempts' = [attempts EXCEPT ![w] = 0]
    /\ UNCHANGED <<now, pc, moment, sends, count>>

Tick ==
    /\ now < MaxTime
    /\ now' = now + 1
    /\ UNCHANGED <<attempts, pc, moment, sends, count>>

Next ==
    \/ \E i \in Invocations : ReadClock(i) \/ Increment(i) \/ LoseReply(i) \/ Kill(i)
    \/ \E w \in Times : Expire(w)
    \/ Tick

Spec == Init /\ [][Next]_vars

-----------------------------------------------------------------------------
(* Every variable has its type; the window written to exists. *)
TypeOK ==
    /\ now \in Times
    /\ attempts \in [Times -> Nat]
    /\ pc \in [Invocations -> {"idle", "read", "answered", "killed"}]
    /\ moment \in [Invocations -> Times]
    /\ sends \in [Invocations -> 0 .. MaxSends]
    /\ count \in [Invocations -> Nat]

AdmittedIn(w) == {i \in Invocations : Admitted(i) /\ WindowStart(moment[i]) = w}

(* The cap: however invocations interleave, are killed or resend, and     *)
(* whatever the TTL deletes, at most Limit attempts are admitted in one    *)
(* window.                                                                 *)
WindowCap == \A w \in Times : Cardinality(AdmittedIn(w)) <= Limit

(* Once a window has refused an attempt it admits none whose count came    *)
(* later: no late write, and no deletion of the item, closes it again.     *)
StaysOpen ==
    [][\A i, j \in Invocations :
          Blocked(i) /\ ~Admitted(j) /\ WindowStart(moment[i]) = WindowStart(moment[j])
            => ~Admitted(j)']_vars

AdmittedDuring(first, last) ==
    {i \in Invocations : Admitted(i) /\ moment[i] \in first .. last}

(* circuit_breaker.py:6 and the variables.tf description speak of a       *)
(* rolling window, but the code counts fixed ones: what they give for any  *)
(* span of WindowSeconds seconds, wherever it starts, is twice the limit,  *)
(* because a span meets at most two windows.                               *)
RollingBound ==
    \A t \in Times : Cardinality(AdmittedDuring(t, t + WindowSeconds - 1)) <= 2 * Limit
=============================================================================
