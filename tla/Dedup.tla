------------------------------- MODULE Dedup -------------------------------
(***************************************************************************)
(* Alert suppression, notifier/dedup.py.  A caller about to send an alert  *)
(* claims its fingerprint with a conditional put: the item is written when *)
(* there is none, or when the one there has an expires_at before the       *)
(* caller's clock.  Whoever writes it sends; whoever fails the condition   *)
(* does not.                                                               *)
(*                                                                         *)
(* What makes it hard: callers read the clock before they write, so writes *)
(* reach the table out of clock order; the TTL deletes an expired item at  *)
(* any later time or never; the SDK resends a write whose reply was lost;  *)
(* a caller may be killed anywhere.                                        *)
(***************************************************************************)
EXTENDS Integers, FiniteSets

CONSTANTS
    Callers,          \* calls of notify
    Fingerprints,     \* identities of alerts
    WindowSeconds,    \* dedup_window_seconds
    TimeoutSeconds,   \* the function's timeout
    Mortal,           \* the callers that may be killed
    MaxTime,          \* bound: the clock stops here
    MaxSends          \* bound: times the SDK sends one write

ASSUME DedupAssumption ==
    /\ WindowSeconds \in Nat \ {0}
    /\ TimeoutSeconds \in Nat
    /\ Mortal \subseteq Callers
    /\ MaxTime \in Nat
    /\ MaxSends \in Nat \ {0}

VARIABLES
    now,        \* the wall clock, in seconds
    expires,    \* fingerprint -> expires_at of its item, Absent without one
    pc,         \* caller -> where it is in claim
    key,        \* caller -> its fingerprint
    moment,     \* caller -> the clock value it read
    sends,      \* caller -> writes its SDK has sent
    claimedAt   \* history: caller -> when the table applied its claim

vars == <<now, expires, pc, key, moment, sends, claimedAt>>

Times  == 0 .. MaxTime
Absent == -1
Never  == -1

States == {"idle", "read", "sending", "suppressed", "killed"}

(* Mutation: an existing item suppresses until the TTL removes it. *)
ClaimableWhenDeleted(f, at) == expires[f] = Absent

(* attribute_not_exists(pk) OR expires_at < :now *)
Claimable(f, at) == expires[f] = Absent \/ expires[f] < at

Init ==
    /\ now = 0
    /\ expires = [f \in Fingerprints |-> Absent]
    /\ pc = [c \in Callers |-> "idle"]
    /\ key \in [Callers -> Fingerprints]
    /\ moment = [c \in Callers |-> 0]
    /\ sends = [c \in Callers |-> 0]
    /\ claimedAt = [c \in Callers |-> Never]

(* Mutation: the clock is read in milliseconds. *)
ReadClockMillis(c) ==
    /\ pc[c] = "idle"
    /\ pc' = [pc EXCEPT ![c] = "read"]
    /\ moment' = [moment EXCEPT ![c] = now * 1000]
    /\ UNCHANGED <<now, expires, key, sends, claimedAt>>

(* claim is entered and reads the clock. *)
ReadClock(c) ==
    /\ pc[c] = "idle"
    /\ pc' = [pc EXCEPT ![c] = "read"]
    /\ moment' = [moment EXCEPT ![c] = now]
    /\ UNCHANGED <<now, expires, key, sends, claimedAt>>

(* The SDK sends the put; the caller is alive to do so before its timeout. *)
Send(c) ==
    /\ pc[c] = "read"
    /\ sends[c] < MaxSends
    /\ now <= moment[c] + TimeoutSeconds
    /\ sends' = [sends EXCEPT ![c] = @ + 1]
    /\ UNCHANGED <<now, key, moment>>

(* Mutation: the item expires when it is written. *)
PutWithoutWindow(c) ==
    /\ Claimable(key[c], moment[c])
    /\ expires' = [expires EXCEPT ![key[c]] = moment[c]]
    /\ claimedAt' = [claimedAt EXCEPT ![c] = now]

(* The table applies the put. *)
Put(c) ==
    /\ Claimable(key[c], moment[c])
    /\ expires' = [expires EXCEPT ![key[c]] = moment[c] + WindowSeconds]
    /\ claimedAt' = [claimedAt EXCEPT ![c] = now]

(* The put succeeds: claim returns True and the caller sends. *)
Claim(c) ==
    /\ Send(c)
    /\ Put(c)
    /\ pc' = [pc EXCEPT ![c] = "sending"]

(* ConditionalCheckFailedException: claim returns False. *)
Suppress(c) ==
    /\ Send(c)
    /\ ~Claimable(key[c], moment[c])
    /\ pc' = [pc EXCEPT ![c] = "suppressed"]
    /\ UNCHANGED <<expires, claimedAt>>

(* The put is applied and its reply lost: the SDK sends it again, and what *)
(* the caller hears is the answer to the second put.                       *)
LoseReply(c) ==
    /\ Send(c)
    /\ Put(c)
    /\ UNCHANGED pc

(* The caller is killed, or claim raises another error. *)
Kill(c) ==
    /\ c \in Mortal
    /\ pc[c] \in {"read", "sending"}
    /\ pc' = [pc EXCEPT ![c] = "killed"]
    /\ UNCHANGED <<now, expires, key, moment, sends, claimedAt>>

(* DynamoDB deletes an item some time after its expires_at has passed. *)
Expire(f) ==
    /\ expires[f] # Absent
    /\ now > expires[f]
    /\ expires' = [expires EXCEPT ![f] = Absent]
    /\ UNCHANGED <<now, pc, key, moment, sends, claimedAt>>

Tick ==
    /\ now < MaxTime
    /\ now' = now + 1
    /\ UNCHANGED <<expires, pc, key, moment, sends, claimedAt>>

Next ==
    \/ \E c \in Callers :
          ReadClock(c) \/ Claim(c) \/ Suppress(c) \/ LoseReply(c) \/ Kill(c)
    \/ \E f \in Fingerprints : Expire(f)
    \/ Tick

Spec == Init /\ [][Next]_vars

-----------------------------------------------------------------------------
(* Every variable has its type. *)
TypeOK ==
    /\ now \in Times
    /\ expires \in [Fingerprints -> {Absent} \cup (0 .. MaxTime + WindowSeconds)]
    /\ pc \in [Callers -> States]
    /\ key \in [Callers -> Fingerprints]
    /\ moment \in [Callers -> Times]
    /\ sends \in [Callers -> 0 .. MaxSends]
    /\ claimedAt \in [Callers -> {Never} \cup Times]

Claimed(c) == claimedAt[c] # Never

(* Two claims of one fingerprint are never in one window: the later one is *)
(* applied after the window that the earlier one's clock opened has ended, *)
(* in whatever order the two read the clock and reached the table.         *)
OneClaimPerWindow ==
    \A c, d \in Callers :
        c # d /\ Claimed(c) /\ Claimed(d) /\ key[c] = key[d]
          => \/ claimedAt[c] > moment[d] + WindowSeconds
             \/ claimedAt[d] > moment[c] + WindowSeconds

(* Suppression ends with the window, not with the TTL: a caller is told to *)
(* keep quiet only when some claim of its fingerprint has a window that    *)
(* reaches the caller's own clock.                                         *)
SuppressedInWindow ==
    \A c \in Callers :
        pc[c] = "suppressed" =>
            \E d \in Callers :
                Claimed(d) /\ key[d] = key[c] /\ moment[c] <= moment[d] + WindowSeconds

(* What dedup.py:6-8 says: the first caller to claim a fingerprint sends.  *)
(* An item in the table belongs to a caller that is sending, or may yet.   *)
ClaimerSends ==
    \A c \in Callers : Claimed(c) => pc[c] \in {"read", "sending"}
=============================================================================
