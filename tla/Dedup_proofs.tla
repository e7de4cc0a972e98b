--------------------------- MODULE Dedup_proofs ---------------------------
(***************************************************************************)
(* The promises of Dedup, proved for any callers, fingerprints, windows    *)
(* and timeouts.  The invariant says that a claim is still visible in the  *)
(* table until its window is over: the item carries an expires_at at least *)
(* as late as that window's end, and only an item whose expires_at is past *)
(* is deleted or overwritten.                                              *)
(***************************************************************************)
EXTENDS Dedup, TLAPS

ClaimsStarted ==
    \A c \in Callers :
        Claimed(c) => /\ pc[c] # "idle"
                      /\ claimedAt[c] <= now

MomentsPast == \A c \in Callers : moment[c] <= now

ClaimsVisible ==
    \A c \in Callers :
        Claimed(c) => \/ expires[key[c]] >= moment[c] + WindowSeconds
                      \/ now > moment[c] + WindowSeconds

ItemsOwned ==
    \A f \in Fingerprints :
        expires[f] # Absent =>
            \E d \in Callers :
                Claimed(d) /\ key[d] = f /\ expires[f] = moment[d] + WindowSeconds

IInv ==
    /\ TypeOK
    /\ ClaimsStarted
    /\ MomentsPast
    /\ ClaimsVisible
    /\ ItemsOwned
    /\ OneClaimPerWindow
    /\ SuppressedInWindow

LEMMA InitIInv == Init => IInv
  BY DedupAssumption
  DEF Init, IInv, TypeOK, ClaimsStarted, MomentsPast, ClaimsVisible, ItemsOwned,
      OneClaimPerWindow, SuppressedInWindow, Claimed, Absent, Never, States, Times

(* A claim that the table applies comes after the window of every earlier  *)
(* claim of the fingerprint.                                               *)
LEMMA PutComesAfter ==
    ASSUME IInv, NEW c \in Callers, Claimable(key[c], moment[c]),
           NEW d \in Callers, Claimed(d), key[d] = key[c]
    PROVE  now > moment[d] + WindowSeconds
<1> USE DedupAssumption DEF IInv, TypeOK, Times, Absent
<1>1. expires[key[c]] \in {Absent} \cup (0 .. MaxTime + WindowSeconds)
  OBVIOUS
<1>2. moment[d] \in Nat /\ moment[c] \in Nat /\ now \in Nat /\ moment[c] <= now
  BY DEF MomentsPast
<1>3. \/ expires[key[c]] >= moment[d] + WindowSeconds
      \/ now > moment[d] + WindowSeconds
  BY DEF ClaimsVisible
<1> QED
  BY <1>1, <1>2, <1>3 DEF Claimable

(* Both outcomes of an applied put, heard or lost, keep the invariant.     *)
LEMMA PutIInv ==
    ASSUME IInv, NEW c \in Callers, Send(c), Put(c),
           \/ pc' = [pc EXCEPT ![c] = "sending"]
           \/ UNCHANGED pc
    PROVE  IInv'
<1> USE DEF IInv
<1>1. /\ pc[c] = "read" /\ now \in Times /\ moment[c] \in Times /\ key[c] \in Fingerprints
      /\ UNCHANGED <<now, key, moment>>
      /\ moment[c] <= now
  BY DEF Send, TypeOK, MomentsPast
<1>2. /\ claimedAt'[c] = now
      /\ \A d \in Callers : d # c => claimedAt'[d] = claimedAt[d]
  BY DEF Put, TypeOK
<1>3. /\ expires'[key[c]] = moment[c] + WindowSeconds
      /\ \A f \in Fingerprints : f # key[c] => expires'[f] = expires[f]
  BY <1>1 DEF Put, TypeOK
<1>4. Claimed(c)' /\ \A d \in Callers : Claimed(d) => Claimed(d)'
  BY <1>1, <1>2, DedupAssumption DEF Claimed, Never, Times
<1>5. \A d \in Callers : d # c /\ Claimed(d)' => Claimed(d)
  BY <1>2 DEF Claimed
<1>6. \A d \in Callers : Claimed(d) /\ key[d] = key[c]
                         => now > moment[d] + WindowSeconds
  BY PutComesAfter DEF Put
<1>7. TypeOK'
  <2>1. moment[c] + WindowSeconds \in 0 .. MaxTime + WindowSeconds
    BY <1>1, DedupAssumption DEF Times
  <2>2. expires' \in [Fingerprints -> {Absent} \cup (0 .. MaxTime + WindowSeconds)]
    BY <2>1 DEF Put, TypeOK
  <2>3. pc' \in [Callers -> States] /\ claimedAt' \in [Callers -> {Never} \cup Times]
    BY <1>1 DEF Put, TypeOK, States
  <2>4. sends' \in [Callers -> 0 .. MaxSends]
    BY DedupAssumption DEF Send, TypeOK
  <2> QED
    BY <1>1, <2>2, <2>3, <2>4 DEF TypeOK
<1>8. ClaimsStarted' /\ MomentsPast'
  <2>1. \A d \in Callers : pc[d] # "idle" => pc'[d] # "idle"
    BY DEF TypeOK
  <2>2. \A d \in Callers : Claimed(d)' => claimedAt'[d] <= now
    BY <1>1, <1>2, <1>5, DedupAssumption DEF ClaimsStarted, Times
  <2> QED
    BY <1>1, <1>5, <2>1, <2>2 DEF ClaimsStarted, MomentsPast
<1>9. ClaimsVisible'
  <2>1. \A d \in Callers : moment[d] \in Times /\ key[d] \in Fingerprints
    BY DEF TypeOK
  <2>2. expires'[key[c]] >= moment[c] + WindowSeconds
    BY <1>1, <1>3, DedupAssumption DEF Times
  <2>3. ASSUME NEW d \in Callers, d # c, Claimed(d)'
        PROVE  \/ expires'[key[d]] >= moment[d] + WindowSeconds
               \/ now > moment[d] + WindowSeconds
    BY <1>3, <1>5, <1>6, <2>1, <2>3 DEF ClaimsVisible
  <2> QED
    BY <1>1, <2>2, <2>3 DEF ClaimsVisible
<1>10. ItemsOwned'
  BY <1>1, <1>3, <1>4 DEF ItemsOwned
<1>11. OneClaimPerWindow'
  <2> SUFFICES ASSUME NEW a \in Callers, NEW b \in Callers, a # b,
                      Claimed(a)', Claimed(b)', key[a] = key[b]
               PROVE  \/ claimedAt'[a] > moment[b] + WindowSeconds
                      \/ claimedAt'[b] > moment[a] + WindowSeconds
    BY <1>1 DEF OneClaimPerWindow
  <2>1. CASE a = c
    BY <2>1, <1>2, <1>5, <1>6
  <2>2. CASE b = c
    BY <2>2, <1>2, <1>5, <1>6
  <2>3. CASE a # c /\ b # c
    BY <2>3, <1>2, <1>5 DEF OneClaimPerWindow
  <2> QED
    BY <2>1, <2>2, <2>3
<1>12. SuppressedInWindow'
  <2>1. \A d \in Callers : pc'[d] = "suppressed" => pc[d] = "suppressed"
    BY DEF TypeOK
  <2> QED
    BY <1>1, <1>4, <2>1 DEF SuppressedInWindow
<1> QED
  BY <1>7, <1>8, <1>9, <1>10, <1>11, <1>12

LEMMA NextIInv == IInv /\ [Next]_vars => IInv'
<1> SUFFICES ASSUME IInv, [Next]_vars PROVE IInv'
  OBVIOUS
<1> USE DEF IInv
<1>1. ASSUME NEW c \in Callers, ReadClock(c) PROVE IInv'
  <2>1. ~Claimed(c) /\ pc[c] = "idle"
    BY <1>1 DEF ReadClock, ClaimsStarted
  <2>2. \A d \in Callers : d # c => pc'[d] = pc[d] /\ moment'[d] = moment[d]
    BY <1>1 DEF ReadClock, TypeOK
  <2>3. pc'[c] = "read" /\ moment'[c] = now
    BY <1>1 DEF ReadClock, TypeOK
  <2>4. \A d \in Callers : Claimed(d)' <=> Claimed(d)
    BY <1>1 DEF ReadClock, Claimed
  <2>5. TypeOK'
    BY <1>1 DEF ReadClock, TypeOK, States
  <2>6. ClaimsStarted' /\ MomentsPast'
    BY <1>1, <2>1, <2>2, <2>3, <2>4, DedupAssumption
    DEF ReadClock, ClaimsStarted, MomentsPast, TypeOK, Times
  <2>7. ClaimsVisible' /\ ItemsOwned' /\ OneClaimPerWindow'
    BY <1>1, <2>1, <2>2, <2>4 DEF ReadClock, ClaimsVisible, ItemsOwned, OneClaimPerWindow
  <2>8. SuppressedInWindow'
    BY <1>1, <2>1, <2>2, <2>3, <2>4 DEF ReadClock, SuppressedInWindow
  <2> QED
    BY <2>5, <2>6, <2>7, <2>8
<1>2. ASSUME NEW c \in Callers, Claim(c) PROVE IInv'
  BY <1>2, PutIInv DEF Claim
<1>3. ASSUME NEW c \in Callers, LoseReply(c) PROVE IInv'
  BY <1>3, PutIInv DEF LoseReply
<1>4. ASSUME NEW c \in Callers, Suppress(c) PROVE IInv'
  <2>1. UNCHANGED <<now, key, moment, expires, claimedAt>> /\ pc[c] = "read"
    BY <1>4 DEF Suppress, Send
  <2>2. pc' = [pc EXCEPT ![c] = "suppressed"]
    BY <1>4 DEF Suppress
  <2>3. TypeOK'
    BY <1>4, <2>1, <2>2, DedupAssumption DEF Suppress, Send, TypeOK, States
  <2>4. ClaimsStarted'
    BY <2>1, <2>2 DEF ClaimsStarted, Claimed, TypeOK
  <2>5. MomentsPast' /\ ClaimsVisible' /\ ItemsOwned' /\ OneClaimPerWindow'
    BY <2>1 DEF MomentsPast, ClaimsVisible, ItemsOwned, OneClaimPerWindow, Claimed
  <2>6. SuppressedInWindow'
    <3> SUFFICES ASSUME NEW d \in Callers, pc'[d] = "suppressed"
                 PROVE  \E e \in Callers :
                          Claimed(e) /\ key[e] = key[d] /\ moment[d] <= moment[e] + WindowSeconds
      BY <2>1 DEF SuppressedInWindow, Claimed
    <3>1. CASE d = c
      <4>1. key[c] \in Fingerprints /\ expires[key[c]] # Absent /\ ~(expires[key[c]] < moment[c])
        BY <1>4 DEF Suppress, Claimable, TypeOK
      <4>2. PICK e \in Callers : /\ Claimed(e) /\ key[e] = key[c]
                                 /\ expires[key[c]] = moment[e] + WindowSeconds
        BY <4>1 DEF ItemsOwned
      <4>3. moment[e] \in Nat /\ moment[c] \in Nat /\ WindowSeconds \in Nat
        BY DedupAssumption DEF TypeOK, Times
      <4> QED
        BY <3>1, <4>1, <4>2, <4>3
    <3>2. CASE d # c
      BY <2>2, <3>2 DEF SuppressedInWindow, TypeOK
    <3> QED
      BY <3>1, <3>2
  <2> QED
    BY <2>3, <2>4, <2>5, <2>6
<1>5. ASSUME NEW c \in Callers, Kill(c) PROVE IInv'
  <2>1. TypeOK'
    BY <1>5 DEF Kill, TypeOK, States
  <2>2. \A d \in Callers : /\ pc'[d] = "suppressed" => pc[d] = "suppressed"
                           /\ pc[d] # "idle" => pc'[d] # "idle"
    BY <1>5 DEF Kill, TypeOK
  <2>3. ClaimsStarted' /\ SuppressedInWindow'
    BY <1>5, <2>2 DEF Kill, ClaimsStarted, SuppressedInWindow, Claimed
  <2>4. MomentsPast' /\ ClaimsVisible' /\ ItemsOwned' /\ OneClaimPerWindow'
    BY <1>5 DEF Kill, MomentsPast, ClaimsVisible, ItemsOwned, OneClaimPerWindow, Claimed
  <2> QED
    BY <2>1, <2>3, <2>4
<1>6. ASSUME NEW f \in Fingerprints, Expire(f) PROVE IInv'
  <2>1. /\ UNCHANGED <<now, pc, key, moment, sends, claimedAt>>
        /\ expires'[f] = Absent
        /\ \A g \in Fingerprints : g # f => expires'[g] = expires[g]
    BY <1>6 DEF Expire, TypeOK
  <2>2. TypeOK'
    BY <1>6 DEF Expire, TypeOK
  <2>3. ClaimsStarted' /\ MomentsPast' /\ OneClaimPerWindow' /\ SuppressedInWindow'
    BY <2>1 DEF ClaimsStarted, MomentsPast, OneClaimPerWindow, SuppressedInWindow, Claimed
  <2>4. ItemsOwned'
    BY <2>1 DEF ItemsOwned, Claimed
  <2>5. ClaimsVisible'
    <3> SUFFICES ASSUME NEW d \in Callers, Claimed(d)
                 PROVE  \/ expires'[key[d]] >= moment[d] + WindowSeconds
                        \/ now > moment[d] + WindowSeconds
      BY <2>1 DEF ClaimsVisible, Claimed
    <3>1. moment[d] \in Nat /\ now \in Nat /\ key[d] \in Fingerprints /\ WindowSeconds \in Nat
          /\ expires[key[d]] \in Int
      BY DedupAssumption DEF TypeOK, Times, Absent
    <3>2. expires[key[d]] >= moment[d] + WindowSeconds \/ now > moment[d] + WindowSeconds
      BY DEF ClaimsVisible
    <3>3. CASE key[d] = f
      BY <1>6, <3>1, <3>2, <3>3 DEF Expire
    <3>4. CASE key[d] # f
      BY <2>1, <3>1, <3>2, <3>4
    <3> QED
      BY <3>3, <3>4
  <2> QED
    BY <2>2, <2>3, <2>4, <2>5
<1>7. ASSUME Tick PROVE IInv'
  <2>1. now \in Nat /\ now' = now + 1 /\ now' \in Times
    BY <1>7, DedupAssumption DEF Tick, TypeOK, Times
  <2>2. TypeOK'
    BY <1>7, <2>1 DEF Tick, TypeOK
  <2>3. \A c \in Callers : moment[c] \in Nat /\ (claimedAt[c] \in Nat \/ claimedAt[c] = Never)
    BY DedupAssumption DEF TypeOK, Times
  <2>4. ClaimsStarted' /\ MomentsPast' /\ ClaimsVisible'
    BY <1>7, <2>1, <2>3, DedupAssumption
    DEF Tick, ClaimsStarted, MomentsPast, ClaimsVisible, Claimed
  <2>5. ItemsOwned' /\ OneClaimPerWindow' /\ SuppressedInWindow'
    BY <1>7 DEF Tick, ItemsOwned, OneClaimPerWindow, SuppressedInWindow, Claimed
  <2> QED
    BY <2>2, <2>4, <2>5
<1>8. CASE UNCHANGED vars
  BY <1>8 DEF vars, TypeOK, ClaimsStarted, MomentsPast, ClaimsVisible, ItemsOwned,
              OneClaimPerWindow, SuppressedInWindow, Claimed
<1> QED
  BY <1>1, <1>2, <1>3, <1>4, <1>5, <1>6, <1>7, <1>8 DEF Next

(* The variables keep their types. *)
THEOREM TypeCorrect == Spec => []TypeOK
<1>1. IInv => TypeOK
  BY DEF IInv
<1> QED
  BY InitIInv, NextIInv, <1>1, PTL DEF Spec

(* At most one claim of a fingerprint per window, for every number of      *)
(* callers and whatever the TTL, the SDK and the clock do.                 *)
THEOREM OneClaimPerWindowHolds == Spec => []OneClaimPerWindow
<1>1. IInv => OneClaimPerWindow
  BY DEF IInv
<1> QED
  BY InitIInv, NextIInv, <1>1, PTL DEF Spec

(* A suppressed caller is inside the window of some claim. *)
THEOREM SuppressedInWindowHolds == Spec => []SuppressedInWindow
<1>1. IInv => SuppressedInWindow
  BY DEF IInv
<1> QED
  BY InitIInv, NextIInv, <1>1, PTL DEF Spec
=============================================================================
