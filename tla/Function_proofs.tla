--------------------------- MODULE Function_proofs ----------------------------
(***************************************************************************)
(* What holds of any number of containers, environments and webhooks.      *)
(* FInv joins two invariants: what a container has resolved is what a cold *)
(* start would compute (Fresh), and claims under way account for the posts *)
(* still to come (Accounted).                                              *)
(***************************************************************************)
EXTENDS Function, FiniteSetTheorems, TLAPS

Labels == {"off", "idle", "config", "notifier", "execute", "claim", "webhook", "post"}

Working == {"execute", "claim", "webhook", "post"}

Typed ==
    /\ env \in [Containers -> Environments \cup {None}]
    /\ DOMAIN config = Containers /\ DOMAIN notifier = Containers
    /\ webhook \in [Containers -> Webhooks \cup {None}]
    /\ pc \in [Containers -> Labels]
    /\ secret \in Webhooks \cup {Unusable}

(* What container c knows of its environment. *)
Fresh(c) ==
    /\ pc[c] # "off" => env[c] \in Environments
    /\ config[c] # None \/ pc[c] \in Working \cup {"notifier"} =>
          config[c] = FromEnv(env[c]) /\ WellConfigured(env[c])
    /\ notifier[c] # None \/ pc[c] \in Working =>
          notifier[c] = NotifierFor(FromEnv(env[c]))

(* The claims that have not come to their post yet. *)
Pending == {c \in Containers : pc[c] \in {"webhook", "post"}}

Accounted ==
    /\ granted \in Nat /\ posts \in Nat
    /\ IsFiniteSet(Pending)
    /\ posts + Cardinality(Pending) <= granted

FInv ==
    /\ Typed
    /\ \A c \in Containers : Fresh(c)
    /\ \A e \in acted : e \in Environments /\ WellConfigured(e) /\ ~DryRun(e)
    /\ Accounted

LEMMA InitFInv == Init => FInv
<1> SUFFICES ASSUME Init PROVE FInv
  OBVIOUS
<1>1. Typed
  BY DEF Init, Typed, Labels
<1>2. \A c \in Containers : Fresh(c)
  BY DEF Init, Fresh, Working
<1>3. Accounted
  <2>1. Pending = {}
    BY DEF Init, Pending
  <2>2. IsFiniteSet({}) /\ Cardinality({}) = 0
    BY FS_EmptySet
  <2> QED
    BY <2>1, <2>2 DEF Init, Accounted
<1> QED
  BY <1>1, <1>2, <1>3 DEF FInv, Init

-----------------------------------------------------------------------------
(* The account of claims and posts under a step of container c. *)
LEMMA PendingMoves ==
    ASSUME Accounted, NEW c \in Containers, NEW label,
           pc \in [Containers -> Labels], Goto(c, label)
    PROVE  /\ c \in Pending /\ label \in {"webhook", "post"} => Pending' = Pending
           /\ c \notin Pending /\ label \notin {"webhook", "post"} => Pending' = Pending
           /\ c \in Pending /\ label \notin {"webhook", "post"} =>
                 IsFiniteSet(Pending') /\ Cardinality(Pending') = Cardinality(Pending) - 1
           /\ c \notin Pending /\ label \in {"webhook", "post"} =>
                 IsFiniteSet(Pending') /\ Cardinality(Pending') = Cardinality(Pending) + 1
<1>1. c \in Pending /\ label \in {"webhook", "post"} => Pending' = Pending
  BY DEF Pending, Goto
<1>2. c \notin Pending /\ label \notin {"webhook", "post"} => Pending' = Pending
  BY DEF Pending, Goto
<1>3. ASSUME c \in Pending, label \notin {"webhook", "post"}
      PROVE  IsFiniteSet(Pending') /\ Cardinality(Pending') = Cardinality(Pending) - 1
  <2>1. Pending' = Pending \ {c}
    BY <1>3 DEF Pending, Goto
  <2> QED
    BY <1>3, <2>1, FS_RemoveElement DEF Accounted
<1>4. ASSUME c \notin Pending, label \in {"webhook", "post"}
      PROVE  IsFiniteSet(Pending') /\ Cardinality(Pending') = Cardinality(Pending) + 1
  <2>1. Pending' = Pending \cup {c}
    BY <1>4 DEF Pending, Goto
  <2> QED
    BY <1>4, <2>1, FS_AddElement DEF Accounted
<1> QED
  BY <1>1, <1>2, <1>3, <1>4

(* A step of c that leaves the claims and posts alone, and starts none. *)
LEMMA AccountKept ==
    ASSUME FInv, NEW c \in Containers, NEW label, Goto(c, label),
           UNCHANGED <<granted, posts>>,
           label \in {"webhook", "post"} => pc[c] \in {"webhook", "post"}
    PROVE  Accounted'
<1>1. Cardinality(Pending) \in Nat
  BY FS_CardinalityType DEF FInv, Accounted
<1>2. label \in {"webhook", "post"} => c \in Pending
  BY DEF Pending
<1> QED
  BY <1>1, <1>2, PendingMoves DEF FInv, Typed, Accounted

(* A step of c that changes what only c knows of its environment. *)
LEMMA StepFresh ==
    ASSUME FInv, NEW c \in Containers, Step(c)
    PROVE  Typed' /\ \A x \in Containers : Fresh(x)'
<1>1. CASE ColdStart(c)
  BY <1>1 DEF ColdStart, Goto, FInv, Typed, Fresh, Labels, Working, slack
<1>2. CASE Stop(c)
  BY <1>2 DEF Stop, Goto, FInv, Typed, Fresh, Labels, Working, slack, container
<1>3. CASE Invoke(c)
  BY <1>3 DEF Invoke, Goto, FInv, Typed, Fresh, Labels, Working, slack, container
<1>4. CASE ResolveConfig(c)
  BY <1>4 DEF ResolveConfig, Goto, FInv, Typed, Fresh, Labels, Working, slack
<1>5. CASE ConfigRaises(c) \/ NotifierRaises(c)
  BY <1>5 DEF ConfigRaises, NotifierRaises, Raise, Goto, FInv, Typed, Fresh, Labels, Working, slack, container
<1>6. CASE ResolveNotifier(c)
  BY <1>6 DEF ResolveNotifier, Goto, FInv, Typed, Fresh, Labels, Working, slack
<1>7. CASE Execute(c) \/ ExecuteRaises(c)
  BY <1>7 DEF Execute, ExecuteRaises, Work, Raise, Goto, FInv, Typed, Fresh, Labels, Working, slack, container
<1>8. CASE Claim(c) \/ ClaimRaises(c)
  BY <1>8 DEF Claim, ClaimRaises, Raise, Goto, FInv, Typed, Fresh, Labels, Working, slack, container
<1>9. CASE ResolveWebhook(c)
  BY <1>9 DEF ResolveWebhook, Goto, FInv, Typed, Fresh, Labels, Working, slack
<1>10. CASE Post(c) \/ PostRaises(c)
  BY <1>10 DEF Post, PostRaises, Raise, Goto, FInv, Typed, Fresh, Labels, Working, slack, container
<1> QED
  BY <1>1, <1>2, <1>3, <1>4, <1>5, <1>6, <1>7, <1>8, <1>9, <1>10 DEF Step

(* Only execute changes resources, and in its own environment. *)
LEMMA StepActed ==
    ASSUME FInv, NEW c \in Containers, Step(c), NEW e \in acted'
    PROVE  e \in Environments /\ WellConfigured(e) /\ ~DryRun(e)
<1>1. e \in acted \/ (pc[c] = "execute" /\ e = env[c] /\ ~config[c].dryRun)
  BY DEF Step, ColdStart, Stop, Invoke, ResolveConfig, ConfigRaises, ResolveNotifier,
         NotifierRaises, Execute, ExecuteRaises, Work, Claim, ClaimRaises, ResolveWebhook,
         Post, PostRaises, history
<1>2. CASE pc[c] = "execute" /\ e = env[c] /\ ~config[c].dryRun
  <2>1. config[c] = FromEnv(env[c]) /\ WellConfigured(env[c]) /\ env[c] \in Environments
    BY <1>2 DEF FInv, Fresh, Working
  <2> QED
    BY <1>2, <2>1 DEF FromEnv
<1> QED
  BY <1>1, <1>2 DEF FInv

(* A claim granted adds one to the posts to come; a post or a step that    *)
(* gives it up takes one away.                                             *)
LEMMA StepAccounted == ASSUME FInv, NEW c \in Containers, Step(c) PROVE Accounted'
<1>1. Cardinality(Pending) \in Nat
  BY FS_CardinalityType DEF FInv, Accounted
<1>2. CASE ColdStart(c) \/ Stop(c) \/ Invoke(c) \/ ResolveConfig(c) \/ ResolveNotifier(c)
  BY <1>2, AccountKept DEF ColdStart, Stop, Invoke, ResolveConfig, ResolveNotifier, history
<1>3. CASE ConfigRaises(c) \/ NotifierRaises(c) \/ ExecuteRaises(c) \/ ClaimRaises(c)
  BY <1>3, AccountKept DEF ConfigRaises, NotifierRaises, ExecuteRaises, ClaimRaises, Raise
<1>4. CASE Execute(c)
  BY <1>4, AccountKept DEF Execute, Work
<1>5. CASE ResolveWebhook(c)
  BY <1>5, AccountKept DEF ResolveWebhook, history
<1>6. CASE Claim(c)
  <2>1. CASE Goto(c, "idle") /\ UNCHANGED granted
    BY <1>6, <2>1, AccountKept DEF Claim
  <2>2. CASE Goto(c, "webhook") /\ granted' = granted + 1
    <3>1. posts' = posts /\ c \notin Pending
      BY <1>6, <2>2 DEF Claim, Pending
    <3> QED
      BY <1>1, <2>2, <3>1, PendingMoves DEF FInv, Typed, Accounted
  <2> QED
    BY <1>6, <2>1, <2>2 DEF Claim
<1>7. CASE Post(c) \/ PostRaises(c)
  <2>1. Goto(c, "idle") /\ posts' \in {posts, posts + 1} /\ granted' = granted /\ c \in Pending
    BY <1>7 DEF Post, PostRaises, Send, Raise, Pending
  <2> QED
    BY <1>1, <2>1, PendingMoves DEF FInv, Typed, Accounted
<1> QED
  BY <1>2, <1>3, <1>4, <1>5, <1>6, <1>7 DEF Step

(* What happens outside the containers. *)
World ==
    \/ Arrive \/ DedupExpires
    \/ \E url \in Webhooks : Issue(url) \/ Revoke(url)
    \/ \E v \in Webhooks \cup {Unusable} : UpdateSecret(v)

LEMMA WorldFInv == FInv /\ World => FInv'
<1> SUFFICES ASSUME FInv, World PROVE FInv'
  OBVIOUS
<1>1. UNCHANGED <<container, pc, history>> /\ secret' \in Webhooks \cup {Unusable}
  BY DEF World, Arrive, DedupExpires, Issue, Revoke, UpdateSecret, FInv, Typed, slack
<1>2. UNCHANGED <<env, config, notifier, webhook, pc, granted, posts, acted>>
  BY <1>1 DEF container, history
<1>3. Accounted'
  BY <1>2 DEF FInv, Accounted, Pending
<1>4. Typed' /\ \A c \in Containers : Fresh(c)'
  BY <1>1, <1>2 DEF FInv, Typed, Fresh
<1> QED
  BY <1>2, <1>3, <1>4 DEF FInv

LEMMA NextFInv == FInv /\ [Next]_vars => FInv'
<1> SUFFICES ASSUME FInv, [Next]_vars PROVE FInv'
  OBVIOUS
<1>1. ASSUME NEW c \in Containers, Step(c) PROVE FInv'
  BY <1>1, StepFresh, StepActed, StepAccounted DEF FInv
<1>2. CASE UNCHANGED vars
  BY <1>2 DEF FInv, Typed, Fresh, Accounted, Pending,
     vars, container, slack, history
<1> QED
  BY <1>1, <1>2, WorldFInv DEF Next, World

LEMMA AlwaysFInv == Spec => []FInv
  BY InitFInv, NextFInv, PTL DEF Spec

(* Fail closed: a resource is changed only where PAC_DRY_RUN says false    *)
(* and the rest of the configuration is right (config.py:80-83).           *)
THEOREM ActsOnlyWhenToldHolds == Spec => []ActsOnlyWhenTold
<1>1. FInv => ActsOnlyWhenTold
  <2> SUFFICES ASSUME FInv, NEW e \in acted
               PROVE  /\ e.dryRun = "falsy" /\ e.detectionId = "set"
                      /\ e.tableName = "set" /\ e.limits # "malformed"
    BY DEF ActsOnlyWhenTold
  <2>1. e \in Environments /\ WellConfigured(e) /\ ~DryRun(e)
    BY DEF FInv
  <2>2. e.dryRun \in {"unset", "truthy", "falsy", "malformed"}
    BY <2>1, EnvironmentsAssumption
  <2> QED
    BY <2>1, <2>2 DEF WellConfigured, DryRun
<1> QED
  BY AlwaysFInv, <1>1, PTL

(* A warm container works with what a cold start would compute. *)
THEOREM WarmIsColdHolds == Spec => []WarmIsCold
<1>1. FInv => WarmIsCold
  BY DEF FInv, Fresh, WarmIsCold, Working
<1> QED
  BY AlwaysFInv, <1>1, PTL

(* Failed reads of the secret do not stick: an alert is dropped for want of*)
(* a webhook only while the secret is unusable (slack.py:88-97).           *)
THEOREM MendedIsUsedHolds == Spec => MendedIsUsed
<1> DEFINE Mended == \A c \in Containers :
                        pc[c] = "webhook" /\ pc'[c] = "idle" => secret = Unusable
<1>1. ASSUME FInv, Next, NEW c \in Containers, pc[c] = "webhook", pc'[c] = "idle"
      PROVE  secret = Unusable
  <2>1. CASE World
    BY <1>1, <2>1 DEF World, Arrive, DedupExpires, Issue, Revoke, UpdateSecret
  <2>2. ASSUME NEW x \in Containers, Step(x) PROVE secret = Unusable
    <3>1. x = c
      BY <1>1, <2>2 DEF Step, ColdStart, Stop, Invoke, ResolveConfig, ConfigRaises, ResolveNotifier,
         NotifierRaises, Execute, ExecuteRaises, Work, Claim, ClaimRaises, ResolveWebhook,
         Post, PostRaises, Raise, Goto, FInv, Typed
    <3>2. ResolveWebhook(c)
      BY <1>1, <2>2, <3>1 DEF Step, ColdStart, Stop, Invoke, ResolveConfig, ConfigRaises, ResolveNotifier,
         NotifierRaises, Execute, ExecuteRaises, Work, Claim, ClaimRaises,
         Post, PostRaises, Raise, Goto, FInv, Typed
    <3>3. webhook'[c] = None
      BY <1>1, <3>2 DEF ResolveWebhook, Goto, FInv, Typed
    <3> QED
      <4> SUFFICES ASSUME secret # Unusable PROVE FALSE
        OBVIOUS
      <4>1. webhook[c] = None => webhook'[c] = secret
        BY <1>1, <3>2 DEF ResolveWebhook, FInv, Typed
      <4>2. webhook[c] # None => webhook'[c] = webhook[c]
        BY <3>2 DEF ResolveWebhook
      <4>3. secret \in Webhooks
        BY <1>1 DEF FInv, Typed
      <4> QED
        BY <3>3, <4>1, <4>2, <4>3, NoneAssumption
  <2> QED
    BY <1>1, <2>1, <2>2 DEF Next, World
<1>2. FInv /\ [Next]_vars => [Mended]_vars
  BY <1>1
<1> QED
  BY AlwaysFInv, <1>2, PTL DEF Spec, MendedIsUsed

(* Slack has no more posts than claims were granted, whatever is retried.  *)
THEOREM PostsAreClaimedHolds == Spec => []PostsAreClaimed
<1>1. FInv => PostsAreClaimed
  <2> SUFFICES ASSUME FInv PROVE PostsAreClaimed
    OBVIOUS
  <2>1. Cardinality(Pending) \in Nat
    BY FS_CardinalityType DEF FInv, Accounted
  <2> QED
    BY <2>1 DEF FInv, Accounted, PostsAreClaimed
<1> QED
  BY AlwaysFInv, <1>1, PTL
=============================================================================
