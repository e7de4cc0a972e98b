------------------------------ MODULE Function ------------------------------
(***************************************************************************)
(* The containers of the Lambda function: what each keeps between          *)
(* invocations (its configuration, its notifier and the notifier's         *)
(* webhook), and how an alert is claimed, addressed and posted after the   *)
(* work of execute.  Webhooks are issued and revoked, the secret is changed*)
(* by hand, the function reconfigured, containers come and go; an          *)
(* invocation that raises is tried again, by any container.                *)
(*                                                                         *)
(* All invocations are about one resource, with one alert fingerprint.     *)
(***************************************************************************)
EXTENDS Naturals, FiniteSets

CONSTANTS
    Containers,
    Environments,  \* [detectionId, tableName, dryRun, limits, secretArn]
    None,          \* no value
    Webhooks,      \* the URLs that Slack hands out over time
    MaxQueue,      \* bound: invocations waiting
    MaxGrants,     \* bound: claims granted
    MaxRotations   \* bound: changes in Slack and of the secret

(* A variable of the environment is unset, or has a value of some class.   *)
(* The last three positive integers behave alike and are one variable.     *)
ASSUME EnvironmentsAssumption ==
    Environments \subseteq
        [detectionId : {"unset", "set"}, tableName : {"unset", "set"},
         dryRun : {"unset", "truthy", "falsy", "malformed"},
         limits : {"unset", "positive", "malformed"}, secretArn : {"unset", "set"}]

ASSUME NoneAssumption == None \notin Webhooks

Unusable == "unusable"   \* a secret that cannot be read or is no https URL

VARIABLES
    env,        \* container -> its environment
    config,     \* container -> its Config, or None
    notifier,   \* container -> None, "null" or "slack"
    webhook,    \* container -> the webhook it has cached, or None
    pc,         \* container -> "off", "idle", or where its invocation is
    queue,      \* invocations waiting for a container
    secret,     \* the secret's value: a webhook, or Unusable
    live,       \* the webhooks that Slack accepts
    revoked,    \* those that it no longer does
    rotations,  \* changes in Slack and of the secret so far
    claimed,    \* whether the fingerprint is claimed in the current window
    granted,    \* history: claims granted
    posts,      \* history: posts that Slack accepted
    acted,      \* history: environments in which a resource was changed
    alertRaised \* history: whether an invocation raised in its alert

container == <<env, config, notifier, webhook>>
slack     == <<secret, live, revoked, rotations>>
history   == <<granted, posts, acted, alertRaised>>
vars      == <<container, pc, queue, slack, claimed, history>>

-----------------------------------------------------------------------------
(* Mutation: a flag that is unset is off. *)
DryRunUnsetIsOff(e) == e.dryRun = "truthy"

(* _flag: on by default, and off only when it says so. *)
DryRun(e) == e.dryRun \in {"unset", "truthy"}

(* from_env raises ConfigError for the others. *)
WellConfigured(e) ==
    /\ "set" = e.detectionId /\ "set" = e.tableName
    /\ "malformed" \notin {e.dryRun, e.limits}

FromEnv(e) == [dryRun |-> DryRun(e), secretArn |-> e.secretArn]

(* _build_notifier *)
NotifierFor(cfg) == IF cfg.secretArn = "unset" THEN "null" ELSE "slack"

Init ==
    /\ env = [c \in Containers |-> None] /\ config = [c \in Containers |-> None]
    /\ notifier = [c \in Containers |-> None] /\ webhook = [c \in Containers |-> None]
    /\ pc = [c \in Containers |-> "off"]
    /\ queue = 0
    /\ secret = Unusable /\ live = {} /\ revoked = {} /\ rotations = 0
    /\ claimed = FALSE
    /\ granted = 0 /\ posts = 0
    /\ acted = {} /\ alertRaised = FALSE

Goto(c, label) == pc' = [pc EXCEPT ![c] = label]

(* A container starts, in the environment the function has by then. *)
ColdStart(c) ==
    /\ pc[c] = "off"
    /\ Goto(c, "idle")
    /\ \E e \in Environments : env' = [env EXCEPT ![c] = e]
    /\ config' = [config EXCEPT ![c] = None]
    /\ notifier' = [notifier EXCEPT ![c] = None]
    /\ webhook' = [webhook EXCEPT ![c] = None]
    /\ UNCHANGED <<queue, slack, claimed, history>>

(* Lambda ends an idle container, or one in the middle of an invocation,   *)
(* which is then tried again or given up.                                  *)
Stop(c) ==
    /\ pc[c] # "off"
    /\ Goto(c, "off")
    /\ queue' \in {queue} \cup (IF pc[c] = "idle" THEN {} ELSE {queue + 1})
    /\ queue' <= MaxQueue
    /\ UNCHANGED <<container, slack, claimed, history>>

Arrive ==
    /\ queue < MaxQueue
    /\ queue' = queue + 1
    /\ UNCHANGED <<container, pc, slack, claimed, history>>

(* Slack issues a webhook, and revokes one for good; the secret is given   *)
(* another value, or made unreadable.  Nothing keeps the three in step.    *)
Rotating == rotations < MaxRotations /\ rotations' = rotations + 1

Issue(url) ==
    /\ Rotating
    /\ url \notin live \cup revoked
    /\ live' = live \cup {url}
    /\ UNCHANGED <<container, pc, queue, secret, revoked, claimed, history>>

Revoke(url) ==
    /\ Rotating
    /\ url \in live
    /\ live' = live \ {url} /\ revoked' = revoked \cup {url}
    /\ UNCHANGED <<container, pc, queue, secret, claimed, history>>

UpdateSecret(v) ==
    /\ Rotating
    /\ v # secret
    /\ secret' = v
    /\ UNCHANGED <<container, pc, queue, live, revoked, claimed, history>>

DedupExpires ==
    /\ claimed
    /\ claimed' = FALSE
    /\ UNCHANGED <<container, pc, queue, slack, history>>

-----------------------------------------------------------------------------
Invoke(c) ==
    /\ pc[c] = "idle" /\ queue > 0
    /\ queue' = queue - 1
    /\ Goto(c, "config")
    /\ UNCHANGED <<container, slack, claimed, history>>

(* The invocation raises; what resolve has set so far stays set. *)
Raise(c) ==
    /\ Goto(c, "idle")
    /\ alertRaised' = (alertRaised \/ pc[c] = "post")
    /\ queue' \in {queue, queue + 1} /\ queue' <= MaxQueue

(* resolve reads the environment once. *)
ResolveConfig(c) ==
    /\ pc[c] = "config"
    /\ config[c] # None \/ WellConfigured(env[c])
    /\ config' = [config EXCEPT ![c] = IF @ = None THEN FromEnv(env[c]) ELSE @]
    /\ Goto(c, "notifier")
    /\ UNCHANGED <<env, notifier, webhook, queue, slack, claimed, history>>

ConfigRaises(c) ==
    /\ pc[c] = "config"
    /\ config[c] = None /\ ~WellConfigured(env[c])
    /\ Raise(c)
    /\ UNCHANGED <<container, slack, claimed, granted, posts, acted>>

(* Clients and notifier follow, once. *)
ResolveNotifier(c) ==
    /\ pc[c] = "notifier"
    /\ notifier' = [notifier EXCEPT ![c] = IF @ = None THEN NotifierFor(config[c]) ELSE @]
    /\ Goto(c, "execute")
    /\ UNCHANGED <<env, config, webhook, queue, slack, claimed, history>>

(* Mutation: without a notifier a container goes on with none. *)
NotifierRaisesToNull(c) ==
    /\ pc[c] = "notifier" /\ notifier[c] = None
    /\ notifier' = [notifier EXCEPT ![c] = "null"]
    /\ Raise(c)
    /\ UNCHANGED <<env, config, webhook, slack, claimed, granted, posts, acted>>

(* The clients or the notifier cannot be made. *)
NotifierRaises(c) ==
    /\ pc[c] = "notifier" /\ notifier[c] = None
    /\ Raise(c)
    /\ UNCHANGED <<container, slack, claimed, granted, posts, acted>>

(* execute, up to its call of notify if it makes one: module Pipeline.     *)
Work(c) ==
    /\ pc[c] = "execute"
    /\ acted' = IF config[c].dryRun THEN acted ELSE acted \cup {env[c]}

Execute(c) ==
    /\ \/ Work(c) /\ Goto(c, IF notifier[c] = "null" THEN "idle" ELSE "claim")
       \/ pc[c] = "execute" /\ Goto(c, "idle") /\ UNCHANGED acted
    /\ UNCHANGED <<container, queue, slack, claimed, granted, posts, alertRaised>>

(* An error of plan, or of the table before or after apply. *)
ExecuteRaises(c) ==
    /\ Work(c) \/ (pc[c] = "execute" /\ UNCHANGED acted)
    /\ Raise(c)
    /\ UNCHANGED <<container, slack, claimed, granted, posts>>

(* Mutation: the alert is posted first. *)
ClaimIgnored(c) ==
    /\ pc[c] = "claim" /\ granted < MaxGrants
    /\ Goto(c, "webhook")
    /\ claimed' = TRUE
    /\ granted' = IF claimed THEN granted ELSE granted + 1
    /\ UNCHANGED <<container, queue, slack, posts, acted, alertRaised>>

(* notify claims the fingerprint or is suppressed, by an earlier claim or, *)
(* when a reply was lost, by its own: module Dedup.                        *)
Claim(c) ==
    /\ pc[c] = "claim" /\ granted < MaxGrants
    /\ claimed' = TRUE
    /\ \/ ~claimed /\ Goto(c, "webhook") /\ granted' = granted + 1
       \/ Goto(c, "idle") /\ UNCHANGED granted
    /\ UNCHANGED <<container, queue, slack, posts, acted, alertRaised>>

(* The put fails, whether or not the table carried it out: claim raises.   *)
ClaimRaises(c) ==
    /\ pc[c] = "claim"
    /\ claimed' \in {claimed, TRUE}
    /\ Raise(c)
    /\ UNCHANGED <<container, slack, granted, posts, acted>>

(* Mutation: what was read is cached before it is looked at. *)
ResolveWebhookUnseen(c) ==
    /\ pc[c] = "webhook"
    /\ webhook' = [webhook EXCEPT ![c] = IF @ = None THEN secret ELSE @]
    /\ Goto(c, IF webhook'[c] = Unusable THEN "idle" ELSE "post")
    /\ UNCHANGED <<env, config, notifier, queue, slack, claimed, history>>

(* The webhook comes from the cache, or from the secret, and only a usable *)
(* one is cached; without one the alert is dropped with a log line.        *)
ResolveWebhook(c) ==
    /\ pc[c] = "webhook"
    /\ IF webhook[c] = None /\ secret # Unusable
         THEN webhook' = [webhook EXCEPT ![c] = secret]
         ELSE UNCHANGED webhook
    /\ Goto(c, IF webhook'[c] = None THEN "idle" ELSE "post")
    /\ UNCHANGED <<env, config, notifier, queue, slack, claimed, history>>

(* The post reaches Slack, which takes it if the webhook is live, or it    *)
(* does not reach Slack at all.                                            *)
Send(c) == (webhook[c] \in live /\ posts' = posts + 1) \/ UNCHANGED posts

(* Slack answers, or urlopen raises a URLError, which is caught. *)
Post(c) ==
    /\ pc[c] = "post"
    /\ Send(c)
    /\ Goto(c, "idle")
    /\ UNCHANGED <<container, queue, slack, claimed, granted, acted, alertRaised>>

(* Slack takes the request and no answer comes in time, or the connection  *)
(* ends without one: a TimeoutError or RemoteDisconnected is no URLError   *)
(* and leaves the invocation.                                              *)
PostRaises(c) ==
    /\ pc[c] = "post"
    /\ Send(c)
    /\ Raise(c)
    /\ UNCHANGED <<container, slack, claimed, granted, acted>>

Step(c) ==
    \/ ColdStart(c) \/ Stop(c) \/ Invoke(c)
    \/ ResolveConfig(c) \/ ConfigRaises(c) \/ ResolveNotifier(c) \/ NotifierRaises(c)
    \/ Execute(c) \/ ExecuteRaises(c) \/ Claim(c) \/ ClaimRaises(c)
    \/ ResolveWebhook(c) \/ Post(c) \/ PostRaises(c)

Next ==
    \/ \E c \in Containers : Step(c)
    \/ Arrive \/ DedupExpires
    \/ \E url \in Webhooks : Issue(url) \/ Revoke(url)
    \/ \E v \in Webhooks \cup {Unusable} : UpdateSecret(v)

Spec == Init /\ [][Next]_vars

-----------------------------------------------------------------------------
(* Fail closed (config.py:80-83, entrypoint.py:3-6): whatever the function *)
(* was configured with over time, a resource was changed only where        *)
(* PAC_DRY_RUN is there and says false and all that is required is right.  *)
ActsOnlyWhenTold ==
    \A e \in acted :
        /\ e.dryRun = "falsy"
        /\ e.detectionId = "set" /\ e.tableName = "set" /\ e.limits # "malformed"

(* A warm container, also one whose first invocations raised halfway       *)
(* through resolve, works with what a cold start would give it.            *)
WarmIsCold ==
    \A c \in Containers :
        pc[c] \in {"execute", "claim", "webhook", "post"} =>
            config[c] = FromEnv(env[c]) /\ notifier[c] = NotifierFor(FromEnv(env[c]))

(* Failed reads do not stick (slack.py:88-97): whatever a container has    *)
(* read before, it drops an alert for want of a webhook only while the     *)
(* secret is unusable.                                                     *)
MendedIsUsed ==
    [][\A c \in Containers : pc[c] = "webhook" /\ pc'[c] = "idle" => secret = Unusable]_vars

(* However invocations raise after the post and are tried again, Slack has *)
(* no more posts than claims were granted.                                 *)
PostsAreClaimed == posts <= granted

(* slack.py:114-117: an undeliverable alert must not cause a retry.        *)
AlertNeverRetries == ~alertRaised
=============================================================================
