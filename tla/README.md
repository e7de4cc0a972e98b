# PontoAntiCrack in TLA+

PontoAntiCrack watches an AWS account for three kinds of exposure (a security
group open to the world, a public S3 bucket, an active access key that has
leaked) and removes them. A CloudTrail event reaches an EventBridge rule, the
rule invokes the detection's Lambda function asynchronously, and the function
runs `runtime.execute`: plan, snapshot to an audit table, circuit breaker,
apply, close the record, alert. This directory holds TLA+ models of that
program, TLC configurations that check them on small instances, and TLAPS
proofs of their main properties for every value of the constants. Paths below
are relative to the repository.

What is at stake is the record. The system changes other people's resources
without asking, so its audit table has to be true, complete and enough to undo
what was done, although events arrive twice, invocations overlap, time out and
are run again, calls to AWS succeed without their reply arriving, and people
change the same resources meanwhile. The tests run `execute` once, from start
to end, against a mock that never loses a reply; the models are about the rest.

## Inventory

| Component (source) | State | Operations | Hard behaviour | What makes it correct |
|---|---|---|---|---|
| Runtime (`remediations/common/runtime.py`) | locals of one invocation | `execute` | dies or is run again between any two AWS calls; overlaps with itself | snapshot before removal; verdicts true; nothing left dangerous without a trace |
| Audit log (`audit.py`) | `AUDIT#` items, no TTL | `open`, `close`, `record_unplanned` | whole-item puts under a key that retries reuse | a record left PLANNED means a death; the snapshot of what was removed survives |
| Circuit breaker (`circuit_breaker.py`) | one counter item per window, with TTL | `check_and_increment` | clock read before an atomic ADD, resent ADDs, TTL deletions | at most the limit admitted in a window; a window that refused stays shut |
| Alert dedup (`notifier/dedup.py`) | one item per fingerprint, with `expires_at` | `claim` | clock read before a conditional put, resent puts, TTL deletions | one alert per window; suppression ends with the window |
| Slack notifier (`notifier/slack.py`) | cached webhook | `notify`, `_post`, `_resolve_webhook` | claims before it posts; Slack down; webhook and secret changed one after the other | what is on record is alerted on; an undelivered alert undoes nothing and re-runs nothing |
| `sg-open` handler | none | `plan`, `apply` | port ranges, mixed sources, rules revoked meanwhile | a remediated group admits no incident; nothing else is cut off |
| `s3-public` handler | none | four reads of `plan`, two calls of `apply` | the reads are not atomic; the ACL is replaced as a whole | verdicts true up to later changes; dropped grants are in the snapshot |
| `iam-key-leak` handler | none | three reads, one call | reads that fail open; a key others use | the exclusion tag is honoured; APPLIED is ours unless others were at it; the key is dead |
| Detection contract (`detection.py`) | none | `plan`, `apply` as a protocol | | plan only reads |
| Values (`models.py`), event parsing (`events.py`) | none | `is_pac_automation`, `parse`, ARN parsing | callers of several kinds, missing fields; keys that coincide | events of our own making are recognised, and by a name only; records do not collide |
| Entry point, configuration, clients, clock | config, clients, notifier, webhook per container | `lambda_handler`, `resolve`, `from_env` | reuse of a container, one that raised halfway through `resolve` included | dry-run unless told otherwise; warm is as good as cold |
| Redaction (`redact.py`) | none | `scrub` | nesting; rendering turns keys into text; texts are cut off | secrets stay out of what is scrubbed, identifiers stay in |
| Delivery (`infra/modules/detection/main.tf`) | queue, retries, dead letters | asynchronous invocation | duplicates, timeouts, throttling | every event is handled or dead-lettered |
| Event patterns, tests, attack simulation, scripts, other infrastructure | | | | outside the running system |

The components meet in two places. The DynamoDB table carries audit records,
breaker counters and dedup claims, under different keys: invocations that know
nothing of each other communicate only through it. The watched resources are
changed by `apply`, by people, and, through CloudTrail, the former shows up as
an event of the watched kind again.

## Modules

| Module | Models |
|---|---|
| `CircuitBreaker` | `check_and_increment` alone, with clock, windows, TTL, lost replies and kills |
| `Dedup` | `Deduplicator.claim` alone, with the same environment |
| `Pipeline` | event, deliveries, Lambda's retries, `execute`, the audit table, breaker, `apply` and the alert |
| `Remediation` | what the pipeline promises, abstractly; `Pipeline` is shown to implement it |
| `Handlers` | the shapes of the three detections, which `Pipeline` takes as constants |
| `SgOpen`, `S3Public`, `IamKeyLeak` | each handler on one resource, call by call, while people change it |
| `Events` | `events.parse`, the audit key and the loop guard, with fields missing |
| `Function` | the containers of the function: configuration, notifier, webhook, claim and post |
| `Redact` | what leaves the function for the audit item and the alert, and what redaction takes out of it |
| `Invocation` | `SgOpen`, `S3Public`, `IamKeyLeak`, `Events` and `Redact` side by side, with what AWS guarantees of their inputs; they share no state, and a behaviour runs one of them |
| `MCCircuitBreaker`, `MCDedup`, `MCPipeline`, `MCFunction`, `MCInvocation` | small instances for TLC |
| `CircuitBreaker_proofs`, `Dedup_proofs`, `Function_proofs`, `Invocation_proofs` | theorems of those modules |
| `Pipeline_proofs`, `PipelineVerdict_proofs`, `PipelineRecord_proofs`, `PipelineRefinement_proofs` | theorems of `Pipeline`, each module resting on the one before |

### CircuitBreaker

An invocation reads the clock (`ReadClock`); `moment` is the local `now`. One
`Add` is the DynamoDB `ADD attempts :one` on the item of `WindowStart(moment)`,
with its reply (`Increment`, which keeps the new value in `count`) or without
it (`LoseReply`: the SDK sends the same ADD again). `Kill` ends an invocation
between read and answer; no write leaves it later than `TimeoutSeconds` after
its read, since the read is made inside the invocation. `Expire` is the table's
TTL, any time after `expires_at`, or never. `Open` is `BreakerState.open`.

### Dedup

A caller reads the clock, then sends a put whose condition is `Claimable`
(`attribute_not_exists(pk) OR expires_at < :now`): `Claim` when it holds,
`Suppress` when not, `LoseReply` when it holds and the reply is lost.
`claimedAt` is a history variable. Here the function's timeout may exceed the
window, because nothing in the code relates the two.

### Pipeline

A resource is the set of its dangerous parts. `Benign` says for which sets
`plan` returns `None`, and `Calls` which parts each AWS call of `apply` asks to
remove. A delivery `<<e, n>>` is the n-th asynchronous invocation of event `e`.
Its `pc` names the next call to AWS:

| `pc` | Action | Code |
|---|---|---|
| queued | `Start` | `execute`, up to the loop guard |
| plan | `PlanNameless`, `PlanBenign`, `PlanExcluded`, `PlanDangerous` | `detection.plan`: it returns `None` because the event names no resource, or because the resource is harmless; the excluded branch; a plan |
| record | `Record` | `audit.record_unplanned` |
| open | `Open` | `audit.open`, and the escalation of a plan without actions |
| breaker | `Breaker` | `check_and_increment`, then the dry-run switch |
| apply | `Apply`, `ApplyRaises` | one AWS call of `apply`; the `except` branch |
| close | `Close` | `audit.close` |
| claim, post | `Claim`, `Post` | `notifier.notify`: claim, then post |
| return | `Return` | the return to Lambda |
| any of them | `Fail` | timeout, crash or exception: back to queued, or dead-lettered after `MaxTries` |

`ApplyRaises` covers a call that AWS refused and a call it carried out whose
reply was lost; the code cannot tell them apart and neither does the model's
`FAILED`. `Fail` may strike before any of the calls and after the last of them,
so a call that was carried out by an invocation that then died is an `Apply` or
an `Open` followed by `Fail`. A failed invocation that could still write after
the next one has started is covered by `Duplicate`: two live deliveries of one
event, at most `Concurrency` at once.

The environment may expose a resource, repair part of it, set or clear its
exclusion tag, deliver an event again, begin a new breaker window and end a
dedup window. Each exposure is told of in one of the ways in `Tellings`:
`named` is an event that names the resource; `nameless` one that does not, of
which `plan` returns `None` without a look at anything (a call by group name,
`sg_open/handler.py:86-87`; `s3_public/handler.py:47-48`;
`iam_key_leak/handler.py:36-37`); `unheard` a change that makes no event (a key
that is activated again is no GuardDuty finding). `Expose` with nothing new is
an event of the watched kind that changes nothing.

`Claim` is the conditional put of `dedup.py` with what the SDK makes of a lost
reply: the put is sent again, meets its own item, and the claimer is suppressed
(`RepliesLost`; alone in `Dedup`). `sent`, `muted`, `owed`, `written` and
`removed` are history variables. `owed` has the statuses on record that no
alert has spoken of since they were written; the fingerprints in `sent` were
posted in the dedup window they are still in, so that an alert of long ago
covers nothing; `muted` has the fingerprints whose last claimer suppressed
itself. None of them decides what the code does.

Abstractions of `Pipeline`, all of them deliberate:

- `plan` reads in one step. Its separate reads are in `SgOpen`, `S3Public` and
  `IamKeyLeak`, whose properties say how far a verdict may be off for that.
- A resource's alert fingerprint is its id and status; in the code the severity
  is part of it as well, and is a function of status and plan.
- The breaker is one step on the current window's counter; `CircuitBreaker` has
  the interleavings and shows what that step may rely on. A resent ADD, which
  counts one attempt twice, is only there.
- `close` on a record that another delivery has replaced writes the status into
  what is there, as `update_item` does.
- Timestamps are left out of the keys: an event's index stands for its time and
  id, which the code takes from the event itself, so that a retry has the same.
- The snapshot holds the dangerous parts only. The code stores the resource's
  whole relevant state, of which these are a subset.

### Handlers

`sg-open`: parts are two world-open rules; any of them is dangerous, and one
`revoke_security_group_ingress` asks for all of them and fails when one is gone
(`Idempotent = FALSE`). `s3-public`: the parts are an incomplete Block Public
Access, a public ACL and a public policy; a grant counts only where it is not
blocked; `apply` completes the block and then resets the ACL, and leaves the
policy behind the block. `iam-key-leak`: the part is a key that is not
listed as inactive, which is what `plan` acts on: an active one, and also one
that is not listed any more, whose call then raises (below). The key of anything
but an IAM user (a role session, the root user) has no intended actions
(`Manual`).

### Remediation, and how Pipeline implements it

`Remediation` knows resources, events, evidence, removals and rulings, and
nothing of deliveries, retries, breaker, claims or how many calls `apply`
makes. Its actions are what any step of the system may do to them: put the
state of a resource on record, remove parts that are in evidence of an event
that has a record, from a resource the system may touch at all, rule, dismiss.
A ruling of APPLIED on the latest event of a resource must be true when it is
made, and so must a dismissal when that event names the resource; a dismissal
of any other event speaks of nothing.

`Pipeline!Promise` is the refinement mapping: `written` is the evidence,
`removed` the removals, the ruling of an event is the status in its audit
record (`rulingBar`), and it is dismissed by the record without a resource
(`dismissedBar`). In dry-run nothing is touchable. `KeepsPromise` is the
abstract specification as a property; deliveries that only move on, claims,
posts, retries and the breaker are stutters.

### SgOpen

A group is a function from permission entries (protocol and port range) to
their sources. `Covered` and `Narrowed` are `_covered_sensitive_ports` and
`_world_open_dangerous_part`; `Describe` is `plan`, `Apply` the one call, which
EC2 refuses as a whole when a rule is gone, and may refuse for other reasons.
`DescribeNothing` is `plan` without a group id. The properties do not speak of
entries but of the flows they admit (`Admits`), so that they judge the
handler's arithmetic on ports rather than repeat it. An entry whose `FromPort`
or `ToPort` is left out (`AnyPort`) admits every port of its protocol, which is
how the handler takes it (`sg_open/handler.py:206-217`). `grown` is a history
variable: somebody authorised a source since `plan` described the group.

### S3Public

One action per AWS call: `ReadAcl`, `ReadPolicy`, `ReadBlock`, `ReadTags` with
the decision, then `BlockPublicAccess` and `ResetAcl`. `NoBucket` is `plan`
without a bucket name, `ReadRaises` an error that `_safe` does not take for a
missing configuration. People put ACLs, policies and settings between any two
of them, as far as S3 lets them: a setting that blocks public ACLs or policies
rejects new ones. A policy is `absent`, `restricted`, `open` (Principal `*`, no
condition) or `conditioned`: public for S3 although a statement of it has a
condition that keeps nobody out, or reaches the world by `NotPrincipal`. The
handler takes the last for restricted (`_policy_is_public`, 151-180);
`IsPublic`, what S3 makes of ACL, policy and settings, does not. `opened`,
`joined` and `weakened` are history variables with the changes since the first
read, the read of the ACL and the block. Both `AllUsers` and
`AuthenticatedUsers` are one grantee.

### IamKeyLeak

The reads of `plan`, of which the last use and the tags fail open, the
exclusion check of `execute`, and the call, on one key that people activate,
deactivate and delete. A key that is not listed is planned for, and its call
raises (`iam_key_leak/handler.py:159-164`): FAILED, where there was nothing to
do. `unread`, `retagged`, `touched`, `reactivated` and `ours` are history
variables.

### Events

A happening is an API call or one update of a finding. A call is made in the
session of a role or of a federated user, by an IAM user or by root; `Identity`
says which of the fields that `parse` reads each of them has. `Deliver` parses
one of its envelopes with any set of fields missing, decides by the loop guard
and logs the audit key it writes. `Name` is `Principal.name` with its order of
preference (user name, session issuer, principal id), `RoleName` falls back to
it for every ARN that is no assumed role's, as `models.py:57-58` does. Ids and
times default to the envelope's and then to `unknown`, as in `_text`. The
resource is the same throughout, the worst case for keys that coincide.

### Function

A container is cold, idle, or at one of the calls of an invocation.
`ResolveConfig` and `ResolveNotifier` are `_Container.resolve`, which keeps
what it has set when the next step raises; `Execute` stands for `execute` up to
`notify`, which `Pipeline` has in detail; `Claim`, `ResolveWebhook` and `Post`
are `notify`; `Claim` may also suppress its own claimer (see `Dedup`).
`ConfigRaises`, `NotifierRaises`, `ExecuteRaises`, `ClaimRaises` and
`PostRaises` are exceptions that leave the handler: Lambda runs the event
again, on any container, or gives up. `Stop` ends a container anywhere.
`PostRaises` is an exception that `_post` does not catch: only what fails
before the answer is read becomes a `URLError`.

Slack issues and revokes webhooks and somebody changes the secret, each a step
of its own (`Issue`, `Revoke`, `UpdateSecret`) in any order: a container may
read a webhook that has been revoked, or keep one that is revoked later, until
it ends. The environment of a container is a record of classes (unset,
well-formed, malformed). All invocations are about one resource with one
fingerprint.

### Redact

An invocation writes its audit item once or twice and then makes its alert:
`Open` and `Close`, or `RecordUnplanned`, then `Alert`. What `audit.py` scrubs
on the way (snapshot, tags, blast radius) is in `item`; what it writes as it is
(reason, actions, error, caller) is in `raw`; `alert` has the texts of the
alert, which `build_payload` scrubs.

A nested value is the set of its leaves, each a path of keys and what its text
says: secrets, tokens and identifiers, in its first `_MAX_STRING` characters
(`head`) or behind them (`tail`). A secret is recognised by a key on its path, a
token by its shape. `scrub_text` takes tokens out and then cuts the tail off,
with whatever identifiers are in it; where several texts are joined into one,
in the blast radius and the list of actions, `Alert` may lose any of them
(`uncut`). Keys of mappings are left as they are, and may have tokens in them
(`TokenKeys`); `RenderBlastRadius` turns them into text (`Flatten`), which is
scrubbed again.

## Runs

| Run | Asks | Result |
|---|---|---|
| `CircuitBreaker` | `WindowCap`, `RollingBound`, `StaysOpen` | hold |
| `Dedup` | `OneClaimPerWindow`, `SuppressedInWindow` | hold |
| `SgRedelivery` | one event, with or without a group id, delivered twice and tried twice, claims whose replies may be lost: `SnapshotFirst`, `RollbackUnlessRepeated`, `VerdictIsTrue`, `NoSilentExposure`, `AlertsUnlessLost`, `PlannedMeansDied` | hold |
| `S3Events` | three events, each tried once, two of which the breaker admits, told of in every way: `KeepsPromise`, `RollbackSource`, `VerdictIsTrue`, `NoSilentExposure`, `EchoesInert` | hold |
| `IamSettles` | dry-run, a manual key, concurrency of one, two windows, told of in every way: `NoSilentExposure`, `PlannedMeansDied`, `Settles` | hold |
| `Invocation` | `SgOpen`: `RemediatedIsClosed`, `Surgical`; `S3Public`: `BenignIsTrue`, `AppliedIsTrue`, `ResetIsEvidenced`; `IamKeyLeak`: `ExclusionHonoured`, `AppliedIsOurs`, `KeyIsDisabled`; `Events`: `RecordsKeptApart`, `OneRecord`, `GuardGoesByName`; `Redact`: `ScrubbedIsClean`, `EvidenceStays` | hold |
| `Function` | `ActsOnlyWhenTold`, `WarmIsCold`, `PostsAreClaimed`, `MendedIsUsed` | hold |
| `DedupClaimer` | `ClaimerSends`: who claims first sends | violated |
| `SgRollback` | `RollbackSource` with retries | violated |
| `S3Denied` | `DeniedIsFailed`: AccessDenied is a FAILED outcome | violated |
| `SgFailedAlert` | `FailedAlerts`: a failed remediation alerts | violated |
| `NotifierRerun` | `AlertNeverRetries`: an alert never causes a retry | violated |

`SgRedelivery`, `CircuitBreaker` and `Dedup` also check `TypeOK`.

What the properties show, where it is less than a reader might hope:

- `NoSilentExposure`: a resource that is still dangerous when the deliveries of
  its last event have ended has a record that says so, or a dead letter, with
  two ways out (`Escapes`): the change was told to nobody, or its event names no
  resource and is on record as in need of nothing.
- `VerdictIsTrue` is about verdicts on a resource that was looked at: APPLIED,
  and the dismissal of an event that names its resource (`FoundBenign`).
- `PlannedMeansDied`: some invocation of the event died; on a retried event
  not necessarily the one that opened the record.
- `RollbackSource` holds in `S3Events` because each event is tried once there.
  `RollbackUnlessRepeated` is what holds in general.
- `ExclusionHonoured`: an excluded user's key is deactivated in exactly two
  cases, the tags could not be read (`iam_key_leak/handler.py:170` takes that
  for no tags) or the tag came after they were read.
- `AppliedIsOurs`: an APPLIED whose key somebody else deactivated is possible,
  when they did so between the listing and the call.
- `BenignIsTrue`: `plan` may mix two states of a bucket and find it harmless
  when it never was; but then the bucket was opened after the first read, and
  that change has an event of its own. The other exception is a `conditioned`
  policy, below.
- `ResetIsEvidenced`: `put_bucket_acl(ACL="private")` drops grants that were
  added after `plan` read the ACL, and they are in no snapshot. It drops no
  others.
- `Surgical`: what `apply` ends came from the world, through an entry that also
  let an incident through. Harmless ports of that entry close with it (443 of an
  all-protocols entry).
- `RecordsKeptApart`: two calls share a record only when every id of both is
  missing. Updates of one finding share an id and are told apart by
  `eventLastSeen`; when that is missing the later overwrites the earlier.
- `ScrubbedIsClean` is about what passes `scrub`, not about all that is written.
- `EvidenceStays`: an identifier in the first `_MAX_STRING` characters and not
  under a sensitive key. Those further behind are cut off.
- `PostsAreClaimed`: although an exception in the post has the event run again
  (`AlertNeverRetries` is violated), the claim keeps the alert from being sent
  twice in a window.
- `MendedIsUsed`: a secret that could not be read is read again. A webhook that
  was read and has been revoked since stays in the container, and its posts are
  lost, as long as the container lives; no property says otherwise.

The breaker's documents speak of a rolling window (`circuit_breaker.py:5-7`,
`infra/variables.tf:88`); the code cuts the clock into fixed slices.
`RollingBound` is what it gives: twice the limit in any span as long as a
window.

### The violated claims

- **`ClaimerSends`.** `dedup.py:6-8`: the first caller to claim sends. When the
  reply to its put is lost the SDK sends the put again; the item it has just
  written fails the condition, `claim` answers False, and the alert is
  suppressed by its own claim. Nobody sends until the window ends.
- **`RollbackSource`.** `runtime.py:96-97` and `audit.py:5-9`: the snapshot
  survives whatever fails afterwards. It survives a death; it does not survive
  the retry after it. The first try removes a rule and dies before it returns,
  somebody opens another one, and the retry of the same event plans on the new
  state and puts a fresh item, with a snapshot of the new rule only, under the
  same key (`put_item` in `audit.py:75` has no condition). The rule that was
  removed is nowhere in the table. `SnapshotFirst`, which is about the moment
  of removal, does hold, and is proved; so is `RollbackUnlessRepeated`, which
  says how far the claim goes: everything removed stays in the event's record
  until a second invocation of the event begins, whatever else happens.
- **`DeniedIsFailed`.** `s3_public/handler.py:213-215`: AccessDenied must
  surface as a FAILED outcome. `detection.plan` is called outside the `try` in
  `runtime.py`, so the error leaves `execute`; Lambda retries and dead-letters
  it, and the table and Slack hear nothing. `NoSilentExposure` counts the dead
  letter as a trace, which is why it holds.
- **`FailedAlerts`.** `runtime.py:152`: a failed remediation must alert. The
  invocation closes the record as FAILED and dies before it posts. If AWS had
  carried out the revocation all the same, the retry finds the group closed and
  records a skip under `none`; no alert is ever sent. `AlertsUnlessLost`, which
  is proved, says how an alert can be lost where posts reach Slack: an
  invocation died on the resource, or the last to claim the fingerprint took
  its own item for another's after a lost reply, in which nobody dies. Else
  what a settled record says, FAILED or anything else, was posted after it was
  written, had been posted in the dedup window, or is being posted.
- **`AlertNeverRetries`.** `slack.py:115-117`: an undeliverable alert must not
  cause a retry. `_post` catches `URLError`, which is what `urlopen` makes of a
  failure to connect or to send. A time-out or a closed connection while the
  answer is read is a `TimeoutError` or a `RemoteDisconnected`, neither of
  which is a `URLError`: it leaves `execute` after the remediation, and Lambda
  runs the event again.

### Disagreements without a run of their own

These the models have too. Each is an exception that a property of a passing
run names, so that the run shows that nothing else breaks the property.

- **An event that names nothing is recorded as harmless.** `runtime.py:74` says
  `resource state is not dangerous` of every `None` that `plan` returns. A call
  that names the group by its name has no group id: nobody looks, the record is
  under `none`, and the group stays open without an alert (`NoSilentExposure`,
  by `Escapes`; `tests/remediations/test_sg_open_handler.py:167` expects the
  `None`).
- **A public policy with a condition passes.** `s3_public/handler.py:151-159`
  grants that a policy may be public and conditioned; the bucket is found
  harmless and stays public (`BenignIsTrue`).
- **The loop guard goes by any name.** `models.py:68` and the threat model
  speak of the role's name. `role_name` falls back to the name of whoever calls
  (`models.py:57-58`), so that an IAM user called `pac-…` is skipped
  (`GuardGoesByName`).
- **Not everything written is scrubbed.** `redact.py:3-4` has it that every
  structure that leaves the process is. Reason, actions, error, principal and
  user agent of the audit item are not (`audit.py:80-95`, `record_unplanned`,
  `close`), and the keys of mappings are scrubbed nowhere but in the alert's
  text (`ScrubbedIsClean`, which says nothing of `raw` and of keys).
- **A key that is gone is planned for and FAILS**, see `IamKeyLeak`.

### Bounds, and why they are enough

- `CircuitBreaker`: three invocations with a limit of one in windows of two
  seconds. Two would reach the limit; the third sees it refused, and shows
  whether a late or a resent write reopens it. Six seconds are past the
  deletion of the first two windows' items. The timeout is as long as the
  window, the worst that `BreakerAssumption` allows.
- `Dedup`: three callers over two fingerprints, so that one may claim, one
  expire and a third stall in between; five seconds are two windows and the
  timeout of a caller that read the clock in the first.
- `Pipeline`: hazards here are pairs of invocations, two deliveries of one
  event or two events of one resource, and one retry after a failure. `Copies`,
  `MaxTries` and `MaxEvents` are two where a run needs the pair, three for the
  events of `S3Events` (two calls of one `apply` come back as events, or an
  exposure between them), and one elsewhere, to keep each run to three minutes.
  Lost replies of claims are in `SgRedelivery`, which checks alerts; `unheard`
  changes in the other two, in `S3Events` before, after and between events that
  are heard. `Limit` is two in `S3Events`, so that a second remediation is
  admitted and a third is BLOCKED, and one in the other passing runs; it is
  large in the violated runs, where the breaker is beside the point. Resources
  meet only in the breaker's counter; one resource is enough except in
  `IamSettles`, which has one of each kind of key.
- `S3Events` takes the bucket without a policy (`AclParts`): the policy is a
  third part that no call removes, and multiplies the states by far more than
  it adds. `S3Denied` uses the full shape.
- `SgOpen`: four entries (a harmless port, one without ports, a range that ends
  in a sensitive port, all protocols) and three rules among them, so that an
  entry can mix sources and two entries can overlap. Flows are told apart at
  four ports, inside and outside of the ranges and of `SENSITIVE_PORTS`, of
  which the module has all. `S3Public`: every ACL over one partner and the
  world, every policy, and settings that are none, the two about ACLs, or the
  one that neutralises policies. `IamKeyLeak` has no bounds. `Events`: six
  happenings, a call of each kind of caller but a federated user's (which
  parses like a role's without its ARN), one of them in two envelopes, and two
  updates of one finding; names with the prefix are a role's, a user's and a
  session's; every pair of deliveries with every set of missing fields.
  `Redact`: values of two leaves under up to two keys, one of them sensitive
  and one a token, texts of four kinds.
- `Function`: two containers, so that one may be warm while the other starts or
  runs a retry; two webhooks and three changes in Slack or of the secret, which
  is a webhook issued, put into the secret and revoked, or a secret spoiled
  between two of these; two claims, before and after the dedup window;
  environments that are right, wrong in one way each, or without `PAC_DRY_RUN`.
  Containers are symmetric, and so are webhooks.

Every configuration sets `CHECK_DEADLOCK FALSE`: the bounded clock of the first
two modules stops, the bounds of `Events`, `Redact` and `Function` are reached,
and in `Pipeline` all deliveries may have ended.

### Fairness

`Settles` assumes weak fairness of `Step(d)` for each delivery: Lambda keeps
trying to start a queued asynchronous invocation, and a running one makes its
next call or is ended by its timeout. With `Concurrency = 1` a queued delivery
is throttled while the other runs; it gets its turn since the other ends and
retries at most `MaxTries` times. People, duplicates and clocks are not fair.
No other property needs fairness.

## Proofs

All theorems hold for any sets, limits and bounds that satisfy the module's
named assumption, and are checked by TLAPS without gaps.

| Theorem | States |
|---|---|
| `CircuitBreaker_proofs!TypeCorrect`, `WindowCapHolds`, `RollingBoundHolds`, `StaysOpenHolds` | the breaker's four properties |
| `Dedup_proofs!TypeCorrect`, `OneClaimPerWindowHolds`, `SuppressedInWindowHolds` | types; the claim's two properties |
| `Pipeline_proofs!TypeCorrect`, `SnapshotFirstHolds` | types; removals are evidenced first |
| `PipelineVerdict_proofs!VerdictIsTrueHolds` | a recorded verdict on a resource that was looked at is true |
| `PipelineRecord_proofs!NoSilentExposureHolds`, `PlannedMeansDiedHolds`, `EchoesInertHolds` | the record is complete but for the two escapes, PLANNED is evidence of a death, echoes open no record |
| `PipelineRecord_proofs!RollbackUnlessRepeatedHolds` | until an event is worked on a second time, its record has all that was removed |
| `PipelineRecord_proofs!AlertsUnlessLostHolds` | what a settled record says was alerted on, unless somebody died on the resource or a claimer suppressed itself |
| `PipelineRefinement_proofs!KeepsPromiseHolds` | `Pipeline` implements `Remediation` |
| `Function_proofs!ActsOnlyWhenToldHolds`, `WarmIsColdHolds`, `MendedIsUsedHolds`, `PostsAreClaimedHolds` | the four properties of the containers |
| `Invocation_proofs!BenignIsTrueHolds`, `AppliedIsTrueHolds`, `ResetIsEvidencedHolds` | the three properties of the bucket's handler |
| `Invocation_proofs!RemediatedIsClosedHolds`, `SurgicalHolds` | the two of the group's |
| `Invocation_proofs!ExclusionHonouredHolds`, `AppliedIsOursHolds`, `KeyIsDisabledHolds` | the three of the key's |
| `Invocation_proofs!RecordsKeptApartHolds`, `OneRecordHolds`, `GuardGoesByNameHolds` | the three of parsing, audit keys and the loop guard |
| `Invocation_proofs!ScrubbedIsCleanHolds`, `EvidenceStaysHolds` | the two of redaction |
| `Invocation_proofs!PartsRun` | a behaviour of the composition is one of each part, so all of these hold of what the run checks |

**Assumptions.** `BreakerAssumption`: positive limit and window, and
`TimeoutSeconds <= WindowSeconds`. The last is not checked anywhere in the
code; the shipped defaults (30 seconds against 300, `infra/variables.tf`)
satisfy it, and without it a write could arrive after its item was deleted.
`DedupAssumption` asks only for types. `PipelineAssumption` gives the constants
their types; `BenignAssumption` says that removing parts never makes a resource
dangerous and that what no call removes is harmless alone, and TLC evaluates it
for each shape in `Handlers`. In `Function`, `EnvironmentsAssumption` gives
types and `NoneAssumption` says that no webhook is no value. In `Invocation`,
`EntriesAssumption` says that ports are integers; `FlowPortsAssumption` that
flows are told apart finely enough to have one at a sensitive port of each
entry that covers any (all integers would do); `HappeningsAssumption` what AWS
guarantees of ids: an API call has an `eventID` of its own, an update of a
finding a time of its own, an envelope an `id` of its own, and none of them is
the parser's default `unknown`, and what kinds of callers there are;
`PacNamesAssumption` that neither `unknown` nor a principal id, which AWS
makes, begins with `pac-`; `SensitiveAssumption` that the key `blocks` of an
alert's payload is not sensitive, which it is not for the list in `redact.py`.

**Breaker.** `WindowCap` is not inductive: an admitted count says nothing about
the item it came from. `IInv` adds that every answered count is still covered
by its item unless that item's TTL has passed (`CountsCovered`), and that two
counts of one window differ (`CountsDistinct`). A write after the deletion is
impossible since the item outlives its window by another one. Distinct numbers
in `1 .. Limit` are at most `Limit` many; a span as long as a window meets two
windows (`SpanMeetsTwoWindows`), hence `RollingBound`.

**Dedup.** `IInv` says that a claim stays visible until its window is over
(`ClaimsVisible`), because only an item whose `expires_at` is past is deleted or
overwritten, and that each item belongs to a claim (`ItemsOwned`).

**Pipeline.** Four invariants, each on top of the last. `TInv`: types, and that
a delivery that can still run has a try and a call left. `SInv`: between `open`
and the end of `apply` the delivery's snapshot is in the table (`Evidenced`).
`VInv`: what a delivery of a resource's latest event knows about the resource
on its way to the verdict (`Knows`): its snapshot covers the exposure, the
parts of the calls already made are gone, an APPLIED or benign verdict about to
be written is true. It rests on exposure only shrinking after the latest event
that others caused. `RInv`: each event that was heard of has a record, or a
delivery that still owes one, or a dead letter (`Heard`), and each delivery
writes only under the key of its own resource (`Sited`). Each proof has a lemma
per action and a frame lemma for the deliveries that stand still.

`RollbackUnlessRepeated` holds because nobody else writes under the key of an
event's record as long as one invocation of it has begun. An invocation is
counted when it starts and never forgotten (`Begun`), so an event that has had
one at most (`Once`) had no more before (`OnceBefore`), and every other delivery
of it has not begun (`OnlyOne`). `QInv` adds to `RInv`, under that condition,
that an invocation which has not opened its record has removed nothing, that
the snapshot of one that is about to act is in the record still (`Alone`), and,
under none, that nothing was removed on account of an event that nobody has
begun to work on (`Untouched`).

`AlertsUnlessLost` follows the claim. A delivery that finds its fingerprint
claimed says nothing, so somebody else must have said it or be about to: a
claimed fingerprint has been posted in its window or is `Carried`, that is
being posted, or its resource has seen a death, or its claimer suppressed
itself. `AInv` adds to `RInv` that, and that every alert that is owed is
`Pending`: it is carried, or a delivery of its event is about to claim it. A
step that posts the fingerprints `F` keeps this when each delivery keeps its
`Pledge`: a death is not forgotten, and a claim or a post is let go of only
when it is in `F`, when nothing is owed any more, to a claimer that has yet to
post, or by one of the two losses. The dedup window may end at any time, which
takes claims and posts away together. The invariant needs `SlackUp`: a post
that is dropped leaves a claim that nobody carries.

**Refinement.** `GInv` puts `Gate` on top of `RInv` and `SInv`: a delivery that
may still write or remove belongs to an event that is not the system's own, has
its resource's record, and acts on a resource that the promise lets it touch.
`BarsKept`, `RulingWritten` and `DismissalWritten` say what a write to the audit
table does to the refinement mapping; each action then has a lemma that it is
an action of `Remediation` or leaves its variables alone (`Unseen`). That a
ruling is true when made is `VInv`'s `Knows`; that a removal is in evidence is
`SInv`'s `Evidenced`.

**Function.** `FInv` joins the types with three facts: what a container has
resolved is what a cold start in its environment would resolve, and a container
past `resolve` was well configured (`Fresh`); the environments in which a
resource was changed said so; the posts, together with the claims on their way
to a post, are at most the claims granted (`Accounted`, by the cardinality of a
set that changes by one container at a time). `MendedIsUsed` is about steps:
only `ResolveWebhook` drops a claimed alert without raising, and a secret that
is usable is never `None` to it.

**S3Public.** `BInv`: what plan has read so far still covers the bucket unless
it was opened since (`ReadsHold`), the block stands unless a setting was turned
off (`BlockHolds`), every grant was seen or joined later (`GrantsSeen`), and
the decision follows from what was read (`Decided`).

**SgOpen.** `SgInv`: the group is within the snapshot unless somebody
authorised a source (`SgSnapshotCovers`), and a verdict of remediated or
harmless leaves no dangerous part in any entry (`SgClosed`). What the handler
computes on ports and what a flow passes are connected by two lemmas, one for
each direction: `PassesCovered` (a sensitive port let through is found covered)
gives `RemediatedIsClosed`, and `CoveredPasses` (an entry found to cover one
lets an incident through, from any source of the world) gives `Surgical`.

**IamKeyLeak.** `IamInv`: what plan listed and read of the tags stands unless
people touched the key or the tags, and the call is made only if no exclusion
was read (`KeyListed`, `TagsRead`, `TagsChecked`).

**Events.** `EvInv`: each record stands under the key that `parse` makes of an
envelope of its happening, and each delivery went where the guard sent it.
`KeysDiffer` then compares the keys of two deliveries by which of their fields
are missing, and `GuardGoesByName` follows from where `RoleName` takes the name.

**Redact.** `ReInv`: the item is the scrubbed form of the value, or empty before
`Open`; the item has all the identifiers of the texts in `raw`; the alert has no
credential and has the texts' identifiers as far as they were not cut off.
`LeafIsClean` is about one leaf: a token is known by its shape, a secret by its
key. The alert is scrubbed twice, as values and as text; the first is what
removes secrets, for rendering drops the keys, and the second what removes
tokens in the keys.

**Only model-checked.** `Settles`, which is liveness under fairness, and
`RollbackSource` in `S3Events`, which is false in general and whose general form
is `RollbackUnlessRepeated`. Every other property of a passing run is stated by
a theorem. The four claims about `Pipeline` and `Function`, and
the one about `Dedup`, that runs find violated are false, and TLC has the
counterexamples.

## Not modelled

- Delivery beyond the function: the rule target's own retries, its dead-letter
  queue and the policy of that queue (`infra/modules/detection/main.tf:287`)
  are declarations to services that the repository holds no code of; whether
  such a write is allowed is decided by IAM.
- Event patterns: data, and a matcher that only the tests use.
- The wording of alerts and records, severities, the regular expression of
  redaction, and the fields of an event that only reach texts. The list of
  sensitive keys is a constant: which names it has or lacks is not judged.
- Terraform declarations without behaviour, the attack simulation and scripts.
- Clocks of different containers are taken to agree to the second.
- Two hazards have no property: the policy of the rule target's dead-letter
  queue (above), and a webhook that is revoked while a container has it cached
  (`slack.py:96`), of which a property would restate the cache.
