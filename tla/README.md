# Verification of the CMDB platform core

TLA+ models of the server side of the CMDB platform (`src/cmdb-core`, Go), checked with TLC on small
instances and, for most of the safety properties, proved with TLAPS for every instance.

Contents: [how to run](#how-to-run), [the system](#the-system), [components](#components-the-inventory),
[plan](#plan), [WorkOrder](#workorder), [AlertEvaluator](#alertevaluator), [WebhookBreaker](#webhookbreaker),
[AutoOrders](#autoorders), [SlaSweep](#slasweep), [EventBus and DashboardCache](#eventbus-and-dashboardcache),
[Sessions](#sessions), [SecretRotation](#secretrotation), [AssetRecords](#assetrecords), [the estate](#the-estate),
[what is proved](#what-is-proved), [what is only model-checked](#what-is-only-model-checked),
[what is not modelled](#what-is-not-modelled), [disagreements](#disagreements-between-the-code-and-its-own-words).

## How to run

    tlc -workers 2 -config MCWorkOrder.cfg MCWorkOrder.tla     # a run: module and .cfg as PROJECT.json lists them
    tlapm WorkOrderProofs.tla                                  # the proofs of a module

`PROJECT.json` lists the components, the runs and what each is expected to find, a mutant of the
model for every property of a passing run (a change to one definition, as a plausible bug would make it,
which must break the property), the source lines every definition stands for, the hazards of the code
and the properties that cover them, and the theorems. Definitions named `X_Something` next to a
definition `X` are such mutants; no specification uses them.

| module | what it is | run | proved in |
|---|---|---|---|
| `OrderLifecycle` | what the maintenance service promises about an order (abstract) | `work_order` | `WorkOrderProofs` (`Refinement`) |
| `WorkOrder` | the orders, their requests, the emergency handler, the relocation detector | `work_order` | `WorkOrderProofs` |
| `AlertEvaluator` | alert rules, evaluators, the alert-incident bridge, operators | `alert_evaluators`, `alert_recovery`, `alert_two_creates` | `MonitoringProofs` |
| `WebhookBreaker` | outbound deliveries, the circuit breaker, the dead-letter queue | `webhook_breaker` | `ExchangeProofs` |
| `AutoOrders` | scans and event handlers that open work orders, `work_order_dedup` | `auto_orders` | `UpkeepProofs` |
| `SlaSweep` | deadlines, warnings and breaches of orders, and their notices | `sla_sweep` | `ResponseProofs` |
| `EventBus`, `DashboardCache` | subjects and subscriptions; the cached statistics of a tenant | `dashboard_cache` | `EstateProofs` |
| `Sessions` | tokens, their rotation and their ends, the auth middleware | `sessions` | `AccessProofs` |
| `SecretVault` | what the encrypted columns promise to their readers (abstract) | `secret_rotation` | `KeepingProofs` (`VaultRefinement`) |
| `SecretRotation` | key ring, saves of secrets, back-fill, rotation, operators | `secret_rotation` | `KeepingProofs` |
| `ReviewOutcome` | what the review of discovered rows promises (abstract) | `asset_records` | `ExchangeProofs` (`ReviewRefinement`) |
| `Assets`, `DiscoveryReview`, `InventoryTasks`, `AssetRecords` | the assets table; two workflows over it; their composition | `asset_records` | `ExchangeProofs` |
| `Dependencies` | dependency edges, their history, the graph questions | `estate` | `EstateProofs` |
| `BusinessImpact` | assessments and the level they give an asset | `estate` | `EstateProofs` |
| `RackSlots` | slots of racks and the rack an asset says it is in | `estate` | `EstateProofs` |
| `Locations` | the tree of locations by its paths | `estate` | `EstateProofs` |
| `PredictiveRefresh` | the refresh recommendations | `estate` | `KeepingProofs` |
| `IncidentTimeline` | the lifecycle of an incident and its comments | `estate` | `ResponseProofs` |
| `MetricSources` | metric sources and their heartbeats | `estate` | `MonitoringProofs` |
| `QualityScores` | quality scans, flags, the list of low scores | `estate` | `UpkeepProofs` |
| `ServiceRegistry` | business services and their members | `estate` | `EstateProofs` |
| `AccessControl` | roles and the permission check of a request | `estate` | `AccessProofs` |
| `AdapterPuller` | pulls of metrics, back-off and cut-off | `estate` | `ExchangeProofs` |
| `WebSocketHub` | the live feed | `estate` | `MonitoringProofs` |
| `AuditArchive` | a month of audit events on its way to S3 | `estate` | `KeepingProofs` |
| `AssetSnapshots` | past states of an asset | `estate` | `EstateProofs` |

A module `MC...` names the sets and symmetries an instance is made of (`SecretRotation`, `AutoOrders`, `WebhookBreaker` and `Sessions` need none: their `.cfg`
says everything); `MCEstate` also puts fourteen modules side by side.
A module of proofs holds the proofs of several parts that share no state, one section each.

## The system

One Go binary (`cmdb-core/cmd/server`) serves an HTTP API and runs a set of background loops. It is
deployed in several replicas (`docs/production-deployment-guide.md:64`, `CORE_REPLICAS=2`) over one
PostgreSQL database, one Redis and one NATS server. Commands rotate secrets and archive audit events. A Python
service imports spreadsheets and scans networks into the same database.

Three facts shape every model:

* **Nothing coordinates the replicas but the database.** Each replica has its own alert evaluator, SLA
  sweep, adapter puller and event subscribers. There is no leader election in the Go server; the Go
  loops of two replicas do the same work on the same rows.
* **Hardly anything runs in a transaction.** A service method is a sequence of single SQL statements.
  What protects a row is the `WHERE` clause of its `UPDATE` (a guard on the status it expects) and,
  in a few places, `SELECT ... FOR UPDATE` or a unique index. So in the models *a statement is a step*, and
  what a request read earlier is carried along in the request's own state. Where there is a transaction, what it
  wrote is invisible to the others until its commit, and the row locks it holds block them.
* **Errors are mostly logged and dropped.** A background step that fails is repeated by the next tick, or
  not at all. A process may stop between any two steps, and contexts are cancelled on shutdown.

How the parts talk to each other:

    API request ──► middleware (session, roles) ──► domain service ──► PostgreSQL          (row guards)
                                                          │
                                                          └──► EventBus.Publish ──► NATS ──► subscribers
    subscribers: workflows (notifications, emergency orders), dashboard invalidation, webhook dispatcher, WebSocket bridge
    evaluator tick ──► alert_events upsert ──► incident bridge ──► incidents, and alert.fired on the bus
    alert.fired ──► emergency handler ──► work_orders (create, then start)
    MAC table change ──► relocation detector ──► work_orders.status, assets.rack_id
    webhook event ──► deliver goroutine ──► receiver; webhook_subscriptions counter; DLQ; webhook.disabled
    scan, import, review ──► assets ──► trigger: asset_snapshots; foreign keys: slots, dependencies, members, items

The event bus as configured does not deliver tenant events to most of these subscribers:
`NATSBus.Publish` appends `.<tenant>` to the subject (`eventbus/nats.go:104-107`) while the workflow and
dashboard subscribers listen on the bare subject, and `Subscribe` hands every handler an event without
a tenant (`nats.go:150-153`). `EventBus` models this, and `DashboardCache` shows what it means for the cache. The other
handlers are modelled as they are written, given the event they expect, so that the two questions (is the handler
right, does it hear about the event) are kept apart. The same holds for the relocation detector, whose periodic
entry point (`StartPeriodicDetection`) has no caller and whose event handler expects a payload the publisher
does not send.

## Components: the inventory

For each part: the state it keeps, what it does, what is hard about it, what makes it correct. Each is modelled but for
the details `PROJECT.json` names with it, unless it says otherwise.

### Work orders (`domain/maintenance`, `api/impl_maintenance.go`, `db/queries/work_orders.sql`)

* State: `work_orders` with two status columns (`execution_status`, `governance_status`) and a third,
  `status`, derived from them; `work_order_logs`.
* Operations: create, the unified transition (approve, reject, start, complete, verify), emergency start,
  update, assign, delete, lists.
* Interacts with: the emergency handler and automatic scans (which create orders as the tenant's system user),
  the relocation detector (which writes `status` directly), the SLA sweep (which reads the deadline).
* Hard: every transition reads the order twice and then writes under a guard on *one* of the two columns;
  two approvers, an approver and the emergency handler, an edit and an approval race.
* Correct when: the derived status fits the two columns; no unapproved order is worked on; nobody
  approves an own order; an order is decided once and the decision is never rewritten.

### Alert evaluator and incidents (`domain/monitoring`)

* State: per evaluator, a counter and a firing flag for each rule and asset, in memory; `alert_events` rows keyed by
  rule, asset and hour; `incidents`, the link from an alert to one, and their comments.
* Operations: a tick judges every rule, upserts the alert row, and the bridge finds or creates an incident in a
  transaction; operators acknowledge and resolve alerts, and move incidents through five statuses.
* Hard: replicas that judge the same rule at the same time; a row lock that only locks rows that
  exist; memory that a restart loses; a key that changes with the clock; a *resolved* that is emitted once; comments that are
  stamped with the start of their transaction.
* Correct when: alerts fire only after a full streak of breaches; a firing alert gets an active incident; a
  fault that clears settles its row; an active incident has no `resolved_at`; the timeline tells what the row says.

### Outbound webhooks (`domain/integration`)

* State: `webhook_subscriptions` (enabled, `consecutive_failures`, `disabled_at`), `webhook_deliveries`,
  `webhook_deliveries_dlq`; goroutines that deliver.
* Operations: handle an event (list subscriptions, start a goroutine each), deliver with three attempts, record
  success or failure, trip the breaker, park the payload, notify; operators edit and delete; retention.
* Hard: deliveries to one receiver share a counter without a lock; a trip is four statements; a
  delivery in flight outlives the decision to disable its subscription.
* Correct when: the breaker trips only after `Threshold` lost deliveries, does trip for a receiver that stays down,
  parks a payload, and then leaves the receiver alone.

### Automatic work orders and the emergency handler (`domain/workflows/notifications.go`, `auto_workorders_*.go`)

* State: `work_orders`, `work_order_dedup`, notifications.
* Operations: on a critical alert, probe for an open emergency order of the asset, insert one, start it; on a scan
  difference or a default BMC password, probe and insert; scheduled scans (warranty, end of life, lifespan, firmware, missing
  assets, missing locations) list assets without an open order and insert; others (shadow IT, duplicate serials, low
  quality, overdue discoveries) insert an order and its key in one transaction.
* Hard: probe and insert are two statements on every replica; a handler that dies between the insert and the start leaves
  an order the next probe counts as open; a batch limit over rows that are already dealt with, which starves the others.
* Correct when: a key has one order exactly when it has its row; open orders about one asset stay bounded; emergencies are
  started; a reason that stays gets its order, a discovery once it is among the oldest.

### Relocation detector (`domain/location_detect`)

* State: MAC cache, `assets.rack_id`, location history, relocation orders. Operations: compare where an asset's
  MAC is seen with where it should be; update the rack; close open relocation orders.
* Modelled: the orders it closes (`WorkOrder`) and the discovered row of an unknown device (`DiscoveryReview`).

### SLA sweep (`domain/workflows/sla.go`)

* State: `sla_warning_sent`, `sla_breached` on `work_orders`; notifications. Operations: mark, then notify.
* Hard: a crash between the mark and the notification loses it for good; two replicas sweep at once. Correct
  when every order past its deadline is marked, and its people are told once.

### Event bus (`eventbus`, `cmd/server/workers.go`) and dashboard cache (`domain/dashboard`)

* State: messages in flight, subscriptions; per tenant one Redis key with a 60 s TTL. Operations: publish (with the
  tenant appended), subscribe; get (read, compute with five queries and three best-effort ones, store), invalidate on an event.
* Hard: a computation that began before an invalidation stores after it; suffixes decide who hears what; lost
  messages. Correct when what is served is never older than the TTL and a computation.

### Sessions and tokens (`domain/identity`, `auth`, `middleware/auth.go`)

* State: refresh tokens and a per-user index in Redis, a blacklist, a cached `password_changed_at`. Operations: login,
  refresh (rotate), logout, change password, deactivate, admit a request.
* Hard: get and delete are two commands; a cache filled by a reader that started before the change. Correct when
  an exchanged key is gone for good and sessions end in time.

### Role-based access (`middleware/rbac.go`, `domain/identity`)

* State: roles, assignments, a five-minute cache of each user's permissions. Hard: nothing invalidates the
  cache, and a reader stores what it read some time before. Correct when no decision is older than the cache allows.

### Secret key ring and rotation (`platform/crypto`, `cmd/rotate-integration-secrets`, `cmd/backfill-integration-secrets`)

* State: ciphertexts with a key version prefix beside the plaintext, the keys and the active key of each process.
  Operations: encrypt, decrypt, rotate, back-fill, the operators' five stages.
* Hard: the rotation's guard is the version prefix and not the ciphertext it read; servers of two configurations run
  at once. Correct when every ciphertext holds what was saved last and every server can read it.

### Discovery review (`domain/discovery`) and inventory tasks (`domain/inventory`) over the assets (`domain/asset`)

* State: `discovered_assets`, `assets`, audit events; tasks, items, scans. Operations: ingest, approve, approve and create,
  ignore; create, import, scan, resolve, edit, complete, delete.
* Hard: requests race on one row and on unique tags; an import ignores the errors of its own statements; a
  status check before an unguarded write. Correct when a row makes one asset, an answer stands, an import is whole or
  absent, a completed task stays, and nobody waits in a circle.

### Asset snapshots (`domain/asset`, migrations 000056 to 000061)

* State: a trigger's row for every change. Hard: a stamp is the start of a transaction, not its commit. Correct when
  the present is the row and a past moment keeps its answer.

### Dependencies, racks and locations (`domain/topology`)

* State: edges with valid intervals; slots, and `assets.rack_id` as a second copy; locations with ltree paths, made of slugs that
  nothing checks.
* Hard: cycle check and insert, conflict check and insert, count and clear, pre-flight and deletion are each two
  statements. Correct when walks end and agree with the edges, slots do not overlap, the copies agree, and a
  deletion takes no more than the subtree.

### Business impact (`domain/bia`), predictive refresh (`domain/predictive`), quality (`domain/quality`)

* State derived from other state: levels from tiers, recommendations from dates, scores from fields and flags. Hard:
  it is recomputed by requests and scans that overlap. Correct when what is stored is what the rules make of the
  present, or somebody is on the way to correct it.

### Metric sources (`domain/metricsource`), service registry (`domain/service`)

* State: last heartbeat and a counter; services, members. Hard: lost beats and answers; a membership inserted two reads after
  its service was looked at. Correct when silence is judged right; memberships outlive what happens to the service.

### Metrics adapters puller (`domain/workflows/metrics.go`)

* State: `integration_adapters` failure counter, back-off, status. Operations: pull due adapters, record the outcome,
  disable after repeated failures, report it. Hard: replicas pull the same adapter and both count.

### WebSocket hub (`websocket`)

* State: clients by tenant, three channels, bounded buffers. Operations: register, unregister, broadcast, shut down. Hard:
  a slow client is dropped in the middle of a broadcast. Correct when what a client gets is in order and without gaps.

### Retention and audit archive (`domain/workflows/cleanup.go`, `cmd/audit-archive`)

* State: the monthly partitions, the objects in S3. Hard: five steps, each of which may fail with or without its effect, two
  runs at once, transactions that still write. Correct when no event is ever in neither place.

### Not modelled

The Python ingestion pipeline (a separate service over the same tables, whose import jobs and field authorities touch no
state the modelled parts decide on, except assets, which the models change freely), scheduler health and the rate limiter (a map
behind a mutex), the web client (renders what the API answers).

## Plan

Work orders came first, because they are the one workflow the other parts all write to, then alerts, which start most of it, then
webhooks with the most failure handling, the automatic orders, sessions, the cache, the rotation, the sweep, the assets'
workflows, and the estate's records. All of it is on disk, and so are three abstract specifications with their refinements: `OrderLifecycle`,
`ReviewOutcome`, `SecretVault`. `AutoOrders` is not shown to implement `OrderLifecycle`: it keeps an order as submitted, started or ended, which are fewer
statuses than the lifecycle has, and what happens to a single order beside its handler is in `WorkOrder`. What is left is the ingestion
pipeline's conflicts (`conflicts.py:63`), if the Python service is taken in.

Runs stay few: one run for each question; the modules of the estate share one.

## WorkOrder

### State and steps

`row[o]` is the row of `work_orders`, `log[o]` the decisions in `work_order_logs`, `req[r]` what a request, a
handler or a detector run is doing: its operation, the order, the operator, how far it got (`pc`) and
what it has read (`seen`).

| code | steps in the model |
|---|---|
| `Create`, `CreateTx` | `Create` |
| `Transition` then `TransitionGovernance` | `Gate` (first read, unified table), `ReadGovernance` (second read, governance table, `validateApproval`), `StampWorkOrderApproval` or `UpdateGovernanceStatus` (the guarded UPDATE), `LogTransition` |
| `Transition` then `TransitionExecution` | `Gate`, `ReadExecution`, `UpdateExecutionStatus` |
| `onAlertFired` → `Create`, `TransitionEmergencyAtomic` | `CreateEmergency`, `TransitionEmergency`, `LogTransition` |
| `Update`, `Delete` | `GateEdit` (read and status check), `Update` / `Delete` (UPDATE without a guard on the status) |
| `Assign` | `GateAssign`, `AssignWorkOrder` (the UPDATE repeats the check) |
| `autoConfirmRelocation` | `SelectRelocation`, `AutoCloseRelocation` |
| an error, a cancelled context, a crash | `Abandon`, between any two steps |

Abstracted: titles, codes, schedules and the tenant; `sync_version` (every writer bumps it, nothing reads it); the deadline,
kept as the priority it was computed from; log entries that record no decision.

### Run

`work_order` (228,905 states): one order, two concurrent requests of any kind, three users of whom two approve,
one assignee, two priorities. One order is enough because no operation reads or writes two; two requests are enough for a
race between any two operations, each of which can also be abandoned, and a third request could only repeat what one
that ended has done, since an ended request may be followed by another. Users and requests are symmetric. The system may
stop when an order is verified and all requests are idle, so deadlock is not checked. It shows:

* `DerivedStatus`: `status` is what `DeriveStatus` makes of the two columns, although each writer computes it
  from a read two steps old. It holds because the guard on one column freezes it and the other column can
  only move under facts the first fixed. Relocation orders are left out: the detector writes their status alone.
* `WorkFollowsApproval`: no work without approval, verified work was done, and somebody else approved it
  (`NoWorkWithoutApproval`, `VerifiedWorkWasDone`, `SegregationOfDuties`). Neither UPDATE looks at the other column; the
  tables and the first read do.
* `DecidedOnce`: one decision wins and is logged under the approver.
* `ImplementsLifecycle`: the service implements `OrderLifecycle` under the mapping `lifeOf`, `requestorOf`,
  `approverOf`: every statement is one abstract step or none. Relocation orders are hidden by the mapping, because
  the detector writes them behind the service's back.

No fairness: all properties are safety. A request may be abandoned at any time and a client owes no next request.

### Proofs

`IInv` (in `WorkOrder`) is the inductive invariant. The properties alone are not inductive: they
say nothing about a request that has read and not yet written. `RequestInv` adds, for each operation and
step, what the request knows that *no other request can take back* (an order that is approved stays approved; a completed
one stays completed; the person who approves is not the requestor), `RowInv` and `LogInv` what a row and a log look
like, and `OneLogger` that at most one request has a decision still to log. The step lemmas are one per action; a
lemma each for bystander requests and untouched rows removes the rest of the tables from them.

Theorems: `Inductive`, `TypeCorrect`, `StatusIsDerived`, `ApprovedWork` and its parts `ApprovalFirst`, `DoneFirst`,
`OthersApprove`, `OneDecision`, `ApprovalNeverRewritten`, `Refinement`, for any number of orders, requests, users and priorities.
Assumption `PeopleAssumption`: approvers are users,
the system user is not one, `NULL` is none of the others, and "critical" is a priority.

## AlertEvaluator

### State and steps

One asset with its rules. `mem[p][r]` is `Evaluator.state` of replica `p`; `alert[r][h]` the row of a rule and an
hour; `incident[i]` the table; `proc[p]` how far a replica is in `emit` and `linkOrCreate`. `streak` is a history variable: the
breaches judged since the last good sample, restarts or not.

| code | steps |
|---|---|
| `judgeSample` | `Judge` (counter, flag, what to emit, the key's hour) |
| `emit`: the upsert | `Upsert` |
| `linkOrCreate`: the locking SELECT | `LookUp` (its snapshot), `Attach` (the newest row that still qualifies under its lock), `NoneQualifies` |
| `linkOrCreate`: insert, link, commit | `Create` |
| a failed statement; a restart | `Fail`, `Restart` |
| operators | `AcknowledgeAlert`, `ResolveAlert`, `AcknowledgeIncident`, `StartInvestigatingIncident`, `ResolveIncident`, `CloseIncident`, `ReopenIncident` (each one guarded UPDATE) |
| the environment | `Fluctuate` (the metric), `NextHour`, `AgeOut` (an incident leaves the 24 h window) |

Abstracted: a rule's condition, kept as whether the metric breaches it; a tick without a sample, or of a disabled rule, is a
tick that does not judge; the order of rules in a tick; comments and events. The counter stops at `Triggers`, the only value it is
compared with. Incidents made by hand carry no asset (`impl_incidents.go:53-59`), so the bridge never meets them.

### Runs

`alert_evaluators` (1,726,200 states): two replicas, one rule that fires after two breaches, two hours, two incidents, no
failures. Two replicas are needed for the races, two hours because within one hour a row keeps its link, two incidents
because the second is what a replica finds after the first was closed. It shows `FiringIsCovered`: a firing alert
is linked, or some replica is linking it.

`alert_recovery` (702,868 states): one replica, two hours, one failed statement, one restart, with fairness. It shows
`FiresAfterStreak`, and two liveness properties: a fault that stays keeps coming back to an active incident
(`PersistentFaultIsTracked`), and one that clears settles the row of its hour (`RecoverySettlesTheHour`, which excuses
failures and restarts: a restart loses the firing flag). Both excuse an instance that ran out of its two incidents (`Exhausted`).

`alert_two_creates`: a comment the code does not keep.

Fairness: weak on the emission of each replica (a tick runs its statements to the end; the database answers or
the statement fails) and strong on judging each rule (the ticker comes round for ever, and the evaluator is idle again
after each emission). The metric, the clock, operators, failures and restarts owe nothing.

Bounds: `MaxHour`, `MaxIncident`, `MaxFailures`, `MaxRestarts`, named in the module.

### Proofs

`IInv` = `TypeOK`, `Remembered`, `FiresAfterStreak`, `FiringIsCovered`, `ActiveIncidentIsUnresolved`. `FiresAfterStreak` speaks of an
emission under way; `Remembered` (the counter never exceeds the streak, and a firing flag means a full streak) is what makes the
next emission have one, and it survives a restart because forgetting lowers the counter and never the streak.
Theorems: `TypeCorrect`, `FlappingGuard`, `BridgeCoversFiring`, `NoGhostResolution` (`ActiveIncidentIsUnresolved`, of which the run of
`IncidentTimeline` checks more), `LinksAreActive`, for any number of replicas,
rules, hours, incidents, failures and restarts. Assumption `EvaluatorAssumption`: `Triggers` is positive, the bounds of the
clock and of incidents are naturals, there is a rule.

## WebhookBreaker

### State and steps

`hook[w]` is the subscription's row, `logged[w]` and `dlq[w]` the youngest row it has in each of the two delivery tables, `up[w]` whether its
receiver answers, `sweep` the DELETE at which the retention sweep is, `worker[s]` a delivery goroutine of some replica. `lost[w]` is a history variable: deliveries that ran out
of attempts. `disabled_at` and the rows are kept as ages in whole months, `Never` for none.

| code | steps |
|---|---|
| `HandleEvent` | `HandleEvent` (per matching subscription; an event that reaches several replicas is several), `Skip` (BIA filter) |
| `deliver` | `Start`, `RejectURL` (`ValidateURL` resolves the host each time), `PostAccepted`, `PostRefused` (with the `webhook_deliveries` row, whose error is ignored) |
| `recordSuccess` | `RecordSuccess` |
| `recordFailure` | `RecordFailure`, `DisableWebhook`, `CreateDLQEntry` or `CreateDLQEntryOfDeleted`, `PublishDisabled`, `Return` |
| shutdown, crash, a failed counter statement | `Abandon` |
| errors the code logs and passes over | `LogAndGoOn` |
| operators | `UpdateWebhook`, `DeleteWebhook` (refused while delivery rows reference the subscription) |
| `runWebhookRetention` | `RetentionSweep` (deliveries after `LogMonths`), `DeleteOldWebhookDLQ` (the queue after `DLQMonths`), `SweepFails` |
| time | `MonthPasses` |

The re-check of `disabled_at` in `deliver` looks at the row as it was listed, which the listing has already filtered, so it
has no step of its own. Nothing in the code clears `disabled_at` (`docs/WEBHOOK_VERIFICATION.md:164-166` speaks of an admin
endpoint that does not exist), so neither does the model. The retention of the queue is the one thing that parts the two: 90 days after its last payload was parked a subscription is still
disabled and has nothing left to replay. A month is the unit because both windows are whole months (30 and 90 days); it passes when no delivery
and no sweep is under way, since those last minutes. The sweep may come at any time, as after a restart, and as often as it likes.

### Runs

`webhook_breaker` (91,252 states): one subscription, two deliveries at a time, the code's threshold (3), attempts (3) and retention (1 month and 3), two
errors anywhere; months and sweeps are not bounded, for an age stops at its window. Subscriptions share nothing, so one is enough; two deliveries are enough for one to be in any step while
another trips, and since ended deliveries are followed by others their number over a run is not bounded. It shows:

* `DisabledHookHasParkedPayload`: without errors, a disabled subscription has a parked payload or one about to be, until the retention of the queue
  has passed since `disabled_at`. That the payload is the youngest of several, that a trip comes again while one is parked, and that the sweep
  has another window for the other table take none away earlier. After that the property says nothing, because the payload is gone.
* `DisabledHookFallsSilent` (liveness): after a trip the deliveries under way end and the receiver is never called again.
* `DeadReceiverIsCutOff` (liveness): a receiver that stays down while deliveries go on is disabled, in spite of the errors.

What it does *not* claim, because the code does not do it: that the failures before a trip were consecutive in time (a late success of an
older delivery resets the counter), or that one trip disables once (deliveries that fail together each trip, park and notify).

Fairness: weak on the progress of each delivery, because every wait in it ends (a ten-second client timeout, back-off
timers). Events, receivers, operators and errors owe nothing; `DeadReceiverIsCutOff` assumes in
its own statement that deliveries keep coming.

### Proofs

`IInv` = `TypeOK`, `Counted`, `TripIsDue`, `TripNeedsThreshold`, `ParkedInTime`. A delivery is lost one step before it is
recorded, so the counter alone says nothing about the next trip. `Counted`: the counter plus the lost deliveries that still have to record
are at most `lost`, or `lost` is already at the threshold; it holds although the counter may be cleared at any moment.
`TripIsDue` carries the count from the UPDATE that returned it to the UPDATE that disables. `ParkedInTime` is `DisabledHookHasParkedPayload` with the
payload no older than the disabling: both age together, so what `DeleteOldWebhookDLQ` takes was disabled at least as long ago. Cardinalities of sets of deliveries are handled
with the library's finite-set theorems. Theorems: `TypeCorrect`, `BreakerCountsDeliveries`, `DisabledHasPayload`, for any number of subscriptions and
deliveries and any threshold and number of attempts. Assumption `WebhookAssumption`: these numbers and the windows positive, finitely many
deliveries at once, a subscription exists.

## AutoOrders

### State and steps

A *reason* is what an order would be about: an asset for one type of order, or a key of `work_order_dedup`. A behaviour
follows one kind of scanner, chosen in `Init`, because reasons of different kinds share nothing. `due` are the reasons the
scan's condition holds for, `orders[r]` the orders about a reason as far as these scans look at them (submitted, started, ended), `dedup[r]` the row
of the key, `job[p]` the loop of a replica: what it still has on its list and where it is with the current row.

| code | steps |
|---|---|
| the query of a scan, at its start or on a tick | `Tick` |
| `onAlertFired`, `checkScanDifferences`, `createBMCSecurityWO`: the probe | `HandleEvent` |
| `maintenanceSvc.Create` | `Create` (and for an alert on to `TransitionEmergencyAtomic`) |
| `CreateTx`, `InsertWorkOrderDedup`, `Commit` | `CreateTx`, `InsertDedup` (waits for a transaction that has the key; rolls back if the row exists), `Commit` |
| an error that is logged and passed over; the end of the process | `LogAndGoOn`, `Crash` (an open transaction is rolled back) |
| what people do with the orders | `Approve`, `End` |
| assets, discoveries, scores | `Appear`, `Clear` |

The scanner kinds:

| kind | scans and handlers | looks before it opens | opens with |
|---|---|---|---|
| `assets` | `checkWarrantyExpiry`, `checkEOLReached`, `checkOverLifespan`, `checkFirmwareOutdated`, `checkMissingAssets`, `checkMissingLocation` | open order of the type | one statement |
| `event` | `checkScanDifferences`, `createBMCSecurityWO` | open order of the type | one statement |
| `emergency` | `onAlertFired` | open emergency order | one statement, then the start |
| `keys` | `checkShadowIT`, `checkDuplicateSerials` | row of the key | transaction with the key |
| `quality` | `checkLowQualityPersistent` | nothing | transaction with the key |
| `reviews` | `checkUnreviewedDiscoveries` | nothing, `Batch` oldest rows | transaction with the key |

`SkipAtBound` is not in the code: it keeps the orders about one reason within `MaxOrders`.

### Runs

`auto_orders` (171,504 states): two replicas, two reasons, three orders about each, two failures, and a limit of one row (200 in the code) for the
scan of discoveries, so that the limit binds. Two reasons are needed for
a list that is half done when something fails, and for a key that does not wait for another; three orders are one more
than the two the probing scans can have open. It shows:

* `NoSurplusOrders`, in three parts: `OrderAndKeyTogether` (an order exactly when the key has its row, one at most);
  `OneOpenOrderPerReplica`, what probing without a transaction still guarantees. Two replicas *can* each open one (the
  bound is reached), a third needs somebody to close one; `StrandedByFailureOnly`, an emergency order waits unstarted only when its handler failed or died.
* `PersistentReasonGetsAnOrder` (liveness): in spite of failures, crashes and people who close orders. An order that was closed under a
  key is never replaced, because its row stays; the property says so by asking for one order of keyed scanners. Of discoveries it speaks only while they are among the
  `Batch` oldest (`Listed`), because for the others it is false: with two overdue rows and a limit of one, the first gets its order, stays
  unreviewed at the head of the list, and the second waits for ever (without the disjunct TLC finds exactly that behaviour). Of events it says nothing.

Fairness: weak on the steps of a loop under way (a statement is answered or fails) and on the tick of each replica (its
timer). Alerts, events, people, conditions and failures owe nothing.

### Proofs

`KeyInv` = `TypeOK`, `JobFits`, `KeyIsFree`, `OrderAndKeyTogether`: a transaction that has inserted its key is alone with it, and
the key has no row, so that the commit adds the first order. `Room`, for the probing scans: open orders about a reason and
replicas with the reason still on their list are together at most the replicas, because the list was made when
nothing was open; the property alone says nothing of the lists. `StrandedByFailureOnly` is inductive beside `KeyInv`. Theorems: `TypeCorrect`, `NoSurplus`,
`OneOrderPerKey`, `OneEach`, `StrandedNeedsFailure`, for any number of replicas, reasons, orders and failures. Assumption `AutoAssumption`:
finitely many replicas, reasons are naturals and there is one, the limits are positive.

## SlaSweep

### State and steps

`order[o]` is what the sweep's WHERE clauses read, `marked` the two flags, `told` the notices written, `sweep[s]` how far a
replica's tick has come and whom it has still to tell. A tick is: mark the breaches (one `UPDATE ... RETURNING`), tell each assignee,
mark the warnings, tell each assignee. Beside it orders are approved, started (also by the emergency handler, as the system
user), completed, assigned and deleted; a deadline is set once and nothing rewrites it. `OnTime` is the one
assumption about time: a sweeper that is up does not sleep through its ticks. One that is down may stay down.

### Run

`sla_sweep` (575,884 states): two sweepers, two orders, a clock of six ticks, a time of four ticks for each order (the least
`SlaAssumption` allows, since a quarter of it has to hold a tick), one failure or death. The clock is bounded, so deadlock is not
checked. `NoticesAreExact`: nobody is told twice, and without a failure nobody is forgotten. `OverdueIsMarked` (liveness): an
order left open past its deadline is marked in the end; weak fairness of the servers and the clock together, because tickers fire and
servers are restarted.

### Proofs

`Told` says who knows of an order: before it is marked nobody, after it one sweeper or nobody. Theorems: `TypeCorrect`,
`ExactNotices` with `OneNotice` and `NoSilentMark`, and `WarningFirst`: without failures an order is warned about before it is
breached, although a tick looks for breaches first. That one needs `Timely`, what the last tick of a sweeper has seen.

## EventBus and DashboardCache

### State and steps

`cache[t]` is a tenant's Redis entry with what is left of its TTL, `reader[r]` a `GetStats` request with the fields it has counted,
`truth` what the queries would answer, `owed` and `flight` changes whose event is not published or not delivered. A value is the number
of the change that made it; `replaced` is the time since it was overwritten. One query is a step, and so is the store. `EventBus` has
the subjects: the tenant is appended on publication, a subscription matches a subject, and the handler gets an event without a tenant.
In this model, as in the code, no tenant's event invalidates its entry: freshness rests on the TTL alone.

### Run

`dashboard_cache` (145,314 states): one tenant (entries are independent), two requests, a TTL of two ticks, requests of at most
one, one change of each field, one failure. `ServedWithinTTL`: what the cache answers was true within the TTL and the time of one
request, also when a store lands after an invalidation. `ConvergesToTruth` (liveness): when changes and failures stop, no stale number
and no degraded tile stays; it rests on the TTL alone, since any invalidation may be lost, so it does not notice that a change invalidates nothing at all. Fairness: time passes and a request that has begun goes on. `MaxCompute` is an assumption: a
request ends within the server's timeouts.

### Proofs

`AgeInv`: the current value of a field has not been replaced, what a request has counted was true since it began, and an entry's age and what is left
of its TTL are together within the bound. Theorems: `TypeCorrect`, `AgeIsBounded`.

## Sessions

### State and steps

One user; `live` and `index` are the refresh keys and their Redis set, `revoked` the blacklist, `cutoff` the cached
`password_changed_at`, `user` the row, `iat` and `parent` what each pair was issued at and for. `req[r]` is a login, a refresh, a logout, a change
of password, a deactivation, or the admission of a request by the middleware; every Redis command and every statement is a step, may fail,
and the process may die between two. A failed command may have had its effect. `MaxRequest` is an assumption: no request outlives the server's timeouts.

### Run

`sessions` (4,203,243 states): two requests, two pairs, an access token of three ticks, a cache entry of one, requests that end within their tick
(the proofs take any duration), one failure and one administrative act. The clock and the pairs run out, so deadlock is not checked.
`ExchangedKeyIsGone`: a pair made by a refresh exists only when the key it was exchanged for is gone for good.
`SessionsEndInTime`: a deleted user is locked out within an access token's lifetime and two requests, and tokens older than a change
of password within a cache lifetime and one request, whatever failed. Two refreshes of one key *can* both answer; the
property does not claim otherwise.

### Proofs

The deadlines are sums of windows: how long a request that read the old row may act on it (`Overtaken`), how long what it wrote stays
valid (`Written`), how long a request may take (`InTime`). `Keys` and `Rotated`: a refresh key becomes live once, before a client knows it.
Theorems: `TypeCorrect`, `Rotation`, `EndsInTime` with `LockOut` and `CutOff`, and `StaleOnlyByRace`.

## SecretRotation

### State and steps

`row[r]` holds both columns, plaintext and ciphertext; a ciphertext is the key version it names and what it decrypts to. `ring[s]` is the
configuration a server was started with, `stage` the one new processes get. Saves read the ring and write in two steps; the two
commands select their rows and go through them one UPDATE at a time, with the predicates of the code. The operators follow section 8 of
`docs/integration-encryption-deployment.md`: they bring in the second key, make it active, rotate until the query of section 8.5 finds nothing,
and take the first key away. The divergence sampler is an operator on the tables.

### Run

`secret_rotation` (509,694 states): an adapter and a webhook (the two tables differ), two servers, one config, one failure,
`ActiveMeanwhile = 1`. `RotationCompletes` (liveness): no row and no server is left on the old key. Fairness:
requests and commands end, and the operators see the procedure through. `ImplementsVault`: under the mapping `lifeOf`, `readsOf`, `askedOf` it all is a
`SecretVault`, in which every server reads of a row what was saved last from the moment it is saved. Keys, stages, ciphertexts and
commands are hidden, so each of their steps has to be one that no reader can see. It follows (`SecretsStayReadable`) that every server has the key of every ciphertext, a ciphertext decrypts to the plain
column's value, and the sampler has nothing to count.

With `ActiveMeanwhile = 0`, the selector left out while the second key is rolled out, TLC refutes `EveryServerReads`; see the last section.

### Proofs

`SyncInv`: a row a command has read and not reached yet either holds what was read or a ciphertext that makes its UPDATE miss; for the
rotation because every server saves with the new key by then. `KeyInv`: which versions exist at which stage. Theorems: `TypeCorrect`,
`StaysReadable` with `NoSaveLost` and `NoKeyMissing`; the last assumes what the procedure says of the selector.

`VaultRefinement`, under the same assumption: the two facts together make every server read the plain column's value of every row that is there, so the abstract
`reads` is a function of the plain columns. A step that leaves them alone (any of the commands, a restart, a stage) changes nothing a reader sees
(`ReadsAreKept`); a save and a deletion change one row for all servers at once. `KeysFit` says why that survives a restart with other keys.

## AssetRecords

### State and steps

`Assets` has the table, the open transactions `work[r]` with what they wrote and have not committed, and the locks that follow from it.
`DiscoveryReview` ingests (look-up, insert), approves (claim under a row lock, look-up, insert, link, audit, commit) and ignores;
`InventoryTasks` creates, imports (look-ups and inserts in one transaction, errors ignored), scans and resolves (item, then task), edits, completes
and deletes. `AssetRecords` lets them interleave with creations and deletions of assets. A statement may wait for a row lock or for an unfinished insert of the
same unique key; a failure, a lost answer or a death rolls an open transaction back.

### Run

`asset_records` (1,163,827 states): one discovered row, two assets, one task, one sheet of two lines, one failure. Three requests review at once as long as there is no task: one can
hold the row, the second its identifier and wait for the row, the third wait for the identifier; no chain of waits is longer. Once there is a task, one review goes on beside one request for the
task (`OneReviewBesideTasks`), which is every pair of steps of the two workflows; requests that ended are followed by others.

* `ImplementsReview`: under the mapping `verdictOf`, `linkOf`, `madeOf` the reviews are those of `ReviewOutcome`, where verdict, asset, link and audit event are one step and every answer names
  the one asset of its row. It follows (`ReviewIsSound`) that an approval's answer stands, a row makes one asset, and a review that shows has its audit event.
* `TasksAreSound`: a sheet is in whole or not at all, although the import ignores its errors, its assets are there and its task is started; a completed task is never edited, deleted or reopened.
* `NoCircularWait`: whoever waits, waits for a request that goes on, or for one that waits for one that goes on. `OnlyWaitersAreBlocked`: an open request has a step exactly when it waits for no other.

Identifiers run out, so deadlock is not checked; what would be one is the business of the last two. No fairness.

The task a scan names in its URL is taken to be the item's (the handler does not compare them); the API cannot change an asset's tag.

### Proofs

`RecordsInv` (in `ExchangeProofs`) has a half for each workflow over the common types. `MadeOK` and `MadeApart`: what an approval has inserted and
not committed carries a tag that no asset and no other request has meanwhile. `LinkOK`: a linked asset is there and has the row's tag. `ImportOK`
and `SheetsApart`: nothing of a sheet being imported is in the table, and nobody else imports it. The types say how far each kind of request may be and
what it then holds, so that a lemma for each step tells what it changes; both halves are carried over these. Theorems: `SoundReview`, `SoundTasks`, `WaitsEnd`, `ReviewRefinement`, for any
rows, assets, requests, tasks, sheets and failures.

`WaitsEnd` needs no invariant beyond the types: a request that has updated its row waits for nothing and is what ends the others' waits (`HoldersGoOn`), and one that has inserted its asset and not yet updated
its row waits for such a one at most (`InsertersWaitOnce`). So every wait ends after two requests, because the code takes the identifier before the row.

`ReviewRefinement`: an open transaction shows in none of the mapped tables, so that all but five kinds of step stutter. The commit of an approval is `Approve`, which has to find the row without an asset and the asset without a
row: the row lock and `MadeApart` say so. The commit of an ignore is `Ignore`, an ingestion and an unknown device `Report`; the fast path is `Repeat`, whose answer `LinkOK` makes the row's asset. A deletion
of an asset that came of a row is refused while the row is linked to it. `ReviewIsSound` is part of `RecordsInv` and what most of these steps rest on.

## The estate

Fourteen modules share the run `estate`, because they share no state: the initial state chooses a part, and the others stand still. `MCEstate` adds nothing else
but symmetry (the processes are one set, the objects of a kind are one set), the initial states of the resting parts, and three views of `Dependencies`: creations
racing without deletions of assets (`race`), changes one at a time as time passes (`history`), and one graph reply among single changes (`graph`).
507,951 states in all. Bounds end every part, so deadlock is not checked; no part has liveness properties or fairness.

| module | state | what is a step of its own | bounds |
|---|---|---|---|
| `Dependencies` | edges with `from` and `to`, `creating`, `graph` | cycle check, insert, deletion, the three queries of a reply | 3 assets, 3 rows, depth 2 |
| `BusinessImpact` | `tier`, `links`, `level`, open transactions | statement, commit; a recomputation sees the snapshot of its statement and waits for locks | 2 assessments, 1 asset, 2 clients |
| `RackSlots` | `slots`, `rackOf`, `mount` | check, insert, sync; read, delete, count, clear | 2 racks of 2 units, 1 asset, 2 requests |
| `Locations` | rows with parent and path, racks, `deletion` | pre-flight, descendants, the location | 3 locations, 4 slugs (two labels, a dotted one, the empty one), 1 level, 1 deletion, 1 rename (`OneRename`) |
| `PredictiveRefresh` | recommendations, scans | begin, the transaction (rows are held to its end) | 2 scans, 1 asset, 2 days, 1 edit |
| `IncidentTimeline` | row, comments, `move` | begin, UPDATE, comment with commit | 2 responders, 3 transactions |
| `MetricSources` | rows, agents | beat, lost beat, lost answer, tick | 2 sources, intervals 1 and 2, 3 losses |
| `QualityScores` | profiles, flags, scores, `run` | list, count, one score | 1 asset, 1 flag, 2 scans, days of 2 ticks |
| `ServiceRegistry` | services, members, `attach` | service, asset, insert | 2 services, 1 asset, 2 requests |
| `AccessControl` | roles, assignments, cache, `call` | Redis GET, query, SET, answer; role edits | 1 user, 2 roles, TTL 1, 3 minutes |
| `AdapterPuller` | adapters, `puller` | list, fetch, record, disable, report | 1 adapter, 2 replicas, threshold 3 |
| `WebSocketHub` | channels, clients, buffers, pumps | each receive of the hub, each send and end of a pump | 2 clients of 2 tenants, buffers of 1 (256 in the code), 4 messages |
| `AuditArchive` | partition, object, `archiver` | count, detach (two transactions), export, upload, verify, drop | 3 runs, 1 row and 1 late row |
| `AssetSnapshots` | rows, snapshots, `editor` | begin, write with commit | 2 assets, 2 transactions, 2 columns |

Two processes are enough for every race of these statements, and those that end are followed by others. What the properties say:

* `GraphIsSound`: no cycle unless a creation was blind to another one; the walks and their depths agree with the edges; a reply has the
  ends of its edges. `HistoryIsStable`: a past moment keeps its answer, but for the edges out of a deleted asset.
* `LevelFollowsTiers`: the level is the highest tier, or a propagation is owed, or requests overlapped at the asset (`adrift`).
* `PlacementsAreSound`: no two slots overlap unless one went in `blind`; `rack_id` is the rack of the slots unless requests met or broke off
  (`astray`).
* `LocationTreeIsSound`: paths answer as the tree does for a location and its twins of the same path, and a deletion stays below its root and
  strands nothing. Answers leave nothing out; what they and a deletion have too many is below a slug with a dot in it (`Misled`), which the cast to ltree reads
  as two labels and so puts below a tree that is not its parent's, or is asked of an empty path, which has every location below it.
* `RecommendationsAreSound`: after an undisturbed scan the open rows are what the rules say; a reviewed row stays. That overlapping scans erase each other's
  open rows is reached and excused, not detected.
* `IncidentTellsItsPast`: the row and the timeline agree, the last comment when its transaction began after the others had committed.
* `HeartbeatsAreHeard`: two lost beats in a row before a source is called stale, at most three; beats are counted once.
* `ScoresAreFair`: only untriaged flags cost points, and at most one day of the window of a low score is unscored.
* `MembershipSurvives`: a membership outlives its service and is not replaced.
* `DecisionsAreRecent`: grants no older than a cache entry and the request that stored it.
* `AdapterCutOffIsSound`: a failing adapter is disabled and that is reported, but for steps that were `interrupted`.
* `FeedIsOrderly`: a client's messages are in order and without silent gaps, and a closed channel is never used again. It is safety only: goroutines that
  block on the channels of a stopped hub are in the model and violate nothing.
* `NothingIsLost`: an event is in the partition or in a whole object.
* `SnapshotsTellThePast`: the present is the row unless a change `Overtook` another, and a past moment keeps its answer.

The excuses in these properties (`adrift`, `astray`, `blind`, `interrupted`, `Overtaken`, `Misled`) are history variables or operators that hold only where the named thing
happened at that very object, and the next undisturbed operation takes `adrift` and `astray` away again; each stands for a disagreement the code really has.

What the parts assume: statements are atomic, `now()` is the start of a statement or of its transaction as in the code; cycles longer than the depth cap are out of
sight of the check and of the model; minutes in `AccessControl` and `MaxDuration`, the longest a request may take, are the server's timeouts; the length of a
back-off is left to `BackoffEnds`; operators repair a partition only when no run is at work, and an empty body is a fault of the store;
an update of an asset holds its row lock to the commit, so the two are one step, and no transaction writes a recorded column twice.

### Proofs

Each property below is proved from an inductive invariant that says what the processes between their steps may rely on; the sections of the proof modules name its conjuncts.

| property | theorem | what the invariant adds |
|---|---|---|
| `LevelFollowsTiers` | `LevelsFollow` | what a transaction computed is still right unless something made it stale; an unsettled asset is owed a propagation |
| `PlacementsAreSound` | `SoundPlacements` | a check holds unless a slot went in since; a request that met no other is alone and finds its slot; what a removal has left behind |
| `GraphIsSound` | `SoundGraph` | one open edge for a pair; what a check found holds until an edge slips in, since a cycle through a new edge was a walk from its target back; a reply's ends were there or deleted since |
| `LocationTreeIsSound` | `TheTreeStands` | a path extends its parent's, by something unless both are empty; a rack's location is there; a deletion has its root's path |
| `HistoryIsStable` | `StableHistory` | edges began in the past and are open or ended in the past |
| `MembershipSurvives` | `MembershipsSurvive` | nothing; `NoMembershipDangles` states beside it what foreign key and unique index keep |
| `SnapshotsTellThePast` | `ThePastIsTold` | a transaction's stamp is its own; the last committed change has left a snapshot |
| `IncidentTellsItsPast` | `PastIsTold` | one transaction holds the row; what it wrote agrees with the comments once its own is there; the youngest comment |
| `HeartbeatsAreHeard` | `BeatsAreHeard` | the beats missed say how long a source has been silent |
| `ScoresAreFair` | `FairScores` | a scan has seen every untriaged flag until it counts; a window of L days touches at most L + 1 days |
| `DecisionsAreRecent` | `RecentDecisions` | until when the grants that a request has read, and an entry holds, were in force |
| `AdapterCutOffIsSound` | `CutOffIsSound` | rows that were never there count nothing |
| `RecommendationsAreSound` | `RecommendationsStand` | an undisturbed scan still holds what the rules say; no row is as young as a transaction under way; settled rows match the rules one by one |
| `FeedIsOrderly` | `OrderlyFeed` | the hub's channel holds the messages last published, in order; a browser's buffer ends where the hub is; one whose reader ended is out or about to be |
| `NothingIsLost` | `NothingArchivedIsLost` | one run at a time is past the detach; its copy is the table; the rows are kept until the drop |

Constants are assumed to be what the tables' CHECKs and the code's own constants make them: intervals and thresholds positive, the markers `Never`, `NoTime` and `Now` no
numbers, the recorded columns those of the trigger, a day at least one tick, the depth cap of the walks a natural number.

The walks of the dependency graph, its breadth-first search and the subtrees of locations are defined round by round. `SetInduction`, from the library's
facts about the order of the naturals, takes the place of an induction over a predicate, and `RoundsExist` shows with it that the function such a
definition chooses exists. From these, for every set of edges and every depth: the recursive query returns exactly the walks that meet no asset twice
(`WalksAre`), their ends are exactly what breadth-first search reaches (`WithinIsReached`), and the rounds of `Subtree` reach every location whose path is at or
below the one asked for, or it is below a dotted slug (`DownReaches`): there are no more rounds that add a location than locations (`DownStops`), and from a
location below a path the parents' paths shorten until one is that path, or one of them skips it, which only a dotted slug does.

## What is proved

Every safety property of a passing run but those of the next section, for every value of the constants: `PROJECT.json` lists the theorems with the properties they state.
The form is the same throughout: an invariant `Inv` with `Init => Inv` and `Inv /\ [Next]_vars => Inv'`, the second from one lemma for each action, and the property from
`Inv`, or from `Inv` and a step for the action properties (`HistoryIsStable`, `MembershipSurvives`, `LocationTreeIsSound`,
`RecommendationsAreSound`, `SnapshotsTellThePast`, `TasksAreSound`, `ApprovalNeverRewritten`).
Three detailed specifications are proved to implement an abstract one: `WorkOrder` the `OrderLifecycle` (`Refinement`), `AssetRecords` the `ReviewOutcome` (`ReviewRefinement`), and
`SecretRotation` the `SecretVault` (`VaultRefinement`): the initial states map to initial states, and every step, one lemma for each kind, to a step or a stutter.
TLC checked each invariant on the small instance before it was proved. Where a proof needs sizes, of a set of deliveries, replicas or days, it cites the library's
theorems on finite sets. Types are proved with each invariant and are therefore in no run.

## What is only model-checked

* Liveness: `PersistentFaultIsTracked`, `RecoverySettlesTheHour`, `DisabledHookFallsSilent`, `DeadReceiverIsCutOff`,
  `PersistentReasonGetsAnOrder`, `ConvergesToTruth`, `RotationCompletes`, `OverdueIsMarked`. Fairness is beyond the proof system.
* `OnlyWaitersAreBlocked`, which speaks of `ENABLED`. It says that `WaitsFor`, of which `WaitsEnd` is proved, is all that stops a request.
* `NotBothDecideNone`, the property of the violation run, which is false.

## What is not modelled

The components the inventory names last, and within the others: lists and filters; the admin endpoint that rewrites order
statuses in bulk; rule editing; webhook signatures; what the BIA filter decides; the table of user sessions and its seven-day expiry; durable JetStream
consumers; retention other than of webhook deliveries and audit events. The database is taken as PostgreSQL at READ COMMITTED: a statement sees what is
committed when it starts, and an UPDATE or a locking SELECT re-checks its condition on a row it had to wait for. A lost acknowledgement of
a committed statement is an end of the request after the step.

## Disagreements between the code and its own words

One is a run that TLC finds violated: `alert_two_creates`, `incident_bridge.go:130` "so two concurrent emits on the same asset don't both decide there's no
incident". `FOR UPDATE` locks nothing when there is no row yet.

Others met while modelling, without a run of their own. The models follow the code in each.

Races and failures:

* `maintenance/service.go:432`, `:493`: only open orders can be edited or deleted; check and write are two statements, the write unguarded (`GateEdit`, `Update`, `Delete` in
  `WorkOrder`), so an order that the emergency handler starts in between is deleted at work.
* `statemachine.go:77`: the status is derived from two dimensions; the relocation detector writes `status` alone.
* `evaluator.go:18`: a restart loses one cycle; it loses the firing flag, and with it the one *resolved* there would have been.
* `webhook_dispatcher.go:345`: payload and notice always appear as a pair; they are a statement and a publish, each of whose errors is passed over.
* `auto_workorders_discovery.go:14-18`: a discovery that sits unreviewed gets an order instead of rotting; the scan lists the oldest rows, those with an order too, and when they fill
  the limit the next get none for as long as nobody reviews them (`auto_orders` reaches it; `PersistentReasonGetsAnOrder` excuses it).
* Migration 000048 lines 5-7: the payload of a disabled subscription is parked "so operators can retry by hand without losing data"; `cleanup.go:214` deletes it
  after 90 days, while `disabled_at` stays.
* `impl_locations.go:158`: for a child the path is the parent's and the slug; nothing checks the slug, and one with a dot makes two labels, so that a root "a.b" is listed, counted and
  recursively deleted with a root "a". An empty slug makes an empty root path, below which everything is.
* `notifications.go:218`: the next alert will retry; the order left behind counts as open and turns the next alert away.
* `invalidation.go:12-14`, `:67` with `nats.go:105`, `:149`: events invalidate the cache; the tenant in the subject keeps them from the subscription, and its absence from the event would make the handler skip it.
* `docs/integration-encryption-deployment.md` section 8.2, step 3, with `keyring.go:228`: during the rollout of the second key without the selector a server that has it
  saves what one that lacks it cannot read.
* Migration 000046 lines 16-17: an approved discovery is final; ignoring it afterwards is accepted.
* `topology/service.go:345-348`: a failed count of the remaining slots reads as none and clears `rack_id`. Line 312: the comment promises that the two agree.
* `refresh.go:101-103`: two scans do not erase each other's work; two that overlap and listed different assets do, until the next scan, and the open rows of a tenant that lost its last date stay.
* A location's recursive deletion is not one transaction and goes by path, so a twin of the same path loses its tree too.
* After the hub has stopped, `Broadcast`, `Register` and `Unregister` block for ever.
* `auto_workorders_quality.go:57-61`: a score every day; the query accepts a window with a day missing.
* Migration 000056: snapshots monotonic in real time; a stamp is the start of a transaction.

Statements the schema refuses, code without a caller:

* `expireStaleDiscoveries` sets a status that migration 000062's CHECK refuses; the audit inserts of the two secret commands violate the CHECK of migration 000051, and the script that clears
  plaintext always rolls back; inventory notes and scan history omit `tenant_id`; `rack_slots.asset_id` is NOT NULL with ON DELETE SET NULL.
* `StartPeriodicDetection` has no caller, the transition to "submitted" cannot be reached, "webhook.disabled" is in no JetStream stream, `UpdateWorkOrderStatus` and
  `ListSLAWarningOrders` are unused, `computeAdapterBackoff` repeats the SQL schedule for tests only.
* Migration 000056 created partitions for four months; nothing creates the next ones.

Smaller: deleting an asset that is not there answers 204; the service registry's partial update writes the empty string for an omitted name and an empty tier or status fails its CHECK
(`service.go:178`), and the code of a soft-deleted service is never free again; a re-enabled adapter keeps its failure counter, an undecryptable config is retried at every tick
without being recorded, and a Zabbix pull whose items all fail counts as a success; `CountAssetsUnderLocation` ignores `deleted_at`, `GetLocationStats` counts slot rows, and a renamed slug mixes the
figures of two locations; migration 000057 promises a history that the cascade removes; a predictive score ranks a later date above an earlier one (98.89 and 80.05); `ResolveQualityFlag` does not look at the
status; a second run of the archive after a failure past the detach is a success that does nothing (`main.go:4-6`); a deleted asset still answers for its past; the comment of `cleanup.go:112-125` describes another schedule.
