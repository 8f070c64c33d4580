# Verification of hr-console

TLA+ models of hr-console, a multi-tenant HR back end (NestJS, TypeORM,
PostgreSQL, Redis), with TLC configurations that model-check them and TLAPS
proofs of what matters most. Source paths below are relative to the repository
root, whose application code is in `src/src`.

## How the system behaves, and what is hard about it

Every request is an async handler that reads rows, decides, and writes rows
back. Three facts shape everything here:

* **No transactions, locks or version columns.** `grep` finds a transaction in
  three places only (import, tenant migration, schema creation). Everywhere
  else each repository call commits on its own, so an operation that makes
  three calls can stop after one or two, and another handler can run between
  any two of them.
* **`Repository.save(entity)` is an overwrite.** The handler holds an entity it
  read some awaits ago and saves all of it, so columns another handler wrote in
  between are put back to what they were.
* **State in the process.** `isProcessing` flags, in-memory rate-limit maps and
  the first tier of the cache belong to one server process; two servers do not
  share them and a restart forgets them.

The unit of atomicity in all models is what runs between two awaits: one
database call and the code up to the next. A model therefore keeps, per thread
of control, a label (`pc`) and the handler's local copies.

## Inventory

| Component (under `src/src`) | State it keeps | Operations that change it | Interacts with | What makes it correct |
|---|---|---|---|---|
| `jobs` background jobs | `job_queues`, `job_executions`, `isProcessing` per server | create, update, cancel, retry, execute; cron passes (1 min, 5 min) | any module that enqueues | a job is executed by one handler at a time, after its dependencies; statuses match executions; failed jobs are retried; nothing stays RUNNING |
| `webhooks` outgoing webhooks | subscriptions, events with attempt counts | subscribe, update, delete, publish, deliver, retry, dead-letter, replay | HTTP receivers, audit log | an event is delivered, or ends dead-lettered after its retries; a delivered event is not sent again |
| `subscriptions` billing | one row per tenant subscription: status, period, grace period, flags | create, update, cancel, renew, payment webhooks, nightly expiration | payment provider, tenants, e-mail | one live subscription per tenant; access exactly while it is live; a cancellation or expiration is final unless renewed |
| `tenants` provisioning, deactivation, retention | tenant records, tenant schemas, admins | provision (schema, migrations, record), clean up, deactivate, reactivate, purge | `database` | record and schema exist together; a failed provisioning leaves nothing and destroys nothing of another |
| `database` multi-tenant connections | schemas, connection pool | create/drop schema, run migrations | tenants | schema per tenant |
| `workflows` | instances, transitions; a table of approvals that nothing fills | start, transition, cancel; approve/reject, which finds no approval | timesheets, leave, equipment | one active instance per entity; the trail says where an instance stands; no step after completion or cancellation |
| `timesheets` | timesheets, entries, totals, lock | submit, approve, reject, add entry, recalculate | workflows | totals are the sum of the entries; nothing changes after the lock |
| `leave` | requests, balances, accruals | create, approve, reject, cancel, accrue | employees, workflows | balances match approved requests; no overlap |
| `equipment`, `resources` booking | bookings, equipment status | create, update, approve, reject, cancel, pick up, return | employees | no two confirmed bookings overlap |
| `inventory` | items, transactions | create transaction | equipment | quantity on hand is the sum of the transactions and not negative |
| `import-export` | import jobs, rows | process, roll back, cancel; export | all entities | counts match rows; a rolled back job leaves no rows |
| `caching` | in-process map, Redis | get, set, delete, getOrSet | interceptors | a read after an invalidation does not see the old value |
| `rate-limit`, `auth` rate limit | Redis buckets, in-process map | check, record, clean up | all requests | at most the limit per window; a client under the limit gets through |
| `auth`, `security` sessions, MFA, RBAC | tokens, sessions, login attempts | login, refresh, logout, change password | users, tenants | a revoked session is not accepted |
| `organizations`, `departments` hierarchy, membership | parent links, memberships, primary flag | move, add, remove, set primary | users | no cycles; one primary per user |
| `notifications`, `email` | notifications, attempts | queue, deliver, retry | employees, mail server | a delivered notification ends DELIVERED |
| `support` tickets, SLA | tickets, due dates, escalation | respond, resolve, hourly SLA check | users | a violated SLA is escalated once |
| `activities` audit log, retention | audit rows, archive | log, archive, purge | all modules | no row lost between archive and purge |
| `financials`, `project-financials` | accounts, entries, recurring invoices, rates | post, reverse, generate invoice | projects | books balance; each date is invoiced once |
| `gdpr` | requests, consents | request, process, anonymise, export | users | a request is processed once |
| `performance`, `goals`, `kpis` | reviews, goals, key results, values | state changes, progress roll-up | employees | progress agrees with key results |
| `forms`, `rules`, `custom-fields` | definitions, submissions | submit, validate, evaluate | all entities | pure evaluation over definitions |
| `projects`, `tasks`, `leads`, `contacts`, `clients-vendors`, `documents`, `knowledge`, `holidays`, `calendars`, `compliance`, `employees`, `users`, `roles`, `admin` | their tables | create, read, update, delete with a few status changes | each other | referential checks |
| `reports`, `dashboards`, `search`, `graphql`, `integrations`, `health`, `common`, `config` | read-only or stubs | queries, formatting, wiring | all | none with state |

"Modules" below says which of these are modelled, "What is not modelled" what is
left out of them and why the rest is.

`PROJECT.json` names the source files of each component, says what is modelled,
maps every definition to the lines it stands for, and lists the hazards of the
code at the line where each bites, with the properties that cover them.

## Modules

| Module | What it is |
|---|---|
| `JobQueue` | background jobs: the two tables, the cron passes of every server, the request handlers |
| `JobLifecycle` | abstract: the life of one job as a client sees it |
| `JobQueueLifecycle` | `JobQueue` mapped to `JobLifecycle` |
| `WebhookDelivery` | outgoing webhooks: subscriptions, events, passes, replays, edits |
| `EventDelivery` | abstract: the life of one event and its counted attempts |
| `WebhookPromises` | `WebhookDelivery` mapped to `EventDelivery` |
| `SubscriptionBilling` | tenant subscriptions: requests, payment messages, the nightly job |
| `SubscriptionLifecycle` | abstract: the life of one subscription's status |
| `SubscriptionPromises` | `SubscriptionBilling` mapped to `SubscriptionLifecycle` |
| `WorkflowEngine` | workflow instances and their trail |
| `TimesheetLock`, `LeaveRequests`, `EquipmentBooking` | the services on top of the engine, each EXTENDS `WorkflowEngine` and calls its actions |
| `TenantProvisioning` | one tenant key: record, administrator, schema |
| `Organizations` | default organization, primary membership, hierarchy |
| `RecurringInvoices` | passes that invoice what is due |
| `NotificationDelivery` | notifications, their deliveries, the messages and retries of each |
| `TransferJobs` | import and export jobs |
| `TaskDependencies` | tasks that others block |
| `RateLimits` | token bucket, sliding windows, login counter |
| `MCJobQueue`, `MCWebhookDelivery`, `MCSubscriptionBilling` | values of the constants for TLC |
| `MCWorkflows`, `MCServices` | compositions for TLC, of the engine with its services and of the seven services that share nothing but the database |
| `JobQueueProofs`, `JobQueueInvariantProofs`, `WebhookDeliveryProofs`, `SubscriptionBillingProofs`, `NotificationDeliveryProofs` | theorems about the first components |
| `WorkflowEngineProofs`, `WorkflowServiceProofs` | theorems about the engine, its three services and `MCWorkflows` |
| `ServiceProofs` | theorems about the other six services and `MCServices` |

A definition with the word "Mutant" above it is a bug a maintainer could
make. No behaviour of the specifications uses it: it is there so that every
property can be shown to fail when the code is changed that way
(`PROJECT.json`, "mutants").

Several modules keep a set of rows that were written in a way the code has no
defence against: `irregular`, `beside`, `raced`, `staleLeaves`, `repeats`,
`twice`, `disturbed`, `overlapped`, `trampled`, `stranded`, `crossed`, `lapsed`.
No guard reads such a history variable. It marks exactly the stale save, the
swallowed failure or the crossing of requests that the text at the variable
names, so that a property can say: this, and nothing else, breaks the promise.
The steps that break it stay in the model. A hazard that is itself what a mark
stands for is not covered by the property that exempts it: it is listed in
`PROJECT.json` without a property, and the note there says what the code does.

### JobQueue

Source: `src/src/jobs` (`job.service.ts`, `job-processor.service.ts`,
`job-scheduler.service.ts`, the two repositories, the entities).

State:

* `jobQueue` is the table `job_queues`: status, retry count, the two
  timestamps, and in `set` the columns a client chooses (maxRetries,
  dependencies, timeout, recurrence, priority). An absent row has the status
  ABSENT.
* `executions` is the table `job_executions`, in the order of the inserts.
* `isProcessing` is the scheduler's flag, one for each server. Only the pending
  pass uses it, as in the code.
* `pc`, `jobId`, `job`, `savedExecution` are a handler's position and its local
  variables: the entity it read, and the execution it inserted.
* `jobsToProcess` is the list a cron pass still walks; it holds ids and the
  `scheduledAt` each row had when it was listed; `processJob` reads the row
  again.
* Timestamps are `none`, `later` or `passed`; `TimePasses` turns one into the
  next. Nothing in the code compares two of them.

`processJob` is the sequence of awaits `BeginProcess` (read, status test),
`CheckDependencies` (the dependency query), `SaveStarted` (insert the
execution), `SaveRunning`, then the processor's outcome with its two saves:
`SaveExecutionSuccess` and `SaveJobSuccess`, or `ProcessorThrows`,
`SaveExecutionFailure` and `SaveJobFailure`. Failures of saves inside the `try`
go to the `catch`, as in the code (`DatabaseFault`). `CreateJob`, `UpdateJob`,
`CancelJob`, `RetryJob` and `ExecuteJob` are the controller's requests; the
middle three read in one step and overwrite in another (`SaveEdit`).
`ProcessPendingJobs`, `ProcessRetryableJobs`, `NextJob` and `FinishPass` are
the cron passes. A pass swallows the error of a job and goes on. `Crash` ends
every thread of a server and clears its flag.

Abstracted: the payload and result; the processors themselves, which return or
throw at once, as all of the processors in the build do; organisation and
tenant scoping; the order of rows with equal priority, which is any order.

### WebhookDelivery

Source: `src/src/webhooks` (`webhook.service.ts`, `webhook-delivery.service.ts`,
the repositories and entities).

State: `subscriptions` and `events` are the two tables. `todo` holds the whole
entities a pass or a replay listed: unlike the job passes, these handlers never
read the row again. `ctx` has the event and the subscription a handler works on
and whether it is inside the `try` block. `received` and `sent` belong to the
outside world: which events a receiver has accepted, and how many requests were
sent for an event since it was published or replayed.

`ProcessPendingEvents`, `ListPending`, `NextEvent` and `FinishPass` walk the
list; for each event `Decide` is the choice `deliverEvent` makes between
dead-lettering, failing, and an attempt. `SaveEvent`, `SendHttpRequest`,
`RecordSuccess`, `RecordFailure`, `ScheduleRetry` and `CreateAuditLog` are the
awaits that follow. `Throw` is the rejection of one of them: within the `try`
block it leads to `handleDeliveryFailure`, otherwise out of the handler.
`UpdateSubscription`/`SaveSubscription` and
`DeleteSubscription`/`RemoveSubscription` are read-then-write requests.
`DeleteSubscription` also removes the events (the foreign key cascades).

Abstracted: payload, headers, signature, filters (any set of active
subscriptions may match), the response body, the counters of successes and
failures, which no decision reads. The timeout of a request is one of the
outcomes of `SendHttpRequest`: failed, though the receiver may have accepted.

### SubscriptionBilling

Source: `src/src/subscriptions` (service, repository, webhook service,
expiration and renewal jobs). `billed` is the table. Every write is an UPDATE of
a few columns, so a handler keeps only what its write was decided on: `copy`
has the id, tenant and status it read, `listed` the copies of a nightly run.
`at` is the await a handler stands at. `ProcessWebhook` is `processWebhook`
with its seven kinds of message, in any order and any number; a failed payment
is the two writes `SetPastDue` and `SetGracePeriod`. The nightly job is
`CheckExpiringSubscriptions`, `ProcessExpired`/`Expire`, `ListGracePeriods`,
`ProcessGracePeriodExpired` and its two writes. A row's failure is logged and
the next one is taken; a query's failure ends the run.

Nothing in the repository calls `processWebhook` or `processAutomaticRenewal`:
they are taken as the gateway's and the operator's entry points. A cancellation
at the period's end only sets a flag; the row later becomes EXPIRED, and a
renewal clears the flag. Two creations for one tenant can both find no active
row, and no unique index stops them; the model has that step, and no property
forbids it.

### WorkflowEngine and the services on it

Source: `src/src/workflows`, `timesheets`, `leave/services/leave-request.service.ts`
and `equipment/services/equipment-booking.service.ts`. `instances` and `trail` are
two of the engine's tables; `call` is what a handler was asked for, with the row
it read. A start is `FindByEntity` and `InsertInstance`, a move is
`FindForTransition`, `RecordTransition` (the trail first) and `SaveMove`, a
cancellation `FindForCancel` and `SaveCancel`. A service calls the engine in the
middle of its own handler: its thread enters the engine's first action and goes on
from the label "returned" or "threw". `ServiceFault` and `EngineCrash` are joined by
the services' own. What the engine throws is swallowed, as the code swallows it.

Two things the code does are easy to miss, and shape all of this:

* `transitionWorkflow` reads the instance with its `transitions`
  (`workflow-instance.repository.ts:43-48`), inserts a row of the trail (`:297`) and
  saves the instance with the array read before (`:318`). TypeORM takes a child that
  is not in the array for removed and sets its `workflow_instance_id` to null, which
  the column refuses. So `SaveMove` stores the instance only if the trail is as it
  was read, and it never is: the handler's own row is new. Every move is logged and
  none is stored (theorem `MovesAreLost`, run `workflow_trail`); the services
  swallow the error. A cancellation reads the instance without its trail.
* `createInitialApprovals` asks the new instance for its definition, which is not
  loaded with it, and the approvals of a move come after the save that throws: no
  row of `workflow_approvals` ever exists, `processApproval` finds none, and
  approvals are not in the model. A start in a state that asks for approvals
  inserts its instance and then throws.

`TimesheetLock`: sheets, entries (one hour each), totals that are recomputed
from a re-read sheet, submission, decision and lock. The sheet is read with its
entries, so `SaveTotals` throws in the same way when an entry was added since; the
handler of that entry sums it up later. `LeaveRequests`: a request
is saved, its workflow is started, and it is saved again; nothing ever sets
APPROVED or REJECTED, as nothing maps the outcome of a workflow back.
`EquipmentBooking`: one piece of equipment, bookings of days, the three cases of
the conflict query; a booking's workflow is started under entity id 0, before
the booking has an id, so all of them share one entity.

The re-read after a submission can take back an approval; the model has that step
and such a sheet is marked irregular.

### The seven services of MCServices

* `TenantProvisioning`: `createTenant` is `CreateTenant`, `CheckSchema`,
  `CreateTenantSchema`, `RunTenantMigrations`, `CreateTenantRecord` (whose
  unique key the database enforces), `CreateTenantAdminUser`,
  `CreateDefaultOrganization`, `CreateTenantAdminRecord`; the clean-up is
  `DropSchema`, `FindRecord`, `RemoveRecord`, by name. The repair of the
  administrator, update, deactivation and reactivation are read-then-write.
  `activate` and `deactivate` of the facade have no callers, the deactivation
  and reactivation services no route; they are modelled as the operators'
  entry points. That the entity manager obtained for a schema is never released
  (`multi-tenant.service.ts:70-79`) is not modelled.
* `Organizations`: each handler finds rows that carry the flag, unsets them one
  by one and saves its own. The circle test collects ancestors and compares
  ids that are text with a number, so it never refuses.
* `RecurringInvoices`: a pass lists schedules, and for each saves an invoice,
  the count and the next date from the row it listed. Passes are requests; no
  cron calls them.
* `NotificationDelivery`: every step of a delivery saves the handler's copy.
  An attempt is counted and saved, then the address is looked up (`FindAddress`)
  and the message sent. `EmailService` tries what looks like the network again,
  up to three times inside the one attempt (`email.service.ts:191-204`), and a
  message whose sending timed out may have left: `Transmit` counts each
  in `mails`, and `tries` is the service's `retryCount`.
  `processPending` and `processRetryable` have no caller in the repository;
  QUEUED (scheduled) rows are never delivered; `findRetryable` selects FAILED
  rows with attempts left, and `AttemptsAreCounted` says that there are none.
* `TransferJobs`: the import saves its whole copy after each record. The import
  of a record is a TODO in the code and is its verdict here. The last save of
  an import that rejects cannot be followed by FAILED; a record whose progress
  save fails is counted twice and shifts the row numbers after it.
* `TaskDependencies`: creating, updating, deleting tasks and adding or removing
  dependencies, each followed by the look for what blocks and the repair.
  `createTask` with a parent always refuses and is left out with parents;
  the circle test of `updateTask` is about parents; circles longer than two are
  not looked for; a CANCELLED prerequisite blocks for ever; completing a task
  does not re-check those it blocks.
* `RateLimits`: the Redis scripts are atomic, but each brings the time its
  request read, up to `Lag` earlier. The capacity of a bucket is `burstSize`, a
  column nothing constrains, and is any number here: when a window does not fill
  the bucket, the expiry of its key gives the rest (`Surplus`) away. The code
  refills whole tokens and sets `lastRefill` to now, so frequent polling never
  refills; requests of one millisecond are one entry of the window; a request
  whose Redis call fails passes and is counted nowhere (`RedisFault`).
  `resetRateLimit` has no caller, and nothing applies the `RateLimitInterceptor`.

## What the runs show

`Passing` runs finish with no error; a `violation` run is a finding: the code
does not do what a line of the repository says, and TLC shows how.

| Run | Question |
|---|---|
| `jobs_race` | A pass and a request meet on two jobs while clients change settings, a database call fails and the server crashes: do statuses stay backed by executions, has a RUNNING row an owner, is the history neither rewritten nor shared, is no dependency skipped, and who can undo a cancellation? |
| `jobs_live` | Under fairness, and with more jobs than a pass takes, do passes exclude each other on a server, do handlers end and release the flag, is a ready job taken up unless a full batch of others stands in its way? |
| `jobs_lifecycle` | With one thread of control at a time, is `JobLifecycle` implemented? |
| `webhooks_one` | One pass, one replay, one editor, faults and a crash: are attempts within the budget, is DELIVERED undone by faults alone, do replays revive settled events only? |
| `webhooks_live` | Two passes overlap, under fairness, with stale entities: does every event get its attempt, does retrying end, is an event ever shown as DELIVERED that no receiver accepted? |
| `webhooks_lifecycle` | With one pass, one replay and one editor, and crashes, is `EventDelivery` implemented? |
| `billing` | A request, a payment message and the nightly job in every order, with a failure or a crash: which writes make a row contradict itself, is `SubscriptionLifecycle` implemented, and does every overdue subscription leave ACTIVE? |
| `workflows` | Two handlers of the engine or of a service on it, in every order, with a failure or a crash: one active workflow per entity, a trail that accounts for the state, totals that are sums, no double booking, instances that move as defined, decisions that stay, cancellations that reach the workflow? |
| `services` | Two requests of one of seven services, in every order, with failures and crashes: do its rows keep what they promise together? |
| `billing_grace`, `workflow_trail`, `organizations_tree` | the findings below |

### Findings

| Run | What happens |
|---|---|
| `billing_grace` | The nightly job lists grace periods that end after now and then keeps those that ended before: a PAST_DUE subscription whose grace period ended between two nights is never expired. |
| `organizations_tree` | The test for circles asks whether the new parent is an ancestor, where a descendant closes the circle; one client makes two organizations each other's parent. |
| `workflow_trail` | One client asks for one move of one workflow, nothing fails: the move is in the trail, and the instance stays where it was, because its save trips over the trail row that was just written (`workflow.service.ts:318`). |

What the properties of the passing runs leave open, without a run of its own:

* Jobs. A handler's final save of an older copy turns CANCELLED into COMPLETED;
  two servers can execute one job at once; a recurring job runs at every pass, as
  `nextExecutionAt` is written and never read; a failed job becomes RETRYING,
  which neither pass selects; a row left RUNNING by a crash is looked at by no
  handler; a dependency that names no row counts as completed. The batch is cut
  before dependencies are checked, so ten jobs of higher priority whose
  dependencies never complete, or which recur, keep a ready job waiting for ever:
  `ReadyJobsAreTakenUp` promises nothing to a job with a full batch in its way.
* Workflows. As moves are lost, an approved or rejected timesheet leaves its
  workflow ACTIVE; a start in a state with approvals leaves an ACTIVE instance
  whose id its service never learns, and the next start for that row is refused.
* Notifications. One attempt may send an e-mail four times.
* Rate limits. Requests without an answer from Redis, and those of one
  millisecond, are beyond what `LimitsHold` bounds; a `burstSize` above what a
  window refills is given back in full when the key expires.
* Webhooks. A failed audit-log write or `recordSuccess` after the save as
  DELIVERED reaches the `catch` clause, and the event is sent again; a crash
  before the outcome leaves RETRYING without a retry time, which no query
  selects; two passes count an attempt once, so `AttemptsWithinBudget` needs one
  pass at a time; with a budget of 0, which the DTO allows, an event is
  dead-lettered without a request.

### Properties of the passing runs

Jobs and webhooks:

* `StatusIsBacked`: what a client sees of a job agrees with the settled rows of
  the history (COMPLETED needs a completed execution, FAILED and RETRYING a
  failed one), whatever stale copies were saved.
* `RunningIsOwned`: without crashes and faults, a RUNNING row has a handler that
  will save an outcome, and a STARTED execution has its handler, however stale
  the saves of other handlers are.
* `ExecutionsAreOwnedOnce`, `HistoryIsKept`: a handler writes its own execution
  row and no other; a settled row never changes.
* `DependenciesFirst`: past the dependency check, every dependency that exists
  has completed.
* `OnlyStaleSavesUndoCancel`: this is as much of "CANCELLED is final" as the
  code keeps.
* `OnePendingPass`, `HandlersReturn`, `ReadyJobsAreTakenUp`: the flag excludes,
  is released on every path, and no job starves but behind as many jobs as a pass
  takes (`InTheWay`).
* `AttemptsWithinBudget`, `DeliveredIsFinal`, `ReplaysReviveSettledEvents`,
  `DeliveredWasReceived`, `EventsLeavePending`, `RetriesEnd`: the same
  questions for events.
* `ImplementsLifecycle`, `ImplementsDelivery`: the refinements of these two.

Billing:

* `RegularRowsAreConsistent`: a cancelled row has its time, one that is not over
  has none, PAST_DUE has an end of its grace period or a message about to set
  it. Only an update by hand, a write decided on an older status, or a payment
  failure cut in half breaks this.
* `ImplementsSubscription`: statuses move as `SubscriptionLifecycle` says: a
  subscription opens ACTIVE or TRIAL, falls behind from these, is activated from
  TRIAL or PAST_DUE, and once CANCELED or EXPIRED does not come back
  (`EndedStaysEnded`). Updates by hand and writes decided on an older status are
  its only exceptions, and `irregular` names the rows they met.
* `OverdueSubscriptionsEnd`: an overdue ACTIVE row is expired, renewed or falls
  past due, although rows that fail are only logged and runs may overlap.

Workflows:

* `OneActivePerEntity`, `TrailLeadsToState`: at most one active instance unless
  two starts overlapped; the state is one that a logged move or a start leads to,
  although the trail and the state are two saves, of which the second fails.
* `LockedTotalsAreSums`: the hours of a locked sheet are those of its entries,
  or a handler that will recompute them is on its way.
* `NoDoubleBooking`: whatever case of the query an overlap falls under.
* `CancelledRowsEndTheirWorkflow`: a cancelled leave request, a refused or
  cancelled booking has no workflow left under way, although the services swallow
  what the engine throws. Of approved and rejected timesheets the code does not
  keep this, as the finding `workflow_trail` says.
* `DecisionsStay`: an instance starts, moves and ends as its definition says, each
  move logged before it is saved (`InstancesFollowDefinition`), and what has
  ended, in the engine or in a service, changes only by a handler that read it
  before.

Services:

* `TenanciesHold`: a listed tenant has its schema and tables, and all parts once
  its creation ended; a failed creation leaves no schema; administrators are
  active exactly while the tenant is. Only a clean-up that meets another
  request, a creation that dies where nothing cleans up, and status changes that
  cross break this.
* `OneDefaultAndOnePrimary`: handlers that run alone leave at most one of each,
  in whatever order they come.
* `InvoicedOnce`: no date is passed over, none is invoiced twice, no more than
  the schedule asks for.
* `AttemptsAreCounted`: attempts are within those allowed; messages are within what
  the attempts counted may send, each once and `EmailRetries` times more, also
  when a save fails after the message or the server stops; FAILED and SENT mean
  what they say.
* `TransfersAddUp`: a finished import has counted each record once under its
  verdict; a saved cancellation stays.
* `UnmetDependenciesBlock`: once nobody is at work on a task, an unmet hard
  dependency keeps it BLOCKED.
* `LimitsHold`: what the limiters do promise, in any order of scripts, expiries and
  restarts. Of the requests that Redis answered, a bucket lets pass its capacity
  and refill, and for each expiry of its key what a window does not refill
  (`Surplus`) and the lag of a script; the times at which a sliding window lets
  anything pass are within its limit; in any stretch as long as the login window
  at most twice the attempts pass (a window and the next can each be used up).

### Bounds and why they are enough

* **Threads.** A race in this code is between a read and the save that follows
  it, so two handlers that can meet show it. `jobs_race` has a pending pass and a
  request, `jobs_live` two pending passes and a retry pass; `webhooks_one` has a
  pass, a replay and an editor, `webhooks_live` two passes; `billing` has one
  request, one message and one nightly run; `workflows` and `services` have two
  handlers. The theorems cover every number of threads.
* **Jobs, subscriptions.** Two jobs: one may depend on the other and on a
  missing id (`jobs_race`). Three in `jobs_live`, of which a pass takes two: one has
  no processor and never completes, the others may depend on it and come first, so
  that a ready job meets one job in its way, which must not keep it waiting, and
  two, which do. One webhook
  subscription: events of two meet only in the batch, where two events of one do
  as well. One tenant subscription: no step looks at two rows.
* **`MaxExecutions`** (2 to 5) bounds the history. With 2, a job can be
  executed twice at once or again after its first outcome. `jobs_live` has 5,
  which lets jobs fail and run again.
* **`MaxEvents`** (2), **`BatchSize`** (1 or 2): in `webhooks_live` the batch is
  smaller than the backlog, so that starvation would show; in `jobs_live` it is
  smaller than the number of jobs.
* **Failures and crashes** (0 to 2): one failing call or crash, at any await;
  two for tenants, so that the clean-up after a failure can fail too, and for
  transfers. `webhooks_live` has none: its two passes with stale
  entities already fill the budget of states, and a crash strands an event.
* **Settings.** Each cfg lists what clients ask for: a job with and without a
  retry, with and without a dependency; budgets 0 to 2; a schedule with and
  without an end.
* **Scenes.** In `MCWorkflows` and `MCServices` one scene runs per behaviour.
  `workflows`: the engine with two clients; two officers at one timesheet; an
  officer and a client of the engine; leave with two officers; two bookings over
  three days without workflow; one booking with its workflow. Two instances let a
  second start happen; a trail of two rows, a second move. `services`: two
  organizations and four requests (six in `organizations_tree`), two
  schedules and days, two notifications, at most one of them an e-mail, two attempts, one retry within
  an attempt (three in the code; the theorem covers any number), one transfer of up to
  three records, two tasks, five ticks with a window of three, an hour of
  four and a bucket of two that a window does not fill, so that an expiry does give
  something away. The two requests of a service are symmetric, and so are the two
  schedules and the two notifications. The seven services share no
  state, so nothing is lost by not running two at once.
* `CHECK_DEADLOCK FALSE` is set where a bound ends the run: once the rows or
  requests of the instance are used up, nothing is left to do in it, while the
  program goes on.

### Fairness

`FairSpec` of `JobQueue` asks weak fairness of the steps of a handler that has
begun (the process answers awaits in finite time), of the two crons (NestJS
calls them every minute and every five minutes) and of time. Clients and the
outcome of a processor are never obliged. `FairSpec` of `WebhookDelivery` asks it of
`processPendingEvents`, which the controller says "should be called by a
background job/scheduler", of handlers under way and of time. Publishing,
replaying and editing are not obliged. `webhooks_live` has no replays: a client who replays
without end could keep a batch of one busy. `FairBillingSpec` asks it of the
nightly job (NestJS cron), of handlers under way, and that periods end; requests
and messages of the gateway are not obliged. The other modules state safety only:
nothing in the repository schedules their passes.

## What is proved

All proofs hold for any number of rows, handlers, servers, faults and crashes,
except where a theorem states a hypothesis (below: one about jobs and four about
webhooks, which speak of one handler of a kind at a time). They assume what the modules assume of their constants: that ids are distinct
from the null value, that kinds of threads are disjoint, that bounds are natural
numbers, that what clients ask for gives rows of the table's shape, that there is
at least one sheet and one leave request to ask about, that a file is a sequence
of verdicts. TLC evaluates every one of these assumptions in the runs. Each
inductive invariant below was first checked by TLC as an invariant of the
component's run.

### Jobs, webhooks, billing, notifications

* `TypeCorrect`, `WebhookTypeCorrect`, `BillingTypeCorrect`,
  `NoticeTypeCorrect`: the type invariants.
* `StatusBacked`, `DependenciesCompleteFirst`, `OneWriterPerExecution`: none of
  these is inductive. A stale save can put back any row a handler has ever
  read, so the invariant has to speak of the copies as well.
  `QueueInvariant` says: executions are owned once; the row and each handler's
  entity are backed for the status they show or, by the handler's label, are
  about to show; dependencies were met when they were checked, and settled
  executions stay, so they still are. The proof first shows what each step does
  to the history (`QuietHistory`, `StartedHistory`, `StatusHistory`), then one
  lemma per group of actions, then `EveryStepKeeps`.
* `HistoryKept`, `CancelUndoneOnlyByStaleSaves`: action properties that follow
  from the same invariant.
* `RunningOwned`: needs `QueueInvariant` for what a copy may say when it is
  saved (an edit never saves RUNNING, an outcome never leaves the row RUNNING
  nor its execution STARTED). `FailuresCount` shows that a state without
  failures has none behind it; for every other step either the threads that own
  something stay where they are (`BystanderKeeps`), or rows and executions keep
  their owners (`CalmKeeps`), or the step makes its thread the owner.
* `QueueServes`: the refinement of `JobLifecycle`, for one thread at a time
  (`OneThread`; two threads lose updates, as `RunningIsOwned` and
  `OnlyStaleSavesUndoCancel` take into account) and behaviours without failures or
  crashes (either leaves a row RUNNING that no execution will end).
  `FreshInvariant` says, by label, what the row shows that the thread is about to
  overwrite. Each step then moves one row as the lifecycle allows, or none
  (`Moves`, `Stands`); an execution settles exactly when the thread that owns it
  saves the job's outcome (`OwnerGone`), which adds one to one count
  (`OneMoreSettled`, `Ends`). `NoneRunning` needs `RunningIsOwned`: an edit finds no
  RUNNING row.
* `PassesExclude`: the exclusion is not inductive; `FlagIsSet` (an open pass has
  its server's flag set) is, and holds because the flag is tested and set
  between two awaits.
* `NothingFalselyDelivered`: `DeliveryInvariant` says that every copy of an event
  which shows DELIVERED is truthful (the table's, the one a handler is about
  to save, each one on a list), and that a handler that sends holds an event.
* `AttemptsStayWithinBudget`, `RevivedWereSettled`: theorems with the hypotheses
  `OnePass` and `OneReplay` (one request of each kind at a time; any number of
  editors, failures and crashes), since with two passes or two replays a stale
  save breaks both properties. Nothing in the code keeps two passes apart: the
  hypotheses say how the endpoint has to be called. `CountInvariant` says that
  what a pass has listed is as it was listed, or deleted (`ListedOK`), that what
  a replay has listed is still dead and no pass has it before it (`RevivedOK`),
  and what the event in a pass's hand counts, by label (`HandOK`).
* `DeliveredStaysFinal`, `WebhooksDeliver`: with `OneEdit` as well, and until a
  database call fails, `Promises` adds that a deleted subscription has no rows
  and does not come back (`DeletedStays`), that every listed copy is its row while
  the subscription lives (`CopiesAreRows`), and what the row is that a pass is
  about to overwrite (`BusyOK`). From these each step maps to a step of
  `EventDelivery` or to a stutter (`EveryStepDelivers`): a save is a count, a
  delivery, a burial or a failure by its label (`SavesDeliver`), the cascade of a
  deletion is a removal. `WebhooksDeliver` is about the behaviours in which
  `faults` stays 0; crashes are part of them.
* `RegularConsistent`, `BillingImplementsLifecycle`, `EndedStay`: `BillingInvariant` adds to the types what the
  copy a write is decided on showed, by label (`Decision`), and that lists hold
  rows of the table. A write then either changes a row that still shows the
  copy's status, which `Decision` makes harmless, or marks it irregular. For the
  refinement every lemma about an action also says what it does to the statuses
  (`LawfulStep`): nothing, one move the lifecycle has (`Lawful`), or any change of
  a row it marks. It holds for any number of rows and handlers, failures and
  crashes included, without a hypothesis. `EndedStay` is a consequence.
* `AttemptsCounted`: `NoticeInvariant` says what a row's attempts and status
  mean, that a copy about to be saved has an attempt to spare or its mail sent,
  and, for a notification that two deliverers never held at once, that there is one
  copy at most and that row and copy have counted enough attempts for every message
  sent and for those its attempt may still send (`OneCopy`, `CopiesCount`,
  `MayStillSend`).

### Workflow engine and its services

* `OneActiveWorkflow`, `TrailExplainsState`, `InstancesFollow`, `MovesAreLost`: the
  invariant `EngineInv` is the types, `OneActivePerEntity`, `HandlerOK`, which says
  by label what the row a handler read allows it to save, and `AtStart`. Whatever
  became active for an entity since an insert looked is marked (`InsertOK`); an
  instance that a handler holds was active when it was read and has at most been
  cancelled since (`HoldOK`); a handler about to save a move has read less of the
  trail than there is, since its own record is new (`MoveOK`). So no move is ever
  stored and each instance is in the state it started in (`AtStart`), for every
  definition and any number of clients. None of these theorems has a hypothesis on
  definitions: `validateWorkflowDefinition`
  (`src/src/workflows/services/workflow.service.ts:616`) asks little of them.
* `LockedSheetsAddUp`, `LockedSheetsStay` (timesheets);
  `CancelledLeaveEnds`, `CancelledLeaveStays` (leave); `NoDayBookedTwice`,
  `RefusedBookingsEnd`, `EndedBookingsStay` (equipment): each service has an
  invariant of its own (`SheetInv`, `LeaveInv`, `BookingInv`) beside `EngineInv`,
  because the engine's actions are the service's steps too. `NoDayBookedTwice`
  rests on `QueryFindsOverlaps`: two ranges overlap exactly when one of the three
  cases of the repository's query holds. `LockedSheetsAddUp` rests on
  `TotalsCounted`: outside `irregular` the total is the sum, or some handler will
  still save one that counts every entry (`WillCount`); when the save of another
  throws because of a new entry, that is the handler of the newest entry.
* `WorkflowsTypes`, `CancelledRowsEnd`, `DecisionsStand`, `ServicesKeepEngine`: the
  same for the composition `workflows` checks. `ScenesInv` says which service is
  on stage; a step of it is a step of that service, and the tables of the others
  are as they began.

### The services of MCServices

Each has an inductive invariant, of which its property is a consequence. What
had to be added says where the property comes from.

* Tenants, `TenantInv`: the record is there only when schema and tables are
  (`SchemaBeforeRow`) and only once (`OneTenantRow`); the handler that
  goes on with a creation has its part of it (`CreationGoesOn`, `SchemaIsClaimed`); as
  long as status changes do not cross, at most one is under way, with the
  status it read (`OneStatusChange`, `StatusAsRead`), and administrators agree with
  the status but for the ones it has left to do (`AdminsMatch`).
  Theorem `TenanciesAreKept`.
* Organizations, `OrgInv`: while handlers do not overlap, at most one is at work
  (`OrgsAlone`), and what it has found to unset is all there is
  (`DefaultReady`, `PrimariesFound`). Theorem `OneDefaultOnePrimary`.
* Recurring invoices, `InvoiceInv`: every row a pass has listed or holds, however
  old, says that all dates before its next one are invoiced (`RowFits`), which is
  why none is passed over; and from its invoice to its last save, a schedule
  outside `repeats` is in the hands of one pass, whose count is right
  (`TurnsOK`). Theorem `InvoicedOnceEach`.
* Tasks, `TaskInv`: a planner that has looked for what blocks a task knows of
  every unmet dependency outside `lapsed` (`SeenUnmet`), and a task with one is
  BLOCKED, or a planner has still to look or to save (`BlockedOrChecked`).
  Theorem `UnmetDependenciesAlwaysBlock`.
* Transfers, `TransferInv`: a worker's copy, and the row of an undisturbed
  job, count the verdicts of the records that have been through (`WorkerFits`,
  `UndisturbedFit`). That is a tally of a prefix of the file, which grows by one with each
  record (`TallyGrows`), so the count is a cardinality and no recursion is needed.
  Theorem `TransfersAreCounted`.
* Rate limits, one invariant for each limiter; none is inductive from the bound
  alone. Windows, `RateInv`: a window holds every instant of a request let
  through within its size (`WindowHolds`), so that another is let through only
  while fewer than the limit were (`WithinLimit`). Bucket, `BucketInv`: the tokens
  less what the times since `lastRefill` will refill (`Level`) is a quantity that
  scripts which run out of the order of their times only lower while the key
  lives, so what was let through is bounded by how far it fell (`LevelFits`,
  `SpentFits`). An expired key comes back full, but expiries are a window apart,
  and each gives away at most what a window does not refill and the lag of a late
  script (`GivenAway`, `ExpiredIsPaidFor`); nothing is assumed of the capacity.
  Logins, `LoginInv`: what passed since the
  counter's window began is its count, and before it twice the limit at most in
  any stretch (`TwiceAtMost`). Theorem `LimitsAlwaysHold`. What was let through is
  kept as running totals, so that the number in a stretch of time is a difference
  of two of them (`BetweenOneMore`) and not a sum that would need an induction.
* `ServicesTypes`, `ServicesKeepPromises`: every step of the composition is a step
  of one service and leaves the variables of the others alone (`TenantsAlone`,
  `OrganizationsAlone`, `InvoicesAlone`, `NoticesAlone`,
  `TransfersAlone`, `TasksAlone`, `LimitsAlone`), so each behaviour of it is one
  of each service, and the theorems above carry over.

### Model-checked only

* Liveness (`HandlersReturn`, `ReadyJobsAreTakenUp`, `EventsLeavePending`,
  `RetriesEnd`, `OverdueSubscriptionsEnd`), which TLAPS does not reach. Every
  safety property and refinement that a passing run checks is a theorem.

## What is not modelled

Of the components modelled in part:

* Billing: the metadata column (payment history, reminders), plans, analytics
  and texts of notifications, which no decision on a row reads.
* Workflows: definitions, which administrators write and which are constants
  here; approvals with their routing and delegation, of which no row ever comes to
  be; the statuses no code sets.
  Timesheets: periods and amounts. Leave: policies, balances and the accrual
  arithmetic on dates. Equipment: rows of equipment, maintenance,
  `maxConcurrentBookings` (the count it is compared with is 0 whenever no
  conflict was found), date rules beyond start before end.
* Tenants: names, settings, retention, health checks; a failed audit insert is
  swallowed. Organizations: settings, transfer of a subtree (the same column).
  Invoices: amounts and single
  invoices. Notifications: templates, preferences, the read mark (which a later
  save of a delivery overwrites). Transfers: parsing and files. Tasks: parents,
  assignees, dates. Rate limits: the choice of a configuration.

Of the rest, nothing is modelled:

* `caching`: no service reads through it; its tiers promise nothing to each other.
* `financials` accounting: `createJournalEntry` builds the lines with
  `create({transaction, ...})` before the transaction is saved
  (`accounting.service.ts:83-95`). TypeORM copies the relation, so the lines never
  get its id, and their save (`:110`) fails on the NOT NULL `transaction_id` every
  time; `currencyCode` has no column in migration 0039 either (`:126` calls it
  `currency`). No entry with lines is ever posted or reversed, and no balance
  changes: what is left is a DRAFT transaction for every request.
* `inventory`: one operation of interest, a read and two saves; the stock is a
  decimal column that arrives as text, so a receipt is appended to it
  (`inventory.service.ts:185`: "0.00" and 5 give 0.01) and there is no stock for
  the rest to be wrong about.
* `resources`: looks for conflicts and then saves, as `EquipmentBooking` does.
* `auth`, `security`, `gdpr`, `support`, `activities`, `departments`,
  `performance`, `goals`, `kpis`: single-row updates and checks local to a
  request; the hourly and nightly passes set a flag on, or delete, what they
  listed.
* `database`: migrations and seeds are declarations that run once; the pool is
  TypeORM's.
* `forms`, `rules`, `custom-fields`: pure evaluation of definitions.
* the record-keeping modules, and the read-only and wiring ones.

Most of the repository's 134,000 lines are of these last kinds: controllers,
DTOs, entities, migrations, create/read/update/delete services and reporting
queries, with no order of steps that a model could get right or wrong. The map
therefore covers a small share of the lines, and most of those that decide
something across two awaits.

Everywhere: queries that only read, formatting, validation of DTOs by decorators
beyond the ranges the models use, and `Repository.save` as two statements
(TypeORM reads the row before it writes; the models take it as one overwrite, or
an insert when the row is gone). What TypeORM does on a save to loaded one-to-many
children is modelled where a handler loads them and saves: the trail of an instance
and the entries of a sheet. The models take it that each table has the columns its
entity declares; where a migration lacks one (`currencyCode` of a recurring invoice
in migration 0040), or no migration creates the table (`invoices`), they show the
code as it runs on a schema synchronised with the entities.

## Plan

An abstract specification of a timesheet's life, from draft to its lock, refined by
`TimesheetLock`; and, once the save of a move is repaired, the workflow of an entity
as an abstract specification that the engine and its services refine.
