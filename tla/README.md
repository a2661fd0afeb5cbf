# TLA+ models of the Dilligent platform

Dilligent is a compliance platform: a NestJS API (`apps/api`), Next.js front ends
(`apps/app`, `apps/portal`, `apps/framework-editor`), background jobs on a hosted scheduler, a
device agent, and PostgreSQL reached through Prisma (`packages/db`). Most of it is
CRUD over single rows. The order of steps decides whether the program is right in two places: where
a customer's paid allowance is spent on work done by an external provider, whose webhooks tell late, twice or
not in order what became of it; and where automation and people change one shared structure at once: the
phases of a compliance timeline, the rows several frameworks share, the tokens of a connection. This
directory models both.

## 1. The system

### 1.1 Components

| Component | State | Operations | What makes it correct |
|---|---|---|---|
| Credit wallet (`billing/billing-credits.service.ts`) | balance rows with four counters, grant/consume/refund events with unique keys | `grant`, `tryConsumeForProduct`, `refundForProduct` | counters and events agree; a resource is charged once, a charge returned once; answers are true |
| Subscription allowance (`billing/billing-entitlements.service.ts`, `billing-included-usage-refunds.ts`, `billing-subscription-plans.ts`) | one row per organization and plan: plan, period, status, included, used; usage events | consume, refund, `syncSubscriptionItem`, `changeSubscriptionPlan` | what is used never exceeds what was granted; a period is granted once; late events change nothing back; the plan paid for is the plan in force |
| Stripe webhook delivery (`billing/billing-webhook.service.ts`, `stripe-webhook-records.ts`) | one record per event: processing, processed, failed, and its age | claim, takeover, process, mark | one delivery at a time; nothing answered 200 is lost |
| Penetration-test runs (`security-penetration-tests/`) | ownership row per provider run: charge, lineage, refund mark, cancellation mark, audit mark | `createReport`, `handleWebhook` (refund, automatic retry, block, audit) | no free scan, no lost charge, failures refunded, cancellations final |
| Pentest credit facade (`pentest-credits.service.ts`) | none of its own | trial and admin grants over the wallet | every decision to grant counts |
| Background checks (`background-checks/`, `trigger/background-checks/`) | one request row per member: status, vendor check, attempt; the vendor's checks | request, charge, vendor webhook, cancel, retry, delete, report by hand, daily poller | a charge buys a check; a completed member has a completed check; a lost webhook is made up for |
| Compliance timelines (`timelines/`, `frameworks/frameworks-timeline.helper.ts`) | timeline status and lock, phases with order, status and regression mark | activate, pause, resume, unlock, reset, complete, add, remove; two automations after every change | never stuck; status and phases agree; automation settles |
| Framework versioning (`frameworks/framework-versioning/`) | rows shared by frameworks, requirement maps, pinned version, sync operations with undo payloads | sync, rollback, addition of a framework | manifests met; rollback restores what the sync changed; completed work kept |
| Credential vault (`integration-platform/services/credential-vault.service.ts`) | credential versions, active version, refresh lease | refresh, wait for a peer, store, reconnect | the grant is never thrown away; one refresh of a token at a time |
| Policies (`policies/`) | versions, draft and published content, signatures | edit, publish, accept, sign | a signature belongs to the version published |
| Tasks, findings, risks, vendors, people, training, offboarding, devices, evidence forms | single rows | CRUD with status changes | field-level rules that unit tests reach |
| ISMS, statement of applicability, questionnaires, vector store, assistant | documents, embeddings | assembly and language-model calls | data rather than control |
| Cloud security, integration checks, browser automation, trust portal, uploads | results of third-party calls | I/O | outside of a model's reach |
| Authentication, roles, secrets, UIs, MCP server, browser extension | request guards, presentation | | no protocol of their own |

`PROJECT.json` lists every one of them with its status.

### 1.2 How they interact

* A **pentest create** consumes an allowance (`tryConsumeIncludedUsageForProduct`) under a fresh
  source id, asks the provider for a scan, and stores the ownership row. Each failure after the debit
  refunds it (`refundIncludedUsageForProduct`), the refund's own error being swallowed.
* The **allowance** spends the subscription first and falls back on the **credit wallet**; a
  refund goes to the subscription if it holds a consume event of the source, to the wallet otherwise.
* **Stripe** moves subscriptions through periods and plans; webhook events carry snapshots of them. A
  delivery claims the event's record, then syncs every subscription item in the event.
* A **plan change** updates Stripe first and then rewrites the local row in place.
* The **provider** reports `pentest.failed`, `.cancelled`, `.completed`, and redelivers until it gets a
  2xx. A failure is refunded and, up to three attempts, retried by a new create; a cancellation is refunded
  and blocks its lineage; a completion is audited.

* A **background check** request charges the allowance under the member's id, creates a check at the vendor,
  and stores its id; webhooks and a daily poller move the row, administrators cancel, retry, delete, attach.
* Every change of a task, policy, member or finding runs a **timeline hook**: first the advancement of
  automatic phases, then the reconciliation with the scores; both and the administrators complete phases
  by the same `completePhase`.
* A **framework sync** creates, archives and rewrites the rows that other frameworks may share, under an
  advisory lock of the organization that users' edits and the addition of a framework do not take.
* Integration checks run in parallel and each may **refresh the token** of the connection they share.

Handlers run concurrently in several API processes. They share nothing but PostgreSQL (read committed),
so each SQL statement, or each transaction whose outcome its conditional statements decide, is
one step of a model, and any other handler may run between two steps.

### 1.3 What is hard

`PROJECT.json` lists every hazard at the line where it bites. In short: conditional updates
against quantities read earlier; unique keys whose violation rolls a transaction back and is
answered as success; webhooks before the row they are about; two deliveries of one event at once; a
death between debit, provider call and stored row; compensation that may fail as well; events of one
period out of order; a row renamed under its readers; a takeover window that makes a duplicate out
of a redelivery; checks made before a transaction or a lock; a lease outlived by its holder; two
automations that decide by different measures.

## 2. Modules

| Module | Models | Configurations |
|---|---|---|
| `AllowanceLedger` | abstract: pots, grants, one charge per resource, one return per charge, all atomic | refined by `BillingCredits`, extended by `PentestRuns` and `BackgroundChecks` |
| `BillingCredits` | the wallet, a step per statement or transaction | `MCBillingCredits.cfg` |
| `SubscriptionAllowance` | the included allowance of one Stripe subscription item | `MCSubscriptionAllowance.cfg` |
| `StripeWebhooks` | claim, takeover and marking of webhook events | `MCStripeWebhooks.cfg` |
| `PentestRuns` | creates, provider, webhooks, retries, on top of the ledger | `MCPentestRuns.cfg`, `MCPentestEarly.cfg` |
| `BackgroundChecks` | the background check of a member, on top of the ledger | `MCBackgroundChecks.cfg`, `MCFreeCheck.cfg` |
| `CredentialVault` | token refresh of one OAuth connection | `MCCredentialVault.cfg` |
| `FrameworkVersioning` | sync and rollback of an organization's frameworks | `MCFrameworkVersioning.cfg`, `MCRollbackEdits.cfg` |
| `Timelines` | one compliance timeline and its automations | `MCTimelines.cfg`, `MCTimelineLock.cfg` |
| `BillingCredits_proofs`, `SubscriptionAllowance_proofs`, `StripeWebhooks_proofs`, `PentestRuns_proofs`, `BackgroundChecks_proofs`, `CredentialVault_proofs`, `FrameworkVersioning_proofs`, `Timelines_proofs` | the TLAPS proofs about each (section 4) | — |

`MC*` modules only declare model values, define the functions given to constants, symmetry sets, and the
properties quoted from documents that a run refutes. Names ending in no code's name and marked
"Variant" are what the code would do with one plausible mistake; no specification uses them.

### 2.1 `BillingCredits`

State: per scope (`skuKey`, null included) the counters of `BillingCreditBalance` and its creation rank
(the consume loop goes by `createdAt`); the events by idempotency key; per caller its position,
argument, the balances its loop has left, its last answer. `StartConsume` is the lookup of an earlier consume
event; `ListBalances` the `findMany`; `TryBalance` one turn of the loop (conditional decrement and
event in one transaction: when the event's key is taken the decrement is rolled back
and the answer is `consumed`; when nothing is left the loop goes on). `StartGrant`/`CreateBalance`/`GrantTx` are
`findOrCreateBalance` and the grant transaction; `StartRefund`/`RefundTx` the refund. `Abandon` ends a call
anywhere: a thrown error or a restart. The scope identifies the row because of the migration's unique
index on `(organization, product, COALESCE(sku, ''))`.

### 2.2 `PentestRuns`

State: the provider's `status` and `events` per run, which events it has seen acknowledged, the
ownership `row` (source, root, attempt, parent, refund/block/audit marks), audit entries, and per call
(customer request or webhook delivery) its position and what it knows. A delivery that retries goes
through the same create steps as a customer's request, with a parent. `Reserve` consumes from the ledger under a
new source id; `CreateAtProvider` either repeats the run of its idempotency key, starts a run, fails,
or starts a run and loses the answer; `Persist` is the upsert with `update: {}` (a stored row wins) or its
third failure; `GiveBack` is the quiet refund. `RefundTx` is the transaction of claim and refund;
`CheckBlock`, `CheckChild` the reads of `maybeAutoRetry`; `BlockLineage`, `ClaimAudit`, `WriteAudit` the
other endings. `Die` ends any call without an answer and stands both for thrown errors and for restarts.

The allowance is `AllowanceLedger`, whose operations are atomic. `BillingCredits` is proved to implement it. The
subscription side keeps its promises only while no plan changes (section 3), so `PentestRuns` speaks of an
organization whose plan is stable.

That a failed run is refunded in the end follows from a safety property: a 2xx on a failure means the refund is
committed (`AckedIsRefunded`), and the provider redelivers until it has a 2xx. No run checks the liveness itself.

Simplifications: the failed run's own row is read together with the block check (what is read of it never
changes), and the two statements of `blockAutoRetry` are one (the root never changes). A failed
upsert leaves no row: an upsert that committed although its client saw an error is left out. Stored scan
parameters are taken to be usable. The legacy refund path without a source id is dead in the current code
(`consumedSubscriptionAllowance` is always true after the reservation).

### 2.3 `SubscriptionAllowance`

State: the subscription item at Stripe and every snapshot of it an event may carry; the local row; grant
events per period; the plans each source's consume events name, refund events; the wallet reduced to a
balance and what it knows of each source; consume calls, webhook handlers and the plan-change call. Time is
the number of the billing period. Any snapshot may be delivered at any time, any number of times.

`FindSubscription`, `ReadSubscription` and `Debit` are the three reads and the transaction of a
consume; the increment compares with the allowance read before the transaction. `SyncRead` and `SyncCreate`/`SyncUpdate`
are the two statements of the sync transaction under read committed; `SyncUpdate` is conditioned on the
period read, is tried twice, and gives up without a word. A sync of a plan the row does not have tries to
create a row, and meets the unique index on the subscription item. `ChangeAtStripe` and `StoreChange` are
the two halves of a plan change; `Changeable` is the guard of `createSubscriptionCheckoutSession` that refuses
a change to the plan already active.

Simplifications: one subscription item; the period's start and end are one number and never missing; the
reads inside `FindSubscription` are one step (events are only ever added); the wallet's calls
and a refund are one step; a plan change keeps the period (an upgrade that ends a trial moves it).

### 2.4 `StripeWebhooks`

State: the record's status and whether its `processedAt` is older than fifteen minutes, how many of the event's
items are synced, whether Stripe was answered 200, and per delivery its position. `CreateRecord`, `ReclaimRecord`
are the two statements of the claim; `SyncItem` one turn of the loop over items, whose sync may fail
after earlier ones were committed; `MarkProcessed`, `MarkFailed` the unconditional updates, the first of
which may fail into the second. Since the sync of an item is idempotent (`SubscriptionAllowance`), a
number per event says what is applied.

### 2.5 `BackgroundChecks`

State: the vendor's status of each check (a check is known by its idempotency key: row id and attempt, the
vendor answering a repeated key with the same check), the member's row, and per call what it read. `Claim`
is the insert that is unique for the member; `ChargeMember`, `PersistPayment`, `CreateAtVendor`, `GiveBack` and
`WriteRow` are the statements of `requestForMember`, the last two shared by `retryForMember` and the error
paths. The writes by member (`Written`) hit whatever row the member has by then; those of `Upload`, `Apply` and
`Reconcile` name the row they read. `Deliver` is a webhook's read and `Apply` its write after the report was
fetched; `Select`, `Fetch`, `Reconcile` are the poller. `completed_with_flags` counts as completed, `in_review` as in
progress; sub-statuses, snapshots and the log of events decide nothing and are left out.

`ChargeBuysCheck` says that the member's money is never kept for nothing. The converse, that no check runs unpaid, is
false, and `RequestIsPaid` refutes it (section 3): the ledger's key is the member's id, so once a request was refunded its
consume is answered as `consumed` for ever. Delete the failed row, request again, and the check is free. In the
same way a member whose charge stands gets a second first check for the one credit by a deletion and a new request,
and a retry is free by design.

### 2.6 `CredentialVault`

State: what the provider issued and still accepts (a refresh consumes its token or not, `Rotations`), the
credential versions, the active one, the connection's status, the lease, and per caller its position. `Acquire`
is the conditional update of the lease, `Check` and `Read` the looks after it, `Ask` one exchange with its four
outcomes (answered, answered in vain, not received, rejected), `Number`/`Insert`/`Activate` the three statements of
storing a version, `Release` the update conditioned on the owner. A lease may run out while its owner works
only under `Overruns`. A user who reconnects stores a version without the lease (`Connect`).

### 2.7 `FrameworkVersioning`

State: the rows of the organization by template and number, the requirement map of each instance and control
row, the pinned versions, the sync operations with their undo payload, and the request of each worker.
`StartSync` is the look before the transaction, `ReadForSync` takes the lock and reads, `Apply` writes: what
`Plan` computes is `applySync`'s diff against the rows it read (`Finds`: several active rows of a template
collapse in a `Map`). `CheckRollback` is everything before the transaction of a rollback, `Replay` the transaction, which
fails when a row it names is gone (`Replayable`). The addition of a framework has two steps, `StartAdd`, which finds the
templates without a row, and `AddFramework`, which makes rows for these and edges to whatever it finds by then; it and
users' edits take no lock. Each sync also remembers the rows before and after it, which only `UndoRestores`
reads: rows, edges, and the version the sync started from, which for an instance not pinned before is the earliest.

Simplifications: one requirement per framework; the junctions between controls, policies, tasks and documents,
control families, draft policy versions and the rollback window are left out; the manifests of versions are
fixed; a framework has a published version.

### 2.8 `Timelines`

State: the timeline's status and lock, its phases with order, status and regression mark (none, within the
grace day, past it), for each kind of automatic phase whether the work is done as the advancement counts it and full as the
reconciliation does, and what each request and hook is doing. A request's checks and its transaction are
two steps. A hook goes `StartHook`, `Weigh`, `Advance` (runPhaseAdvancement), then `ReadScores`, `Fetch` and one change,
then `Fetch` again (reconcileAutoPhasesForOrganization). `Complete` is the transaction of `completePhase`, which both and the
requests end in; `Reopen` is `reopenFromRegressedPhase`. The order of phases whose `orderIndex` is the same is the
database's: the first change (`Due`), the first pending phase and the new numbers of `RemovePhase` (`Numberings`) are
any that respect the order; `Activate` starts every phase that ties for the first. A completion or resume whose
phase is gone goes on as the code does after its `catch` (`otherwise`, `Resume`).

A reconciliation has `maxSyncPasses`, twenty, passes for all timelines of the organization together; how many are left for
this one is any number the environment allows (`passes`), and each change uses one up (`left`). Any number of
administrators may work at once; `crossed` remembers that a reset was written while another's pause or resume was decided but
not yet written, after which that request makes a started timeline of a draft.

Simplifications: dates, reviews, notifications, next cycles, deletion and recreation are left out, as are
edits of a phase's kind; a grace day ends while nobody is at work.

## 3. Runs

All bounds are in the `.cfg` files and the `MC*` modules; every run completes its state space, in between a few
seconds and three minutes on two cores. `CHECK_DEADLOCK FALSE` is set where finite sources, runs, rows or faults
let a behaviour end; the runs of the wallet and of the timelines check deadlock.

Four modules have a constant `Environments` and a variable `env` that takes one of its values at the start and
never changes: the bounds and the disturbances of one behaviour. A run thus covers several
instances whose product would be out of reach, and a property that holds only in some says so in its
own text.

| Run | Instance | What it shows |
|---|---|---|
| `credits` | 2 callers, 2 rows, 2 sources, 3 grants, of which two race to create one row | `LedgerAgrees`, `RepliesAreTrue`, refinement of the ledger |
| `pentest_runs` | 2 runs, 2 attempts, 2 faults, early and concurrent webhooks; 3 runs that fail, 3 attempts, early and concurrent; 3 runs, 3 attempts, 1 fault, one delivery at a time after the row | `NoFreeScan`, `RefundMarkTrue`, `AuditedOnce` and `LineageIsChain` in all three; `ChargesAccounted`, `AckedIsRefunded`, `CancelIsFinal` in the last |
| `allowance` | 2 sources, 2 consumers, 3 periods, 1 credit; 2 plans with an upgrade and its retry, 2 handlers, 2 periods; a change to a smaller plan, 2 handlers, no consumers | `GrantedOncePerPeriod`, `PeriodNeverRegresses`; while changes only enlarge `NeverOverdrawn`, and without changes `UsedMatchesCharges` |
| `webhooks` | 3 deliveries, 2 events of 2 items, 2 faults, patient and impatient senders | `OneAtATime`, `ProcessedIsFinal`, `AnsweredIsApplied`; liveness `PatientEventsApplied` |
| `background_checks` | 2 administrators, 1 webhook handler, the poller, 2 rows or retries, 1 fault, overlapping operations or not | `ChargeBuysCheck`, `CompletedIsReal`; `RetryIsFinal` one operation at a time; liveness `FinalStatusArrives` with overlaps |
| `credential_vault` | 2 callers, 1 reconnecting user, 4 tokens, 1 fault, rotation and overruns on and off | `GrantKept`, `LeaseKept`; `NoNeedlessError` without overruns |
| `frameworks` | 2 frameworks of 2 versions sharing templates, 2 requests, 3 syncs, 1 edit or completion; calm, racing, with an unpinned framework, with one added later | `ManifestMet`, and without races `VersionChain`, `UndoRestores`, `CompletedKept` |
| `timelines` | 3 phases (tasks, locking; people; upload) and one that may be added, calm: 1 hook, 1 administrator, begun as draft, active or past, with 2 passes, or with 0 or 1; with edits; racing: 2 hooks and 1 administrator, or 2 administrators | `NeverStuck` with races; of `StatusAgrees` that a completed timeline has every phase completed with races, the rest without; `ReconcileSettles` without |

Why the bounds are enough: every race in the code is between two statements of two calls and a third
that intervenes, so two or three actors meet each; the attempt cap is the code's own, three; two
items show a failure between the first and the last; three periods let an event be two periods late; a row, its
retry and its successor are all that a late webhook can confuse; four tokens let each caller and the user replace
one; two frameworks share a row and diverge; three phases have a first, a middle and a last.

Runs that refute a document (each quoted in `PROJECT.json`, "findings"):

| Run | Refuted | By |
|---|---|---|
| `free_check` | requesting a background check costs 1 credit | a request refunded after a failure, deleted and repeated is not charged |
| `pentest_early` | a failed run is always refunded | a failure that overtakes its row is acknowledged and forgotten |
| `rollback_edits` | edits made since the sync are kept | the rollback writes the content before the sync over them |
| `timeline_lock` | a lock stops automation until it is unlocked | the hook's advancement does not look at it |

Behaviours of the same kind that the models contain and no run of this list shows:

* two concurrent deliveries of one failure both charge a retry, the provider answers both with one run, and
  the second charge belongs to nobody; a cancellation that overtakes the ownership row blocks nothing
  (`ChargesAccounted` and `CancelIsFinal` without `Orderly`);
* after a plan change that dies between Stripe and the local row no event repairs the row; the consume key
  contains the plan, so a consume repeated after an upgrade charges again, and a refund after it is
  recorded but returns nothing to the counter (`UsedMatchesCharges` without its condition);
* a debit compares the counter with the allowance its call read before (`includedQuantity`), and names
  nothing of the row but its id: after a change to a smaller plan and a renewal, several consumes that read the larger
  allowance spend more than was given (`NeverOverdrawn` without its condition; three consumers are needed);
* events of one period are not ordered: a late active state revives a subscription reported as ended;
* a delivery that dies loses its event when the sender redelivers within fifteen minutes, as the duplicate is
  answered 200 (`PatientEventsApplied` without the patience);
* a vendor webhook that read a request before it was cancelled writes its status after, although the code's
  comment calls a cancellation terminal; the poller names the row and not the check, so after a retry it
  may file the old check's status (`misfiled`);
* a caller told to reuse a peer's token reads the active version, which a slower peer may have set back to an
  older one;
* a rollback's checks run before its lock: two rollbacks and a sync between them break `VersionChain`, a task
  done between check and transaction is deleted; the addition of a framework counts archived rows as
  present, which is why `ManifestMet` speaks of frameworks that were there from the start;
* a request for a background check after the first row was deleted runs a second first check for the one
  charge that stands;
* administrators' requests on a timeline write over each other's status: a pause decided before the last phase
  completes leaves a completed timeline paused (the last part of `StatusAgrees`, with races), and a pause or resume that
  one of two administrators decided before the other's reset makes a started timeline of a draft, which nothing moves
  (`NeverStuck` without `~crossed`);
* a reconciliation whose twenty passes were spent on other timelines of the organization ends with changes left
  (`ReconcileSettles` without `PassesSuffice`).

### 3.1 What may happen around a component

`early` (a webhook may precede the stored row) and `concurrent` (one event may be handled by two
deliveries at once) of `PentestRuns`; `Patience` (whether Stripe redelivers only when the takeover window has passed; chosen at the
start of a behaviour) and `Prompt` (a delivery ends within the window) of `StripeWebhooks`; `Overlaps` of `BackgroundChecks`;
`Rotations` and `Overruns` of `CredentialVault`; `races` of `FrameworkVersioning` and `Timelines`.
The properties that hold only in a kinder environment are said there, and the list above tells what happens without. In
particular `OneAtATime` and `ProcessedIsFinal`
need `Prompt`: a delivery slower than fifteen minutes is overtaken and may mark `failed` what
another marked `processed`, since neither mark is conditional.

### 3.2 Fairness

Two modules state liveness. `StripeWebhooks`: weak fairness on the steps of a delivery, as the event loop resumes
every settled await; strong fairness on redelivery (`Redeliver`), as Stripe delivers an event again until it sees a
2xx, and handlers busy with other events only delay that; time passes (`Age`). `BackgroundChecks`: weak fairness
on the poller, whose schedule runs every day, so that a run that fails is followed by another. No fairness on
customers, on the vendor's webhooks, on periods, on failures. Faults are bounded (`MaxFaults`); a redelivery of
what was acknowledged counts as one. The other modules state safety only and assume no fairness.

## 4. Proofs

Each module `X_proofs` extends `X` and proves its safety for every value of the constants: any number of callers,
handlers, administrators, rows, runs, sources, frameworks, manifests, periods and faults, under the named assumptions of `X` and nothing
else. Each has one inductive invariant, a conjunction of named parts, one lemma per action, and theorems that draw the
properties of the runs from it. Every invariant was checked by TLC on the module's run before it was proved.

| Module | Assumptions | Properties proved, by theorem |
|---|---|---|
| `BillingCredits` | `CreditsAssumption` | `TypeCorrect` (`TypeOK`), `LedgerAgreement` (`LedgerAgrees`), `TrueReplies` (`RepliesAreTrue`), `LedgerImplemented` (`ImplementsLedger`) |
| `StripeWebhooks` | `WebhookAssumption` | `AnswersTrue` (`AnsweredIsApplied`); if `Prompt`, `Exclusion` (`OneAtATime`) and `ProcessedForGood` (`ProcessedIsFinal`) |
| `SubscriptionAllowance` | `AllowanceAssumption` | `AllowanceTypes` (`TypeOK`), `NothingOverdrawn` (`NeverOverdrawn`), `PeriodsGrantedOnce` (`GrantedOncePerPeriod`), `CounterIsExact` (`UsedMatchesCharges`), `PeriodsAdvance` (`PeriodNeverRegresses`) |
| `PentestRuns` | `PentestAssumption`, `RowAssumption`, `LedgerAssumption` | `PentestTypes` (`TypeOK`), `NoScanIsFree` (`NoFreeScan`), `RefundMarksAreTrue` (`RefundMarkTrue`), `AuditsAreSingle` (`AuditedOnce`), `LineagesAreChains` (`LineageIsChain`), `NoChargeIsForgotten` (`ChargesAccounted`), `AcknowledgedIsRefunded` (`AckedIsRefunded`), `CancellationsAreFinal` (`CancelIsFinal`) |
| `BackgroundChecks` | `BackgroundCheckAssumption`, `StatusAssumption`, `LedgerAssumption` | `ChargesBuyChecks` (`ChargeBuysCheck`), `CompletionsAreReal` (`CompletedIsReal`), `RetriesAreFinal` (`RetryIsFinal`) |
| `CredentialVault` | `VaultAssumption` | `VaultTypes` (`TypeOK`), `GrantIsKept` (`GrantKept`), `LeaseIsKept` (`LeaseKept`), `NoNeedlessErrors` (`NoNeedlessError`) |
| `FrameworkVersioning` | `FrameworkAssumption` | `FrameworkTypes` (`TypeOK`), `ManifestsAreMet` (`ManifestMet`), `SyncsFormChains` (`VersionChain`), `UndosRestore` (`UndoRestores`), `CompletedWorkKept` (`CompletedKept`) |
| `Timelines` | `TimelineAssumption` | `TimelineTypes` (`TypeOK`), `StatusAndPhasesAgree` (`StatusAgrees`), `ReconciliationSettles` (`ReconcileSettles`), `TimelinesGoOn` (`NeverStuck`) |

The assumptions say what the constants are (numbers, functions of the right domain, a null that is no row, disjoint
sets of users and workers). Two theorems, those about `OneAtATime` and `ProcessedIsFinal`, have a hypothesis of their
own: `Prompt`, that a delivery ends within the takeover window, without which both properties fail.

Why each invariant is needed, and how the arguments go:

* **`BillingCredits`**, `IInv`. The refund would decrement a counter of a row that was never charged if a call did
  not know at each step what it knows: a caller about to grant has an existing row, one in the consume loop a
  non-empty set of them, one about to refund a consumed source; a refund event has a consume event, which names an existing row.
  Counters are compared with cardinalities of event sets, so `KeyUnitsCount` (a new key adds its amount to its
  row) comes first. The refinement is a step simulation from `IInv`.
* **`StripeWebhooks`**, `AnswerInv`. What a delivery has synced is applied (`ProgressInv`), a processed record is complete,
  and to a patient sender's delivery, alone with its event, a claim it finds has aged (`PatientInv`): that is why a
  duplicate answer is never given for what is unfinished. Exclusion rests on `HeldInv`: the delivery that works on
  an event holds a record in processing that has not aged.
* **`SubscriptionAllowance`**, `AllowanceInv`. A period is granted once because no period after the row's was ever granted
  (`GrantInv`) and what a waiting handler read is no later than the row (`WriteInv`). A stored plan change is
  of the plan in force at Stripe (`ChangeInv`). Nothing is overdrawn because, while plans only grow, what is outstanding
  plus what the row's plan includes is covered by what was given and what the row counts as used (`SpendInv`), and whatever a
  consume read includes no more than the row's plan (`PlanInv`).
* **`PentestRuns`**, `PentestInv`. A call between charge and row holds a source of its own (`HeldInv`); a key
  has one run (`KeyInv`); a row was launched for its parent and its refund mark is the ledger's (`RowInv`); attempts are numbered along
  parents (`AttemptInv`); an audit is claimed before it is written (`AuditInv`). The last three properties hold in the orderly
  environment, with `AckInv` (a handler past the refund has made it) and `ChildInv` (a retry that passed the child check stays the only one).
* **`BackgroundChecks`**, `CheckingInv`. What a call carries across its vendor requests stays true whatever
  intervenes (`CallInv`): the money was charged, the check exists, a check found completed is completed. For `RetryIsFinal`, with one
  operation at a time, the row is still the one the call read (`SerialInv`).
* **`CredentialVault`**, `VaultInv`. Either the active refresh token works or a caller is storing its
  successor (`SuccessorInv`), which needs that tokens being stored are live and known to nobody else (`LiveInv`) and that
  a token is stored once (`DistinctInv`). That no error is needless adds `LeaseInv`: a caller at work holds the lease.
* **`FrameworkVersioning`**, `FrameworkInv`. What a sync read under the lock still holds when it writes (`LockInv`), so it
  makes no second active row of a template (`Single`) and archives none that another manifest needs (`MetInv`); this holds
  with races, as users neither archive nor make rows. What a sync does to a row is decided by the row's template (`PlanRows`), and
  no row or edge meets two of its changes (`Disjoint`), so replaying its record gives back what it found (`UndoInv`). What a
  rollback checked holds when it replays, without races (`CheckInv`): no completed row is deleted, and
  only the last link of a chain is taken off (`ChainInv`, which adds that a chain starts at the earliest version).
* **`Timelines`**, `TimelineInv`. Without races a request or a hook is alone (`LoneInv`) and what it read still holds
  when it writes (`ReadInv`), from which the completion of the one phase in progress starts the next (`CompletionAgrees`), and the
  changes a reconciliation passed over cannot be made. With races a completed timeline still has every phase completed
  (`AgreeInv`), as both transactions decide on the phases they read. That the reconciliation settles within one pass for
  each automatic phase is `PassInv`: a pass closes one of the phases still open to a change, and none reopens
  (`MarksInv` for the marks). `NeverStuck` holds with races because both
  transactions read the phases again: `Complete` starts the first pending phase if it can be started, whatever was
  decided before, and `Reopen` starts the least it resets; and a pause or resume under way finds the timeline started
  until a reset crosses it (`StartedInv`). The least of some phases exists because orders are
  natural numbers (`LeastOrder`, from the well-foundedness of `<`).

What the proofs found in the models: the plan change lacked the guard that refuses the plan already active, without which
`ChangeInv` is false; `NeverOverdrawn` was stated for all plan changes, and the attempt to prove it showed
the overdraft after a change to a smaller plan (section 3), which two consumers in the run are too few to reach; the order of
timeline phases with equal numbers was resolved by a choice the database does not promise.

What stays with TLC: the liveness properties (`PatientEventsApplied`, `FinalStatusArrives`), because the
provers know neither fairness nor ENABLED. Every invariant and action property of a passing run is a theorem. No module
uses a RECURSIVE operator.

## 5. Not modelled, and why

Read-only endpoints, presentation, formatting and logging; `recordOneTimeUsage` (a single idempotent
insert); customer and payment-method writes during checkout; third-party I/O (cloud scans, browser
sessions, language models, storage); authentication and roles; in the modelled components what section 2
lists as simplifications. CRUD components have rules inside one
row that unit tests reach.

## 6. Plan

Proofs: the safety properties of every passing run are proved. Next, the weakest environment under which each
conditional property holds (`PentestRuns` without `concurrent` but with `early`; `UndoRestores` with users who edit
only rows the sync did not touch), and what `ManifestMet` leaves after the rollback of the last sync of all.

Models that would come next: `Policies` (versions, publication, signatures); `PentestReads` (the collapsed status of a
lineage and its grace window, that a customer never sees a failure that is then retried); a composition of
`SubscriptionAllowance` without plan changes with the ledger, where a pot is the row, the wallet or an expired
period.
