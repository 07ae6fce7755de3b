# Formal model of the ISP billing platform

This directory holds TLA+ models of the API of this repository (`src/apps/api`),
the TLC configurations that check them on small instances, and TLAPS proofs that
hold for every value of their constants.

## 1. The system

The repository is a pnpm monorepo for an internet service provider: two Next.js
front ends (`apps/web`, `apps/admin`), a NestJS API (`apps/api/src`), a BullMQ
worker built from the same modules (`apps/api/src/worker.ts`), and shared packages.
All durable state is in PostgreSQL through Prisma. Two facts about it shape every
model here:

* the isolation level is PostgreSQL's default, READ COMMITTED, and **every awaited
  Prisma call is a statement of its own**. A service method reads a row, awaits,
  and writes by id what it computed from the row it read. Nothing locks the row
  in between;
* a `$transaction` makes its writes visible together, but the reads inside it take
  no locks either.

So the models' processes are requests and job runs, a step is one awaited database
call (or the commit of one transaction), and what a process read stays in its own
record until it is used. Several API instances and the worker run at once; without
Redis, the API runs the jobs inline (`QueueService.enqueue`), so even scheduled jobs
may overlap.

### Inventory

| Component | State | Operations | Interacts with | What makes it correct |
|---|---|---|---|---|
| Invoice settlement (`billing/invoices.service.ts`, `payments.service.ts`) | `invoices.amountPaid/status`, `payments`, `refunds`, `customers.balance` | `markPaid`, `refund`, `applyPayment`, `reversePayment`, `markOverdue` | gateway, queue, customers | the invoice shows what its payments and refunds add up to; its status agrees with its money and the calendar; no refund exceeds its payment |
| Payment providers (`billing/providers`) | none (external money) | `refundPayment` is the one still reached | settlement | a refund is recorded iff the gateway returned the money |
| Checkout (`PaymentsService.createForCustomer` ... `completeSandbox`) | `payments` | none routed since online checkout was removed | settlement | one credit per gateway event |
| Billing cycle (`invoices.service.ts`, `sequence.service.ts`) | `invoices`, invoice counter, billing dates | `runBillingCycle`, `generate`, `next` | subscriptions, pricing, queue | every month billed once, never early, never skipped; one failure stops nobody else |
| Subscription lifecycle (`subscriptions.service.ts`) | `subscriptions`, items, history | `activate`, `suspend`, `reactivate`, `cancel`, `adminUpdateForCustomer`, `adminCreateForCustomer`, `provisionFromApplication`, `createFromOrder` | billing, applications, orders | cancelled is final; history is a chain; billing dates follow activation |
| Change requests (same file) | `subscription_change_requests` | `createChangeRequest`, `withdraw`, `review`, `applyChange`, `applyDueChangeRequests` | subscriptions, pricing | at most one pending, each applied at most once and eventually |
| Orders (`orders/orders.service.ts`) | `orders` | `create`, `resendOtp`, `verifyOtp`, `adminUpdateStatus` | subscriptions, notifications | one subscription per confirmed order |
| Applications (`applications/applications.service.ts`) | `applications`, status history | `create`, `changeStatus`, `submitDraft` (of drafts, which nothing creates) | subscriptions, customers, OTP | only legal edges; history agrees with the row; approval provisions |
| Sessions (`auth/tokens.service.ts`) | `refresh_tokens` | `issueSession`, `rotate`, `revoke*` | accounts | one live token per family; reuse ends the family |
| One-time passwords (`auth/otp.service.ts`) | `otp_requests` | `request`, `resend`, `verify`, `consumeProof` | applications, accounts | bounded attempts; a proof is used once |
| Accounts (`auth/auth.service.ts`) | `users`, reset tokens, lock counters | `register`, `login`, `resetPassword` | sessions, OTP | lock after the allowed failures; one use per reset token |
| Notifications (`notifications/`) | `notifications`, logs | `dispatch`, `deliver`, `markRead` | queue, mail, SMS | a message is eventually SENT or FAILED, truthfully, and sent once |
| Queue and scheduler (`common/queue`, `billing.scheduler.ts`, `worker.ts`) | BullMQ jobs | `enqueue`, crons | all jobs | a job runs at least once; overlapping runs do no harm |
| Cache (`common/cache`) | Redis or in-process map | `remember`, `del`, `invalidateNamespace` | catalogue, geography, FAQs, CMS | nothing stale outlives an invalidation |
| Catalog and pricing (`catalog/`) | plans, prices, add-ons | `quote` | billing, subscriptions | totals add up |
| Customers (`customers/`) | `customers` | `ensureFromApplication`, `adminCreate`, `adminDelete` | accounts, subscriptions | an account has its customer; a service is the customer's who applied for it |
| Geography, FAQs, CMS, coverage import | their tables, cached pages | CRUD followed by an invalidation | cache | public pages do not stay behind an admin's write |
| Support tickets, callbacks, staff users, analytics, storage, PDF, audit, health, configuration, front ends, infrastructure | own tables or none | CRUD, I/O, layout | - | not modelled, see section 7 |

What is hard here, in the order in which the models take it up: money rows written
from stale reads (settlement), jobs that work for a long time from one query (billing
cycle, `markOverdue`), a read-check-write on status columns in every lifecycle
(orders, applications, change requests), several commits that should have been one
(provisioning after approval, order confirmation, registration), credentials that
are read, checked and spent in separate statements (refresh tokens, codes, proofs), a
cache filled and cleared while tables change under it, and a queue that may run a job
twice or not at all. `PROJECT.json` lists each such hazard at its line, with the
properties that cover it.

## 2. Modules

```
InvoiceMoney     operators: the row arithmetic of applyPayment and reversePayment
  |-- InvoiceLedger   abstract: one atomic ledger step per request
  `-- Settlement      detailed: every awaited statement a step
        |-- MCSettlement          constants for TLC
        `-- SettlementProofs      rows, sums, and Settlement implements InvoiceLedger (TLAPS)
BillingCycle     runBillingCycle, generate, sequence.next, and subscription writes
  |-- MCBillingCycle
  `-- BillingCycleProofs
Orders           create, resendOtp, verifyOtp, adminUpdateStatus, createFromOrder
Accounts         login, refresh, logout, reset and change of a password, TokensService
SubscriptionChanges  change requests, applyChange with the items, staff edits
Onboarding       applications, provisioning, activation, registration, deletion
PhoneProof       OtpService and the one row that its proof opens
  each of these five with MC<name> and <name>Proofs
ContentCache     CacheService, and what every service reads and clears through it
Notifications    dispatch, deliver, QueueService and what it relies on of BullMQ
  each of these two with MC<name>; the theorems of both are in RedisProofs
```

### InvoiceMoney and Settlement

`invoice[i]` holds `amountPaid` and `status`, `payment[p]` the payment row,
`refunds[p]` the sum of the refund rows of each status, `balance[c]` the customer's
balance. `phase[i]` stands for the calendar against the due date: `"before"`, then
`"dueDay"` (the due instant, its midnight, has passed; the day has not), then `"after"`.
The difference matters: `reversePayment` compares the due date with the instant and
`markOverdue` with the start of the day. `gatewayOut[p]` is the money the online
gateway really returned, which no row of the database knows.

| Action | Code |
|---|---|
| `MarkPaidRead` | the checks of `markPaid` on the row read before the transaction |
| `MarkPaidApply` | `applyPayment`'s read inside the transaction (no lock) |
| `MarkPaidCommit` | commit: `payment.create`, absolute `amountPaid`, `balance` decrement |
| `RefundRead` | the checks of `refund` and the call to the provider, whose outcome is chosen: the offline provider answers APPROVED, the gateway PROCESSED, APPROVED or FAILED, an unknown provider name is refused |
| `RefundRecord`, `RefundReverse`, `RefundCommit` | the refund's transaction: with an outcome other than PROCESSED only the row is written; otherwise the payment row is updated (and so locked), the invoice is read and its due date judged, and then all is committed |
| `MarkOverdueRead`, `MarkOverdueUpdate` | the candidates of `markOverdue`, then one update by id each |
| `Abandon` | a request whose process dies or whose statement throws |
| `DayPasses` | the calendar |

`InvoiceLedger` states what settlement promises an accountant: paying an invoice,
recording a refund and flagging an overdue invoice are each one indivisible step on
an up-to-date row. `Settlement!ImplementsLedger` is that specification under the
identity mapping on the rows (processes are hidden). One thing is weaker than an
accountant would have it: `reversePayment` judges the due date before the update that it
awaits (`invoices.service.ts:426`), so a refund under way at midnight leaves PENDING an
invoice that has just become due. The ledger allows that verdict (`Verdicts`), never the
opposite one, and the next `markOverdue` puts it right.

### BillingCycle

Dates are months; `nextBilling = m` is the first day of month `m`, `NoDate` a null
column. A billing run reads its due rows once (`RunRead`, with the period computed
from each row at that moment): all of them, or any page of `PageSize` when there are more,
for the query has `take: 500` and no order. For each row it then checks that there is no
invoice, the subscription's status and its price (`GenerateRead`), runs the transaction
(`GenerateCreate`: the sequence row is incremented and the unique constraint on
subscription and period decides), and advances the dates (`Advance`). `Skip` is one
iteration that throws, `Die` a process that dies. `ActivateRead/Commit`,
`TransitionRead/Commit` and `StaffUpdate` are the writes of `SubscriptionsService` a
run races with. The order of rows within a run is left open.

### Orders

`order[o]` is the row: its status (`"none"` before it exists), the code in force (code
`k` is the `k`-th issued, 0 a null hash), the age of that code against the cooldown of
one minute and the validity of ten, the wrong attempts and the subscription. `made[o]`
counts the subscriptions created for the order, `mails[o]` its `ORDER_OTP` log rows of
the last ten minutes. `misses[o][k]` and `crashes[o]` are history: how often code `k`
was guessed wrong, how many confirmations died after creating the subscription.
`tabs[o]` are the requests its customer may have in flight at once; it is chosen
initially, so one run covers customers whose requests overlap and those whose do not.

| Action | Code |
|---|---|
| `Create`, `ResendRead`, `ResendCheck` | `create` up to `issueOtp`; `resendOtp`'s read, then its count of the log and its cooldown, judged on the row read before |
| `IssueOtp`, `LogEmail` | `issueOtp`: the update by id, then the email and its log row |
| `VerifyRead` | `verifyOtp`'s read and checks; whether the code matches is a choice |
| `Expire`, `Miss` | the updates of a code that is past or used up, and of a wrong one |
| `Subscribe`, `Confirm` | `createFromOrder`'s transaction, then the order's update by id |
| `MoveRead`, `Move` | `adminUpdateStatus` |
| `Abandon` | a request that dies at any await |
| `CodeAges`, `WindowSlides` | time |

### Accounts

One account: its `users` row (`account`, a password being a number that grows with
each change), the rows of `refresh_tokens` in the order they were created (`token`; a
session is named by its first token, the family) and those of the reset links. `born[f]`,
`loose`, `forked` and `guesses` are history: the password a session was opened with, the
sessions a password change crossed, those whose rotations overlapped or died half way,
and the wrong guesses since the account was last opened up. `traffic` is chosen
initially: which kinds of request this account meets.

| Action | Code |
|---|---|
| `LoginRead`, `LoginMiss`, `LoginAdmit`, `IssueSession` | `login`: the read and the lock, then `registerFailedLogin` from the count that was read, or the reset of the count and `issueSession` |
| `RotateRead`, `RotateLoad`, `RotatePersist`, `RotateReplace`, `RevokeFamily` | `rotate`: the presented token, the active user, the successor, the retirement of the old one; a replayed token or a barred user ends the family |
| `SignOut` | `logout` and `DELETE sessions/:id` |
| `ForgotExpire`, `ForgotCreate`, `ResetRead`, `ResetCommit`, `ChangeRead`, `ChangeCommit`, `RevokeAll` | `forgotPassword`, `resetPassword`, `changePassword`, each followed by `revokeAllForUser` in a statement of its own |
| `LockLapses`, `SetStatus`, `Abandon` | time, staff, failures |

### ContentCache

The contents of rows do not matter here, only whether an entry was loaded before the last
write to a table it shows. `Loads[k]` are the tables that the loader of key `k` reads, one
statement each; `Writes` lists every write of the plans, products, geography, FAQ, CMS and
coverage services with its tables and the namespaces and keys it clears afterwards.
`cache[s][k].behind` are the tables written since the entry was stored and `late` those
written while it was being loaded; `unswept[s]` the tables with a write that never
cleared store `s` (another instance's memory, Redis while it was down, a request that
died, a write that clears nothing).

| Action | Code |
|---|---|
| `Miss`, `Load`, `Store` | `remember`: the miss, the loader's statements, `set`, with Redis or the fallback |
| `Commit` | an admin write; entries fall behind, loaders are overtaken |
| `ClearLocal`, `ScanBatch`, `ScanEnd`, `ScanFail`, `Finish` | `del` and `invalidateNamespace`: memory at once, Redis in rounds of SCAN and DEL |
| `Expire`, `Ready`, `Error`, `Abandon` | time to live and eviction, the events of the Redis client, failures |

### SubscriptionChanges

One subscription (`sub`), its item rows as sets built together (`items`) and its change
requests (`asked`). A tariff stands for the amount quoted for it. `done` counts how
often a change was made; `torn` marks a request whose reviews overlapped, or one of
which ended between the change and its mark; `retyped` says that staff rewrote the
amount since the items were built, `overtaken` are the requests in the middle of their
transaction whom another's commit has passed since their `deleteMany`, and `mixed` says
that one of those was the last to build the items. Which changes its customer asks for (`offered`) is
chosen initially.

| Action | Code |
|---|---|
| `RaiseRead`, `RaiseCount`, `RaiseCreate` | `createChangeRequest`: two reads, then the row |
| `WithdrawRead`, `WithdrawCommit` | `withdrawChangeRequest` |
| `ReviewRead`, `ReviewMark` | `reviewChangeRequest` around `applyChange` |
| `ApplyRead`, `ApplyItems`, `ApplyDelete`, `ApplyCommit` | `applyChange`: the plan, the items' add-ons, the transaction's `deleteMany` (which sees the items of its own moment) and the rest of it |
| `CancelRead`, `CancelCommit` | a change that cancels, by `transition` |
| `EditRead`, `EditCommit` | `adminUpdateForCustomer` |
| `Abandon` | a statement that throws, a process that dies |

### Onboarding

From an application to a running service. A contact is a mobile number with an email
address, and names the account opened for it; `customers` and `users` are sets, so the
unique columns are guards of the commits. `trail` is where the last history entry of an
application ended and `whole` whether each began where the one before ended; `torn`
marks overlapping reviews, `lost` a follow-up that failed or whose result was deleted.

| Action | Code |
|---|---|
| `CreateRead`, `CreateCommit` | `ApplicationsService.create`, after the proof (see `PhoneProof`) |
| `StatusRead`, `StatusCommit` | `changeStatus` with `APPLICATION_TRANSITIONS`: the edge is checked on the row read, the row written by id |
| `ProvisionRead`, `EnsureCustomer`, `EnsureAccount`, `ProvisionCommit`, `Invite` | `provisionFromApplication` with `ensureFromApplication` and `ensureApplicantAccount`, then the invitation |
| `ActivateFind`, `ActivateRead`, `ActivateCommit` | `activateForApplication` and `activate` |
| `CancelSubscription`, `DeleteCustomer` | what staff do meanwhile; the deletion cascades and sets null as the schema says |
| `RegisterRead`, `RegisterUser`, `RegisterCustomer` | `register` and the customers' `adminCreate`: account and customer are separate statements |
| `Abandon` | a request that a statement refuses, or that dies |

### PhoneProof

The rows of `otp_requests` in order (`code[k]`), for contacts that share one mobile number
and differ in purpose. `misses` and `opened` are history: wrong codes answered for a row,
applications and accounts created with its proof. `live` are the requests that the holder
of the number has in flight at once, chosen initially.

| Action | Code |
|---|---|
| `CheckCooldown`, `CheckHourly`, `RetireEarlier`, `CreateCode` | `request` and `resend`: `enforceCooldown`, `enforceHourlyLimit`, then `issueAndDeliver`, which retires the earlier codes and writes the new one in two statements |
| `VerifyRead`, `Miss`, `Prove` | `verify`; whether the code matches is a choice |
| `FindProof`, `ConsumeProof`, `Open` | `consumeProof`, and the row that `create` or `register` then makes |
| `CreationAges`, `CodeExpires`, `ProofExpires`, `Abandon` | time and failures |

### Notifications

One notification fanned out over its channels: the rows (`status`), the request that
dispatches, what each runner is doing, the BullMQ job of each row. A runner is a worker
or, when the queue is off or its answer is lost, the request itself (`runInline`). SMS
goes the way of EMAIL. `Take`, `Return`, `RunThrows` and `JobStalls` stand for what the
code relies on of BullMQ: a job is given to an idle worker, is complete when its
processor returns, is tried again when it throws and given to another worker when its
lock runs out, up to a limit each. `cut`, `together`, `errors`, `stalls` and `dropped`
are history and say what disturbed a delivery.

| Action | Code |
|---|---|
| `CreateRow`, `Appear`, `Enqueue` | `dispatchOrThrow`, one channel after the other, and `enqueue` with its fallback |
| `DeliverRead`, `Send`, `WriteOutcome` | `deliver`: the row, the gateway, the outcome by id |
| `MarkRead` | `markRead`, `markAllRead` |
| `InlineThrows`, `RequestEnds` | the catch of `runInline`; a request that dies, or the catch of `dispatch` |

### How they compose

The modules share rows through the same reading of a transaction, not through one big
state: `Orders` and `Onboarding` create the subscriptions that `BillingCycle` bills
(there a subscription is activated by a request of its own), `SubscriptionChanges` edits
the tariff and status of one, `PhoneProof` ends in the one row that `Onboarding` begins
with, `Onboarding` opens the account with an invitation link that `Accounts` begins
with (the second initial state of its `Init`), and every component's notifications are
the `Dispatch` of `Notifications`. Where one module relies on another, its actions make
every choice the other allows.

## 3. Runs

| Run | Question | Result |
|---|---|---|
| `settlement_overlap` | what survives any overlap of two requests or job runs? | status agrees with money, no credit without a payment, no phantom refund |
| `settlement_serial` | requests that do not overlap, with fairness | the ledger is exact, every commit is an atomic ledger step, unpaid invoices are flagged |
| `settlement_refunds` | "Refund exceeds the remaining paid amount" | violated: APPROVED refunds never count |
| `billing_overlap` | two overlapping runs, one request, one fault | never billed twice, never ahead, no month skipped |
| `billing_live` | more due than a page holds, one broken tariff, one fault, daily runs | every other due month is eventually invoiced |
| `orders_overlap` | one order, up to two customer requests and one of staff, one dying confirmation | a confirmed order has its subscription; guesses are exceeded by at most what overlaps; one subscription if requests do not overlap, but for crashes |
| `accounts_overlap` | one account, two requests that overlap and die, in three mixes | an ended session never comes back; a password change ends the sessions before it; one head per session; guesses bounded though counts are lost |
| `content_overlap` | two requests on an instance, Redis and its fallback failing | an entry behind a table is about to be cleared, unless a write never reached the store |
| `changes_overlap` | two requests over a subscription and its changes, staff editing | every item matches the amount unless an overlap or a staff edit is on record, an applied mark was earned, nothing is applied twice but across overlapping or dying reviews |
| `onboarding_overlap` | two requests, two applicants who share an email address, deletion, failures | approval is followed up, history and row agree, nobody unapproved is served, a service belongs to its applicant |
| `phone_overlap` | one or two requests on a number with two purposes, up to four codes | guesses, openings and live codes exceed their limit by at most what overlaps |
| `notifications_overlap` | queue off, on or answering late, two workers, throws and stalls | sent once unless disturbed, the row tells the truth, every channel settles |

### Bounds, and why they are enough

* **Settlement, overlapping**: two processes, one invoice of total 2, three payment
  identifiers (one legacy gateway payment or none, two new). Every race here is a
  stale read of one row by one process while another commits; two processes on one
  row show each of them, and the amounts 1 and 2 tell a partial from a full refund.
  `RefundCap` = 3 lets the refund rows of one payment exceed its amount of 2.
* **Settlement, serial**: one process and two invoices, so that steps on one invoice
  meet the other in a different phase.
* **Billing, overlapping**: two runs, one request, two subscriptions, months 1 to 3 and
  one fault. A run can be a full month late (its rows were read in month 2, it
  advances in month 3) while the other has billed both months.
* **Billing, liveness**: three subscriptions, one of them broken, one run that repeats and
  a page of two for 500: more is due than fits, any two may be read, and the broken one
  takes half of the page whenever it is. Activation, one fault and the calendar change
  what is due meanwhile. Staff who write dates and statuses are left out: they can set
  others due again for ever and fill every page with them, and with as many broken
  tariffs as the page holds the others starve (section 4). So the property needs a page
  that the broken and the often edited rows leave room in.
* **Orders**: one order (no operation reads another), two requests of its customer and
  one of staff. Three codes let a resend replace a code while a guess at the first is
  in flight, and be replaced itself; `MaxAttempts` = 2 and `ResendMax` = 1 stand for 5
  and 3 and are reached. `MaxCodes` and `MaxCrashes` bound the state space, nothing
  else.

* **Accounts**: two requests, and up to three tokens of one session or more (a fork has two
  branches of one). `MaxFailed` = 2 stands for 8; with two overlapping guesses the bound
  `Ways(2, 2)` exceeds it, and the run reaches it. The three mixes of traffic keep apart
  what does not interact: guesses do not meet rotations.
* **ContentCache**: one instance with Redis suffices for the races between its memory,
  Redis and a write; other instances only add to `unswept`. The keys of each service are
  taken one at a time (`MCContents`): no action relates two keys, except that a sweep
  passes several of a namespace.
* **SubscriptionChanges**: two requests and two change requests, two rebuilds of the
  items; a plan change with an add-on, or a cancellation. One edit by hand. `StaffStatuses` is empty in the
  instance because a status is read only by `RaiseRead` and `CancelRead`, whose outcomes
  the change that cancels already produces; the theorems have any set.
* **Onboarding**: two requests, two applications; one application goes all the way, the
  other as far as its provisioning, so that the two meet over the shared email address.
  One deletion.
* **PhoneProof**: two purposes of one number, `MaxAttempts` = 2 for 5 and `HourlyMax` = 1
  for 8: two requests that count together both pass, and a second code is replaced while
  a guess at the first is in flight. An hour that holds one code subsumes the cooldown in
  this instance, which is why nothing is claimed of the cooldown alone. What a row is
  guessed and opened is a matter of that row, so two codes are enough for those bounds.
  With two requests the bound of `OneLiveCode` is two, so there are up to four codes:
  two issued together that escape each other, and two more to see that the first are
  retired. A service that retires only the latest code breaks the bound there and
  nowhere before. The constraint `MCLater` keeps the third and fourth code to what that
  takes: codes of one purpose, none of them guessed at or verified. Every behaviour with
  two codes is explored in full.
* **Notifications**: the feed alone, and the feed with email: the channels come one
  after the other, and rows do not affect each other but for the workers they share.
  Two attempts for 3, one stall, three faults, so that both limits are reached and one
  fault more.

Symmetry (processes, new payment identifiers, contacts) is used only in runs without
liveness properties.
`CHECK_DEADLOCK FALSE`: the calendar is bounded and payment identifiers run out, so
the models really stop.

The process constants model the requests in flight at once, not over time: an idle
process starts another request.

### Fairness and why the code justifies it

* `Settlement!Fairness`: the `Scheduler` process is the daily cron of
  `billing.scheduler.ts`, so its `MarkOverdueRead` and `MarkOverdueUpdate` are
  strongly fair: it comes back every day, whatever else the process does in between.
  What the Scheduler has begun is weakly fair (`Proceed`): an awaited statement
  returns or throws. Nothing is assumed of other processes, and nothing forces staff
  to start a request.
* `BillingCycle!Fairness`: weak fairness of each run's steps, for the same reason:
  the generation cron fires every day (not only on the generation day) and reads
  everything that is due. Faults are bounded by `MaxFaults`, so a run does not fail
  forever; nothing is assumed about requests, staff or the calendar.
* `Notifications!Fairness`: code that has been called goes on until it returns
  (`Dispatch`, `Deliver` of each runner), and an idle worker takes a job that waits, which
  is what the BullMQ worker started in `worker.ts` does. A call to Redis does not hang
  for good: its client is made with `maxRetriesPerRequest: null` and waits without a
  limit for a server that answers in the end, and an answer that is lost leads to
  `runInline`. Nothing makes a statement throw, a worker stall or a request die, and
  faults are bounded by `MaxFaults`.

## 4. Findings

One run is refuted by TLC. It states a claim in the words of the repository:

* `settlement_refunds`: refunds of offline payments (the only payments now taken) stay
  APPROVED, are not counted by the limit check and never adjust the invoice
  (`payments.service.ts:424`, `docs/payments.md:66`).

The models also have these behaviours, each of which shows in the condition of a
property that holds rather than in a run of its own:

* "One broken tariff must not stop everybody else's bill" (`invoices.service.ts:263`) holds
  of one, not of many: subscriptions that cannot be billed stay due, the query takes 500 in
  no order (`:272`), and 500 of them can fill the page of every run. `RunRead` reads any
  page (`Pages`), and `DueMonthsGetBilled` fails in the instance of `billing_live` with
  `Broken` = {s2, s3}. The same `take: 500` in `markOverdue` is harmless: what it has
  flagged is no candidate any more.
* "`monthlyAmount` and the item rows can never drift apart" (`subscriptions.service.ts:724`)
  does not hold: two changes applied at once leave the items of both (`:776`; `mixed`), and
  a plan set by staff leaves those of the old one (`:1118`; `retyped`). `ItemsMatchAmount`
  shows that nothing else makes them differ, and that the next change puts them right.
* `markOverdue` flags an invoice that was paid after its query (`invoices.service.ts:335`);
  nothing resets it, for `markPaid` refuses it. `NotOverdueBeforeDue` is what holds.
* Two overlapping `markPaid` calls leave two SUCCEEDED payments and one credit
  (`invoices.service.ts:587`): `LedgerExact` needs requests that do not overlap.
* A subscription cancelled while a run prices it is billed all the same
  (`invoices.service.ts:123`).
* Two verifications of one order, or a retry after a crash between the two commits, each
  create a subscription (`orders.service.ts:255`): the excess that
  `OneSubscriptionUnlessCrashed` allows.
* An import of coverage zones creates areas and clears no cached list (`ImportWrites`, in
  `unswept`).
* An application whose provisioning was refused, say for the unique email address of
  another applicant, stays approved without a subscription (`lost`); no later
  request provisions it before activation.

## 5. Proofs

All theorems hold for every number of processes, invoices, payments, subscriptions
and every amount, from the named assumptions on the constants only. Those assumptions
are types and finiteness of what exists at once: requests, rows of a table, workers.

**`SettlementProofs`.** The invariant is `TypeInv`, three parts that are inductive
only together:

* the types, with the local record of each process;
* `TodoIsPastDue`: what `markOverdue` remembers is past its due day. Since the calendar
  does not run back, a stale update never flags an invoice before its due date, nor
  does a refund's verdict reached before its update (`VerdictStands`), which is
  `NotOverdueBeforeDueHolds`;
* `RefundsFit`: what a refund is about to add was within the payment when it was read,
  and the payment row's `refunded` is absolute, so overwriting stays within bounds:
  `RefundColumnMatchesStatusHolds`.

`StatusMatchesMoneyHolds`: every write of the invoice's row sets amount and status
together from one (possibly stale) row, and `markOverdue` only changes the status to
one that is compatible with any amount.

The sums. `PaidIn` and `Processed` fold over sets of rows. `FoldIsSum` (a smallest set on
which two solutions of the fold's equation differ is not empty, and without one element
it is smaller) turns them into `SumOver`: the number of pairs of a row and a unit of its
amount. Sums are then compared by injections and disjoint unions.

* `NoCreditWithoutPaymentHolds`: `CreditInv` says it of the amounts remembered as well. What
  `applyPayment` adds to was covered when it was read, payment rows only come, and the
  new row is committed with the new amount.
* `NoPhantomRefundHolds`: `GatewayInv` adds to the processed refunds those that the gateway
  has answered and no row says yet, over all processes.
* `LedgerExactSerially`: without overlap, `LedgerInv`. `Balanced` is the property; it needs
  `RefundedIsProcessed` (the column `refunded` and the Refund rows agree), by which the
  clamp of `reversePayment` has nothing to cut. With overlap the property is false.

`SerialRefinement`: if requests never overlap (`NoOverlap`: there is one process),
`Settlement` implements `InvoiceLedger`. The invariant `ReadsAreFresh` says that what the
process remembers still equals the rows, the calendar aside; and that a refund that
found the due date passed is right for good, so that the verdict it writes, even one that
midnight overtook, is one that the ledger allows. The assumption is needed:
two overlapping `markPaid` calls are a step that no ledger step matches.

**`BillingCycleProofs`.** `PeriodInv`: each row a run still has to bill (and each
subscription) is `Good`, that is, every month after the activation up to the row's
period, the period itself excluded, has its invoice. Runs may move the dates back (a
late run writes an older period) but never onto a month that is not invoiced.
`NoUnbilledPeriodHolds` and `NeverBilledAheadHolds` follow, under the assumption that
staff type no billing dates by hand (`StaffMonths = {}`): with typed dates they are
false, and that is what typing dates is for. `InvoicesDistinctHolds` needs no such
assumption; its invariant `NumbersCounted` bounds the numbers of a month by that
month's counter.

**`OrdersProofs`.** `TypeInv` carries, beside the types, that a customer's request works
on an order of theirs (`WorksOnOwn`) and that answered codes were issued
(`CodesIssued`).

* `ConfirmedOrderHasSubscription`: every write is by id on a row that may have moved
  on, so the invariant `SubscriptionInv` speaks of the writes on their way as well. A
  request about to confirm holds a subscription that was made; staff about to
  schedule or install an order found it confirmed, so it had a subscription, and no
  write takes one away.
* `LoneCustomerGetsOne`: for a customer with one request at a time, `LoneCustomer` says
  that an order with a subscription waits for no code and is worked on by no request
  of the customer; before that, every subscription made is one about to be recorded or
  left by a crash. `CustomerEffect` factors what the other steps of a customer do.
  Staff interleave freely: `Allowed` never leads back to a status that waits.
* `OrderGuessesBounded`: `GuessInv` counts the wrong codes written together with those
  still to be written; whoever begins the last one read an attempt count below the
  limit, and everybody else then in flight belongs to `tabs`, a set of the customer's
  requests. A resend resets the attempts, but of a new code.

**`AccountsProofs`.** `TypesAreCorrect` carries `TokensIssued`: every token belongs to a
session that was opened, and requests hold tokens that were issued, which is what the
arithmetic of the other two needs.

* `SessionsEndForGood`: `SessionEffect` factors every step into what it does to old tokens
  (they are never un-revoked), to new ones (they begin a session or join one that is
  being rotated) and to rotations (only a live token starts one).
* `PasswordChangeEndsSessions`: the invariant `PasswordInv` speaks of the sessions about to
  be given a token as well as of the live ones: a rotation begun before the change
  creates a live token after it.
* `SessionHasOneHead`: `HeadInv` says of each session that never forked that one request at
  most rotates it and which tokens are live meanwhile: the old one and, between the
  insert and the update of `replacedBy`, its successor.
* `LockBoundsGuesses`: a miss writes the count that it read plus one, so it may undo what
  others counted, the lock included. `Level` is the count that a request works from, and
  `Covers` bounds the guesses past each level by how many requests stand there or later
  (`Gain`: what the `a`-th request to reach a level can add). `CoverBound` sums the gains up
  to `Ways`, by `WaysSplit`, which is Pascal's rule, from a bijection of the chosen sets.
  `GuessInv` says it for every set of requests taken to have read nothing, since any of
  them may be abandoned.

**`PhoneProofProofs`.** `TypeInv` says that only those who hold the number are at work, and
on codes that were issued, so that counting them gives at most `live`.

* `CodeGuessesBounded`: as for orders; `GuessInv` counts the requests at `Miss`.
* `CodeOpensOnce`: `OpeningInv`. Until a row is consumed nothing was opened with it, so
  whoever finds it unconsumed does so with only `live` others under way.
* `LiveCodesBounded`: `LiveInv` counts a code that is about to be written with those that can
  be entered. A request comes to that point by retiring all there were, which makes
  room for its own; a verified or consumed code never becomes one to enter again
  (`ProvedIfUsed`).

**`RedisProofs`.** It holds the theorems of the two components that stand on Redis: it
extends `ContentCache` and `Notifications`, whose specification is called `FanoutSpec` to
that end. Each theorem is about one of the two specifications.

`StaleEntriesAreCleared` rests on `Swept`: what an entry is behind is shown by its key, and some writer still has the key to clear in that store, or
the store is noted in `unswept`. The lemmas about `Writes` and `Loads` show that every
write of every service that clears anything clears every key that shows one of its
tables: the table of tables is checked in full, not on the instance's keys. `Resting`
(between two invalidations nothing is left of a scan) is needed because `ScanEnd` is
a step.

Of a fan-out, `FanoutInv` is the types and what they rest on: the request's own run is of
the channel it is at, and a row of the feed, or one still to be created, has neither
job nor run.

* `SentOnce`: `RowInv` counts, for each row, the messages sent and the runs under way
  against 1, the runs cut off, the overlaps, and the runs that have sent and not yet
  written. A run begins by reading a row that is not SENT; the first to do so finds
  nothing sent but by runs cut off or overlapped, and each further one is counted in
  `together`.
* `OutcomesAreTrue`: from the same invariant, with nobody under way.

The proof of `FanoutTypes` showed that a fan-out without channels would leave a request
that stands at no channel; every caller names one at least, and `NotificationsAssumption`
says so.

**`SubscriptionChangesProofs`.**

* `AmountAndItemsAgree` (`ItemsMatchAmount`): a rebuild writes amount and items together. By
  `AllDoomed`, a request that nobody has overtaken since its `deleteMany` dooms every item
  there is, so that what it creates is all there is.
* `AppliedWasDone`: `AsksInv`, with `MarksFollow` (a request on its way to the mark has made
  the change) and `Creating`.
* `ChangesAreMadeOnce`: `Orderly` says of a request that was never torn that it has one
  review, which has not made the change unless it is about to mark it.
* `CopiesAreBounded` and `OneIsPendingEach` bound by overlap what the code does not
  exclude: no request leaves two sets of items, and none raises two pending requests.
  They are stated by theorems only, without a run.

**`OnboardingProofs`.**

* `ApprovalIsFollowedUp`: `Due` extends the property to the status changes on their way
  (a change whose row was approved when it was read keeps what is due) and to
  activations (`Going`: only a completed application is activated; `Sent`: an invitation
  follows its subscription). `Keeps` is what every step guarantees.
* `HistoriesAreWhole` and `UnapprovedAreNotServed`: `Chain` says that where reviews do not
  overlap, a change in hand starts from the row's status and is the only one.
* `ServiceIsRightful`: `Rightful` follows the customer from the read of `create` or of
  `ensureFromApplication` to the subscription; `Grows` says that nobody loses a number
  except by deletion, which takes the subscription along.
* `AccountsHaveCustomers` and `InvitesAreForAccounts`: only a registration that dies half
  way leaves an account without a customer, and no invitation goes to an account that
  was not created. Stated by theorems only.

## 6. What is only model-checked

* liveness (`UnpaidIsFlagged`, `DueMonthsGetBilled`, `EveryChannelSettles`): out of the
  prover's reach;
* the refutation, which is a single counterexample.

Every invariant and action property of a run, and its refinement, is stated by a
theorem. `LedgerExact` and `ImplementsLedger` are proved under the assumption of the
run that checks them, that requests do not overlap. Induction over the rows of a sum is
not available as a rule here; `FoldIsSum` replaces it by a smallest counterexample, from
the library's well-founded order on finite sets.

## 7. What is not modelled

* **Amounts and prices**: totals are small numbers; tax, discount and rounding in
  `PricingService` are arithmetic over one call. A tariff either prices or throws.
* **Database write conflicts**: under READ COMMITTED a blocked update re-evaluates
  its `where` and then writes; all the updates modelled are by id, so a blocked
  update is one that happens later. Deadlocks and serialization errors of
  PostgreSQL end a request, which `Abandon`, `Skip` and `Die` cover.
* **Unrouted code**: `createForCustomer`, `verifyForCustomer`, `handleWebhook`,
  `settle`, `recordManual`, `completeSandbox`, `applyDueChangeRequests`, `pruneExpired`
  have no callers, and nothing creates the drafts that `submitDraft` acts on.
* **Staff edits outside the lifecycles**: changing a customer's mobile number or email
  (`ServiceIsTheApplicants` speaks of the number the customer applied with), and
  creating a subscription for a customer by hand (`adminCreateForCustomer`).
  Activation by staff is in `BillingCycle` and not in `Onboarding`.
* **The last super admin**: `updateStaff` and its kin count the super admins and then
  write; `Accounts` has the status change alone.
* **Support tickets and callbacks**: a status column written by id, tickets with their
  messages; nothing else reads them.
* **What rows hold** in the catalogue, the geography, the FAQs and the CMS: forms to
  columns, one statement or one transaction; `ContentCache` has their writes as far as
  the cached pages see them.
* **Notifications and audit** as side effects of the modelled operations: both catch
  their own errors, so they change nothing the models see.
* **What a cancelled order may still become.** Nothing in the code or its docs says that
  CANCELLED is final for an order whose code is being entered; `Orders` has the
  behaviour (a verification that read the order before staff cancelled it confirms
  it), and no property claims otherwise.
* The other components of the last row of the inventory: single-statement CRUD, pure I/O,
  layout, configuration or user interface. They are the greater part of the repository's
  lines: two front ends, shared packages of types and components, and a seed.

## 8. Plan

The order of work so far, and what is left:

| Order | Module | Aim | Abstract specification | Proof |
|---|---|---|---|---|
| done | `Settlement`, `InvoiceLedger` | stale money rows | `InvoiceLedger` | all its invariants, serial refinement |
| done | `BillingCycle` | overlapping long jobs | - | distinct, no month skipped, not ahead |
| done | `Orders` | double verification, crash between commits, limits | - | all its properties |
| done | `Onboarding` | reviews, provisioning after approval, registration | - | all its properties |
| done | `Accounts` | rotation against rotation and revocation, passwords | - | all its properties |
| done | `SubscriptionChanges` | apply twice, items against amount | - | all its properties |
| done | `ContentCache` | load against write and invalidation | - | all its properties |
| done | `PhoneProof` | attempts, retiring, single consumption | - | all its properties |
| done | `Notifications` with the queue | fallback, retries, stalls | - | all its invariants |
| left | invoice book | `BillingCycle` as appending months | invoice book | refinement |
| left | `Tickets`, `StaffUsers` | status against messages; the last super admin | - | - |
| left | `Pricing` | totals against a reference sum | reference sum | bounds |

Proof work that is left: action properties beyond the invariants (a consumed code stays
consumed, a row that was settled stays so), the refinement of the invoice book, and a
serial refinement for `SubscriptionChanges`.
