# Smart-locker server: specifications, model checking and proofs

The server (`src/src`, NestJS with MongoDB) lets shippers drop packages into
the boxes of a locker and residents take them out, charges for long storage,
and watches the boxes' door and item sensors through MQTT. Everything that
matters happens as short handlers with several `await`s, so requests, sensor
jobs, cron runs, webhooks and restarts interleave between any two database
calls. The specifications take each such call as one step.

Contents: [inventory](#inventory), [modules](#modules), [runs](#runs),
[bounds](#bounds-and-why-they-are-enough), [fairness](#fairness),
[proofs](#proofs), [what the code does not keep](#what-the-code-does-not-keep),
[not modelled](#not-modelled), [what remains](#what-remains).

## Inventory

| component | state it keeps | operations | hard behaviour | what makes it correct |
|---|---|---|---|---|
| deposit watcher (`packages/deposit-watcher.service.ts`) | in memory: a queue of jobs per box; in the database: the box's `lastSensor`, the package's `depositDoorOpenedAt` and status | `handleSensorEvent`, `handleExpiredDeposits` (cron, every minute), `confirmDeposit`, `cancelDeposit` | readings and deadlines of one box race with requests; two documents are written one after the other; restarts lose the queue | a deposit is confirmed or cancelled for good reason, once, and always in the end |
| packages: stays (`packages.service.ts`, `packages-admin.service.ts`, `package-status.util.ts`) | packages with status and box | `dropOff`, `claimPackageForPickup`, `releaseBoxAfterPickup`, `returnToStorage` | check, claim, create and link are separate; several ways to end one stay | one package per box; no box leaks; the end of a stay is undone by nothing but a late payment |
| packages: access (`packages.service.ts`, `utils/`) | PINs and QR tokens; `PickupAttemptLimiter` in memory; the shipper's OTP and trusted session | pickup by PIN, QR and face, resend of a PIN, `sendShipperOtp`, `verifyShipperOtp`, Firebase | a limiter or a counter is read before the lookup and written after it | a lock lasts; tries are bounded |
| packages: deadlines (`packages.service.ts`) | `expiredAt`, `paidUntil`, `expiryWarnedAt` | the hourly overdue and expiry jobs | a job works off a list that grows stale; two jobs overlap | told once of each deadline and each overdue spell |
| lockers and boxes (`lockers/`) | lockers, boxes with status, `currentPackageId`, `hasItem`, `lastSensor` | create, update, `updateBoxStatus`, `unlockBox`, health | maintenance races with a claim; unlock cooldown read from a log | an owned box stays OCCUPIED |
| mqtt (`mqtt/mqtt.service.ts`) | a station's status and heartbeat | sensor events, heartbeat, OFFLINE, unlock commands | messages of one locker are handled concurrently | events reach the watcher in order; a change of connection is logged once |
| payments (`payments/payments.service.ts`) | orders with amount, received money and receipts; `paidUntil`, `totalFeePaid` of packages; the subscription of users | package and subscription intents, bank webhook, kiosk call, fulfilment | repeated and partial transfers, an order replaced while money arrives, late fulfilment | money is neither lost nor counted twice; an order ends once; what is paid is delivered |
| storage pricing (`payments/utils/storage-pricing.util.ts`) | none (pure) | `calculateStorageFee`, `buildPricingTiers` | rounding, tier limits, deductions, the cap; intents that overlap | charged fees match the published rows; nothing is charged twice where no orders overlap |
| e-invoice (`einvoice/`) | `eInvoice` of a payment, the invoice service's own records | claim, series, create or reuse, poll, mail, mark | two callers of one payment; a lost answer; a restart between two steps | one invoice e-mail per payment, of an issued invoice |
| auth and users: credentials (`auth/`, `users/`) | password, refresh-token hash, reset code, second factor, recovery codes, approval | login, refresh, logout, change and reset of a password, 2FA, approval, suspension, deletion | every operation reads, compares and then writes by id; two devices and administrators overlap | an ended session stays ended; nobody is locked out by a foreign secret |
| users: phone numbers (`user-phone-change.service.ts`, `auth.service.ts`) | `phone`, `phoneChange` with its send slot, window and attempts | registration, `requestOtp`, `verifyOtp` | slots given back, also for messages that were delivered; codes replaced while another is entered | sends the server knows of are spaced, guesses bounded, a code used once |
| face verification (`ai/`) | `faceAuth` of a user | enrolment, `verifyAndUnlock` | the camera's limiter is shared by all who stand before it | a forged or unknown face counts as a refusal, a payment request does not |
| buildings (`buildings/`) | pricing policy, T3 | update with re-dating of stored packages | re-dating races with confirmation, jobs and extensions | deadlines follow the policy |
| issues (`issues/`) | tickets with a timeline, the counter of ticket codes | report, change of status, escalation | administrators act on what they read | a timeline that follows the table of changes |
| notifications (`notifications/`) | the inbox, device tokens | ten kinds of notices, batches to Expo, read and delete | a step that throws ends the notice, a document that is refused does not; the answers of Expo come per batch | an alert leads to a notice; a living device stays registered |
| activity logs, mail, SMS, upload | logs | delivery | | |

How they interact. `dropOff` claims a box by one conditional update, creates
the package `PENDING_DEPOSIT`, links it from the box and has the door unlocked.
`MqttService` emits each box reading as an event; the watcher stores it and
decides about the box's pending deposit. A confirmed package is
`WAITING_FOR_PICKUP`; the overdue cron makes it `OVERDUE`. A pickup (by PIN, QR
or face) asks the limiter, finds the package, claims it by one conditional
update (with the fee, when it was paid at the kiosk), unlocks the door and
frees the box; the manager's return does the same for packages taken to the
store. When `calculateStorageFee` finds a fee, a payment intent opens an order;
the bank's webhook settles it, and the paid order either claims the package
(kiosk) or extends its storage (remote), then asks for an e-invoice that nobody
waits for. A change of T3 re-dates the stored packages. Notices are sent by
most of these and never awaited by what they report.

`PROJECT.json` lists the components with their sources, and the hazards: every
place where this code is hard to test, with the properties that cover it.

## Modules

### The stay of a package

**DepositPickup** is the core: boxes, packages, drop-offs, the watcher, every
way of ending a stay. Persistent variables are the documents `box` and `pkg`;
volatile ones are `drop` and `release` (requests in flight), `queue` and `task`
(the watcher's queues and running job). An action is the code from one
`await` to the next:

| code | actions |
|---|---|
| `dropOff` | `DropOffCheck`, `DropOffClaim`, `DropOffCreate` or `DropOffCreateFails`, `DropOffGiveBack`, `DropOffLink` |
| `handleSensorEvent` | `SensorEvent` (MQTT), `StoreReading`, `ReadLink`, `Decide`, `MarkDoorOpened` |
| `handleExpiredDeposits`, `handleExpiry` | `HandleExpiredDeposits`, `StartExpiry`, `JudgeExpiry` |
| `confirmDeposit`, `cancelDeposit` | `ConfirmDeposit`, `ConfirmBox`, `CancelDeposit`, `CancelBox` |
| `claimPackageForPickup`, `releaseBoxAfterPickup` | `PickupClaim`, `PickupFindBox`, `PickupSaveBox` |
| `returnToStorage`, overdue cron, `updateBoxStatus` | `ReturnClaim`, `ReturnBox`, `MarkOverdue`, `UpdateBoxStatus` |
| a database write that throws, a restart | `DropOffThrows`, `ReleaseThrows`, `TaskThrows`, `ServerRestart` |

`releaseBoxAfterPickup` is a mongoose `save`, which writes only what changed
since the read: `PickupFindBox` remembers whether the box had an item and
`PickupSaveBox` leaves `item` alone if it had not.

**BoxStay** is the abstract promise about boxes: a package takes one box that
nobody has, is stored, leaves and never comes back. `DepositPickup` maps each
package to a stage and a box (`StageOf`, `BoxOf`) and `ImplementsBoxStay` says
every step of the handlers is a step of `BoxStay` or a stutter.

**StayWithPayments** adds the writer of a package's status that DepositPickup
leaves out: the completion of a remote payment reads the package (`ReadPackage`)
and later makes it wait again if it had been OVERDUE (`ExtendPackage`, whose
filter spares only PICKED_UP), or throws or is lost in a restart
(`CompletionEnds`). It extends DepositPickup, so every handler of the stay
interleaves with it. DepositPickup's own statements about boxes are about its
own writers: a package revived after its return counts as stored, and its box
is no longer its own. The run `deposit_liveness` checks this module.

**StorageDeadline** takes up where the stay is long. `ReadPolicy` and
`ConfirmDeposit` are the two awaits of `confirmDeposit` that matter here: the
limit is read, the deadline written. `UpdateBuilding`, `WriteBuilding` and the
three queries of `syncPackageExpiry` (`ResyncExpiry`, `RestoreWaiting`,
`MarkOverdue`) are an administrator's change of T3. Each hourly job reads its
list at once (`HandleOverduePackagesCron`, `HandleExpiringPackagesCron`), works
it off package by package (`MoveOverdue`, `ClaimWarning`) and tells the
resident in a step of its own. `ReadForExtension` and `SaveExtension` are a
paid extension. A package becoming OVERDUE starts a *spell*; `spells`, `told`
and `warned` are history variables.

### Money

**Payments** follows the orders of one resident, for one package and for the
monthly plan, of three kinds: for the package, for the plan, and for the plan
through `createPaymentIntent`, which takes any paymentType together with a
packageId (`planOnPackage`; `Sought` says which orders each intent finds).
`order`, the intents in flight (`request`), the transfers payers
made (`transfer`; the bank may repeat a webhook at any time, so recording is
enabled again and again), the webhook between recording and settling (`hook`),
and the completion of a paid order by the webhook or the kiosk (`run`). The fee
an intent finds is any fee of `Fees`: what the fee is, is StoragePricing's
question. The package is reduced to its status, `totalFeePaid` and a count of
extensions; pickup, return and the overdue cron change it in between. A
subscription is the plan's months, read and saved in two steps
(`ReadSubscriber`, `SaveSubscriber`, with `RenewSubscription`). `relabelled` is
history: an intent that reused the order changed its flow after a settlement or
a call of the device had read it (`IsInUse`). Any call to the database may
throw and end its handler (`CallFails`): an intent, the webhook before its
settlement, or a completion, whose first step is the log of the payment.

**OrderBook** is the abstract promise about an order: it opens, possibly with
credit; money is only added while it waits; with all its money it is *covered*,
that is, somebody is settling it; then it is *paid* and somebody delivers what
it bought; then *served*; a replaced one is *void*. Only a fault, a call that
throws or a restart, strands an order: a covered one is *stuck* (more money may rescue it), a paid one *lost*.
`Payments` maps the documents and the calls in flight to the stage and the money
of each order (`OrderStage`, `Due`, `Got`; `Settling` is a call that will settle
it), and `ImplementsOrderBook` says every step of intents, webhooks, kiosk calls
and completions is a step of `OrderBook` or a stutter.

**StoragePricing** is the fee itself: `FeeDue` translates
`calculateStorageFee`, `PricingTiers` the rows of `buildPricingTiers` with the
hours and fees they publish (`Covers` says which hours a row holds). One stay is
followed through waiting, the plan being bought or running out, and its orders:
an intent reads the fee, finds the pending order, cancels and creates in steps
of their own (`AskFee`, `FindPending`, `CancelPending`, `CreateOrder`), an order
is settled at any time, and its completion reads the package and extends it in
two steps (`SettleOrder`, `ReadPackage`, `ExtendPackage`). So two intents may
both create an order for one fee; `overlapped` is the history of that, and of an
order created for a fee that a payment has lowered since it was read. Limits may
be in any order, because `BuildingsService.create` compares none of them.

**EInvoice** is `issueForPayment` in calls that may be made twice for one
payment: claim, series, creation, polls, the number, the mail and the last
mark, with the `try` block's errors all ending in `failed`. `remote` is what
the invoice service holds under the reference code; it is external, refuses a
second invoice under the same code, and may lose an answer after it did what
was asked. `series` is the client's memory of the year's series, which a
restart forgets.

DepositPickup has no payments and Payments no boxes; where the two meet, in the
status of the package, is StayWithPayments. The run `restores_only_overdue`
shows the revived package from the side of the orders.

### Who gets in

**PickupCodes**: a PIN is chosen when no stored package has it
(`GenerateUniquePinCode`) and stored in a later step. A pickup asks the limiter
first (`PickupWithOtp`, `PickupWithQr`, `VerifyFaceWithLockout`), looks the
package up later (`FindByPin`, `FindByQrToken`, `VerifyAndUnlock`), and only
then a refusal is counted or the counter cleared. One limiter counts the
residents of the app, another the camera; the kiosk's PIN pad is not counted
(`PickupCallers`). What the cameras see is a choice: `similar` is any set of
residents, of which the nearest match is one.

**ShipperSessions**: the document of one shipper's number. Unlike the change of
a resident's number, every handler reads the session and writes in a later
step; `ask` keeps what it read. `SaveSession` is a mongoose `save` that leaves
`failedAttempts` alone unless it was not zero at the read. `tries` counts the
comparisons since the counter was last zero.

**Phones**: registration (`Register*`, `Create`, with the unique indexes), and
the change of a number: `OpenWindow`, `ClaimSendSlot`, then `SendSms`,
`SmsFails` or `AnswerLost`: the gateway took the message, but the request timed
out or its connection broke, which to the code is the same failure, so that
`ReleaseSendSlot` gives the slot of a delivered message back. `StoreOtp` follows
a message that succeeded; `VerifyOtp` takes an attempt and compares in one
conditional update, `RejectVerify` and `ClearPendingOtp` are what follows a
refusal, `SavePhone` the conditional last write. Nothing in the code bounds an
update of the database, so the clock may run at any point; `stalled` is the
history that a request took longer than `Delay` from its read to its instant, or
from its instant until it kept its slot or had given it back.

**Accounts**: one account, its credentials and its status. A request presents
what compares, so the second half of each operation, the write by id, is what
is interesting: `call` keeps what the first half read. `ends` counts ended
sessions, `confirmed` the secrets whose code the user has entered.

### Around it

**LockerStation**: the creation of a station (code looked up, document
inserted, boxes inserted), the status its messages write, and the remote
unlock. A message is handled in the steps of `handleIncomingMessage`:
`WriteOffline` or `WriteOnline`, the log entry, and the heartbeat of a station
in maintenance; the time of an event is taken first. `drops` and `backs` count
the changes the messages made.

**IssueDesk**: tickets. `Transitions` is the table of `updateStatus`; a handler
reads (`ReadForStatus`, `ReadForEscalation`) and writes on condition of the
status (`WriteStatus`, `Escalate`, or `Conflict`). Status changes ask for the
status that was read; an escalation only for one that may be escalated.

**Notifications**: `Plan` gives each kind of notice the steps of its handler,
in order; the first that throws ends it. The sender of a push runs on its own:
batches of `BatchSize`, each delivered, refused, or the end of the rest, and
the removal of the tokens that Expo reports as unregistered. A broadcast may be
`blank`: the request accepts a title or message of spaces, the schema does not,
and the unordered `insertMany` drops every document without throwing
(`DropBlank`). Inbox operations and device tokens change in between.

### For TLC and for TLAPS

**MCDepositPickup, MCPayments** instantiate their modules with small values.
**Building** composes IssueDesk, Notifications, EInvoice, LockerStation,
StorageDeadline and StoragePricing; **Access** composes Accounts, Phones,
ShipperSessions and PickupCodes. The modules of one group share no state their
properties tell apart: where one reads what another writes (the status of a
user, the fee of a package), it has an action that changes it at any time. So
`part` names the module that moves, the others keep their initial state, and
one run explores each module completely (of Access, those in `Parts`).
**MCBuilding, MCAccess** give TLC the
values; the proofs are about Building and Access, whatever the values.

**DepositPickupProofs, DepositPickupWatcher, DepositPickupRefinement,
PaymentsProofs, PaymentsRefinement, BuildingProofs, OfficeProofs, AccessProofs**
hold the proofs. Operators marked "Mutant" in a module are plausible mistakes in the
code, each replacing one definition; every property checked by a passing run is
violated by at least one of them. They are not part of any specification.

## Runs

| run | question | result |
|---|---|---|
| `deposit_safety` | two shippers, one box, sensor jobs, cron, pickup, return, maintenance, one fault: is the box shared or leaked, does a deposit end for good reason and once, and do the handlers implement BoxStay? | holds, 1.0 million states up to symmetry |
| `deposit_liveness` | StayWithPayments, one fault: is every deposit settled, also after a restart; does an ended stay free its box without a fault; what can undo the end of a stay? | holds; a payment that had read OVERDUE, and nothing else; 1.0 million states |
| `payments_safety` | two intents, two transfers, orders for the package and the plan, one fault: is the ledger consistent, does an order end once, are remote fees added once and at most one kiosk fee, and do the handlers implement OrderBook? | holds, 2.5 million states up to symmetry |
| `payments_liveness` | orders of all three kinds: is a covered order settled and a paid one fulfilled without a fault? | holds, 0.4 million states |
| `building` | tickets, notices, invoices, the station, deadlines and the fees of a stay, each explored on its own: do timelines follow the table, do alerts lead to notices, is an invoice mailed once and never left in process, is a change of connection logged once, are residents told once, is the fee the one of the published row, is none paid twice, does waiting or the plan ever turn out wrong? | holds, 2.3 million states |
| `access` | accounts, changes of number with messages that fail or seem to fail, shippers' sessions and pickup codes, each explored on its own: does a session end, is a second factor the confirmed one, are guesses and tries bounded, is a code used once, do known messages keep the wait, does a lock last? | holds, 3.1 million states |
| `claim_sees_no_item`, `available_box_is_empty`, `early_confirm_saw_door_open`, `transfer_counts_once`, `restores_only_overdue`, `deadline_follows_policy` | statements of comments the code does not keep, see below | violated |

`CHECK_DEADLOCK FALSE` throughout: when all packages are gone, all orders
settled or a bound is reached, nothing has to happen any more.

What the properties of the later passing runs say, and what could go wrong:

- `OnlyLatePaymentRevives`: pickup, return, cancellation and the cron all end
  or change a stay, each with a condition on the status; only the completion of
  a payment has a filter that lets a RETURNED package through.
- `FeesAddUp`: `totalFeePaid` is the sum of the remote orders completed, each
  once, and at most one order more, the one that opened the box at a kiosk. That
  one is not among the remote ones; the exception is an order relabelled while
  in use: its fee is counted by both completions.
- `NoFeePaidTwice`: time, plan, intents, late webhooks and completions interleave,
  and what was paid is deducted from what is asked, as long as no order is
  created beside an open one: two such orders for one fee can both be paid.
- `FeeMatchesTable`: the fee of a stay nothing was paid for is the one published
  in the row whose `fromHours` and `toHours` hold the hour. For a holder of the
  plan only where its free hours end with a row: within a row, the table
  publishes a surcharge for hours that are free.
- `HistoryFollowsTable`: an escalation carries a status it read earlier; the
  condition of its write keeps the timeline within the table nevertheless, and
  keeps building administrators off a ticket escalated under their hands.
- `AlertIsStored`: a notice whose text is not blank is stored before a device
  hears of it, except for a suspension, whose socket event comes first. Blank
  ones are dropped without an error and alerted all the same. `LiveTokenKept`: the
  tickets of one batch must not be taken for those of another, nor an answer
  about a token that its owner has meanwhile replaced.
- `MailedOnce`, `ProcessingHasACall`: the claim is the only thing between the
  webhook's call and the kiosk's; whatever a request to the invoice service
  ends in, the payment gets a last mark unless a restart or a failing write cut
  the call short (`lost`), and then it stays PROCESSING for ever.
- `LoggedPerDrop`: of messages handled at the same time only the one whose
  conditional write matched logs the change. The entry may be missing, never
  one too many.
- `WarnedOnce`, `ToldPerSpell`: the claim of a warning is conditional on the
  document; the notice of an overdue package on its update having changed
  something, although the job's list may be hours old.
- `ActiveSecretWasConfirmed`, `RevivedOnlyByEarlierRefresh`: what two devices
  do to one account. A refresh that read the stored hash before a logout stores
  a new one after it: the property says that this is the only way back.
- `GuessesBounded`, `CodeChangesOnce`, `SendsSpaced`: the attempt is taken in
  the filter of the update that counts it, the number changes only while the
  code is still the stored one, and a slot given back restores the instant
  that was read, which must not be older than a message the server knows of.
  Messages that only seemed to fail (`AnswerLost`) are outside it: they give
  their slot back, and the next one may follow at once. So are requests that
  stalled.
- `TriesBounded`: a shipper's code has no such filter; the count may be
  exceeded by the other requests in flight and by no more.
- `LockHolds`: a failure that asked the limiter before the lock and is counted
  after it must not replace the lock.

## Bounds, and why they are enough

- *DepositPickup*: one box and two packages. Every handler touches one box, its
  own; two requests in one box are what can go wrong, and the theorems cover
  any number of boxes and packages. `TTL`, `Grace` and `Fresh` are one tick of
  the clock, `MaxTime` two (three in the liveness run), so that a drop-off, its
  deadline and a second drop-off happen within a run. Drop-offs stop at
  `LastDrop`, so that the deadline of the last one is reached. One waiting
  reading (`MaxReadings`) besides the running job gives an older and a newer
  one; three in the finding that needs a backlog. One fault (`MaxFaults`): a
  second one only repeats the situation after the first, for a handler that
  has not started again. The liveness run has one box, one package and one
  completion of a payment: symmetry may not be used there. That the stays of
  several packages do not revive each other is proved (`RevivedByPaymentOnly`).
- *Payments*: two intents, two transfers, two orders of fees 1 and 2,
  transfers of 1: enough for a partial transfer, a repeated one, an order
  replaced by another with credit, two orders completed together, an order of
  each kind. One fault, a call that throws or a restart. Intents stop at
  `MaxOrders`. `payments_liveness` has all three kinds, and one intent and one
  transfer at a time, for the cost of the liveness check; the gateway's exact amounts and the credit carried over still complete orders.
- *IssueDesk*: two tickets, two administrators of one building and a system
  administrator, a second building nobody may access; `MaxEntries`, four
  timeline entries in all, reaches an escalation or a reopening on one ticket.
- *Notifications*: one event, two recipients, three device tokens and batches
  of one: two batches, one of which may be refused, are what an index could be
  shifted by, and the third token is the one a device changes to.
- *EInvoice*: two payments, two calls, so both on one payment or one on each;
  `PollAttempts` two, a first and a last poll; `MaxLosses` two restarts or
  failed writes, the second in the recovery from the first.
- *LockerStation*: two creators, two handlers, one unlock; three messages or
  edits (`MaxMessages`), so that one is overtaken by another after a change;
  the clock passes the heartbeat timeout.
- *StorageDeadline*: one package, limits of one and two hours, one edit at a
  time, two overlapping jobs, two edits, extensions or restarts (`MaxEvents`),
  four hours: the package runs into both limits and out of an extension.
- *StoragePricing*: half hours (`UnitsPerHour = 2`) see the rounding; T1 at one
  hour or at four, past T2 at three; T3 at five; the plan's free hours below T1,
  at each limit and between two; `MaxTime` just past T3: every tier and the limits
  of each; fees around the cap on both sides. Fees are asked for, with two intents
  and two orders, under one of these policies (`PaidPolicies`): an extension of
  two hours outlasts its free hours and ends before its second surcharge, so
  that the base fee and each surcharge may be paid in orders of their own. The
  theorem has every policy and any number of orders.
- *Accounts*: two requests, two secrets, of which one comes with a recovery
  code; one ended session (`MaxEnds`) and what may revive it.
- *Phones*: two users, two numbers, two requests, two codes; `ResendInterval`
  is longer than twice `Delay`, the time after which a request counts as
  stalled; two sends a window and two attempts.
- *ShipperSessions*: two requests, two failures, two codes, one send a window;
  the session expires within the run.
- *PickupCodes*: one package, two PINs (a reissue, or a wrong one), two
  requests, two failures, `Window` equal to `Lock`, as in the code.

Symmetry is used only in runs of safety properties, on sets whose members no
definition tells apart. Clocks stop at their bound (`MaxTime`, `Horizon`,
`LastHour`, `LastMoment`, `ShipperTime`).

## Fairness

`DepositPickup` assumes weak fairness of the steps of a started request, of the
running job of each box, of the cron for each package and of the clock: Node
resumes every settled promise, `@Cron` fires each minute, and the watcher is
started again with the server. Nobody is obliged to pick a package up, and no
reading has to arrive. `Payments` assumes that a started handler runs on, and
neither that anyone pays nor that the bank repeats a webhook.

Where the code has no recovery the liveness properties say so: after a fault
an ended stay may keep its box, and a throw or a restart between the recording
of a transfer and the settlement leaves a covered order pending, because the repeated
webhook finds its receipt and stops. `DepositIsSettled` has no such exception:
the cron finds pending deposits in the database after any restart. It excepts a
door that is open at the newest reading, which `handleExpiry` leaves to an
operator. The other modules state no fairness and no liveness: what they promise
to happen is one write after another of a single handler, and what a restart
does to it is said by the safety properties (`ProcessingHasACall`).

## Proofs

Checked by TLAPS for every value of the constants: every invariant and every
action property of every passing run, and the refinements of BoxStay and
OrderBook. Assumptions, which TLC evaluates for the values of the runs:

- DepositPickup: `NoPkg` and `NoBox` are no packages and boxes; times and bounds
  are naturals.
- Payments: fees and amounts are positive; intents in flight and transfers are
  finitely many, since their receipts are added up.
- StoragePricing: amounts, hours and bounds are naturals, the unit and the
  extension are positive. StorageDeadline, LockerStation, EInvoice, IssueDesk: hours, times and
  bounds are naturals, there is a limit and a poll, an administrator belongs to
  one building and is not both kinds of administrator.
- Notifications: device tokens are finitely many, and a batch is not empty.
- PickupCodes: every package has a resident, no PIN is `NoPin`, the lock is not
  longer than the window (both constants of the code satisfy it).
- ShipperSessions: requests in flight are finitely many. Accounts: recovery codes
  belong to a secret.
- Phones: the resend interval (60 seconds) is longer than twice `Delay`. The
  server does not keep to `Delay`; `SendsSpaced` only speaks of behaviours in
  which no request has stalled longer.

### Stays of packages in boxes

- `DepositPickupProofs!Invariance`: the inductive invariant `IInv`, that is types, agreement of
  the documents, at most one owner per box, and owned boxes are OCCUPIED.
  `OneStoredPerBox` alone is not inductive: a box that is AVAILABLE while a
  package is in it could be claimed again, so `OwnedBoxIsOccupied` is needed;
  and that one needs a notion of ownership that includes requests which have
  claimed a box or still have to free it, of which there may be only one, and
  the agreement of links and jobs with the package they were started for. One
  lemma per action for each part. What the steps of a drop-off, a release or a
  job leave alone is said once (`DropOffFrame`, `ReleaseFrame`, `TaskFrame`,
  `PackageFrame`) and cited here and by the watcher's proofs. From it:
  `TypeCorrect`, `Agreement`, `NoSharedBox`, `OwnedStaysOccupied`.
- `RevivedByPaymentOnly` (`StaySpec => OnlyLatePaymentRevives`): a payment's
  write may interrupt any handler, so the types and agreements of `IInv` are
  carried over to StayWithPayments (`StayInv`); a handler's write to a status is
  conditional on the status (`PackageStays`), the payment's write reaches an
  ended stay only from RETURNED, for the package its completion holds.
- `DepositPickupWatcher!ConfirmsOnNewest`, `CancelsWhenEmpty`: a job reads, then
  decides, then writes, so the snapshot could have changed in between.
  `WatcherInv` says it has not: waiting readings are in the order of their
  instants and none is older than the snapshot (`ReadingsInOrder`), the
  snapshot is written by the box's own jobs, which run one at a time, and so
  the running job's reading or verdict still agrees with it (`TaskInformed`).
  The deadline part uses that the instant of the unlock never changes.
- `DepositPickupWatcher!NoBoxLeaks`: a box is freed only while it still points
  to the package that leaves, so the property needs that it does
  (`OwnersLinked`). The link is written after the package was created, and in
  between nothing may settle the package: the watcher finds packages by a link,
  or by a deadline that a drop-off still running has not reached (`DropsFresh`,
  `KnownAreOver`). This is where the assumption of `Tick` is used, that a
  drop-off takes less than the deposit deadline.
- `DepositPickupRefinement!StaysImplemented`: DepositPickup implements BoxStay.
  From `IInv`, each action is shown to be one step of one package's stay, or
  none; a restart is `Leave` for all packages a request had in hand. That a box
  is free in BoxStay when it is taken is `OwnedBoxIsOccupied`.
- `DepositPickupRefinement!Exclusive`: two packages never have the same box. It
  is proved of BoxStay, where it takes a few lines (`StayPromise`), and carried
  to the handlers by the refinement; it says more than `NoSharedBox`, since a
  package has its box while it is being dropped off or is leaving, too.

### Payments

- `PaymentsProofs!LedgerInvariant`, and from it `TypeCorrect` and `ReceiptsAddUp`
  (`LedgerAgrees`). An intent that replaces orders reads their credit, cancels
  them and creates its own in three steps, and transfers arrive in between; so
  the ledger (`Credited`) says of the credit in an intent's hands what it says of
  orders. A paid order has been paid for although the webhook that settles it
  read it earlier: what it saw complete still is (`Covered`), because nothing
  takes money out of an order. `Receipted` says that no receipt comes before its
  transfer, without which a new transfer would change what old receipts are
  worth; `Quota` that every intent under way has a place for its order, which
  the type of the order's number needs.
- `FeesInvariant`, and from it `EveryFeeIsCountedOnce` (`FeesAddUp`). `Completing`
  says what each completion is about and that it starts only when the order is
  paid, so an order is not among the fulfilled ones before its own completion
  ends, and that the flow it read is still the order's unless an intent relabelled
  it; `FeesKept` that until the pickup no kiosk order counts.
- The sums: `SumFunction` of the library is defined by choosing the function that
  satisfies its recursion, and the library's induction theorems cannot be used.
  The first section of PaymentsProofs does the induction on a finite set as a
  smallest counterexample (`MinimalSubset`): that such a function exists
  (`SumsExist`), is unique, and that any element may be taken out first
  (`SumWithout`). `CreditIsWorth` goes the same way: the credit collected from
  any set of orders is worth the receipts collected from them.
- `OrdersEndOnce`, `PickedUpStays`: each write to a status asks for the status it
  replaces (`OrdersStay`, `PickupStays`).
- `PaymentsRefinement!OrdersImplemented`: Payments implements OrderBook. Each
  action is one step of one order, or none; the cancelling of replaced orders
  is `Void` for all of them, a call that throws or a restart is `Fail`. That an order is paid only
  with its money is `Covered`. Why a covered order cannot lose the call that
  settles it needs `Hooked` (`BookInvariant`): a webhook about to settle has its
  transfer in the order's receipts, so a repeated delivery finds the receipt and
  does not begin again in its place.
- `NoOrderForgotten`, from it: without a fault every pending order that has its
  money has a call in flight that settles it, and every paid order a completion
  under way or done. This is the safety half of `CoveredOrderSettles` and
  `PaidOrderIsFulfilled`; what is left to TLC is that a call in flight goes on.

### A building

`PartsOfBuilding`: a behaviour of a building is one of each of its parts, by that
part's own specification. Each part then has an inductive invariant of its own.

- Storage fees. Their types are part of `BuildingTypes` (`TypesOfTheBuilding`).
  `PlanIsWorthIt`: for every
  policy and moment the monthly plan is not dearer, by cases on the tier with
  and without it. `WaitingCosts`: tiers and the fee of a tier grow with the
  hours, and only `Wait` moves time. `TableIsCharged`: in each row that holds the
  hour the fee is the published one (`FeeOfRow`), row by row and for the tier the
  formula finds, for limits in order and a cap not below the first surcharge;
  below it the table shows the surcharge and the cap is charged.
- `NothingPaidTwice`: one base fee and both surcharges bound all payments of a
  stay in which no orders overlap. Not inductive alone: an order is paid later
  than its fee was read, so the invariant (`PaidAndAsked`) says that there is one
  open order at a time, which counts as well, and so does the fee in an intent's
  hands unless a payment has lowered it since; and in the free hours the fee
  ignores what was paid, so a first payment must protect the package until the
  free hours are over. This is why `NoFeePaidTwice` assumes
  `t1Hours <= ExtensionHours`: with free hours longer than the 24 hours an
  extension buys, the base fee is charged again.
- `DeadlineInvariant`: a notice goes out in a later step than the write that
  allows it, so `WarnedOnce` and `ToldPerSpell` are not inductive. `Announced`:
  at most one job is about to announce a package, none after it was announced,
  and none before `expiryWarnedAt` is set. `Owed`: the notices told and the jobs
  about to tell are no more than the times the package became overdue.
- `StationInvariant`: likewise for `LoggedPerDrop`, the entries written and the
  handlers about to write one are no more than the changes (`Unlogged`).
- `InvoicesInvariant`: claimed calls work on different payments (`OwnPayment`),
  and a call's place says what has been issued, stored and mailed (`Progress`);
  a restart empties the places and counts their payments as lost
  (`NotForgotten`). From it `InvoiceIsMailedOnce`, `ProcessingIsWorkedOn`.
- `DeskInvariant`: what a request decided to write is allowed from what it read
  (`ReadsFollowTable`), and it writes only if the status is still that; so
  `TimelineFollowsTable`.
- `NoticesInvariant`: by the plan of each kind nothing leaves the server before
  the step that stores is over, and a text that is not blank is then stored
  (`StoredFirst`), so `AlertedFindIt`; and a ticket
  says that a token is dead only if it is, which no later registration changes
  (`DeadStayDead`), so `LiveTokensStay`.

### Who gets in

`PartsOfAccess` as above.

- `PickupInvariant`, `LockOutlastsFailures`: the step that could break
  `LockHolds` is a failure of a request that asked the limiter before the lock.
  It starts a new record if the window of the old one has run out, so the
  invariant says that it has not: a lock ends within `Lock` of
  the start of its window (`LockInWindow`), which is why `Lock <= Window` is
  assumed. The invariant also carries that only residents enrol a face, which
  the action's type needs.
- `AccountInvariant`: the second half of an operation writes by id what the
  first half decided, so the invariant is about the requests in between: one
  that is to enable the second factor holds a confirmed secret (`Confirms`), a
  refresh has read a session that has not ended since, or counts as earlier
  than its end (`Refreshing`). So `SecretIsConfirmed` and
  `OnlyEarlierRefreshRevives`.
- `SessionInvariant`: the tries of a code are the failures recorded and the
  requests that have compared and not recorded yet (`Recorded`), so
  `TriesAreBounded`.
- `PhonesInvariant` has two halves. Codes: a stored code belongs to one user, was
  compared no more often than its attempts say and has changed nothing yet
  (`StoredOnce`, `Counted`), so `CodesAreBounded` and `EachCodeChangesOnce`.
  Slots, as long as nothing has stalled: a failed message gives its slot back by writing the instant it had read
  before, which is safe only if nobody else has taken a slot, or sent a message that the
  server knows of, since. `SlotHeld` says that a slot has one holder and is the user's last
  instant; `ReadLast` that a request which has not yet claimed either has read
  an instant as late as any known message or slot of its user, or will be refused
  on its account. That needs an interval longer than two delays. So
  `MessagesAreSpaced`.

### Only model-checked

The four liveness properties (`DepositIsSettled`, `EndedStayFreesBox`,
`CoveredOrderSettles`, `PaidOrderIsFulfilled`): fairness and ENABLED are outside
what the installed provers do. What the two of Payments need besides fairness is
proved (`NoOrderForgotten`). The runs that expect a violation have nothing to
prove.

## What the code does not keep

Each is a run whose counterexample TLC finds; `PROJECT.json` quotes the lines.

1. `ClaimSeesNoItem`: the sensor check of `dropOff` is made several awaits
   before the claim, whose filter does not repeat it.
2. `AvailableBoxIsEmpty`: a pickup overlapping the second write of the
   confirmation leaves an AVAILABLE box with `hasItem` true.
3. `EarlyConfirmSawDoorOpen`: a reading taken before the unlock and handled
   after it counts as this deposit's door opening.
4. `TransferCountsOnce`: an order settled between the find and the `updateMany`
   of `cancelPendingAndCollectCredit` keeps its money and hands it on as credit.
5. `RestoresOnlyOverdue`: a remote payment that read OVERDUE writes
   WAITING_FOR_PICKUP over RETURNED.
6. `DeadlineFollowsPolicy`: a confirmation that read T3 before an
   administrator changed it writes the old deadline after the re-dating, which
   did not see the package; nothing brings it back to the policy.

Seen while modelling, and taken by the modules, where the properties leave it
room:

- a package revived by 5. counts as stored although its return has freed the
  box, which the next shipper is offered (StayWithPayments);
- an intent without a kiosk relabels the order that a call of the device has
  read: its fee is added by the remote completion and again when the kiosk opens
  the box (Payments, `relabelled`);
- two intents that both find no pending order create one each for the same fee;
  if both are paid, both are counted (StoragePricing, `overlapped`);
- what was paid is deducted before the cap is applied, so the cap bounds each
  request for a fee and not the payments of the stay;
- with free hours of the plan that end within a row, `buildPricingTiers`
  publishes a surcharge for hours that `calculateStorageFee` leaves free;
- an announcement of spaces only is dropped by the unordered `insertMany` without
  an error, emitted, pushed and reported as sent (Notifications, `DropBlank`);
- an SMS whose answer is lost is delivered and gives its slot back, and the next
  one follows at once (Phones, `AnswerLost`);
- two subscription payments in flight at once may extend the plan once, and
  the `confirmPayment` of a payment has no caller;
- a webhook without any transaction id is given a random one, so a repeat of it
  is counted again;
- a box claimed before a restart and not yet linked stays OCCUPIED; a payment
  that was PROCESSING at a restart gets no invoice;
- two unlocks in the same instant both pass the cooldown and both open;
- two packages may get one PIN, when both drop-offs look before either is
  stored; two logins may use one recovery code, or the later write bring a used
  one back;
- the re-dating after a change of T3 marks packages OVERDUE without telling
  their residents, the hourly job only tells those it marks itself;
- a station whose boxes could not be inserted stays without boxes, since its
  code is then taken.

## Not modelled

- In Payments: `confirmPayment`, which nothing calls; transfers without any
  transaction id; the `expiresAt` of orders, which nothing tests; QR codes.
- In users and buildings: `updateProfile` and the avatar, whose fields nothing
  else reads; `create` and `remove` of a building and its bank account; listings.
- In mqtt and notifications: `publishPaymentRequired` and
  `notifyDepositResult`, which store nothing; who is in which socket room, since
  nothing is kept for a client that was not there; the words of mails, SMS and
  pushes.
- Inference on images (any outcome is possible), hashes, tokens and their
  signatures (a request presents what compares), the broker, mail, SMS, push and
  storage services (sent, refused or unknown is a choice of the action).
- Queries and their pagination, DTO validation, filters, Swagger documents and
  the application shell: no state that a property could be about. Access
  checks decide whether a request starts, not what it writes, except where
  IssueDesk needs them.

## What remains

The kiosk's claim of a package and its fee, and the money of orders, on the
documents of DepositPickup: StayWithPayments has the one write of the payments
that can undo the end of a stay. Two intents of one stay with credit carried
over between their orders: StoragePricing pays orders in full, Payments carries
credit for any fee.
