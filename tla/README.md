# EventGate API: TLA+ models, checks and proofs

EventGate sells tickets: organizers publish events with ticket tiers, attendees save
them, reserve, pay through a hosted payment gateway (SSLCommerz) and are checked in at the
door; cancelled or late purchases are refunded; reminders, waitlist alerts and links go
out by mail. This directory holds TLA+ modules for its state machines, the TLC runs that
check them, and TLAPS proofs. Paths below are relative to the repository, and
`orders.service.ts` and its like are under `src/modules/`.

- [Inventory of the system](#inventory-of-the-system)
- [Modules, state and actions](#modules-state-and-actions)
- [Runs, bounds and what they show](#runs-bounds-and-what-they-show)
- [Fairness](#fairness)
- [Proofs](#proofs)
- [Where the code and its documents disagree](#where-the-code-and-its-documents-disagree)
- [Abstractions, and what is not modelled](#abstractions-and-what-is-not-modelled)
- [Plan](#plan)

## Inventory of the system

All durable state is in PostgreSQL. Every mutation is one `SERIALIZABLE` transaction,
retried on conflicts (`src/lib/transaction.ts`), and the financial ones also lock the
rows of an order in a fixed order (`src/lib/financial-locks.ts`). What happens *between*
transactions is where the difficulty lies: calls to the gateway, callbacks, background
workers with leases, and lists read before the transactions that use them.

| Component | State it keeps | Operations that change it | What makes it correct |
|---|---|---|---|
| Orders and reservations (`orders`) | order status, 15-minute reservation, `reservationReleasedAt`; the tier's reserved and sold counters | create, cancel, expire | units are taken and given back exactly once; nothing is oversold |
| Checkout (`payments/checkout.service.ts`) | payment attempts, idempotency records | prepare, call the gateway, record its answer | one attempt in progress per order, whatever answers are lost |
| Payment verification (`payments/payments.service.ts`) | attempts, payment events, orders, tickets | callbacks and IPNs, reconciliation, fulfilment | every capture buys its order once or is refunded; a replayed capture does neither |
| Refunds (`refunds`) | refunds, activities | request, review, start, reconcile, retry, automatic refunds | one refund of a capture at the provider; the order follows the provider's confirmation |
| Events (`events`) | event status | draft, publish, edit, cancel, complete, delete | cancellation reaches every pending and paid order |
| Ticket tiers (`ticket-tiers`) | capacity, sales window, pause | create, edit, delete | capacity never falls below what is taken |
| Check-in (`tickets`) | ticket status | scan | nobody enters on a purchase that is being refunded |
| Job queue (`src/jobs`) | jobs with leases and failure counts | schedule, claim, renew, finish, retry, fail, recover, reset | leases exclude, no work is forgotten, no job is stranded |
| Waitlists (`waitlists`) | entries, availability waves | join, leave, announce, fulfil, close | stock never returns without a wave that covers everybody waiting |
| Notifications and email (`notifications`) | notifications, deliveries with leases, verification links | create, read, deliver, retry, verify | no mail is sent twice; every delivery ends |
| Saved events and reminders (`saved-events`) | saves, reminder jobs, event versions | save, unsave, refresh, send | every save and booking keeps the reminders it calls for, and no others |
| Discovery cache (`public-events`, `src/lib/redis.ts`) | versioned cache entries | fill, invalidate | no stale entry after an invalidation |
| Sessions and passwords (`auth`) | refresh-token families, reset links | sign in, link, rotate, revoke, reset, change | one live token per family, reuse revokes it; a password is replaced only by its owner |
| User administration (`users`) | roles, status | promote, demote, suspend, delete | an active administrator remains; unfinished events keep an owner |
| Reports, recommendations, AI search | nothing durable but an AI quota | read; operators requeue jobs | (queries) |

Interactions. Orders, payments, refunds, cancellation and expiry all write the tier's two
counters. Payments and cancellation create refunds in the transaction that makes them
necessary (`ensureCaptureRefund`). Cancelling an event voids its tickets and enqueues one
job, which then works through the orders, a batch at a time. The workers' passes schedule
expiry, reconciliation, refund, completion and delivery jobs from the state of the tables.
Whatever gives units back records an inventory release, which may open a waitlist wave;
a payment fulfils the buyer's entry and plans his reminders. Every change of an event or a
tier cancels the planned reminders and has them planned anew. Waves, reminders and links
become notifications, whose deliveries are jobs of the same queue. Suspending an account or
replacing its password revokes its sessions.
`PROJECT.json` lists each component with its status, and every hazard with its line.

Hard behaviours: two attendees racing for the last units; a capture verified after the
reservation expired, after the order was cancelled or the event started; callbacks lost,
repeated and reordered; a second attempt captured for the same order; a lookup that is
stale when recorded; refunds whose first answer is lost or late; a scan racing a refund or
a cancellation; cancellation batches working from stale lists, perhaps twice; workers that
crash or outlive their leases; mails accepted unheard; batches that page through rows while
others are written; checks made before the transaction that relies on them (passwords,
roles, accounts).

## Modules, state and actions

| Module | Models |
|---|---|
| `Ticketing` | the rows of one published event with one tier (the shared VARIABLES), and the domain rules read by all services: capture, refund eligibility, admission, `ensureCaptureRefund` |
| `OrdersService` | `createOrder`, `cancelOrder`, expiry and release for cancellation, edits of a published tier, and the clock |
| `PaymentsService` | checkout in its three steps, the gateway, reconciliation and the five outcomes of `fulfillValidatedPayment` |
| `RefundsService` | request, review, retry, claim, first answer and reconciliation of refunds |
| `EventsService` | cancelling and completing the event, the cancellation job, check-in |
| `Booking` | the four services composed: `Init`, `Next`, fairness, all properties, the refinement mapping |
| `Inventory` | what `Booking` promises of stock: orders hold, buy and return units of a capacity |
| `Ledger` | what `Booking` promises of money: a payment buys once or is owed, what is owed is returned once, and only a payment that is kept lets anybody in |
| `JobQueue` | job rows, workers' passes, leases, failures and resets |
| `Sessions` | accounts, refresh-token families, passwords and reset links, administrators |
| `Grants` | what `Sessions` promises: a grant is opened for an entitled account, carried by one token at a time, and never reopened |
| `EmailDelivery` | the email deliveries of one account, their workers and the mail provider |
| `Mailbox` | what `EmailDelivery` promises: a mail goes out at most once, ends are final, SENT is true |
| `Waitlists` | one tier's stock, orders, waitlist and waves |
| `EventPlanning` | the actions that plan, publish, change and end one event and its tiers, and the accounts that manage it |
| `Reminders` | extends `EventPlanning` with saves, bookings, reminder jobs and their refresh: `Init`, `Next`, all properties of both |
| `MCBooking`, `MCJobQueue`, `MCSessions`, `MCEmailDelivery`, `MCWaitlists`, `MCReminders` | instances and bounds for TLC |
| `BookingProofs`, `PurchaseProofs`, `LedgerProofs` | stock and attempts; captures, purchases, refunds, admission and cancellation; the ledger |
| `JobQueueProofs`, `SessionsProofs`, `EmailDeliveryProofs`, `WaitlistsProofs`, `RemindersProofs` | theorems of the module each is named after |

One transaction is one action, with its guards, early returns and every write of the
core tables. A call outside a transaction is split where the code awaits it:

- *Checkout* is `PrepareCheckout` (attempt `INITIATING`), then the gateway's own steps,
  then `CheckoutReady`, `CheckoutRejected` or `PaymentUnresolved` for the recorded answer.
  The recording checks the attempt's status as the code's `updateMany` does, so a
  verification may overtake it.
- *The gateway* is external and modelled from the adapter: a page may be declined and
  tried again; a capture is final; a validation may carry a bank transaction that
  an earlier capture already used (`bankTran`). Callbacks are not stored: a validated
  callback is a possible `Fulfil` in any later state, so loss, duplication and reordering
  are all included. A FAILED lookup may be recorded after a later capture
  (`ReconcileFailed` looks at `declined`, what the gateway has ever reported).
- *A refund* is `ClaimRefund`, then `RefundAccepted`, `RefundRejected` or `RefundUnclear`
  for the first answer, applied only to the claim it belongs to (`initiating`), and, in any
  order with those, the outcomes of status polling.
- *The cancellation job* is `ListPendingCaptures`, one `DispatchRefund` per listed order,
  `AbandonRun` and `FinishCancellation`. `listed` is deliberately stale and may be in the
  hands of two runs at once.

Time. `clock` has the five phases the rules distinguish (more than a day before the start,
the last day, doors open, started, ended). A reservation is `fresh` in the phase it was
made in, then `carried`, then `lapsed`; it can lapse at any moment. `onSale` stands for
the sales window and the pause switch together.

The refinement mappings are at the end of `Booking`, `Sessions` and `EmailDelivery`. An
order's `hold` in `Inventory` follows from its status. In `Ledger`, a payment is an
attempt: its `money` follows from the attempt, its order and its refund (`MoneyOf`), its
`transaction` is the one of its capture if it was recorded (`TransactionOf`), `sent` are
its refunds that are, or may be, at the provider (`SentOf`), and `inside` the tickets that
are checked in. Callbacks, clocks, workers and the cancellation job disappear. In `Grants`,
a family of sessions is the grant named by its first row, its `token` the live rows of the
family (`TokensOf`), and who is entitled is who is ACTIVE. In `Mailbox`, the `outcome` of a
notice is its delivery's status with PENDING, SENDING and their leases as one (`OutcomeOf`),
and `sent` the notices of which the provider accepted a mail.

`JobQueue` has, per job, the row's columns and `work`, the batches of domain work behind
it; per worker, where it is in `runMaintenance`. `StartPass` is the recovery statement,
`ReadCandidate`/`Schedule` the scheduler's query and its later upsert, `Claim` is
`claimNextJob`. `WorkOn` looks at the lease only for the jobs of reminders (`ReminderJobs`),
whose handlers write under it (`leaseWhere`); the others do not, so that two workers do work
on one job at once. `CancelReminderJob` is what attendees and organizers do to a reminder's
job, running or not, when what it was planned from changes: it ends a live lease, and the
worker finds out only when it comes to write. `Return`, `Yield` and `Throw` are the three ways out
of `processJob`; `FinishJob` and `RetryOrFailJob` record them under `ownedLease`. `Crash`
may come at any step. `ReadApproved`/`ClaimRefund` model the one handler whose work can
come back: `reconcileRefund` reads APPROVED before its claim, and the claim accepts FAILED.

`Sessions`. A session row is a member of `Sessions`, a family is named by its first row, and
`owner`, `family`, `expires` and `live` are its columns. `proof` is what a request in flight
knows: `VerifyPassword` is the comparison that `login` and `changePassword` make before
their transactions, which may run at any later time, or never (`GiveUp`). `changePassword`
compares the hash again inside (`MayChange`); `createSessionForUser` reads only the
account's status again, so a sign-in whose password was verified before a change still
opens a session after it. `Rotate` may be repeated by a client that lost the answer;
`CloseFamily` is what any refused refresh and a sign-out do. The actor of `Deactivate` is
an administrator who may have been suspended since the request was admitted.

`EmailDelivery`. A delivery has the row's status, attempts and lease; `retry` says that
`nextAttemptAt` is set, and the time of a backoff passes by itself. `ClaimDelivery`, the
provider's step and `Record` are the three parts of `deliverNotification`, with the call to
the provider outside any transaction; `EndDelivery` is its branch that gives up. The
provider may accept and not be heard, or receive a request only after the call has timed
out (`travelling`). It sends nothing new for a key it remembers (`known`) and forgets a key
after 24 hours; the code stops retrying after 23, hence `KeyForgotten` waits for `closed`
and for calls on their way. A lease (90 s) outlives every call (12 s), so one that runs out
belongs to a dead or suspended worker and costs the delivery's job a failure.

`Waitlists`. `RecordInventoryRelease` is the decision of `availability.service.ts` and is
part of every action that gives units back. A new wave takes everybody in `line` (`inTime`)
and its cursor is `passed`; `DispatchWave` is one batch with its cursor, one transaction
fenced by the job's lease. `Fulfill` is the payment of a reservation in time, of a lapsed
one and of an EXPIRED order. A lapsed one releases its units and takes units again
in one transaction, which opens no wave; if none can be taken the payment is refunded, and
that is a `Release`, with its wave.

`EventPlanning` and `Reminders`. `RequestCreation` is what `authorize` lets through,
`CreateEvent` the transaction that reads the role again. `start`, sales windows and `clock`
are instants; an event ends an instant after its start. Every `ChangeEvent` is the change
together with `refreshEventReminders`: all planned reminders are cancelled (a job of an
earlier version does nothing when it runs, so `job` holds those of the current one) and a
refresh starts. The refresh reads saves, then bookings, `Batch` rows at a time behind a
cursor (`behind`), in the order of random ids. A booking is paid, contested by a refund
request, used (`CheckIn`, from two hours before the start, of all its tickets) or voided;
`Holder` is the one who has an ACTIVE ticket. `SendEventReminder` writes the reminder if it
is still relevant, for which the saved reminder of the day before looks for a holder
(`Suppressed`) and may run until the start. The initial states include an event, with paid bookings, that was
published before the tables of the reminders existed, the case
`bootstrapReminderJobs` is for.

## Runs, bounds and what they show

| Run | Instance | Distinct states | Shows |
|---|---|---|---|
| `booking_capture` | one order of one ticket, two attempts, one refund request | about 340 000 | `CaptureSettled`, `PurchaseBacked`, `AdmissionExclusive`, `TicketsKept`, `RefundFollowsProvider`, `OneActiveAttempt`, `CancellationComplete`, `ImplementsLedger`, `TypeOK` |
| `booking_stock` | two orders of one and two tickets, capacity 2 growing to 3, one attempt each | about 213 000 | `InventoryAccounting`, `ImplementsInventory` |
| `booking_live` | one order, one attempt, no constraint | about 26 000 | `PendingEnds`, `CancellationSettles`, `CaptureRecorded` |
| `job_queue` | two workers, a one-off job, a recurring one and a reminder's, two of them at a time, two failures, two batches | about 698 000 | `LeaseRespected`, `SuccessMeansDone`, `NeverStranded`, `TypeOK` |
| `job_queue_live` | two workers, one recurring job | about 5 000 | `WorkFinishes` |
| `sessions` | two administrators, a user, three sessions, two links, two password changes | about 119 000 | `OneLiveToken`, `InactiveSignedOut`, `PasswordProved`, `AdminRemains`, `ImplementsGrants`, `TypeOK` |
| `email_delivery` | a link mail and an alert, two workers, two attempts, two job failures | about 321 000 | `OneMail`, `ImplementsMailbox`, `DeliveryEnds`, `TypeOK` |
| `waitlists` | two members, one of whom buys, capacity 1 growing to 2, batches of one | about 285 000 | `WaveCoversWaiters`, `HoldersDoNotWait`, `AlertArrives`, `WaitlistEnds`, `TypeOK` |
| `reminders` | an organizer, one tier, two attendees, four instants, batches of one | about 195 000 | `OwnersKeepTheirEvents`, `SalesFitTheEvent`, `NothingForgotten`, `OneDayReminder`, `RemindersPlanned`, `TypeOK` |
| `order_lifecycle`, `ticket_lifecycle` | as `booking_live` | violated within seconds | two disagreements with the documents, below |
| `uncertain_send` | one notice, three attempts | violated within seconds | a disagreement with a test, below |

The bounds, and why they are enough:

- *One order, two attempts* (`booking_capture`). The properties of captures and refunds
  speak about one order; orders meet only in the counters, which the other run covers. Two
  attempts are the fewest with a duplicate capture, a replayed bank transaction, and a new
  attempt beside an unresolved one. The constraint `OneInTrouble` lets at most one attempt
  be reported as failed and one refund at a time be failed or uncertain; without it
  the same troubles are combined for both attempts. `MaxRequests` is 1 where the code
  allows 3: a second request needs a rejection and meets the same guards.
- *Two orders that do not fit together* (`booking_stock`), 1 + 2 units for 2, and a
  capacity that grows to 3 so that they do. `BeforeTheStart` leaves out what
  `booking_capture` covers: attendee requests, provider failures and lost answers of
  refunds, declined payments and admission, of which no step but a confirmed refund moves
  stock; and the time after doors open, which only closes ways to move it. Late captures,
  reacquisition, cancellation and refunds that return stock all happen in it.
- *Two workers, two of three jobs* (`job_queue`). A stale worker, its successor and a
  conflict between them need two workers. Jobs share only the workers, so that at most two
  of the three have work or a row at once (the constraint `TwoJobs`); the liveness run has
  the recurring job only. Failure limit 2 instead of 10 (5 for mail) still has a counted
  failure that does not end the job.
- *Two administrators and a user* (`sessions`). Two administrators are the fewest who can
  remove each other. Three sessions make a family of three tokens, or a family beside
  another one. Tokens live for one instant of two, so that a family can end. Rows of the
  same kind are interchangeable (`SYMMETRY RowsAlike`; the run checks no liveness). The
  constraint `OthersSignIn` keeps administrators from signing in and changing passwords:
  only their status matters to the others.
- *A link mail and an alert* (`email_delivery`): the two kinds of mail with different
  rules of relevance. Two attempts give a lost or late first answer and a retry. The
  constraint `OneAtATime` leaves out states in which both are in motion: deliveries share
  only the account.
- *Two members, one buyer* (`waitlists`). Two members and batches of one are the fewest
  for a wave that is superseded between two batches; the second member only joins and
  cools down. One unit growing to two separates a wave's opening from a release into
  stock that is already there.
- *Two attendees, two possible starts* (`reminders`). Dates can move forward and back
  around the 24-hour and the 2-hour mark (`Day` 2 and `Eve` 1 instants). One attendee does
  everything, the other saves the event, which is enough for a row behind the cursor and a
  row before it. `Bounds` ends the run an instant after an attended event, keeps the
  accounts of organizers still while somebody attends, and lets administrators create an
  event only where no attendee is involved.

The constraints of `email_delivery` and `reminders` also apply to their liveness
properties: these are shown for behaviours that stay within the bounds.

`CHECK_DEADLOCK FALSE` is set where the system may stop: an event that is over, with every
order settled, has no further step, nor have sessions and links that are used up, a
waitlist after the event, or a delivery that has ended. `JobQueue` never stops, and its
runs check for deadlock.

Every property of every passing run has a mutant in `PROJECT.json`, a small plausible
change of the code (a dropped guard, a wrong comparison, a missing status) under which TLC
finds the property violated. The mutated definitions stand beside the originals.

## Fairness

`Booking!FairSpec` is fair only to time and to the maintenance worker. Weak fairness of
`Lapse` is time passing; of `ExpireOrder`, `ReleaseForCancellation`, `ListPendingCaptures`
and `FinishCancellation` it is the worker, which runs a pass every minute
(`maintenance-runner.ts`) and schedules these jobs from the tables. `DispatchRefund` has
strong fairness: each run that is lost takes its list with it, but not every run is lost.
`ReconcileCaptured` says that the lookup of a captured payment is answered in the end.
Attendees, organizers, administrators, callbacks and the gateway have no fairness.

`JobQueue!FairSpec` supports that assumption. It says nothing about the time a pass
takes; it assumes workers keep starting passes, that time passes (`RunAtReached`,
`LeaseExpires` for a lease nobody renews), and that crashes and spent budgets, which may
recur for ever, do not strike every time at the same step of the same job (strong
fairness). `WorkFinishes` then gives what Booking assumes, up to one case: a job that has
failed ten times stays FAILED until an operator retries it. Booking's liveness assumes
the limit is not reached.

`CaptureRecorded` excludes attempts the provider once reported as failed. For these the
code has no reconciliation: after a FAILED lookup has been recorded only a late callback
can still settle a capture made on the same page.

`EmailDelivery` is fair to the calls of workers (each ends, with an answer or a timeout),
to the recording of answers, to the job that claims or gives up a delivery, and to the end
of leases. The job of a delivery is retried until its failure limit, which is why
`DeliveryEnds` has the alternative of a failed job. `Waitlists` is fair to the wave's job
and to the closing of waitlists, which a worker's pass finds; `Reminders` to the refresh
job. These are jobs of `JobQueue`, whose `WorkFinishes` is what is assumed of them.
`AlertArrives` ends when stock or interest is gone first. `RemindersPlanned` excludes an
organizer who restarts the refresh for ever. Accounts, members, organizers, the mail
provider and crashes have no fairness.

## Proofs

TLC checks small instances; the theorems hold for every value of the constants, under
the named ASSUMEs of the modules (finitely many orders, attendees and administrators,
positive quantities, limits and batches, an initial capacity within its bound, null values
outside the sets they extend). All theorems are safety.

`BookingProofs`, for any number of orders of any size, attempts and capacities:

- `TypeCorrect`: type correctness, one lemma per service.
- `AccountingExact`: `InventoryAccounting`, the counters are exactly the units of the
  orders that hold them and fit the capacity. It is not inductive alone: a release is
  guarded by `reservationReleasedAt`, so the proof needs `ReservationState`, which relates
  that flag to the order's status. `StockInv` is `TypeOK`, `ReservationState` and
  `InventoryAccounting` together. The argument has two halves. `StockStep` classifies
  every step of every service as one of seven changes of the stock (an order takes units,
  gives them back, sells them, sells them late, takes a sale back, the capacity grows, or
  nothing moves). `StockChangeKeepsAccounting` shows that each keeps the books, by
  `UnitsAdd` and `UnitsRemove`, which count the units of a set of orders with one order
  more or less.
- `BookingImplementsInventory`: every step of the services is a step of `Inventory` or
  leaves it alone. `RoomFits` turns the counters' test into the abstract one.
- `AttemptsExclusive`: `OneActiveAttempt`, which is inductive with `TypeOK`.
- `CountersNeverFallShort`: `CountersCover`. Units are taken from a counter by a conditional
  update (`"reservedQuantity" >= quantity`), and a miss makes the transaction fail. A counter
  always covers the order, so no release and no refund is ever refused for it.
- `OrdersMoveOn`: `OrderMoves`, the transitions orders really make (see below).

`PurchaseProofs`, for the same instances, proves `CaptureSettled` (`NoCaptureLost`),
`PurchaseBacked` (`PurchasesAreBacked`), `AdmissionExclusive` (`AdmissionIsExclusive`),
`OneRefundAtProvider` (`RefundsSentOnce`), `RefundFollowsProvider` (`RefundsFollowProvider`)
and `CancellationComplete` (`CancellationsComplete`). None is inductive, and they need each other: a purchase is backed
because a bank transaction settles once, a refund is sent once because an order has one
purchase, admission excludes refunds because the tickets follow both. Their common
invariant `PurchaseInv` has eight named parts:

- `Captures`, `Purchases`, `RefundRows`: what the rows of attempts, orders and refunds say
  of each other, in particular which refund belongs to which capture and why it exists;
- `CapturesAnswered`, `OneRefundAtProvider`, `InsideExclusive`, `RefundFollowsProvider`:
  the properties, the first in its inductive form;
- `CancelledEvents`: what cancelling has done at once, and what its job has left to do.

`PurchaseInvariant` shows it inductive relative to `TypeOK`. Each step of a service is first
reduced to what it does to these rows (`OrderStepMoves`, `PaymentStepMoves`,
`FulfilMoves`, `RefundStepMoves`, `EnsureCaptureRefundMoves`; a fulfilment replays a
capture, repays it or buys with it), so that each part of the invariant is argued over a
few moves instead of every action. `AdmissionExclusive` has a second half beside
`InsideExclusive`: an approved refund blocks the tickets at once (`ApprovalBlocksEntry`). It
is proved on top of the invariant (`StepBlocks`): the only step that admits anybody, a scan,
finds no refund beyond its request, and no refund is approved while a ticket is used.
`TicketsAreKept` proves the converse, `TicketsKept`: tickets are voided only with their
event, or with a decision to refund the capture that bought them. For each step either nothing
undecided becomes decided (`KeptAlone`), or the refunds of one capture do and every other
purchase is left alone (`KeptElsewhere`). `TicketsMoveOn` and `RefundsMoveOn` prove the transitions of tickets (`TicketMoves`) and
refunds (`RefundMovesOn`).

`LedgerProofs`: `BookingImplementsLedger`. Besides `PurchaseInv` the mapping needs that a
settled capture names a capture that exists (`TransactionsKnown`; both are `LedgerInv`).
Every move of the previous reductions is shown to be one action of `Ledger` or to leave it
alone: a fulfilment is a `Settle`, which buys, owes or copies; a refund that becomes due for
a purchase is a `GiveUp`; a claim is a `Send`, an answer a `Refused`, a `PayBack` or
nothing; cancelling the event empties it. That a capture is repaid once is thereby a
property of the whole history, not of a state.

`JobQueueProofs`, for any number of workers, jobs and failures:

- `TypeCorrect`, `SuccessIsDone`, `JobsNeverStranded` and `LeasesHold` prove `TypeOK`,
  `SuccessMeansDone`, `NeverStranded` and `LeaseRespected`. The inductive invariant
  `QueueInv` adds `TasksKnown`, what a worker may rely on although its lease is gone:
  its job exists, and if its handler returned, the job's work cannot come back unless
  it is a refund's; and `CancelledIsVoid`: only reminders' jobs are cancelled, and they have
  no work left. `LeaseRespected` has an exception, which the code has too: a
  reminder's job may be cancelled under a live lease. What then protects the change is its
  second half: no worker, late or not, brings a cancelled job back or does its work.

`SessionsProofs`, for any users, sessions and links: `OneLiveToken`, `InactiveSignedOut`,
`AdminRemains`, `RevokedFamilyStaysRevoked`, `PasswordProved` and `ImplementsGrants`
(`SessionsImplementGrants`, with `FamiliesNamed`: a family is named by a row that is used,
and by which its owner is known). `SessionsInv` adds to
them that a used row and its family's first row belong to the same account (`RowsOwned`),
and that a usable link was asked for under the password the account still has
(`LinksCurrent`), which is what makes a reset link prove a password. `RowSteps` shows that a
step signs in, rotates or revokes; the properties of sessions are proved for those three.

`EmailDeliveryProofs`, for any workers, notices and limits: `OneMail` (`MailsNeverRepeat`),
`EndedStaysEnded` (`EndsAreFinal`) and `ImplementsMailbox` (`DeliveryImplementsMailbox`,
with `OutcomesTrue`: whoever has heard that a mail was accepted, or wrote SENT, is right,
and a delivery without an attempt has sent nothing). The invariant behind `OneMail` (`KeysRemembered`)
says that a mail was accepted at most once, and that once it was, the provider remembers
its key or has forgotten it after the delivery's window closed, with no request for it left
anywhere; a closed delivery is not claimed again. `EndedStaysEnded` follows from the fence
of `Record` and the states a claim accepts.

`WaitlistsProofs`, for any users, capacity and batches:

- `WaitlistTypes`: `TypeOK`, of which the line of members needs most: joining again moves a
  member to the end, and `RemovalKeepsOthers` and `AppendAddsOne` show about sequences that
  the line keeps each member once and nobody is lost. `UnitsOfOrders` counts the units that
  orders take and give back.
- `WavesCoverWaiters`: `WaveCoversWaiters`, inductive with `TypeOK`. Stock returns either with
  a new wave, which covers everybody in the line (`WaveOpened`), or beside stock that was
  there, for which a wave already stood (`ReleaseCovers`); a wave's job ends only with
  a batch that held everybody left (`LastBatch`).
- `HoldersNeverWait`: `HoldersDoNotWait`. The proof leaves the rows of a batch open:
  whichever they are, an entitled member is not alerted.

`RemindersProofs`, for any organizers, tiers, attendees, dates and batch sizes:
`OwnersKeepTheirEvents`, `SalesFitTheEvent`, `NothingForgotten` (`NoReminderForgotten`) and
`OneDayReminder` (`OneReminderADay`). The last speaks of attendees with a valid ticket:
after a booking was voided, or all its tickets were scanned, a late job of the saved
reminder finds no ACTIVE ticket and is written beside the booking's reminder of that day.
`IInv` adds that an event not yet created has no tiers (`NoTierBefore`), that the cursor is
at its start when no refresh runs (`CursorAtStart`), and `OneDay`: once the saved reminder
is written, its time has come, the published event keeps its dates, and the booking's
reminder of that day has no job and gets none, unless the booking is used or voided
(`Spent`), from which no booking comes back.

Every safety property of the runs is proved, and these that no run lists, because a
refinement that a run does list says more: `OneRefundAtProvider`,
`RevokedFamilyStaysRevoked`, `EndedStaysEnded`. `CountersCover`, `OrderMoves`, `TicketMoves` and
`RefundMovesOn` are stated as theorems only; `MCBookingCapture.cfg` can check them as well.

Only model-checked: liveness. Temporal properties under fairness are out of the provers'
reach (ENABLED is).

## Where the code and its documents disagree

- `docs/business-rules.md:6` ends an order's life at EXPIRED. `payments.service.ts:231`
  pays an expired order when its capture is verified late and stock remains
  (`OrderLifecycle`, run `order_lifecycle`).
- `docs/business-rules.md:7` ends a ticket's life at CHECKED_IN. `events.service.ts:387`
  voids used tickets too when an event is cancelled after its doors opened, and its refund
  then marks them REFUNDED (`TicketLifecycle`, run `ticket_lifecycle`).
- What holds instead of these two lifecycles is stated by `OrderMoves` and `TicketMoves` of
  `Booking`, and proved.
- `tests/notifications.test.ts:174` says that an uncertain send is not relabelled as
  cancelled after consent is withdrawn. It tests one attempt. When a first attempt's
  outcome is unknown and a second is turned away by a busy provider (429),
  `notification-delivery.ts:211` records PENDING; if consent is then withdrawn,
  `notification-delivery.ts:123` takes PENDING for never sent and writes CANCELLED, although
  the mail may have been accepted (`UncertainNotCancelled`, run `uncertain_send`).

## Abstractions, and what is not modelled

- Amounts, currencies, names, QR tokens, messages and audit rows are left out: no control
  depends on them beyond equality checks of the code with its own snapshots.
- Requests are modelled without their idempotency keys; a commit whose acknowledgement is
  lost is not distinguished from one that is received.
- `financialReviewRequired`, which only a data migration sets, is false throughout.
- Side effects that other components own are left out of Booking's transactions; the
  waitlist's part of releases and payments is in `Waitlists`, the reminders' part of
  payments, refunds and cancellation in `Reminders`. Cache invalidation is left out.
- `PaymentEvent` rows are reduced to the fulfilment they lead to.
- In `JobQueue`, claims are not ordered by `runAt`, the report row `MaintenanceState` is
  left out, as is the retention of expired sessions and keys. A cancelled job's work is void
  at once; the plan that replaces it has jobs of its own.
- One event with one tier in Booking: an order has exactly one of each, and no transaction
  of these services touches two. `Reminders` has any number of tiers.
- `Sessions`: hashing, token signatures, Google's check of its tokens, access tokens,
  demonstration accounts and the retention of old rows are left out; the limit of one link
  a minute and five an hour is a free choice to refuse. The branch of `refresh` whose
  update finds no row cannot be reached inside a serializable transaction.
- `EmailDelivery`: recipient and sender are pinned on the first attempt and not
  distinguished; password-reset mails have the shape of link mails; the change of signing
  keys, the configuration without a mail provider, in-app rows and their read marks, and
  the fan-out of cancellation notices are left out.
- `Waitlists`: the generation number of an entry is left out, as are job failures, which
  belong to `JobQueue`; the closing job's batches of 100 are one step. An extension of a
  sales window that has ended opens no wave; `extended` marks that case, and
  `WaveCoversWaiters` excludes it. A user has one order at a
  time, and the lease of a wave's job is `JobQueue`'s. The branch that fulfils a holder found by the
  dispatch is kept in the model but `HoldersDoNotWait` shows that it is never needed.
- `EventPlanning` and `Reminders`: text, images, prices and listings are left out. The
  attendee's role and consent are a free choice when a reminder is sent, and `bookingUpdates`
  is on. One booking per attendee. An edit between the 24-hour mark and the reminder's job
  loses that reminder, and an edit after a reminder was written cancels its mail without a
  new one: `Planned` speaks of reminders whose time is still to come. Guards about
  unfinished events cover the role of organizers only, as the code's do.
- The HTTP layer, validation schemas, JWT signing, hashing, report queries,
  recommendations and prompts to language models have no state worth a model.
- Not modelled at all: the discovery cache (version and generation checks around a fill,
  with Redis as an external store), idempotency keys, the order of row locks, the
  `reconcileRefund` that stalls with an APPROVED status it read before, and a refund whose
  commit acknowledgement is lost. `PROJECT.json` lists their hazards without a property.

## Plan

Done: the ticketing core with its abstract inventory and ledger, the job queue, sessions and
passwords with their grants, email delivery with its mailbox, waitlists, event planning and
reminders; proofs of every safety property and every refinement of the runs. Open, in this
order:

1. `RefundSettlement`: one refund with two workers, its provider reference, the stale
   APPROVED read, the lost commit acknowledgement (which needs a claim that is accepted but
   not acknowledged), and the rule that only an administrator's retry restarts a confirmed
   failure (`capture-refund.ts:51`).
2. `IdempotentRequests`: keys of orders and checkout, the P2002 fallback, expiry of keys.
3. `DiscoveryCache`: fills, versions and invalidations with a Redis that may be down.
4. `LockOrder`, which compares the order of row locks with the one `docs/erd.md` gives.
5. An abstract queue that `JobQueue` implements.
