# Verification of the SafeMove API (gp-valise-api)

SafeMove is a Laravel backend for a marketplace in which travelers sell space in
their luggage, senders book it, and the platform keeps the money in escrow until
the parcel is delivered.  This directory holds TLA+ models of its core, the TLC
configurations that check them, and TLAPS proofs about them.

## 1. Inventory of the system

| Part | State | Operations | Why it is hard |
| --- | --- | --- | --- |
| Booking lifecycle (`app/Models/Booking.php`, `BookingStatusEnum`, `app/Actions/Booking`) | `bookings`: status, payment window, escrow date, `disputed_at`, soft delete | reserve, pay, confirm, expire, cancel, delete, hand over, deliver | most operations lock the booking row, the webhook and `MarkPayoutCompleted` do not |
| Payment, refund, payout (`app/Actions/Transaction`) | `transactions`: type, status, provider reference | charge, refund, admin refund, create payout, complete payout | the provider is called inside the database transaction; no unique index; several entry points for each kind of row |
| Webhooks (`WebhookController`, `ProcessPaymentWebhook`, `HandlePaymentWebhook`) | `webhook_logs`, the queue | deliver, journal, apply, retry, give up | duplicates, reordering, early events, crashes between two transactions |
| Disputes (`OpenDispute`, `ResolveDispute`, `app/Actions/Dispute`) | `disputes`, messages | open, change status, resolve with refund or payout | two records (booking, dispute) that must agree; races with payouts |
| Reservation (`ReserveBooking`, trips, items, luggages) | trip capacity, `booking_items`, luggage status | reserve, edit items, edit luggage, change capacity, release | capacity is a sum over rows that other operations change without the trip's lock |
| Ledger (`LedgerWriter`, `BackfillLedgerEntries`) | `ledger_entries` | double entries for charge, release, payout, refund | idempotence by "entries exist already" |
| Amounts (`TransactionAmountCalculator`) | none | fees, payout, refund | integer rounding |
| Providers and routing (`app/Services/Payments`) | external | charge, refund, normalise webhooks | each provider names statuses and references in its own way |
| Audit chain (`AuditLogIntegrityService`) | `audit_logs` hashes | seal, verify | concurrent seals |
| KYC (`app/Actions/Kyc`) | `kyc_requests`, `users.kyc_passed_at` | submit, approve, reject | first-insert races, a partial unique index |
| Row locks | rows locked by open database transactions | every operation above that locks more than one row, by `lockForUpdate()`, an UPDATE or a foreign key | several orders of locking, no retry |
| Invitations | one row per invitation | send, accept | unlocked |
| Queue protection, monitoring | none of their own | check, alert | nothing |
| Scheduler (`routes/console.php`) | none | expire bookings every 5 min, release payouts hourly | overlapping runs |
| Notifications, accounts, plans, reports, admin panel | rows without a protocol | CRUD | nothing that needs a model |

The parts meet in the rows of the database: a request, a job or an admin action
opens a database transaction, locks some rows with `SELECT ... FOR UPDATE`, reads
others without a lock, and commits.  The production database is PostgreSQL, the
isolation READ COMMITTED, so an unlocked read sees what was committed then and may
be stale when it is used.  The provider talks to the system through the answers to
calls and through webhooks, which come late, twice, early or never.

What makes each part correct:

* money: one charge, one refund, one payout per booking; never both a live payout
  and a refund; a status never ahead of the money behind it; no payout before the
  delivery and its delay; final transactions stay final; the rows never claim more
  than the provider has done;
* webhooks: each event is applied at most once, by one job; the log tells the
  truth; every job ends;
* ledger: the books balance; no leg is written twice; what is posted is done, and
  the release, the refund and the escrow agree with the rows;
* disputes: RESOLVED is final, a decision is taken once and fits the booking, the
  history tells the truth, no message comes after the end;
* audit: the chain verifies unless two transactions overlapped;
* KYC: who has passed has an approved request;
* progress: bookings do not wait for a payment for ever; delivered bookings are
  paid out; every deadlock ends.

`PROJECT.json` lists the hazards, each at its line, with the properties aimed at it.

## 2. The modules

| Module | What it is |
| --- | --- |
| `BookingStatus` | the status machine, as a set of pairs (constants only) |
| `BookingPayment` | the core: one booking, its transactions, its dispute, and every operation on them |
| `EscrowContract` | the abstract specification: the funds of one booking |
| `BookingLedger` | `BookingPayment` with amounts and ledger entries, and the backfill that runs beside it |
| `Amounts` | the amounts, as functions of the charge and two rates |
| `WebhookInbox` | the road of a webhook event from its delivery to the row it is about |
| `DisputeDesk` | one dispute as the admins see it: status, history, messages, decision |
| `LockOrder` | the row locks of all these operations and their order |
| `Reservation` | trips, luggages and the bookings that share them, with the locks and the operations that go around them |
| `AuditChain` | audit logs inserted, sealed and committed by concurrent transactions |
| `Kyc` | the identity check of one user |
| `BookingProofs` | the theorems about `BookingPayment`, `Amounts` and `BookingLedger`, in four parts |
| `ReservationProofs`, `WebhookInboxProofs`, `DisputeDeskProofs`, `LockOrderProofs`, `AuditChainProofs`, `KycProofs` | the theorems about the other components |
| `FiniteSums` | lemmas about sums over finite sets, for the loads of the trips and the balances of the ledger |
| `MCBookingPayment`, `MCBookingLedger`, `MCWebhookInbox`, `MCDisputeDesk`, `MCLockOrder`, `MCReservation`, `MCAuditChain`, `MCKyc` | the instances for TLC |

### BookingPayment

| Variable | In the code |
| --- | --- |
| `status` | `bookings.status` |
| `window` | `payment_expires_at`: null, in the future, in the past |
| `escrow` | `escrow_releasable_at`: null, in the future, in the past |
| `deleted` | `deleted_at` |
| `dispute` | the row of `disputes` (and `disputed_at`): none, not RESOLVED, RESOLVED |
| `tx`, `lastTx` | the booking's rows of `transactions`, by id |
| `hold` | the open database transactions of webhook jobs and `MarkPayoutCompleted`: the locked row and the status read |
| `resolving` | an open `ResolveDispute` that has found a pending payout |
| `psp` | what the provider has really done |
| `todo` | the second step that `pay` (confirm) and `cancel` (refund) still owe |

An operation that holds the booking's row lock from its first read to its commit is
one action.  This is sound because every other operation either takes that lock, or
is one of the two that do not; those two are split into *Begin* (lock the
transaction, read the booking) and *Commit*, so that anything may commit in
between, and the commit writes what it decided from the stale status.  `Rollback`
ends an open transaction at any time: an exception, a deadlock victim, a crash.
`LockBooking` also demands that no `ResolveDispute` is open, and operations that
lock all transactions of the booking demand that no worker holds one.

A call to the provider that is made inside the transaction has two outcomes more
than its answer: `ChargeLost` and `RefundLost` are the cases in which the provider
has acted and the row is rolled back.  Time is abstracted to the two deadlines,
which pass at any moment.  Who may call what is left out: any request may come at
any time.  Amounts come in with `BookingLedger`; here only the zero refund rate is
seen, which decides whether a refund is tried.  `BatchSelects` is the query of the
hourly payout batch; the batch and its jobs have no action of their own, because the
job decides everything again under its locks.

`BookingPayment` takes for granted that a refund event finds its own REFUND row.
This is so with `FakePaymentProvider`, which gives each call a new reference;
`WebhookInbox` shows what happens with the references of the real providers.

### BookingLedger and Amounts

`BookingLedger` composes `BookingPayment` with `Amounts`: each action that moves money
is conjoined with what it does to `amount` (the `transactions.amount` of each row) and
`entries` (the rows of `ledger_entries`, counted by leg: row, account, direction).
An entry carries the amount of its row in everything `LedgerWriter` writes from these
callers, so a count per leg is all that is kept.  `job` is the console command
`ledger:backfill`: its five loops over the rows of one kind each, every one split into the
query, the idempotence check and the insert, between which anything may commit, as the
command locks nothing.  It may be interrupted and started again at any time; two
backfills at once are left out (section 5).

The idempotence checks are those of the code, with their different grain:
`hasExistingEntries` asks for any entry of the row, `hasExistingDebitOnAccount` for a
debit of escrow.  What the code never posts is not posted: a charge completed at once,
the refund of `AdminRefundTransaction`.

`Amounts` computes in whole numbers; PHP 8.2, which the images use, rounds halves
away from zero after it has removed the representation error of the product, so the
results are the same for rates that are whole percentages.

### WebhookInbox

`log` is `webhook_logs.status`, `job` the queue with the point each running job has
reached (`journal`, `business`, `mark`: the three database transactions of
`HandlePaymentWebhook`), `row` the status of the transactions that events are about,
`effects` a history variable that counts the commits that applied an event.
`RefOf` and `RowRef` are the provider references; `MaxTries` stands for
`retryUntil()` (10 minutes), which in Laravel takes precedence over `$tries`.

### DisputeDesk

`status`, `decision`, `assignee` and `messages` are columns of `disputes` and the number of
its messages; `history` is `dispute_status_histories`; `booking` is `bookings.status`;
`money` is what has become of the charge, in four values.  `doing` holds the operation
that an agent has open: what it locked, the status it read and what it is about to
write.  `UpdateDisputeStatus` and `AddDisputeMessage` lock the dispute's row;
`ResolveDispute` locks the booking, reads the dispute without its lock, and its UPDATE
waits for the row and then writes without looking again.

### LockOrder

The other modules take an operation as one step, or two.  Here each is the series of
locks that it takes: `First` and then `Rest`.  `op` is what a process runs and on which
booking, trip or luggage, `held` the locks it has, `want` the one it waits for.  A lock is
a row and its mode, and `Conflict` is PostgreSQL's table of them: `lockForUpdate()` takes
"update", an UPDATE "nokey", and an INSERT "share" on the rows its foreign keys point at.
The last matters where an operation has not locked the parents itself: `CreateBookingItem`
locks its booking, its luggage and its trip by inserting (migration 000006:16-26), which
is luggage before trip, the reverse of `ReserveBooking`; `UpdateLuggage` locks the
trip that it moves a luggage to; and the backfill locks the rows it posts for.  The
comment of the module says which locks are left out and why they close no circle.
A charge and a payout per booking stand for its rows of transactions: two are enough for
their order to matter.  PostgreSQL's part is external: it grants a free row to any of its
waiters and rolls one member of a circle back.

### AuditChain

A log's hash stands for the log, so `prev` is `previous_hash` as an id.  `writer` is the
open transaction that inserted a row, `sealed` and `committed` are sets of ids, and the
sequence `lastId` is not taken back by a rollback.  `beside` is a history variable: which
row was uncommitted when another transaction inserted one.

### Kyc

`requests` is `kyc_requests` by id, `passed` is `users.kyc_passed_at`, and `submit` the
submissions under way: the locking SELECT takes its snapshot (`FindExisting`), waits for
one of the rows it saw and rereads it (`LockExisting`), and the insert meets the
partial unique index (`Create`).

### Reservation

| Variable | In the code |
| --- | --- |
| `capacity`, `trip` | `trips.capacity`; the date, status and soft delete of a trip as open, closed, deleted |
| `booking` | rows of `bookings`; `NEW` is the row that an open `ReserveBooking`, which has locked the trip, is about to insert |
| `charge` | the booking's CHARGE row, as far as `ConfirmBooking` and the webhook look at it |
| `item`, `luggage` | `booking_items.kg_reserved`; `luggages.status` |
| `confirming` | a webhook has read the booking as EN_PAIEMENT, without its lock |
| `adding` | a `CreateBookingItem` has validated, without a lock |
| `touched` | history: a trip or a luggage that something other than the locked protocol has changed, and what |

`ReserveBooking` is *Begin* (the trip's lock, `BookingValidator`) and *Commit* (the
luggages' locks, the second look at their status, the inserts).  Confirmations and
hand-overs of the trip wait for its lock; cancellations, expiries, deletions,
webhooks and edits do not and come in between.  Everything the locks do not cover is
in the model too: late and stale webhook confirmations, items created, reweighed and
deleted, luggages edited and deleted, capacities changed.  The invariants hold for
the trips and luggages that none of these has touched; for the others the guarantees
are gone (section 5).  The operations of the booking that
neither read nor write a trip, an item or a luggage are one action, `OtherTransition`,
which allows more than `BookingPayment` does.

### EscrowContract and the refinement

`funds` moves from `none` to `held`, then to `owed` and `paid`, or to `returning`
and `returned` (or `blocked`, when the provider fails the refund).  `BookingPayment`
defines `funds` from the rows of its transactions and implements
`EscrowContract!Spec` (`ContractSpec`): it is checked by TLC and proved.  `BookingLedger`
implements `BookingPayment!Spec` in turn, with the entries left out of sight (proved:
`LedgerImplementsBooking`).

## 3. Runs

| Run | Question | Result |
| --- | --- | --- |
| `BookingPayment_core` | money invariants, batch against eligibility, refinement; expiry and payout happen | hold |
| `BookingLedger` | the books balance, nothing is posted twice, entries fit the rows, escrow is covered | hold |
| `BookingLedger_owed` | nothing is owed after a completed payout (LedgerWriter) | violated |
| `WebhookInbox_safety` | at most once, one owner, truthful log, final rows | hold |
| `WebhookInbox_live` | every job ends | hold |
| `WebhookInbox_swallowed` | no retryable failure is swallowed (ProcessPaymentWebhook) | violated |
| `DisputeDesk` | final, single, fitting decisions; true history; no late message | hold |
| `LockOrder` | what a deadlock needs; every operation ends | hold |
| `Reservation_safety` | no overbooking, exclusive luggages | hold |
| `Reservation_edits` | true luggage status, one notion of reservable trip, whatever is edited | hold |
| `AuditChain` | when the chain verifies; no link to a lost log | hold |
| `Kyc` | who has passed is approved; final decisions | hold |

The violated ones state what the documentation or a comment says and the code does
not do; `PROJECT.json` quotes the lines and the code.  Section 5 lists the others.

Bounds.  `BookingPayment` has two workers: its hazards are between one open
transaction and another operation, or between two open transactions on different
rows.  `MaxTx = 6` is one row more than the five types, so a duplicate row would
have room to appear; the proofs show that the bound is never what keeps it out.
There is one booking because no operation of this module touches two.
`BookingLedger` has the same instance with one backfill and two prices, 5 and 125 cents at
10 and 2 percent: with the first the provider's fee is zero and the platform's rounds up
to a whole cent, with the second both fees have halves to round.
`WebhookInbox` has three deliveries, three events (a success and a failure of the
same charge, and a refund) and two attempts: enough for a duplicate that races its
original, a retry after a crash and contradictory events at once.  `Reservation_safety`
has two trips (a luggage wanted on both), two luggages (bookings with one or two
items) and three bookings (two that follow a third's late end), and weights of one
unit against a capacity of one, so the last unit is always the contested one;
`Reservation_edits` has one trip, one luggage and two bookings, all editable.
`CreateBookingItem` has one request in flight.  `DisputeDesk` has three agents, two who
decide and one who changes the status between, six lines of history (every status and
one cycle of reviews) and one message.  `LockOrder` has two processes, the shortest
circle, two bookings of one trip, another trip and two luggages, so that circles of the
same booking, of two bookings and of two trips all occur; the proof covers the longer ones.  `AuditChain` has three transactions and four
ids: one that overlaps two others in turn, a gap from a rollback, a transaction with two
logs.  `Kyc` has three submissions at a time and five requests: the second of two crossing
ones comes after the first was approved, and is rejected and replaced.

All systems but `LockOrder` may stop (the stories of the bookings end, the queue drains,
the ids run out), so deadlock is checked in `LockOrder` only: there processes start
operations for ever, and a state without successor would be a circle nobody breaks.

Fairness.  `BookingPayment!Fairness` is weak fairness of: the two deadlines passing;
the end of every open database transaction; and the two scheduled batches
(`bookings:expire-pending` every five minutes and `escrow:release-payouts` hourly,
`routes/console.php`).  Nothing makes a user, an admin or the provider act.  The
expiry is enabled whether or not a webhook holds the charge, so weak fairness is
enough; the payout waits for the rows of the booking, and no worker can begin on a
completed charge.  `WebhookInbox!FairSpec` is weak fairness of each job's own steps:
the queue workers run.  Crashes, clashes and deliveries are not fair.
`LockOrder!Fairness`: a running process goes on and ends; PostgreSQL breaks every circle
(`deadlock_timeout`); and a row that is freed again and again is in the end granted to
each of its waiters, which is the strong fairness of `Acquire` (PostgreSQL queues the
waiters of a row).  Starting an operation is not fair.

## 4. What is proved

Every invariant and every action property that a passing run checks is also a theorem,
for every value of the constants.  What is left to TLC is the liveness (end of this
section).

### BookingPayment (`BookingProofs`, part 1)

For any set of workers and any `MaxTx \in Nat`: the type invariant, the five money
invariants, `BatchMirrorsEligibility`, `TxFinality`, and that `Spec` implements
`EscrowContract!Spec`.

The money invariants are not inductive by themselves.  `IInv` adds:

* `RowsDense`: ids are given in order, so an insert takes a free id and disturbs no
  other row;
* `HoldInv`: the row a worker holds is still PENDING, nobody else holds it, what it
  will write is backed by the provider, and the status it read was backed by a
  completed charge if it needed one.  This is why a stale write can break the
  documented finality of a status but not the money behind it: charges never leave
  COMPLETED, so a backed status stays backed;
* `ResolvingInv`: while `ResolveDispute` has the booking locked, its payout can only
  be completed by somebody else, not failed;
* `PayoutHistory`: a payout, failed or not, has left its fees behind.  `canCreatePayout`
  looks at live payouts only; it is the FEE row that keeps a second payout out after
  the first one was failed.

There is a lemma for each action or group of similar actions; `NextIInv` and
`NextMovesFunds` put them together.  `Refinement` uses `IInv` to know that a row that
changes was PENDING and that the other claims on the funds are absent.  `BatchIsExact`
needs `IInv` because the query of the batch names fewer conditions than the guards do.

### Amounts (`BookingProofs`, part 2)

For every charge and rate, payout and fee add up to the charge and are not negative, a
cancellation's refund stays below the full refund, and the platform's margin is not
negative.  All of it rests on one lemma about rounding (`PercentBounds`).

### BookingLedger: the entries (`BookingProofs`, part 3)

Every step is a step of `BookingPayment` (`LedgerImplementsBooking`), so `IInv` holds with
the ledger running.  `PostingInv` adds:

* `ReleaseInv`: a payout of whatever status has its three legs, and without a payout
  nothing is released; so the backfill never finds a release missing, and
  `writePayoutPaid` never finds its row without entries;
* `FeesPosted`: the provider's fee is posted with its row;
* `JobInv`: what the backfill has read still holds when it writes.  The legs it found
  missing are those of a charge or refund already completed (`LateLegs`), and nobody
  else ever posts for a row that was completed before.  This is why the unlocked check
  and insert do no harm, as long as there is one backfill.

From it follow `PostedOnce`, `EntriesBacked` and `PayoutIsReleased`, for any number of
workers, any rates up to 100 percent and any prices.

### BookingLedger: the money (`BookingProofs`, part 4)

`TrialBalance` and `EscrowCovered` are about sums over all entries, and need to know what
has been posted together.  `MoneyInv` adds to `PostingInv`:

* the amounts of the rows are natural numbers, and no step changes the amount of a row
  that has entries;
* `WholeJob`: what the backfill is about to write is both legs of a row, or nothing;
* `RefundBounded`: the refund's amount is at most the charge's;
* `EscrowLegs`: escrow is credited by charges only, and debited by releases and refunds
  only;
* `RefundInv`: `RefundedIsPosted`, for whichever row is the refund;
* `TrialBalance` itself.

The books balance because every step posts one whole movement of legs that were not
there before, or nothing (`UnpostedIsNew`, `FoundAreLate`, `CreatePayoutPosts`), and each
movement balances (`MovementBalances`): two legs of one row do so whatever its amount; the
three legs of a release, which lie on three rows, do so because payout and fee add up to
the charge after rounding (`ReleaseConservesCharge`).  `EscrowCovered` then needs
`PayoutXorRefund` of part 1: a release and a refund that both debit escrow would have a
payout beside the refund, which can only be a failed one, and that is the case the
property sets aside.

### Reservation (`ReservationProofs`)

For any number of bookings and luggages that are finite sets (`FiniteAssumption`), and any
trips, weights and capacities.  Each property needs its own strengthening:

* with `TypeOK`, `InsertedOK`: a webhook or an item that is under way is about a booking
  that has been inserted, so that the insert of a reservation cannot be confused with it;
* `LuggageInv`: neither `LuggageExclusive` nor `LuggageStatusTrue` is inductive alone.  It
  is stronger than both: a luggage is RESERVEE exactly while a booking holds it, because
  the code never moves one on to EN_TRANSIT or LIVREE (section 5).
  A booking gets a luggage whose status it has read as free under the luggage's lock,
  which tells that no other booking has it; and a cancellation may free the luggage
  because the booking that is cancelled was its only holder;
* `CapacityInv`: the load of a trip is a sum over the bookings that weigh on it, the one
  about to be inserted included.  The only step that adds to it is `BeginReserveBooking`,
  by no more than the validator has found free (`GramsDisponible`); every other step takes bookings
  out of the sum, leaves it alone, or marks the trip as touched;
* `ScopeInv`: a deleted booking has no items left, unless one was added behind it.  The
  SQL of `scopeReservable` sums deleted bookings too; it agrees with `CanBeReserved`
  because they add nothing.

### The other components

`WebhookInboxProofs`: `InboxInv` adds `OwnerInv` to the safety properties: the job that is
past the journal of its event finds the log still RECEIVED, because whoever else comes
finds the row of the log and returns, and only its owner moves the log on.

`DisputeDeskProofs`: `DeskInv` holds the two locks (at most one agent in each) and what was
read: under the dispute's lock the status stays what was read (`DeskSees`); under the
booking's lock the status may change, but the booking stays EN_LITIGE and no decision is
taken meanwhile (`ResolverSees`), and a decision implies RESOLVED.  With it, `HistoryInv`
says that the history, of whatever length, is a sequence of lines that begins with the
dispute and tells its status: `UpdateDisputeStatus` appends from the status that its lock
has kept, and the stale line that a decision may append is the one that
`HistoryTellsStatus` excepts.

`LockOrderProofs`: every operation that does not begin with a transaction has locked a
prefix of its own order (`HeldIsPrefix`), and wants what comes next (`AsksUpwards`).  In a
circle without one that leaves the order, each member waits for somebody who waits for a
row of a higher rank, and there are five ranks; two that wait for transactions of the same
booking would both have its FOR UPDATE, which `Compatible` excludes.  So a circle needs one
of three things: a transaction locked before its booking or without it (refunds, webhooks,
`MarkPayoutCompleted`, the backfill), two luggages, or a trip after a luggage
(`CreateBookingItem`, `UpdateLuggage`).

`AuditChainProofs`: `ChainInv` says for each sealed log, committed or not, that it names the
latest log it saw and that those it skipped were beside it.

`KycProofs`: `ClaimInv` says that a request about to be replaced is rejected and claimed by
one submission.

### FiniteSums

The models add with `SumFunctionOnSet` and `SumFunction` of the community modules, a fold
that takes the elements in the order in which CHOOSE picks them.  The library's induction
theorems take an operator as a parameter and cannot be used here, so `FiniteSums` does
induction in another form: the subsets of a finite set for which a claim fails are a set,
and if it is not empty it has a smallest member, as strict inclusion is well-founded
(`SmallestSubset`).  From this follow that a sum does not depend on which element is taken
first (`SumRemove`), that it grows with the set and the function (`SumMonotone`), and that
it can be taken apart along either (`SumUnion`, `SumPlus`).

### Assumptions

On the constants only: natural bounds (`MaxTxAssumption`, `BoundsAssumption` and their
like), rates between 0 and 100, positive prices, weights and capacities, at least one
attempt per job, a kind for each event and ids for the rows that events are about
(`InboxAssumption`), finitely many bookings and luggages, edits that the Luggage actions
can make (`LuggageEditsAssumption`, `EditedAssumption`), a trip for each booking
(`TripOfAssumption`), and that the value for "no
writer" is not a writer. TLC evaluates each of them on the instances that it checks.

### Model-checked only

The four properties under fairness: `PaymentWaitEnds` and `DeliveryIsPaidOut`
(`BookingPayment`), `JobsEnd` (`WebhookInbox`) and `OperationsEnd` (`LockOrder`).  They need
ENABLED, which the prover does not handle.  The two runs that find a documented claim
violated are model-checked by nature.

## 5. Not modelled, and known divergences

Disagreements between a document and the code that the models contain and no run
asks about:

* the webhook's stale write takes bookings out of ANNULE and EXPIREE, which
  booking.md:119-122 calls final (`CommitChargeSuccess`);
* `MarkPayoutCompleted` may overwrite EN_LITIGE with TERMINE and leave the dispute
  open, against booking.md:304 (`CommitMarkPayoutCompleted`);
* a worker that dies between the two transactions of `HandlePaymentWebhook` makes
  the retry take the event for handled (comment at line 45; `Crash`);
* booking.md:391 counts the grams of EN_TRANSIT as used, `gramsReserved` does not,
  so a hand-over frees capacity (`Counts`);
* items are added and reweighed without a look at the capacity, against
  booking.md:398 (`CommitCreateBookingItem`, `UpdateBookingItem`);
* a late payment confirms a booking whose capacity has been given away
  (`HandlePaymentWebhook.php:124`), against docs/BOOKING_FLOW.md:33; a webhook that revives
  a cancelled or expired booking shares its luggage with the one that reserved it since,
  against booking.md:369;
* a luggage stays RESERVEE when its booking is handed over and delivered: booking.md:358-365
  and overview.md:46 take it on to EN_TRANSIT and LIVREE, which nothing but a user's own
  `UpdateLuggage` writes; the luggages of a refunded booking stay RESERVEE as well.
  `LuggageStatusTrue` says nothing of the status after the hand-over but that the luggage is
  not offered again, and of a refunded booking's nothing;
* `MarkPayoutCompleted` completes a payout during EN_LITIGE, against booking.md:302, and both
  decisions then fail for ever;
* a refund that the provider completes at once leaves the booking EN_LITIGE for good,
  against dispute-strategy.md:91;
* the provider is called inside the database transaction and an unknown status throws
  afterwards: the sender is refunded, no row remains, and the traveler is paid as well,
  against booking.md:145 (`RefundLost`);
* the real providers give a refund the reference of its charge, so `refund.completed` finds
  the charge and is ignored, against dispute-strategy.md:91 (`RowRef`);
* a refund posts the charge less the fee, and the fee stays in escrow; ledger-strategy.md
  (REFUND BEFORE PAYOUT RELEASE) debits the whole charge (`RefundAmounts`);
* a charge completed at once and a refund by `AdminRefundTransaction` that is completed at
  once are posted only by the backfill, the refund of a deleted booking not even by it,
  against the triggers of ledger-strategy.md (`LedgerCreateTransaction`,
  `LedgerAdminRefund`, `LedgerRefundSuccess`);
* a refund after a release that a dispute has failed debits escrow a second time;
  `writeRefundAfterPayoutRelease` and `writePayoutReversal` are never called
  (`EscrowCovered` sets the case aside);
* ledger-strategy.md:196 wants debits and credits equal per transaction; the legs of a
  release lie on three (`TrialBalance` is about their sum);
* two backfills at once could both find a leg missing and post it twice; nothing locks
  the command;
* a dispute closed through `UpdateDisputeStatus` has no decision and leaves the booking
  EN_LITIGE; a refund by `AdminRefundTransaction` alone takes the booking to REMBOURSEE
  and leaves the dispute open (`DisputeDesk`);
* the line that a decision writes into the history may start from a status that is no
  longer the row's, so that two lines may end in RESOLVED (`CommitResolve`);
* two audit logs sealed beside each other name the same predecessor and the chain no
  longer verifies, against README.md:88; `verifyChainFrom` with a start after the first
  log fails on a whole chain; nothing but tests calls it (`ChainUnlessOverlap`);
* crossing submissions can leave a user with an approved and a pending request, and
  the rejection of the second clears `kyc_passed_at` (`SoleRequestTells`);
* trip.md:31-40 wants `CanBeReserved` to decide; `ReserveBooking` asks neither the
  date nor the status of the trip (`BeginReserveBooking`);
* an item that was validated before the deletion of its booking and inserted after
  it counts in `scopeReservable` and not in `gramsReserved`, against trip.md:56
  (`ScopeAgrees` sets such trips aside).

The references are under `src/.adamas/ai/domain/`.

Left out, and why:

* invitations: two unlocked writes of one row; nothing claims what two crossing requests
  could break;
* queue protection and monitoring: they read counters and alert, and keep no state;
* the routing of providers: a stateless lookup; the providers themselves are external,
  and what they answer is nondeterministic;
* `withoutOverlapping()` of the scheduler: a crash leaves its mutex for a day, and the
  batch does not run meanwhile; the fairness takes it as released in the end;
* authorisation, notifications, CRUD screens, uploads: no protocol;
* the front-end assets: JavaScript that the Filament package publishes, minified;
* `ApproveBooking`, `DeclineBooking` and `CompleteBooking`: deprecated and without a
  caller, so the statuses of the approval flow are never entered;
* money in several currencies and inactive ledger accounts: one currency, active accounts.

## 6. Plan

Written: all modules of section 2.

What could follow: the routing table of the resolver as a function; a second backfill in
`BookingLedger`, once the command takes a lock.
