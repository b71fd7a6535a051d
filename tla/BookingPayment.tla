---------------------------- MODULE BookingPayment ----------------------------
(***************************************************************************)
(* One booking from the moment ReserveBooking has created it: its status,  *)
(* its rows of the transactions table and its dispute, and every operation *)
(* that changes them.                                                      *)
(*                                                                         *)
(* Operations that lock the booking row (SELECT ... FOR UPDATE) are one    *)
(* action each: they are serialised by that lock.  The payment webhook and *)
(* MarkPayoutCompleted lock one row of the transactions table only and     *)
(* read the booking WITHOUT its lock; each of them is a pair of actions    *)
(* (lock the row and read the booking / write and commit), run by a member *)
(* of Workers, and other operations commit in between.  ResolveDispute     *)
(* does the converse for a payout (booking locked, payout read without its *)
(* lock) and is a pair of actions too.                                     *)
(*                                                                         *)
(* The payment provider is external: what it has really done with the      *)
(* money is the variable psp, and its webhooks tell the truth.             *)
(*                                                                         *)
(* Times are abstracted to what the code asks of them: a deadline is unset,*)
(* ahead, or past.  Amounts, providers and notifications are left out.     *)
(***************************************************************************)
EXTENDS Naturals, BookingStatus

CONSTANTS
    Workers,    \* PHP processes that handle webhooks and payout completions
    MaxTx       \* bound on the rows of the transactions table for the booking

ASSUME MaxTxAssumption == MaxTx \in Nat

VARIABLES
    status,     \* bookings.status
    window,     \* payment_expires_at: "none", "open" (ahead), "past"
    escrow,     \* escrow_releasable_at: "none", "held" (ahead), "due" (past)
    deleted,    \* deleted_at is set
    dispute,    \* disputes row: "none", "active" (any status but RESOLVED), "resolved"
    tx,         \* transactions rows of the booking by id; NoTx where there is none
    lastTx,     \* id of the row inserted last
    hold,       \* what each worker has locked and read
    resolving,  \* payout that an open ResolveDispute is about to complete, or 0
    psp,        \* what the provider has done: "charged", "refunded"
    todo        \* steps that HTTP requests still owe after their first commit

vars == <<status, window, escrow, deleted, dispute, tx, lastTx, hold, resolving, psp, todo>>
bookingVars == <<status, window, escrow, deleted, dispute>>
txVars == <<tx, lastTx>>
lockVars == <<hold, resolving>>

TxIds == 1..MaxTx
TxTypes == {"CHARGE", "REFUND", "PAYOUT", "FEE", "PAYMENT_FEE"}
TxStatuses == {"PENDING", "COMPLETED", "FAILED"}
Rows == [type : TxTypes \cup {"NONE"}, status : TxStatuses \cup {"NONE"}]
NoTx == [type |-> "NONE", status |-> "NONE"]
Idle == [row |-> 0, seen |-> "NONE"]

TypeOK ==
    /\ status \in BookingStatuses
    /\ window \in {"none", "open", "past"}
    /\ escrow \in {"none", "held", "due"}
    /\ deleted \in BOOLEAN
    /\ dispute \in {"none", "active", "resolved"}
    /\ tx \in [TxIds -> Rows]
    /\ lastTx \in 0..MaxTx
    /\ hold \in [Workers -> [row : 0..MaxTx, seen : BookingStatuses \cup {"NONE"}]]
    /\ resolving \in 0..MaxTx
    /\ psp \in SUBSET {"charged", "refunded"}
    /\ todo \in SUBSET {"confirm", "refund"}

\* ReserveBooking::execute leaves the booking in EN_PAIEMENT with a window of
\* 30 minutes (module Reservation models how it gets there).
Init ==
    /\ status = "EN_PAIEMENT"
    /\ window = "open"
    /\ escrow = "none"
    /\ deleted = FALSE
    /\ dispute = "none"
    /\ tx = [i \in TxIds |-> NoTx]
    /\ lastTx = 0
    /\ hold = [w \in Workers |-> Idle]
    /\ resolving = 0
    /\ psp = {}
    /\ todo = {}
-----------------------------------------------------------------------------
(* Queries on the transactions of the booking.                             *)

Has(type, statuses) == \E i \in TxIds : tx[i].type = type /\ tx[i].status \in statuses

HasCompletedCharge == Has("CHARGE", {"COMPLETED"})
HasPayout == Has("PAYOUT", {"PENDING", "COMPLETED"})
HasRefund == Has("REFUND", TxStatuses)
HasFee == Has("FEE", TxStatuses)

\* Mutant: isPast() and isFuture() swapped.
IsEscrowReleasable_Future == status = "LIVREE" /\ escrow = "held" /\ dispute = "none"

\* Booking::isEscrowReleasable().  disputed_at is set with the disputes row and
\* never cleared.
IsEscrowReleasable == status = "LIVREE" /\ escrow = "due" /\ dispute = "none"

\* Mutants: a refund does not block the payout; the delivery and its escrow
\* delay are not looked at.
CanCreatePayout_NoRefundCheck ==
    status = "LIVREE" /\ IsEscrowReleasable /\ HasCompletedCharge /\ ~HasPayout /\ ~HasFee
CanCreatePayout_NoEscrowCheck ==
    HasCompletedCharge /\ ~HasPayout /\ ~HasRefund /\ ~HasFee

CanCreatePayout ==
    status = "LIVREE" /\ IsEscrowReleasable
    /\ HasCompletedCharge /\ ~HasPayout /\ ~HasRefund /\ ~HasFee

CanCreateRefund ==
    status \in {"CONFIRMEE", "EN_LITIGE", "ANNULE"}
    /\ HasCompletedCharge /\ ~HasRefund /\ ~HasPayout
-----------------------------------------------------------------------------
(* Row locks and inserts.                                                  *)

\* Booking::query()->lockForUpdate()->findOrFail(): a deleted booking is not
\* found, and a locked one is waited for.
LockBooking == ~deleted /\ resolving = 0

Unlocked(i) == \A w \in Workers : hold[w].row # i

\* Operations that lock every transaction of the booking wait for all of them.
AllUnlocked == \A i \in TxIds : Unlocked(i)

Row(type, st) == [type |-> type, status |-> st]

\* Transaction::create(): the row gets the next id, whatever else (old) the same
\* database transaction has made of the other rows.
InsertOver(old, row) ==
    /\ lastTx + 1 <= MaxTx
    /\ tx' = [old EXCEPT ![lastTx + 1] = row]
    /\ lastTx' = lastTx + 1

Insert(row) == InsertOver(tx, row)

InsertThree(row1, row2, row3) ==
    /\ lastTx + 3 <= MaxTx
    /\ tx' = [tx EXCEPT ![lastTx + 1] = row1, ![lastTx + 2] = row2, ![lastTx + 3] = row3]
    /\ lastTx' = lastTx + 3

\* $transaction->update(['status' => st, 'processed_at' => now()])
Marked(i, st) == Row(tx[i].type, st)
Mark(i, st) == tx' = [tx EXCEPT ![i] = Marked(i, st)]

\* Booking::transitionTo on a booking read under its lock.
TransitionTo(new) ==
    /\ CanTransitionTo(status, new)
    /\ status' = new
    /\ window' = IF new \in {"CONFIRMEE", "ANNULE", "EXPIREE", "PAIEMENT_ECHOUE"}
                 THEN "none" ELSE window
-----------------------------------------------------------------------------
(* Payment.                                                                *)

\* Mutant: a second charge is accepted.
CreateTransaction_NoExistingCheck(st, viaPay) ==
    /\ LockBooking /\ status = "EN_PAIEMENT" /\ window = "open"
    /\ AllUnlocked
    /\ Insert(Row("CHARGE", st))
    /\ psp' = IF st = "COMPLETED" THEN psp \cup {"charged"} ELSE psp
    /\ todo' = IF viaPay /\ st = "COMPLETED" THEN todo \cup {"confirm"} ELSE todo
    /\ UNCHANGED <<bookingVars, lockVars>>

\* CreateTransaction::execute, st being what the provider answered ("failed"
\* throws and rolls back).  BookingController::pay then confirms a completed
\* charge; TransactionController::store does not.
CreateTransaction(st, viaPay) ==
    /\ LockBooking /\ status = "EN_PAIEMENT" /\ window = "open"
    /\ AllUnlocked
    /\ ~Has("CHARGE", TxStatuses)
    /\ Insert(Row("CHARGE", st))
    /\ psp' = IF st = "COMPLETED" THEN psp \cup {"charged"} ELSE psp
    /\ todo' = IF viaPay /\ st = "COMPLETED" THEN todo \cup {"confirm"} ELSE todo
    /\ UNCHANGED <<bookingVars, lockVars>>

\* The provider takes the money at once and the insert is lost with its
\* database transaction (the call is made inside it).
ChargeLost ==
    /\ LockBooking /\ status = "EN_PAIEMENT" /\ window = "open"
    /\ AllUnlocked
    /\ ~Has("CHARGE", TxStatuses)
    /\ psp' = psp \cup {"charged"}
    /\ UNCHANGED <<bookingVars, txVars, lockVars, todo>>

\* External: the customer completes the checkout, however late.
CustomerPays ==
    /\ Has("CHARGE", {"PENDING"})
    /\ psp' = psp \cup {"charged"}
    /\ UNCHANGED <<bookingVars, txVars, lockVars, todo>>

\* ConfirmBooking::execute, called by pay in a transaction of its own.  (It may
\* also refuse for lack of capacity: DropTodo.)
ConfirmBooking ==
    /\ "confirm" \in todo
    /\ LockBooking
    /\ HasCompletedCharge
    /\ TransitionTo("CONFIRMEE")
    /\ todo' = todo \ {"confirm"}
    /\ UNCHANGED <<escrow, deleted, dispute, txVars, lockVars, psp>>

\* The request dies, or its second step throws: nothing runs that step again.
DropTodo(step) ==
    /\ step \in todo
    /\ todo' = todo \ {step}
    /\ UNCHANGED <<bookingVars, txVars, lockVars, psp>>

PaymentWindowPasses ==
    /\ window = "open"
    /\ window' = "past"
    /\ UNCHANGED <<status, escrow, deleted, dispute, txVars, lockVars, psp, todo>>

\* Mutant: a booking with a charge is left to the webhook.
ExpirePendingBooking_SkipsCharged ==
    /\ LockBooking /\ status = "EN_PAIEMENT" /\ window = "past"
    /\ ~Has("CHARGE", TxStatuses)
    /\ TransitionTo("EXPIREE")
    /\ UNCHANGED <<escrow, deleted, dispute, txVars, lockVars, psp, todo>>

\* ExpirePendingBooking::execute, run for every candidate by the batch.
ExpirePendingBooking ==
    /\ LockBooking /\ status = "EN_PAIEMENT" /\ window = "past"
    /\ TransitionTo("EXPIREE")
    /\ UNCHANGED <<escrow, deleted, dispute, txVars, lockVars, psp, todo>>
-----------------------------------------------------------------------------
(* Cancellation and refunds.                                               *)

\* computeRefundRate as the sign of the rate: only a sender who cancels a
\* confirmed booking after the departure gets nothing back.
RefundRates == IF status = "CONFIRMEE" THEN {"zero", "positive"} ELSE {"positive"}

\* CancelBooking::execute; the refund is attempted after the commit, from the
\* transactions read before it.
CancelBooking(rate) ==
    /\ LockBooking
    /\ rate \in RefundRates
    /\ TransitionTo("ANNULE")
    /\ todo' = IF rate = "positive" /\ HasCompletedCharge /\ ~HasRefund
               THEN todo \cup {"refund"} ELSE todo
    /\ UNCHANGED <<escrow, deleted, dispute, txVars, lockVars, psp>>

\* DeleteBooking::execute: a soft delete that keeps the status and the money.
DeleteBooking ==
    /\ LockBooking
    /\ status \notin FinalStatuses
    /\ CanTransitionTo(status, "ANNULE")
    /\ deleted' = TRUE
    /\ UNCHANGED <<status, window, escrow, dispute, txVars, lockVars, psp, todo>>

ProviderRefund(st) == psp' = IF st = "COMPLETED" THEN psp \cup {"refunded"} ELSE psp

\* RefundTransaction::execute, asked for by the sender or an admin (auto = FALSE)
\* or owed by CancelBooking.  st is the provider's answer; "failed" throws.
RefundTransaction(st, auto) ==
    /\ auto => "refund" \in todo
    /\ LockBooking
    /\ AllUnlocked
    /\ CanCreateRefund
    /\ Insert(Row("REFUND", st))
    /\ ProviderRefund(st)
    /\ todo' = IF auto THEN todo \ {"refund"} ELSE todo
    /\ UNCHANGED <<bookingVars, lockVars>>

\* Mutant: an accepted refund is written as made.
AdminRefundTransaction_AcceptedIsDone(st) ==
    /\ LockBooking /\ status = "EN_LITIGE"
    /\ AllUnlocked
    /\ HasCompletedCharge /\ ~HasPayout /\ ~HasRefund
    /\ Insert(Row("REFUND", "COMPLETED"))
    /\ ProviderRefund(st)
    /\ UNCHANGED <<bookingVars, lockVars, todo>>

\* AdminRefundTransaction::execute.  With a REFUND row of any status it returns
\* that row and changes nothing, which is a stuttering step.
AdminRefundTransaction(st) ==
    /\ LockBooking /\ status = "EN_LITIGE"
    /\ AllUnlocked
    /\ HasCompletedCharge /\ ~HasPayout /\ ~HasRefund
    /\ Insert(Row("REFUND", st))
    /\ ProviderRefund(st)
    /\ UNCHANGED <<bookingVars, lockVars, todo>>

\* The provider refunds and the row is lost: resolveStatus throws on a status it
\* does not know (Stripe's 'succeeded'), or the process dies before the commit.
\* The last case below is AdminRefundTransaction inside ResolveDispute.
RefundLost(auto) ==
    /\ auto => "refund" \in todo
    /\ LockBooking
    /\ AllUnlocked
    /\ \/ CanCreateRefund
       \/ status = "EN_LITIGE" /\ HasCompletedCharge /\ ~HasRefund /\ ~Has("PAYOUT", {"COMPLETED"})
    /\ psp' = psp \cup {"refunded"}
    /\ todo' = IF auto THEN todo \ {"refund"} ELSE todo
    /\ UNCHANGED <<bookingVars, txVars, lockVars>>

\* External: the provider executes a pending refund.
ProviderRefunds ==
    /\ Has("REFUND", {"PENDING"})
    /\ psp' = psp \cup {"refunded"}
    /\ UNCHANGED <<bookingVars, txVars, lockVars, todo>>
-----------------------------------------------------------------------------
(* Delivery and payout.                                                    *)

HandOverBooking ==
    /\ LockBooking
    /\ TransitionTo("EN_TRANSIT")
    /\ UNCHANGED <<escrow, deleted, dispute, txVars, lockVars, psp, todo>>

\* ConfirmDelivery::execute with a valid code or token; markDelivered starts
\* the escrow delay.
ConfirmDelivery ==
    /\ LockBooking
    /\ TransitionTo("LIVREE")
    /\ escrow' = "held"
    /\ UNCHANGED <<deleted, dispute, txVars, lockVars, psp, todo>>

EscrowDelayPasses ==
    /\ escrow = "held"
    /\ escrow' = "due"
    /\ UNCHANGED <<status, window, deleted, dispute, txVars, lockVars, psp, todo>>

\* What ReleaseEscrowBatch dispatches a job for.
BatchSelects ==
    /\ status = "LIVREE" /\ escrow = "due" /\ dispute = "none"
    /\ ~Has("PAYOUT", TxStatuses) /\ ~HasRefund /\ ~HasFee

\* ReleaseEscrowPayoutJob::handle with CreatePayoutTransaction::execute, which
\* checks again, under its locks, all that the batch and the job have checked.
CreatePayoutTransaction ==
    /\ LockBooking
    /\ AllUnlocked
    /\ CanCreatePayout
    /\ InsertThree(Row("FEE", "COMPLETED"), Row("PAYMENT_FEE", "COMPLETED"), Row("PAYOUT", "PENDING"))
    /\ UNCHANGED <<bookingVars, lockVars, psp, todo>>
-----------------------------------------------------------------------------
(* Webhook and payout completion: lock a row, read the booking, commit.    *)

\* Mutant: isFinalised() is not looked at.
Begin_Finalised(w, i, type) ==
    /\ hold[w] = Idle
    /\ Unlocked(i)
    /\ tx[i].type = type
    /\ hold' = [hold EXCEPT ![w] = [row |-> i, seen |-> IF deleted THEN "NONE" ELSE status]]
    /\ UNCHANGED <<bookingVars, txVars, resolving, psp, todo>>

\* The row is locked and still PENDING (HandlePaymentWebhook and
\* MarkPayoutCompleted both stop on a finalised row), then $row->booking is
\* loaded without a lock; the relation is null once the booking is deleted.
Begin(w, i, type) ==
    /\ hold[w] = Idle
    /\ Unlocked(i)
    /\ tx[i] = Row(type, "PENDING")
    /\ hold' = [hold EXCEPT ![w] = [row |-> i, seen |-> IF deleted THEN "NONE" ELSE status]]
    /\ UNCHANGED <<bookingVars, txVars, resolving, psp, todo>>

BeginChargeSuccess(w, i) == "charged" \in psp /\ Begin(w, i, "CHARGE")
BeginRefundSuccess(w, i) == "refunded" \in psp /\ Begin(w, i, "REFUND")
BeginMarkPayoutCompleted(w, i) == Begin(w, i, "PAYOUT")

\* The locked row is COMPLETED and its lock released.
CommitRow(w, type) ==
    /\ hold[w] # Idle
    /\ tx[hold[w].row].type = type
    /\ Mark(hold[w].row, "COMPLETED")
    /\ hold' = [hold EXCEPT ![w] = Idle]
    /\ UNCHANGED <<escrow, deleted, dispute, lastTx, resolving, psp, todo>>

\* Mutant: the null booking is not looked at.
CommitChargeSuccess_NullBooking(w) ==
    /\ CommitRow(w, "CHARGE")
    /\ hold[w].seen # "NONE" => CanTransitionTo(hold[w].seen, "CONFIRMEE")
    /\ status' = IF hold[w].seen = "NONE" THEN "NONE" ELSE "CONFIRMEE"
    /\ window' = "none"

\* transitionTo(CONFIRMEE) is checked against the status read in Begin; save()
\* then writes over whatever the row holds, once it gets its lock.  A refused transition throws: Rollback.
CommitChargeSuccess(w) ==
    /\ CommitRow(w, "CHARGE")
    /\ IF hold[w].seen = "NONE"
       THEN UNCHANGED <<status, window>>
       ELSE /\ resolving = 0
            /\ CanTransitionTo(hold[w].seen, "CONFIRMEE")
            /\ status' = "CONFIRMEE"
            /\ window' = "none"

CommitRefundSuccess(w) ==
    /\ CommitRow(w, "REFUND")
    /\ IF hold[w].seen = "NONE"
       THEN UNCHANGED status
       ELSE /\ resolving = 0
            /\ CanTransitionTo(hold[w].seen, "REMBOURSEE")
            /\ status' = "REMBOURSEE"
    /\ UNCHANGED window

\* MarkPayoutCompleted::execute completes the payout whatever the booking's status.
CommitMarkPayoutCompleted(w) ==
    /\ CommitRow(w, "PAYOUT")
    /\ IF hold[w].seen = "LIVREE"
       THEN resolving = 0 /\ status' = "TERMINE"
       ELSE UNCHANGED status
    /\ UNCHANGED window

\* An exception, a deadlock victim or a dead process: the transaction rolls back.
Rollback(w) ==
    /\ hold[w] # Idle
    /\ hold' = [hold EXCEPT ![w] = Idle]
    /\ UNCHANGED <<bookingVars, txVars, resolving, psp, todo>>

\* handleChargeFailure and handleRefundFailure do not read the booking.
WebhookFailure(i) ==
    /\ Unlocked(i)
    /\ \/ tx[i] = Row("CHARGE", "PENDING") /\ "charged" \notin psp
       \/ tx[i] = Row("REFUND", "PENDING") /\ "refunded" \notin psp
    /\ Mark(i, "FAILED")
    /\ UNCHANGED <<bookingVars, lastTx, lockVars, psp, todo>>
-----------------------------------------------------------------------------
(* Disputes.                                                               *)

\* OpenDispute::execute: the checks on the transactions take no lock on them.
OpenDispute ==
    /\ LockBooking
    /\ status \in DisputableStatuses
    /\ dispute = "none"
    /\ ~Has("PAYOUT", {"COMPLETED"})
    /\ ~Has("REFUND", {"COMPLETED", "PENDING"})
    /\ TransitionTo("EN_LITIGE")
    /\ dispute' = "active"
    /\ UNCHANGED <<escrow, deleted, txVars, lockVars, psp, todo>>

\* UpdateDisputeStatus to RESOLVED: the booking is not looked at.
CloseDispute ==
    /\ dispute = "active"
    /\ dispute' = "resolved"
    /\ UNCHANGED <<status, window, escrow, deleted, txVars, lockVars, psp, todo>>

\* Payout::where('status', PENDING)->update(FAILED), a bulk update.
PayoutsCancelled ==
    [i \in TxIds |-> IF tx[i] = Row("PAYOUT", "PENDING")
                     THEN Marked(i, "FAILED") ELSE tx[i]]

\* Mutant: AdminRefundTransaction does not look for an existing refund.
ResolveWithRefund_AlwaysRefunds(st) ==
    /\ LockBooking /\ status = "EN_LITIGE"
    /\ AllUnlocked
    /\ HasCompletedCharge
    /\ ~Has("PAYOUT", {"COMPLETED"})
    /\ InsertOver(PayoutsCancelled, Row("REFUND", st))
    /\ ProviderRefund(st)
    /\ dispute' = "resolved"
    /\ UNCHANGED <<status, window, escrow, deleted, lockVars, todo>>

\* ResolveDispute::execute with 'refund': pending payouts fail, then
\* AdminRefundTransaction, which refuses after a completed payout and keeps an
\* existing refund.  The booking stays EN_LITIGE.
ResolveWithRefund(st) ==
    /\ LockBooking /\ status = "EN_LITIGE"
    /\ AllUnlocked
    /\ HasCompletedCharge
    /\ ~Has("PAYOUT", {"COMPLETED"})
    /\ IF HasRefund
       THEN tx' = PayoutsCancelled /\ UNCHANGED <<lastTx, psp>>
       ELSE /\ InsertOver(PayoutsCancelled, Row("REFUND", st))
            /\ ProviderRefund(st)
    /\ dispute' = "resolved"
    /\ UNCHANGED <<status, window, escrow, deleted, lockVars, todo>>

\* ResolveDispute::execute with 'payout': the booking is locked and a pending
\* payout found, without its lock ...
BeginResolveWithPayout(i) ==
    /\ LockBooking /\ status = "EN_LITIGE"
    /\ tx[i] = Row("PAYOUT", "PENDING")
    /\ resolving' = i
    /\ UNCHANGED <<bookingVars, txVars, hold, psp, todo>>

\* Mutant: the payout's update is forgotten, the transition is forced.
ResolveWithPayout_NoPayout ==
    /\ resolving # 0
    /\ Unlocked(resolving)
    /\ TransitionTo("TERMINE")
    /\ dispute' = "resolved"
    /\ resolving' = 0
    /\ UNCHANGED <<escrow, deleted, txVars, hold, psp, todo>>

\* ... then updated, as soon as no worker holds it, whatever it has become.
ResolveWithPayout ==
    /\ resolving # 0
    /\ Unlocked(resolving)
    /\ Mark(resolving, "COMPLETED")
    /\ TransitionTo("TERMINE")
    /\ dispute' = "resolved"
    /\ resolving' = 0
    /\ UNCHANGED <<escrow, deleted, lastTx, hold, psp, todo>>

RollbackResolve ==
    /\ resolving # 0
    /\ resolving' = 0
    /\ UNCHANGED <<bookingVars, txVars, hold, psp, todo>>
-----------------------------------------------------------------------------
\* A charge or a refund that the provider accepts comes back in one of these.
Accepted == {"PENDING", "COMPLETED"}

Payments ==
    \/ \E st \in Accepted, viaPay \in BOOLEAN : CreateTransaction(st, viaPay)
    \/ ConfirmBooking
    \/ \E step \in {"confirm", "refund"} : DropTodo(step)
    \/ ExpirePendingBooking
    \/ ChargeLost

Refunds ==
    \/ \E rate \in {"zero", "positive"} : CancelBooking(rate)
    \/ DeleteBooking
    \/ \E st \in Accepted, auto \in BOOLEAN : RefundTransaction(st, auto)
    \/ \E st \in Accepted : AdminRefundTransaction(st)
    \/ \E auto \in BOOLEAN : RefundLost(auto)

Deliveries ==
    \/ HandOverBooking
    \/ ConfirmDelivery
    \/ CreatePayoutTransaction

Disputes ==
    \/ OpenDispute
    \/ CloseDispute
    \/ \E st \in Accepted : ResolveWithRefund(st)
    \/ \E i \in TxIds : BeginResolveWithPayout(i)
    \/ ResolveWithPayout
    \/ RollbackResolve

Begins(w) ==
    \E i \in TxIds : \/ BeginChargeSuccess(w, i)
                    \/ BeginRefundSuccess(w, i)
                    \/ BeginMarkPayoutCompleted(w, i)

Ends(w) ==
    \/ CommitChargeSuccess(w)
    \/ CommitRefundSuccess(w)
    \/ CommitMarkPayoutCompleted(w)
    \/ Rollback(w)

Environment == PaymentWindowPasses \/ EscrowDelayPasses \/ CustomerPays \/ ProviderRefunds

Next ==
    \/ Payments
    \/ Refunds
    \/ Deliveries
    \/ Disputes
    \/ \E w \in Workers : Begins(w) \/ Ends(w)
    \/ \E i \in TxIds : WebhookFailure(i)
    \/ Environment

Spec == Init /\ [][Next]_vars

\* Time passes, database transactions end, and the scheduler keeps running
\* bookings:expire-pending and escrow:release-payouts (routes/console.php).
\* Nothing makes a user, an admin or a payment provider act.
Fairness ==
    /\ WF_vars(PaymentWindowPasses) /\ WF_vars(EscrowDelayPasses)
    /\ \A w \in Workers : WF_vars(Ends(w))
    /\ WF_vars(ResolveWithPayout \/ RollbackResolve)
    /\ WF_vars(ExpirePendingBooking)
    /\ WF_vars(CreatePayoutTransaction)

FairSpec == Spec /\ Fairness
-----------------------------------------------------------------------------
(* Safety.                                                                 *)

\* No type of transaction is ever inserted twice for a booking: one charge, one
\* refund and one payout with its fees, whatever the requests, jobs and webhooks
\* do.  No unique index backs this; only the row locks do.
OneRowPerType ==
    \A i, j \in TxIds : tx[i] # NoTx /\ tx[i].type = tx[j].type => i = j

\* The money of a booking is never both promised to the traveler and (being)
\* returned to the sender: TransactionEligibilityService against the dispute,
\* webhook and payout paths.
PayoutXorRefund == ~(HasPayout /\ HasRefund)

PaidStatuses == {"CONFIRMEE", "EN_TRANSIT", "LIVREE", "EN_LITIGE", "TERMINE", "REMBOURSEE"}

\* The couplings of a status with the transactions it stands for hold in every
\* state, although CONFIRMEE, REMBOURSEE and TERMINE are written from stale reads.
StatusBackedByMoney ==
    /\ status \in PaidStatuses => HasCompletedCharge
    /\ status = "REMBOURSEE" => Has("REFUND", {"COMPLETED"})
    /\ status = "TERMINE" => Has("PAYOUT", {"COMPLETED"})

\* A payout row exists only once the parcel was delivered, and no stale write
\* takes the booking back to a status before the delivery.
PayoutAfterDelivery ==
    Has("PAYOUT", TxStatuses) =>
        /\ escrow = "due"
        /\ status \in {"LIVREE", "EN_LITIGE", "TERMINE", "REMBOURSEE"}

\* The batch selects exactly the bookings that CreatePayoutTransaction accepts, so a
\* refused one does not come back, with a critical alert, every hour
\* (ReleaseEscrowBatch.php:21-25).  The charge, which only the latter looks at, must
\* be there whenever the booking is LIVREE.
BatchMirrorsEligibility == ~deleted => (BatchSelects <=> CanCreatePayout)

\* The rows never claim more than the provider has done, whichever of the answer
\* to the call, the webhook and the dispute decision wrote them.
BooksMatchProvider ==
    /\ HasCompletedCharge => "charged" \in psp
    /\ Has("REFUND", {"COMPLETED"}) => "refunded" \in psp

\* A finalised transaction is never changed again, by any writer.
FinalTxStays ==
    \A i \in TxIds : tx[i].status \in {"COMPLETED", "FAILED"} => tx'[i] = tx[i]
TxFinality == [][FinalTxStays]_vars

\* The escrow contract, with the funds read off the rows of the transactions.
funds ==
    IF Has("PAYOUT", {"COMPLETED"}) THEN "paid"
    ELSE IF Has("PAYOUT", {"PENDING"}) THEN "owed"
    ELSE IF Has("REFUND", {"COMPLETED"}) THEN "returned"
    ELSE IF Has("REFUND", {"PENDING"}) THEN "returning"
    ELSE IF Has("REFUND", {"FAILED"}) THEN "blocked"
    ELSE IF HasCompletedCharge THEN "held"
    ELSE "none"

Contract == INSTANCE EscrowContract WITH funds <- funds
ContractSpec == Contract!Spec
-----------------------------------------------------------------------------
(* The inductive invariant behind these (module BookingProofs).            *)

\* Ids are given in order, so a new id is always free.
RowsDense ==
    \A i \in TxIds :
        \/ i > lastTx /\ tx[i] = NoTx
        \/ i <= lastTx /\ tx[i].type \in TxTypes /\ tx[i].status \in TxStatuses

\* A row held by a worker stays PENDING until that worker ends, no other worker
\* holds it, and what the worker will write is backed already.
HoldInv ==
    /\ \A w \in Workers :
         \/ hold[w] = Idle
         \/ /\ hold[w].row \in TxIds
            /\ tx[hold[w].row].status = "PENDING"
            /\ tx[hold[w].row].type = "CHARGE" => "charged" \in psp
            /\ tx[hold[w].row].type = "REFUND" => "refunded" \in psp
            /\ hold[w].seen \in PaidStatuses => HasCompletedCharge
    /\ \A v, w \in Workers : v # w /\ hold[v] # Idle => hold[v].row # hold[w].row

\* While ResolveDispute keeps the booking locked its payout can only be completed.
ResolvingInv ==
    resolving # 0 =>
        /\ tx[resolving].type = "PAYOUT"
        /\ tx[resolving].status \in {"PENDING", "COMPLETED"}

\* A payout, failed or not, leaves its fees behind and was backed by the charge.
PayoutHistory ==
    /\ Has("PAYOUT", TxStatuses) => HasFee /\ HasCompletedCharge
    /\ Has("PAYMENT_FEE", TxStatuses) => HasFee

IInv ==
    /\ TypeOK
    /\ RowsDense
    /\ OneRowPerType
    /\ HoldInv
    /\ ResolvingInv
    /\ PayoutHistory
    /\ PayoutXorRefund
    /\ StatusBackedByMoney
    /\ PayoutAfterDelivery
    /\ BooksMatchProvider
-----------------------------------------------------------------------------
(* Liveness.                                                               *)

\* A booking does not wait for its payment for ever: the batch expires it, even
\* when a webhook keeps locking its charge.
PaymentWaitEnds == status = "EN_PAIEMENT" /\ ~deleted ~> status # "EN_PAIEMENT" \/ deleted

\* A delivered booking without dispute or refund gets its payout.
DeliveryIsPaidOut ==
    status = "LIVREE" /\ ~HasRefund ~> HasPayout \/ dispute # "none"
=============================================================================
