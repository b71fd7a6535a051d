----------------------------- MODULE BookingLedger -----------------------------
(***************************************************************************)
(* The double-entry ledger over the transactions of a booking: every       *)
(* operation of BookingPayment together with the entries that it writes in *)
(* the same database transaction, and the command ledger:backfill, which   *)
(* takes no lock and runs beside them.                                     *)
(*                                                                         *)
(* An entry carries the amount of the row it belongs to, in all that       *)
(* LedgerWriter writes from these callers; so the ledger is the number of  *)
(* entries per leg, <<row, account, direction>>, and a leg's value is      *)
(* amount[row].  One currency; the accounts exist and are active.          *)
(***************************************************************************)
EXTENDS BookingPayment, Amounts, Sequences, Functions

CONSTANT Prices     \* the amounts a charge may have

ASSUME PricesAssumption == Prices \subseteq Nat \ {0}

VARIABLES
    amount,     \* transactions.amount by id, 0 where there is no row
    entries,    \* ledger_entries: how many there are of each leg
    job         \* ledger:backfill: the step it is at and what it has read

ledgerVars == <<amount, entries, job>>
allVars == <<vars, amount, entries, job>>

Accounts == {"psp", "escrow", "payable", "revenue", "expense"}
Legs == TxIds \X Accounts \X {"DEBIT", "CREDIT"}

\* The steps of BackfillLedgerEntries::handle, in order.
BackfillSteps == <<"CHARGE", "REFUND", "RELEASE", "PAID", "PAYMENT_FEE">>
NotRunning == [step |-> 0, at |-> "select", row |-> 0, legs |-> {}]

LedgerTypeOK ==
    /\ amount \in [TxIds -> Nat]
    /\ entries \in [Legs -> Nat]
    /\ job \in [step : 0..Len(BackfillSteps), at : {"select", "check", "write"},
                row : 0..MaxTx, legs : SUBSET Legs]

LedgerInit ==
    /\ Init
    /\ amount = [i \in TxIds |-> 0]
    /\ entries = [l \in Legs |-> 0]
    /\ job = NotRunning
-----------------------------------------------------------------------------
(* LedgerWriter.                                                           *)

HasEntries(i) == \E l \in Legs : l[1] = i /\ entries[l] > 0

ChargeLegs(i) == {<<i, "psp", "DEBIT">>, <<i, "escrow", "CREDIT">>}
RefundLegs(i) == {<<i, "escrow", "DEBIT">>, <<i, "psp", "CREDIT">>}
PayoutPaidLegs(i) == {<<i, "payable", "DEBIT">>, <<i, "psp", "CREDIT">>}
PaymentFeeLegs(i) == {<<i, "expense", "DEBIT">>, <<i, "psp", "CREDIT">>}

\* Mutant: the commission's leg is forgotten.
ReleaseLegs_NoFee(charge, payout, fee) ==
    {<<charge, "escrow", "DEBIT">>, <<payout, "payable", "CREDIT">>}

\* The legs of a release are spread over three rows.
ReleaseLegs(charge, payout, fee) ==
    {<<charge, "escrow", "DEBIT">>, <<payout, "payable", "CREDIT">>, <<fee, "revenue", "CREDIT">>}

\* Mutant: the idempotence check is dropped.
Unposted_NoCheck(i, legs) == legs

\* hasExistingEntries: any entry of the row, of whichever movement, stands for
\* the movement asked for.
Unposted(i, legs) == IF HasEntries(i) THEN {} ELSE legs

\* Mutant: the release looks for any entry of the charge.
UnpostedRelease_AnyEntry(charge, legs) == IF HasEntries(charge) THEN {} ELSE legs

\* hasExistingDebitOnAccount: only a debit of escrow stands for a release.
UnpostedRelease(charge, legs) ==
    IF entries[<<charge, "escrow", "DEBIT">>] > 0 THEN {} ELSE legs

Post(legs) == entries' = [l \in Legs |-> entries[l] + IF l \in legs THEN 1 ELSE 0]

WriteCharge(i) == Post(Unposted(i, ChargeLegs(i)))
WriteRefund(i) == Post(Unposted(i, RefundLegs(i)))
WritePayoutPaid(i) == Post(Unposted(i, PayoutPaidLegs(i)))
-----------------------------------------------------------------------------
(* The operations of BookingPayment with their amounts and entries.        *)

TheRow(type) == CHOOSE i \in TxIds : tx[i].type = type
ChargeAmount == amount[TheRow("CHARGE")]

\* The row inserted by the step, if any, has this amount.
NewAmount(a) ==
    amount' = IF lastTx' > lastTx THEN [amount EXCEPT ![lastTx + 1] = a] ELSE amount

\* CreateTransaction writes no entry, not even for a charge completed at once.
LedgerCreateTransaction(st, viaPay, price) ==
    /\ CreateTransaction(st, viaPay)
    /\ NewAmount(price)
    /\ UNCHANGED <<entries, job>>

\* What a refund may amount to: at the sender's or an admin's request all but the
\* fee; owed by a cancellation, that at 100 or 70 percent.
RefundAmounts(auto) ==
    IF auto THEN {CancellationRefundAmount(ChargeAmount, rate) : rate \in {70, 100}}
    ELSE {RefundAmount(ChargeAmount)}

\* Mutant: a refund is posted as soon as it is asked for.
LedgerRefundTransaction_PostsPending(st, auto) ==
    /\ RefundTransaction(st, auto)
    /\ \E a \in RefundAmounts(auto) : a > 0 /\ NewAmount(a)
    /\ WriteRefund(lastTx + 1)
    /\ UNCHANGED job

\* RefundTransaction posts a refund that is completed at once.
LedgerRefundTransaction(st, auto) ==
    /\ RefundTransaction(st, auto)
    /\ \E a \in RefundAmounts(auto) : a > 0 /\ NewAmount(a)
    /\ IF st = "COMPLETED" THEN WriteRefund(lastTx + 1) ELSE UNCHANGED entries
    /\ UNCHANGED job

\* AdminRefundTransaction, called by itself or by ResolveDispute, posts nothing.
LedgerAdminRefund(st) ==
    /\ AdminRefundTransaction(st) \/ ResolveWithRefund(st)
    /\ RefundAmount(ChargeAmount) > 0
    /\ NewAmount(RefundAmount(ChargeAmount))
    /\ UNCHANGED <<entries, job>>

\* CreatePayoutTransaction posts the release and the provider's fee; a release
\* that does not balance throws, and the payout with it.
LedgerCreatePayout ==
    LET charge == TheRow("CHARGE")
        fee == lastTx + 1
        paymentFee == lastTx + 2
        payout == lastTx + 3
    IN  /\ CreatePayoutTransaction
        /\ amount' = [amount EXCEPT ![fee] = FeeAmount(ChargeAmount),
                                    ![paymentFee] = PaymentFeeAmount(ChargeAmount),
                                    ![payout] = PayoutAmount(ChargeAmount)]
        /\ amount'[payout] + amount'[fee] = amount'[charge]
        /\ Post(UnpostedRelease(charge, ReleaseLegs(charge, payout, fee))
                \cup Unposted(paymentFee, PaymentFeeLegs(paymentFee)))
        /\ UNCHANGED job

LedgerChargeSuccess(w) ==
    /\ CommitChargeSuccess(w)
    /\ WriteCharge(hold[w].row)
    /\ UNCHANGED <<amount, job>>

\* Mutant: the webhook leaves the refund to the backfill.
LedgerRefundSuccess_NoPosting(w) ==
    /\ CommitRefundSuccess(w)
    /\ UNCHANGED ledgerVars

\* The charge is looked for through the booking's relation: a deleted booking
\* has no charge, and its refund is not posted.
LedgerRefundSuccess(w) ==
    /\ CommitRefundSuccess(w)
    /\ IF hold[w].seen # "NONE" THEN WriteRefund(hold[w].row) ELSE UNCHANGED entries
    /\ UNCHANGED <<amount, job>>

LedgerMarkPayoutCompleted(w) ==
    /\ CommitMarkPayoutCompleted(w)
    /\ WritePayoutPaid(hold[w].row)
    /\ UNCHANGED <<amount, job>>

LedgerResolveWithPayout ==
    /\ ResolveWithPayout
    /\ WritePayoutPaid(resolving)
    /\ UNCHANGED <<amount, job>>
-----------------------------------------------------------------------------
(* ledger:backfill.  No row is locked: between the query, the idempotence  *)
(* check and the insert, any other operation may commit.  A booking has at *)
(* most one row of a type (OneRowPerType), so each step handles one row.   *)
(* PAID reads again the payout that RELEASE has read: it may see more.     *)

RowsToPost(step) ==
    LET of(type, statuses) == {i \in TxIds : tx[i].type = type /\ tx[i].status \in statuses}
    IN  CASE step = "CHARGE" -> of("CHARGE", {"COMPLETED"})
          [] step = "REFUND" -> of("REFUND", {"COMPLETED"})
          [] step = "RELEASE" -> of("PAYOUT", {"PENDING", "COMPLETED"})
          [] step = "PAID" -> of("PAYOUT", {"COMPLETED"})
          [] step = "PAYMENT_FEE" -> of("PAYMENT_FEE", {"COMPLETED"})

\* What the writer called by a step still has to insert for row i.  Refunds and
\* payouts look for the charge (and the fee) through the booking.
LegsToPost(step, i) ==
    CASE step = "CHARGE" -> Unposted(i, ChargeLegs(i))
      [] step = "REFUND" -> IF deleted THEN {} ELSE Unposted(i, RefundLegs(i))
      [] step = "RELEASE" ->
            IF deleted \/ ~HasCompletedCharge \/ ~HasFee THEN {}
            ELSE UnpostedRelease(TheRow("CHARGE"), ReleaseLegs(TheRow("CHARGE"), i, TheRow("FEE")))
      [] step = "PAID" -> IF deleted \/ ~HasCompletedCharge \/ ~HasFee THEN {}
                          ELSE Unposted(i, PayoutPaidLegs(i))
      [] step = "PAYMENT_FEE" -> Unposted(i, PaymentFeeLegs(i))

Running == job.step > 0

\* Mutant: the last step is not the last.
NextStep_NoEnd == [NotRunning EXCEPT !.step = job.step + 1]

NextStep == IF job.step = Len(BackfillSteps) THEN NotRunning
            ELSE [NotRunning EXCEPT !.step = job.step + 1]

BackfillStart ==
    /\ ~Running
    /\ job' = [NotRunning EXCEPT !.step = 1]
    /\ UNCHANGED <<vars, amount, entries>>

\* The query of a step: a row, or none and on to the next step.
BackfillSelect ==
    /\ Running /\ job.at = "select"
    /\ LET rows == RowsToPost(BackfillSteps[job.step])
       IN  job' = IF rows = {} THEN NextStep
                  ELSE [job EXCEPT !.at = "check", !.row = CHOOSE i \in rows : TRUE]
    /\ UNCHANGED <<vars, amount, entries>>

BackfillCheck ==
    /\ Running /\ job.at = "check"
    /\ job' = [job EXCEPT !.at = "write", !.legs = LegsToPost(BackfillSteps[job.step], job.row)]
    /\ UNCHANGED <<vars, amount, entries>>

BackfillWrite ==
    /\ Running /\ job.at = "write"
    /\ Post(job.legs)
    /\ job' = NextStep
    /\ UNCHANGED <<vars, amount>>

\* The command is interrupted; it may be started again.
BackfillStops ==
    /\ Running
    /\ job' = NotRunning
    /\ UNCHANGED <<vars, amount, entries>>
-----------------------------------------------------------------------------
Unposting ==
    \/ ConfirmBooking
    \/ \E step \in {"confirm", "refund"} : DropTodo(step)
    \/ ExpirePendingBooking
    \/ ChargeLost
    \/ \E rate \in {"zero", "positive"} : CancelBooking(rate)
    \/ DeleteBooking
    \/ \E auto \in BOOLEAN : RefundLost(auto)
    \/ HandOverBooking
    \/ ConfirmDelivery
    \/ OpenDispute
    \/ CloseDispute
    \/ \E i \in TxIds : BeginResolveWithPayout(i) \/ WebhookFailure(i)
    \/ RollbackResolve
    \/ \E w \in Workers : Begins(w) \/ Rollback(w)
    \/ Environment

Posting ==
    \/ \E st \in Accepted, viaPay \in BOOLEAN, price \in Prices :
          LedgerCreateTransaction(st, viaPay, price)
    \/ \E st \in Accepted, auto \in BOOLEAN : LedgerRefundTransaction(st, auto)
    \/ \E st \in Accepted : LedgerAdminRefund(st)
    \/ LedgerCreatePayout
    \/ \E w \in Workers :
          \/ LedgerChargeSuccess(w)
          \/ LedgerRefundSuccess(w)
          \/ LedgerMarkPayoutCompleted(w)
    \/ LedgerResolveWithPayout

Backfill ==
    BackfillStart \/ BackfillSelect \/ BackfillCheck \/ BackfillWrite \/ BackfillStops

LedgerNext ==
    \/ Posting
    \/ Unposting /\ UNCHANGED ledgerVars
    \/ Backfill

LedgerSpec == LedgerInit /\ [][LedgerNext]_allVars
-----------------------------------------------------------------------------
LegValue == [l \in Legs |-> entries[l] * amount[l[1]]]
Sum(legs) == SumFunctionOnSet(LegValue, legs)
Side(account, direction) == TxIds \X {account} \X {direction}

\* LedgerAccount::balance(): credits less debits.
Balance(account) == Sum(Side(account, "CREDIT")) - Sum(Side(account, "DEBIT"))

\* LedgerReader::isBalanced() answers yes at every moment, whatever the rows and
\* the backfill do, although the legs of a release lie on three rows.
TrialBalance ==
    Sum(TxIds \X Accounts \X {"DEBIT"}) = Sum(TxIds \X Accounts \X {"CREDIT"})

\* No leg is ever written twice, although the check and the insert of the backfill
\* are separate steps and no unique index exists: a row and its entries commit
\* together, and what the backfill alone posts is not posted by anyone else.
PostedOnce == \A l \in Legs : entries[l] <= 1

\* A payout, even one failed since, has been released from escrow, and nothing
\* else is: the three legs come with the payout or not at all.
PayoutIsReleased ==
    LET charge == TheRow("CHARGE")
    IN  IF Has("PAYOUT", TxStatuses)
        THEN \A l \in ReleaseLegs(charge, TheRow("PAYOUT"), TheRow("FEE")) : entries[l] = 1
        ELSE \A i \in TxIds : tx[i].type = "CHARGE" => entries[<<i, "escrow", "DEBIT">>] = 0

\* Nothing is in the ledger that is not done: the entries of a charge, a refund
\* or a fee belong to completed rows.
EntriesBacked ==
    \A l \in Legs : entries[l] > 0 =>
        /\ tx[l[1]].type \in {"CHARGE", "REFUND", "FEE", "PAYMENT_FEE"} => tx[l[1]].status = "COMPLETED"
        /\ tx[l[1]] # NoTx

\* Once the charge is posted the escrow account is never overdrawn, except after
\* a payout that a dispute has failed and a refund that followed it.
EscrowCovered ==
    (\E i \in TxIds : entries[<<i, "escrow", "CREDIT">>] = 1) /\ ~Has("PAYOUT", {"FAILED"})
        => Balance("escrow") >= 0

\* A booking that reached REMBOURSEE, which only the webhook writes, has its refund
\* in the ledger.
RefundedIsPosted ==
    status = "REMBOURSEE" => \A l \in RefundLegs(TheRow("REFUND")) : entries[l] = 1

\* LedgerWriter.php:98-103, "dette voyageur soldee": after a completed payout nothing
\* is owed to the traveler.
PaidPayoutIsSettled == Has("PAYOUT", {"COMPLETED"}) => Balance("payable") = 0
-----------------------------------------------------------------------------
(* The inductive invariant behind PostedOnce, EntriesBacked and            *)
(* PayoutIsReleased (module BookingProofs).                                *)

EntriesType ==
    /\ entries \in [Legs -> Nat]
    /\ job \in [step : 0..Len(BackfillSteps), at : {"select", "check", "write"},
                row : 0..MaxTx, legs : SUBSET Legs]

\* PayoutIsReleased, for whichever rows have these types.
ReleaseInv ==
    /\ \A charge, payout, fee \in TxIds :
          tx[charge].type = "CHARGE" /\ tx[payout].type = "PAYOUT" /\ tx[fee].type = "FEE"
          => \A l \in ReleaseLegs(charge, payout, fee) : entries[l] = 1
    /\ ~Has("PAYOUT", TxStatuses) =>
          \A i \in TxIds : tx[i].type = "CHARGE" => entries[<<i, "escrow", "DEBIT">>] = 0

\* The provider's fee is posted as it is inserted, so the backfill skips it.
FeesPosted == \A i \in TxIds : tx[i].type = "PAYMENT_FEE" => HasEntries(i)

\* What a step of the backfill has selected row i for.
ReadAs(step, i) ==
    CASE step = "CHARGE" -> tx[i] = Row("CHARGE", "COMPLETED")
      [] step = "REFUND" -> tx[i] = Row("REFUND", "COMPLETED")
      [] step \in {"RELEASE", "PAID"} -> tx[i].type = "PAYOUT"
      [] step = "PAYMENT_FEE" -> tx[i].type = "PAYMENT_FEE"

\* The legs that anyone may ever find missing in a completed row.
LateLegs(i) ==
    IF tx[i] = Row("CHARGE", "COMPLETED") THEN ChargeLegs(i)
    ELSE IF tx[i] = Row("REFUND", "COMPLETED") THEN RefundLegs(i) ELSE {}

\* What the backfill has read stays true until it writes: nobody else posts the legs
\* it has found missing.
JobInv ==
    job.at # "select" =>
        /\ job.step > 0 /\ job.row \in TxIds
        /\ ReadAs(BackfillSteps[job.step], job.row)
        /\ job.at = "write" => job.legs \subseteq LateLegs(job.row) /\ \A l \in job.legs : entries[l] = 0

PostingInv ==
    /\ IInv
    /\ EntriesType
    /\ PostedOnce
    /\ EntriesBacked
    /\ ReleaseInv
    /\ FeesPosted
    /\ JobInv

(* With PostingInv, the inductive invariant behind TrialBalance,           *)
(* EscrowCovered and RefundedIsPosted.                                     *)

\* The backfill posts whole movements: both legs of a row, or none.
WholeJob == job.at = "write" => job.legs \in {{}, LateLegs(job.row)}

\* What is returned to the sender was charged, and is never more than that.
RefundBounded ==
    \A refund \in TxIds : tx[refund].type = "REFUND" =>
        \E charge \in TxIds : tx[charge].type = "CHARGE" /\ amount[refund] <= amount[charge]

\* Only a charge fills escrow; only its release and its refund empty it.
EscrowLegs ==
    \A i \in TxIds :
        /\ entries[<<i, "escrow", "CREDIT">>] > 0 => tx[i].type = "CHARGE"
        /\ entries[<<i, "escrow", "DEBIT">>] > 0 => tx[i].type \in {"CHARGE", "REFUND"}

\* RefundedIsPosted, for whichever row is the refund.
RefundInv ==
    status = "REMBOURSEE" =>
        \A i \in TxIds : tx[i].type = "REFUND" => \A l \in RefundLegs(i) : entries[l] = 1

MoneyInv ==
    /\ amount \in [TxIds -> Nat]
    /\ WholeJob
    /\ RefundBounded
    /\ EscrowLegs
    /\ RefundInv
    /\ TrialBalance
=============================================================================
