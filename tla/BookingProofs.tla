----------------------------- MODULE BookingProofs -----------------------------
(***************************************************************************)
(* Proofs about a booking and its money, for any number of workers, any    *)
(* bound on the rows, any rates and any price, in four parts:              *)
(*                                                                         *)
(*  1. BookingPayment: its inductive invariant, its properties, and that   *)
(*     it implements EscrowContract;                                       *)
(*  2. Amounts: what the amounts obey, rounding included;                  *)
(*  3. BookingLedger: every step of the ledger is a step of the booking,   *)
(*     so all of part 1 holds there; on that rests the inductive invariant *)
(*     about the entries (PostingInv);                                     *)
(*  4. the money: with part 2 and the sums of FiniteSums, the inductive    *)
(*     invariant about balances (MoneyInv).                                *)
(***************************************************************************)
EXTENDS BookingLedger, FiniteSums
-----------------------------------------------------------------------------
(***************************************************************************)
(* Part 1: BookingPayment.                                                 *)
(***************************************************************************)

\* A row of the table is a record of its two columns.
LEMMA RowType ==
    ASSUME NEW type \in TxTypes, NEW st \in TxStatuses
    PROVE  Row(type, st) \in Rows
BY DEF Row, Rows

\* What an insert does to the table: one free id gets the row.
LEMMA Inserted ==
    ASSUME TypeOK, RowsDense, NEW row \in Rows, row.type \in TxTypes, row.status \in TxStatuses,
           Insert(row)
    PROVE  /\ lastTx + 1 \in TxIds
           /\ tx[lastTx + 1] = NoTx
           /\ tx'[lastTx + 1] = row
           /\ \A i \in TxIds : i # lastTx + 1 => tx'[i] = tx[i]
           /\ tx' \in [TxIds -> Rows]
           /\ lastTx' \in 0..MaxTx
           /\ RowsDense'
BY MaxTxAssumption DEF TypeOK, RowsDense, Insert, InsertOver, TxIds

\* What an update of the status does: type kept, other rows kept.
LEMMA Updated ==
    ASSUME TypeOK, RowsDense, NEW i \in TxIds, tx[i] # NoTx, NEW st \in TxStatuses,
           Mark(i, st), lastTx' = lastTx
    PROVE  /\ tx'[i].type = tx[i].type
           /\ tx'[i].status = st
           /\ \A j \in TxIds : j # i => tx'[j] = tx[j]
           /\ tx' \in [TxIds -> Rows]
           /\ lastTx' \in 0..MaxTx
           /\ RowsDense'
<1>1. tx[i] \in Rows /\ tx[i].type \in TxTypes \cup {"NONE"}
  BY DEF TypeOK, Rows
<1>2. Marked(i, st) \in Rows /\ Marked(i, st).type = tx[i].type /\ Marked(i, st).status = st
  BY <1>1 DEF Marked, Row, Rows
<1>3. tx' = [tx EXCEPT ![i] = Marked(i, st)]
  BY DEF Mark
<1> QED BY <1>2, <1>3 DEF TypeOK, RowsDense

\* A step that leaves the rows and the locks alone can only disturb what is
\* said about the status and the dates of the booking.
LEMMA RowsKept ==
    ASSUME IInv, TypeOK', tx' = tx, lastTx' = lastTx, hold' = hold,
           resolving' \in {0, resolving}, psp \subseteq psp', StatusBackedByMoney', PayoutAfterDelivery'
    PROVE  IInv'
<1>1. RowsDense' /\ OneRowPerType' /\ PayoutXorRefund' /\ PayoutHistory'
  BY DEF IInv, RowsDense, OneRowPerType, PayoutXorRefund, PayoutHistory, HasPayout,
              HasRefund, HasFee, HasCompletedCharge, Has
<1>2. HoldInv'
  BY DEF IInv, HoldInv, HasCompletedCharge, Has
<1>3. ResolvingInv' /\ BooksMatchProvider'
  BY DEF IInv, ResolvingInv, BooksMatchProvider, HasCompletedCharge, Has
<1> QED BY <1>1, <1>2, <1>3 DEF IInv
-----------------------------------------------------------------------------
(* One lemma per action or group of actions.                               *)

\* The steps of requests and jobs that only change the booking.
LEMMA BookingSteps ==
    ASSUME IInv,
           \/ ConfirmBooking \/ ExpirePendingBooking \/ ChargeLost
           \/ \E step \in {"confirm", "refund"} : DropTodo(step)
           \/ \E rate \in {"zero", "positive"} : CancelBooking(rate)
           \/ DeleteBooking \/ \E auto \in BOOLEAN : RefundLost(auto)
           \/ HandOverBooking \/ ConfirmDelivery
           \/ OpenDispute \/ CloseDispute \/ RollbackResolve
           \/ Environment \/ UNCHANGED vars
    PROVE  IInv'
<1> USE DEF bookingVars, txVars, lockVars, vars
<1>1. TypeOK /\ StatusBackedByMoney /\ PayoutAfterDelivery
  BY DEF IInv
<1> USE <1>1
<1>2. ASSUME tx' = tx, lastTx' = lastTx, hold' = hold, resolving' \in {0, resolving},
             psp \subseteq psp', TypeOK', StatusBackedByMoney', PayoutAfterDelivery'
      PROVE  IInv'
  BY <1>2, RowsKept
<1>3. ASSUME tx' = tx, escrow' = escrow, status' = status
      PROVE  StatusBackedByMoney' /\ PayoutAfterDelivery'
  BY <1>3 DEF StatusBackedByMoney, PayoutAfterDelivery, HasCompletedCharge, Has
<1>4. ASSUME tx' = tx, escrow' = escrow, status \in {"EN_PAIEMENT", "CONFIRMEE"} \cup DisputableStatuses,
             status' \in {"ANNULE", "EXPIREE", "CONFIRMEE", "EN_TRANSIT", "EN_LITIGE"},
             status' \in PaidStatuses => HasCompletedCharge,
             status = "LIVREE" => status' = "EN_LITIGE"
      PROVE  StatusBackedByMoney' /\ PayoutAfterDelivery'
  BY <1>4 DEF StatusBackedByMoney, PayoutAfterDelivery, HasCompletedCharge, Has, PaidStatuses,
              DisputableStatuses
<1>5. \A new : TransitionTo(new) => status' = new /\ window' \in {"none", window}
  BY DEF TransitionTo
<1>6. CASE ConfirmBooking
  <2>1. status = "EN_PAIEMENT" /\ status' = "CONFIRMEE" /\ HasCompletedCharge
    BY <1>6 DEF ConfirmBooking, TransitionTo, CanTransitionTo, AllowedTransitions
  <2>2. TypeOK'
    BY <1>5, <1>6 DEF ConfirmBooking, TypeOK, BookingStatuses
  <2> QED BY <1>2, <1>4, <1>6, <2>1, <2>2 DEF ConfirmBooking, PaidStatuses
<1>7. CASE ExpirePendingBooking
  <2>1. TypeOK'
    BY <1>5, <1>7 DEF ExpirePendingBooking, TypeOK, BookingStatuses
  <2>2. StatusBackedByMoney' /\ PayoutAfterDelivery'
    BY <1>4, <1>5, <1>7 DEF ExpirePendingBooking, PaidStatuses
  <2> QED BY <1>2, <1>7, <2>1, <2>2 DEF ExpirePendingBooking
<1>8. ASSUME NEW rate \in {"zero", "positive"}, CancelBooking(rate)
      PROVE  IInv'
  <2>1. TypeOK'
    BY <1>5, <1>8 DEF CancelBooking, TypeOK, BookingStatuses
  <2>2. ~(status \in {"LIVREE", "EN_LITIGE", "TERMINE", "REMBOURSEE"}) /\ status' = "ANNULE"
    BY <1>8 DEF CancelBooking, TransitionTo, CanTransitionTo, AllowedTransitions
  <2>3. StatusBackedByMoney' /\ PayoutAfterDelivery'
    BY <1>8, <2>2 DEF CancelBooking, StatusBackedByMoney, PayoutAfterDelivery, HasCompletedCharge,
                      Has, PaidStatuses
  <2> QED BY <1>2, <1>8, <2>1, <2>3 DEF CancelBooking
<1>9. CASE HandOverBooking
  <2>1. status = "CONFIRMEE" /\ status' = "EN_TRANSIT"
    BY <1>9 DEF HandOverBooking, TransitionTo, CanTransitionTo, AllowedTransitions
  <2>2. TypeOK'
    BY <1>5, <1>9 DEF HandOverBooking, TypeOK, BookingStatuses
  <2>3. HasCompletedCharge
    BY <2>1 DEF StatusBackedByMoney, PaidStatuses
  <2> QED BY <1>2, <1>4, <1>9, <2>1, <2>2, <2>3 DEF HandOverBooking
<1>10. CASE ConfirmDelivery
  <2>1. status = "EN_TRANSIT" /\ status' = "LIVREE"
    BY <1>10 DEF ConfirmDelivery, TransitionTo, CanTransitionTo, AllowedTransitions
  <2>2. TypeOK'
    BY <1>5, <1>10 DEF ConfirmDelivery, TypeOK, BookingStatuses
  <2>3. StatusBackedByMoney' /\ PayoutAfterDelivery'
    BY <1>10, <2>1 DEF ConfirmDelivery, StatusBackedByMoney, PayoutAfterDelivery,
                       HasCompletedCharge, Has, PaidStatuses
  <2> QED BY <1>2, <1>10, <2>2, <2>3 DEF ConfirmDelivery
<1>11. CASE OpenDispute
  <2>1. status \in DisputableStatuses /\ status' = "EN_LITIGE"
    BY <1>11 DEF OpenDispute, TransitionTo
  <2>2. TypeOK'
    BY <1>5, <1>11 DEF OpenDispute, TypeOK, BookingStatuses
  <2>3. HasCompletedCharge
    BY <2>1 DEF StatusBackedByMoney, PaidStatuses, DisputableStatuses
  <2> QED BY <1>2, <1>4, <1>11, <2>1, <2>2, <2>3 DEF OpenDispute
<1>12. ASSUME NEW step \in {"confirm", "refund"}, DropTodo(step)
       PROVE  IInv'
  <2>1. TypeOK'
    BY <1>12 DEF DropTodo, TypeOK
  <2> QED BY <1>2, <1>3, <1>12, <2>1 DEF DropTodo
<1>13. ASSUME NEW auto \in BOOLEAN, RefundLost(auto)
       PROVE  IInv'
  <2>1. TypeOK'
    BY <1>13 DEF RefundLost, TypeOK
  <2> QED BY <1>2, <1>3, <1>13, <2>1 DEF RefundLost
<1>14. CASE Environment
  <2>1. tx' = tx /\ lastTx' = lastTx /\ hold' = hold /\ resolving' = resolving /\ status' = status
    BY <1>14 DEF Environment, PaymentWindowPasses, EscrowDelayPasses, CustomerPays, ProviderRefunds
  <2>2. psp \subseteq psp' /\ TypeOK'
    BY <1>14 DEF Environment, PaymentWindowPasses, EscrowDelayPasses, CustomerPays, ProviderRefunds, TypeOK
  <2>3. StatusBackedByMoney' /\ PayoutAfterDelivery'
    BY <1>14, <2>1 DEF Environment, PaymentWindowPasses, EscrowDelayPasses, CustomerPays, ProviderRefunds,
                       StatusBackedByMoney, PayoutAfterDelivery, HasCompletedCharge, Has
  <2> QED BY <1>2, <2>1, <2>2, <2>3
<1>15. CASE ChargeLost \/ DeleteBooking \/ CloseDispute \/ RollbackResolve \/ UNCHANGED vars
  <2>1. tx' = tx /\ lastTx' = lastTx /\ hold' = hold /\ resolving' \in {0, resolving}
        /\ psp \subseteq psp' /\ status' = status /\ escrow' = escrow
    BY <1>15 DEF ChargeLost, DeleteBooking, CloseDispute, RollbackResolve
  <2>2. deleted' \in BOOLEAN
    BY <1>15 DEF ChargeLost, DeleteBooking, CloseDispute, RollbackResolve, TypeOK
  <2>3. window' = window /\ dispute' \in {dispute, "resolved"} /\ psp' \in {psp, psp \cup {"charged"}} /\ todo' = todo
    BY <1>15 DEF ChargeLost, DeleteBooking, CloseDispute, RollbackResolve
  <2>4. TypeOK'
    BY <2>1, <2>2, <2>3, MaxTxAssumption DEF TypeOK
  <2> QED BY <1>2, <1>3, <2>1, <2>4
<1> QED BY <1>6, <1>7, <1>8, <1>9, <1>10, <1>11, <1>12, <1>13, <1>14, <1>15

\* A worker that locks a row or gives it back: only the locks change.
LEMMA LockSteps ==
    ASSUME IInv, NEW w \in Workers, Begins(w) \/ Rollback(w)
    PROVE  IInv'
<1>1. TypeOK /\ RowsDense /\ HoldInv /\ StatusBackedByMoney /\ BooksMatchProvider
  BY DEF IInv
<1>2. UNCHANGED <<status, window, escrow, deleted, dispute, tx, lastTx, resolving, psp, todo>>
  BY DEF Begins, BeginChargeSuccess, BeginRefundSuccess, BeginMarkPayoutCompleted, Begin,
         Rollback, bookingVars, txVars
<1>3. \/ hold' = [hold EXCEPT ![w] = Idle]
      \/ \E i \in TxIds :
           /\ hold' = [hold EXCEPT ![w] = [row |-> i, seen |-> IF deleted THEN "NONE" ELSE status]]
           /\ Unlocked(i)
           /\ tx[i].status = "PENDING"
           /\ tx[i].type = "CHARGE" => "charged" \in psp
           /\ tx[i].type = "REFUND" => "refunded" \in psp
  BY DEF Begins, BeginChargeSuccess, BeginRefundSuccess, BeginMarkPayoutCompleted, Begin, Row, Rollback
<1>4. TypeOK'
  <2>1. CASE hold' = [hold EXCEPT ![w] = Idle]
    BY <1>1, <1>2, <2>1, MaxTxAssumption DEF TypeOK, Idle
  <2>2. ASSUME NEW i \in TxIds,
               hold' = [hold EXCEPT ![w] = [row |-> i, seen |-> IF deleted THEN "NONE" ELSE status]]
        PROVE  TypeOK'
    BY <1>1, <1>2, <2>2, MaxTxAssumption DEF TypeOK, TxIds
  <2> QED BY <1>3, <2>1, <2>2
<1>5. HoldInv'
  <2>1. CASE hold' = [hold EXCEPT ![w] = Idle]
    <3>1. hold'[w] = Idle /\ \A v \in Workers \ {w} : hold'[v] = hold[v]
      BY <1>1, <2>1 DEF TypeOK
    <3>2. \A v \in Workers : hold[v] # Idle => hold[v].row # Idle.row
      BY <1>1 DEF HoldInv, Idle, TxIds
    <3> QED BY <1>1, <1>2, <3>1, <3>2 DEF HoldInv, HasCompletedCharge, Has
  <2>2. ASSUME NEW i \in TxIds, Unlocked(i), tx[i].status = "PENDING",
               tx[i].type = "CHARGE" => "charged" \in psp,
               tx[i].type = "REFUND" => "refunded" \in psp,
               hold' = [hold EXCEPT ![w] = [row |-> i, seen |-> IF deleted THEN "NONE" ELSE status]]
        PROVE  HoldInv'
    <3>1. hold'[w] = [row |-> i, seen |-> IF deleted THEN "NONE" ELSE status]
      BY <1>1, <2>2 DEF TypeOK
    <3>2. \A v \in Workers \ {w} : hold'[v] = hold[v] /\ hold[v].row # i
      BY <1>1, <2>2 DEF TypeOK, Unlocked
    <3>3. hold'[w].seen \in PaidStatuses => HasCompletedCharge
      BY <1>1, <3>1 DEF StatusBackedByMoney, PaidStatuses
    <3> QED BY <1>1, <1>2, <2>2, <3>1, <3>2, <3>3 DEF HoldInv, HasCompletedCharge, Has
  <2> QED BY <1>3, <2>1, <2>2
<1>6. RowsDense' /\ OneRowPerType' /\ PayoutXorRefund' /\ PayoutHistory'
  BY <1>2 DEF IInv, RowsDense, OneRowPerType, PayoutXorRefund, PayoutHistory, HasPayout,
              HasRefund, HasFee, HasCompletedCharge, Has
<1>7. ResolvingInv' /\ BooksMatchProvider' /\ StatusBackedByMoney' /\ PayoutAfterDelivery'
  BY <1>2 DEF IInv, ResolvingInv, BooksMatchProvider, StatusBackedByMoney, PayoutAfterDelivery,
              HasCompletedCharge, Has
<1> QED BY <1>4, <1>5, <1>6, <1>7 DEF IInv

\* ResolveDispute finds a pending payout: only its own note of it changes.
LEMMA BeginResolveStep ==
    ASSUME IInv, NEW i \in TxIds, BeginResolveWithPayout(i)
    PROVE  IInv'
<1>1. UNCHANGED <<status, window, escrow, deleted, dispute, tx, lastTx, hold, psp, todo>>
      /\ resolving' = i /\ tx[i].type = "PAYOUT" /\ tx[i].status = "PENDING"
  BY DEF BeginResolveWithPayout, bookingVars, txVars, Row
<1>2. TypeOK' /\ ResolvingInv'
  BY <1>1, MaxTxAssumption DEF IInv, TypeOK, ResolvingInv, TxIds
<1>3. RowsDense' /\ OneRowPerType' /\ PayoutXorRefund' /\ PayoutHistory'
  BY <1>1 DEF IInv, RowsDense, OneRowPerType, PayoutXorRefund, PayoutHistory, HasPayout,
              HasRefund, HasFee, HasCompletedCharge, Has
<1>4. HoldInv' /\ BooksMatchProvider' /\ StatusBackedByMoney' /\ PayoutAfterDelivery'
  BY <1>1 DEF IInv, HoldInv, BooksMatchProvider, StatusBackedByMoney, PayoutAfterDelivery,
              HasCompletedCharge, Has
<1> QED BY <1>2, <1>3, <1>4 DEF IInv

\* What the queries answer after an insert.
LEMMA HasInserted ==
    ASSUME TypeOK, RowsDense, NEW row \in Rows, row.type \in TxTypes, row.status \in TxStatuses,
           Insert(row), NEW type \in TxTypes, NEW S
    PROVE  Has(type, S)' <=> Has(type, S) \/ (row.type = type /\ row.status \in S)
<1>1. lastTx + 1 \in TxIds /\ tx'[lastTx + 1] = row /\ tx[lastTx + 1].type = "NONE"
  BY Inserted DEF NoTx
<1>2. \A i \in TxIds : i # lastTx + 1 => tx'[i] = tx[i]
  BY Inserted
<1>3. type # "NONE"
  BY DEF TxTypes
<1> QED BY <1>1, <1>2, <1>3 DEF Has

\* An insert of the first row of its type keeps what is said row by row.
LEMMA InsertKeeps ==
    ASSUME IInv, NEW row \in Rows, row.type \in TxTypes, row.status \in TxStatuses, Insert(row),
           ~Has(row.type, TxStatuses), hold' = hold, resolving' = resolving, psp \subseteq psp'
    PROVE  RowsDense' /\ OneRowPerType' /\ HoldInv' /\ ResolvingInv'
<1>1. TypeOK /\ RowsDense /\ OneRowPerType /\ HoldInv /\ ResolvingInv
  BY DEF IInv
<1>2. RowsDense'
  BY <1>1, Inserted
<1> DEFINE n == lastTx + 1
<1>3. n \in TxIds /\ tx[n] = NoTx /\ tx'[n] = row /\ \A i \in TxIds : i # n => tx'[i] = tx[i]
  BY <1>1, Inserted
<1> HIDE DEF n
<1>4. \A i \in TxIds : tx[i].type # row.type
  BY <1>1 DEF RowsDense, Has, NoTx, TxTypes
<1>5. OneRowPerType'
  BY <1>1, <1>3, <1>4 DEF OneRowPerType
<1>6. HasCompletedCharge => HasCompletedCharge'
  BY <1>3 DEF HasCompletedCharge, Has, NoTx
<1>7. HoldInv'
  BY <1>1, <1>3, <1>6 DEF HoldInv, NoTx
<1>8. ResolvingInv'
  BY <1>1, <1>3 DEF ResolvingInv, TypeOK, TxIds, NoTx
<1> QED BY <1>2, <1>5, <1>7, <1>8

\* CreateTransaction inserts the first charge, completed only if the provider took
\* the money.
LEMMA ChargeStep ==
    ASSUME IInv, NEW st \in Accepted, NEW viaPay \in BOOLEAN, CreateTransaction(st, viaPay)
    PROVE  IInv'
<1> DEFINE row == Row("CHARGE", st)
<1>1. row \in Rows /\ row.type = "CHARGE" /\ row.status = st /\ st \in TxStatuses
  BY RowType DEF Row, Rows, Accepted, TxTypes, TxStatuses
<1>2. TypeOK /\ RowsDense
  BY DEF IInv
<1>3. /\ Insert(row) /\ ~Has("CHARGE", TxStatuses) /\ status = "EN_PAIEMENT"
      /\ UNCHANGED <<status, window, escrow, deleted, dispute, hold, resolving>>
      /\ psp' = IF st = "COMPLETED" THEN psp \cup {"charged"} ELSE psp
      /\ todo' \in {todo, todo \cup {"confirm"}}
  BY DEF CreateTransaction, bookingVars, lockVars
<1> HIDE DEF row
<1>4. RowsDense' /\ OneRowPerType' /\ HoldInv' /\ ResolvingInv'
  <2>1. psp \subseteq psp'
    BY <1>3
  <2> QED BY <1>1, <1>3, <2>1, InsertKeeps DEF TxTypes
<1>5. TypeOK'
  <2>1. tx' \in [TxIds -> Rows] /\ lastTx' \in 0..MaxTx
    BY <1>1, <1>2, <1>3, Inserted DEF TxTypes
  <2> QED BY <1>2, <1>3, <2>1 DEF TypeOK
<1>6. \A S : Has("CHARGE", S)' <=> Has("CHARGE", S) \/ st \in S
  BY <1>1, <1>2, <1>3, HasInserted DEF TxTypes
<1>7. \A type \in TxTypes \ {"CHARGE"} : \A S : Has(type, S)' <=> Has(type, S)
  BY <1>1, <1>2, <1>3, HasInserted DEF TxTypes
<1>8. PayoutHistory' /\ PayoutXorRefund' /\ StatusBackedByMoney' /\ PayoutAfterDelivery' /\ BooksMatchProvider'
  BY <1>3, <1>6, <1>7 DEF IInv, PayoutHistory, PayoutXorRefund, StatusBackedByMoney, PayoutAfterDelivery,
     BooksMatchProvider, HasCompletedCharge, HasPayout, HasRefund, HasFee, TxTypes, PaidStatuses
<1> QED BY <1>4, <1>5, <1>8 DEF IInv

\* A refund row is inserted only where no refund and no live payout exists.
LEMMA RefundInserted ==
    ASSUME IInv, NEW st \in Accepted, Insert(Row("REFUND", st)), ~HasRefund, ~HasPayout, ProviderRefund(st),
           UNCHANGED <<status, window, escrow, deleted, dispute, hold, resolving>>,
           todo' \in SUBSET {"confirm", "refund"}
    PROVE  IInv'
<1> DEFINE row == Row("REFUND", st)
<1>1. row \in Rows /\ row.type = "REFUND" /\ row.status = st /\ st \in TxStatuses
  BY RowType DEF Row, Rows, Accepted, TxTypes, TxStatuses
<1>2. TypeOK /\ RowsDense
  BY DEF IInv
<1>3. Insert(row) /\ ~Has("REFUND", TxStatuses) /\ psp' \in {psp, psp \cup {"refunded"}}
      /\ (st = "COMPLETED" => "refunded" \in psp')
  BY DEF HasRefund, ProviderRefund
<1> HIDE DEF row
<1>4. RowsDense' /\ OneRowPerType' /\ HoldInv' /\ ResolvingInv'
  <2>1. psp \subseteq psp'
    BY <1>3
  <2> QED BY <1>1, <1>3, <2>1, InsertKeeps DEF TxTypes
<1>5. TypeOK'
  <2>1. tx' \in [TxIds -> Rows] /\ lastTx' \in 0..MaxTx
    BY <1>1, <1>2, <1>3, Inserted DEF TxTypes
  <2> QED BY <1>2, <1>3, <2>1 DEF TypeOK
<1>6. \A S : Has("REFUND", S)' <=> Has("REFUND", S) \/ st \in S
  BY <1>1, <1>2, <1>3, HasInserted DEF TxTypes
<1>7. \A type \in TxTypes \ {"REFUND"} : \A S : Has(type, S)' <=> Has(type, S)
  BY <1>1, <1>2, <1>3, HasInserted DEF TxTypes
<1>8. PayoutHistory' /\ PayoutXorRefund' /\ StatusBackedByMoney' /\ PayoutAfterDelivery' /\ BooksMatchProvider'
  BY <1>3, <1>6, <1>7 DEF IInv, PayoutHistory, PayoutXorRefund, StatusBackedByMoney, PayoutAfterDelivery,
     BooksMatchProvider, HasCompletedCharge, HasPayout, HasRefund, HasFee, TxTypes, PaidStatuses
<1> QED BY <1>4, <1>5, <1>8 DEF IInv

\* The two operations that insert a refund: both have looked for a refund and a
\* live payout under their locks.
LEMMA RefundSteps ==
    ASSUME IInv, NEW st \in Accepted, NEW auto \in BOOLEAN,
           RefundTransaction(st, auto) \/ AdminRefundTransaction(st)
    PROVE  IInv'
<1>1. /\ Insert(Row("REFUND", st)) /\ ~HasRefund /\ ~HasPayout /\ ProviderRefund(st)
      /\ UNCHANGED <<status, window, escrow, deleted, dispute, hold, resolving>>
      /\ todo' \in {todo, todo \ {"refund"}}
  BY DEF RefundTransaction, AdminRefundTransaction, CanCreateRefund, bookingVars, lockVars
<1>2. todo' \in SUBSET {"confirm", "refund"}
  BY <1>1 DEF IInv, TypeOK
<1> QED BY <1>1, <1>2, RefundInserted

\* The payout and its two fees are each the first of their type: a failed payout
\* would have left its FEE behind, which canCreatePayout refuses.
LEMMA PayoutStep ==
    ASSUME IInv, CreatePayoutTransaction
    PROVE  IInv'
<1> DEFINE fee == Row("FEE", "COMPLETED")
           payFee == Row("PAYMENT_FEE", "COMPLETED")
           payout == Row("PAYOUT", "PENDING")
           n == lastTx
<1>1. TypeOK /\ RowsDense /\ OneRowPerType /\ HoldInv /\ ResolvingInv
  BY DEF IInv
<1>2. /\ InsertThree(fee, payFee, payout)
      /\ status = "LIVREE" /\ escrow = "due" /\ resolving = 0 /\ HasCompletedCharge /\ ~HasRefund /\ ~HasFee
      /\ UNCHANGED <<status, window, escrow, deleted, dispute, hold, resolving, psp, todo>>
  BY DEF CreatePayoutTransaction, CanCreatePayout, IsEscrowReleasable, LockBooking, bookingVars, lockVars
<1>3. \A type \in {"FEE", "PAYMENT_FEE", "PAYOUT"} : ~Has(type, TxStatuses)
  BY <1>2 DEF IInv, PayoutHistory, HasFee
<1>4. \A i \in TxIds : tx[i].type \notin {"FEE", "PAYMENT_FEE", "PAYOUT"}
  BY <1>1, <1>3 DEF RowsDense, Has, NoTx
<1>5. /\ fee \in Rows /\ fee.type = "FEE" /\ fee.status = "COMPLETED"
      /\ payFee \in Rows /\ payFee.type = "PAYMENT_FEE" /\ payFee.status = "COMPLETED"
      /\ payout \in Rows /\ payout.type = "PAYOUT" /\ payout.status = "PENDING"
  BY DEF Row, Rows, TxTypes, TxStatuses
<1> HIDE DEF fee, payFee, payout
<1>6. /\ n \in Nat /\ n + 1 \in TxIds /\ n + 2 \in TxIds /\ n + 3 \in TxIds
      /\ lastTx' = n + 3 /\ lastTx' \in 0..MaxTx
      /\ tx' = [tx EXCEPT ![n + 1] = fee, ![n + 2] = payFee, ![n + 3] = payout]
  BY <1>1, <1>2, MaxTxAssumption DEF InsertThree, TypeOK, TxIds
<1>7. /\ tx' \in [TxIds -> Rows]
      /\ tx'[n + 1] = fee /\ tx'[n + 2] = payFee /\ tx'[n + 3] = payout
      /\ \A i \in TxIds \ {n + 1, n + 2, n + 3} : tx'[i] = tx[i]
  BY <1>1, <1>5, <1>6 DEF TypeOK
<1>8. tx[n + 1] = NoTx /\ tx[n + 2] = NoTx /\ tx[n + 3] = NoTx
  BY <1>1, <1>6 DEF RowsDense, TxIds
<1>9. n + 1 # n + 2 /\ n + 1 # n + 3 /\ n + 2 # n + 3
  BY <1>6
<1>10. TypeOK'
  BY <1>1, <1>2, <1>6, <1>7 DEF TypeOK
<1>11. RowsDense'
  BY <1>1, <1>5, <1>6, <1>7 DEF RowsDense, TxIds, TxTypes, TxStatuses
<1>12. OneRowPerType'
  BY <1>1, <1>4, <1>5, <1>7, <1>9 DEF OneRowPerType
<1>13. \A type \in {"CHARGE", "REFUND"} : \A S : Has(type, S)' <=> Has(type, S)
  BY <1>5, <1>6, <1>7, <1>8 DEF Has, NoTx
<1>14. /\ HasCompletedCharge' /\ ~HasRefund'
       /\ Has("REFUND", {"COMPLETED"})' => Has("REFUND", {"COMPLETED"})
  BY <1>2, <1>13 DEF HasCompletedCharge, HasRefund
<1>15. HasFee' /\ ~Has("PAYOUT", {"COMPLETED"})'
  <2>1. HasFee'
    BY <1>5, <1>6, <1>7 DEF HasFee, Has, TxStatuses
  <2>2. \A i \in TxIds : tx'[i].type = "PAYOUT" => tx'[i].status = "PENDING"
    BY <1>4, <1>5, <1>7
  <2> QED BY <2>1, <2>2 DEF Has
<1>16. HoldInv' /\ ResolvingInv'
  <2>1. \A i \in TxIds : tx[i].status = "PENDING" => tx'[i] = tx[i]
    BY <1>7, <1>8 DEF NoTx
  <2> QED BY <1>1, <1>2, <1>14, <2>1 DEF HoldInv, ResolvingInv
<1>17. PayoutHistory' /\ PayoutXorRefund' /\ StatusBackedByMoney' /\ PayoutAfterDelivery' /\ BooksMatchProvider'
  BY <1>2, <1>14, <1>15 DEF IInv, PayoutHistory, PayoutXorRefund, StatusBackedByMoney, PayoutAfterDelivery,
     BooksMatchProvider, HasPayout
<1> QED BY <1>1, <1>10, <1>11, <1>12, <1>16, <1>17 DEF IInv

\* The row-by-row effect of failing the pending payouts.
LEMMA PayoutsFailed ==
    ASSUME TypeOK, RowsDense
    PROVE  /\ PayoutsCancelled \in [TxIds -> Rows]
           /\ \A i \in TxIds :
                /\ PayoutsCancelled[i].type = tx[i].type
                /\ tx[i].type = "PAYOUT" /\ tx[i].status = "PENDING" => PayoutsCancelled[i].status = "FAILED"
                /\ ~(tx[i].type = "PAYOUT" /\ tx[i].status = "PENDING") => PayoutsCancelled[i] = tx[i]
<1>1. \A i \in TxIds : tx[i] \in Rows /\ tx[i] \in [type : TxTypes \cup {"NONE"}, status : TxStatuses \cup {"NONE"}]
  BY DEF TypeOK, Rows
<1>2. \A i \in TxIds : /\ Marked(i, "FAILED") \in Rows
                       /\ Marked(i, "FAILED").type = tx[i].type /\ Marked(i, "FAILED").status = "FAILED"
  BY <1>1 DEF Marked, Row, Rows, TxStatuses
<1>3. \A i \in TxIds : tx[i] = Row("PAYOUT", "PENDING") <=> tx[i].type = "PAYOUT" /\ tx[i].status = "PENDING"
  BY <1>1 DEF Row
<1>4. \A i \in TxIds : PayoutsCancelled[i] = IF tx[i].type = "PAYOUT" /\ tx[i].status = "PENDING"
                                             THEN Marked(i, "FAILED") ELSE tx[i]
  BY <1>3 DEF PayoutsCancelled
<1>5. PayoutsCancelled \in [TxIds -> Rows]
  BY <1>1, <1>2 DEF PayoutsCancelled
<1> QED BY <1>2, <1>4, <1>5

\* A decision for the sender: the pending payout fails in the same commit that
\* inserts the refund, so the two are never live together.
LEMMA ResolveRefundStep ==
    ASSUME IInv, NEW st \in Accepted, ResolveWithRefund(st)
    PROVE  IInv'
<1>1. TypeOK /\ RowsDense /\ OneRowPerType /\ HoldInv /\ ResolvingInv /\ StatusBackedByMoney /\ PayoutAfterDelivery
  BY DEF IInv
<1>2. /\ status = "EN_LITIGE" /\ resolving = 0 /\ AllUnlocked /\ HasCompletedCharge
      /\ ~Has("PAYOUT", {"COMPLETED"}) /\ dispute' = "resolved"
      /\ UNCHANGED <<status, window, escrow, deleted, hold, resolving, todo>>
  BY DEF ResolveWithRefund, LockBooking, lockVars
<1>3. CASE HasRefund
  <2>1. tx' = PayoutsCancelled /\ lastTx' = lastTx /\ psp' = psp
    BY <1>3 DEF ResolveWithRefund
  <2>2. \A i \in TxIds : ~(tx[i].type = "PAYOUT" /\ tx[i].status = "PENDING")
    BY <1>3 DEF IInv, PayoutXorRefund, HasPayout, Has
  <2>3. \A i \in TxIds : tx'[i] = tx[i]
    BY <1>1, <2>1, <2>2, PayoutsFailed
  <2>4. tx' = tx
    BY <1>1, <2>1, <2>3, PayoutsFailed DEF TypeOK
  <2>5. TypeOK'
    BY <1>1, <1>2, <2>1, <2>4 DEF TypeOK
  <2>6. StatusBackedByMoney' /\ PayoutAfterDelivery'
    BY <1>1, <1>2, <2>4 DEF StatusBackedByMoney, PayoutAfterDelivery, HasCompletedCharge, Has
  <2> QED BY <1>2, <2>1, <2>4, <2>5, <2>6, RowsKept
<1>4. CASE ~HasRefund
  <2> DEFINE n == lastTx + 1
             row == Row("REFUND", st)
             old == PayoutsCancelled
  <2>1. /\ n <= MaxTx /\ tx' = [old EXCEPT ![n] = row] /\ lastTx' = n
        /\ psp' \in {psp, psp \cup {"refunded"}} /\ (st = "COMPLETED" => "refunded" \in psp')
    BY <1>4 DEF ResolveWithRefund, InsertOver, ProviderRefund
  <2>2. row \in Rows /\ row.type = "REFUND" /\ row.status = st /\ st \in TxStatuses
    BY RowType DEF Row, Rows, Accepted, TxTypes, TxStatuses
  <2>3. n \in TxIds /\ lastTx' \in 0..MaxTx /\ tx[n] = NoTx
    BY <1>1, <2>1, MaxTxAssumption DEF TypeOK, TxIds, RowsDense
  <2>4. /\ old \in [TxIds -> Rows]
        /\ \A i \in TxIds :
             /\ old[i].type = tx[i].type
             /\ tx[i].type = "PAYOUT" /\ tx[i].status = "PENDING" => old[i].status = "FAILED"
             /\ ~(tx[i].type = "PAYOUT" /\ tx[i].status = "PENDING") => old[i] = tx[i]
    BY <1>1, PayoutsFailed
  <2> HIDE DEF n, row, old
  <2>5. tx' \in [TxIds -> Rows] /\ tx'[n] = row /\ \A i \in TxIds : i # n => tx'[i] = old[i]
    BY <2>1, <2>2, <2>3, <2>4
  <2>6. TypeOK'
    BY <1>1, <1>2, <2>1, <2>3, <2>5 DEF TypeOK
  <2>7. RowsDense'
    <3> SUFFICES ASSUME NEW i \in TxIds
                 PROVE  \/ i > lastTx' /\ tx'[i] = NoTx
                        \/ i <= lastTx' /\ tx'[i].type \in TxTypes /\ tx'[i].status \in TxStatuses
      BY DEF RowsDense
    <3>1. i \in Nat /\ lastTx \in Nat /\ lastTx' = lastTx + 1
      BY <1>1, <2>1, MaxTxAssumption DEF TxIds, TypeOK, n
    <3>2. CASE i = n
      <4>1. tx'[i].type \in TxTypes /\ tx'[i].status \in TxStatuses
        BY <2>2, <2>5, <3>2 DEF TxTypes
      <4>2. i <= lastTx'
        BY <3>1, <3>2 DEF n
      <4> QED BY <4>1, <4>2
    <3>3. CASE i # n
      <4>1. tx'[i] = old[i]
        BY <2>5, <3>3
      <4>2. CASE i > lastTx
        BY <1>1, <2>4, <3>1, <3>3, <4>1, <4>2 DEF RowsDense, NoTx, n
      <4>3. CASE i <= lastTx
        BY <1>1, <2>4, <3>1, <4>1, <4>3 DEF RowsDense, TxStatuses
      <4> QED BY <3>1, <4>2, <4>3
    <3> QED BY <3>2, <3>3
  <2>8. \A i \in TxIds : tx[i].type # "REFUND"
    BY <1>1, <1>4 DEF RowsDense, HasRefund, Has, NoTx
  <2>9. OneRowPerType'
    <3>1. \A i \in TxIds : tx'[i] # NoTx /\ i # n => tx[i] # NoTx /\ tx'[i].type = tx[i].type
      BY <2>4, <2>5 DEF NoTx
    <3>2. \A i \in TxIds : i # n => tx'[i].type = tx[i].type /\ tx[i].type # "REFUND"
      BY <2>4, <2>5, <2>8
    <3> QED BY <1>1, <2>2, <2>5, <3>1, <3>2 DEF OneRowPerType
  <2>10. \A S : Has("CHARGE", S)' <=> Has("CHARGE", S)
    BY <2>2, <2>3, <2>4, <2>5 DEF Has, NoTx
  <2>11. HasCompletedCharge'
    BY <1>2, <2>10 DEF HasCompletedCharge
  <2>12. ~Has("PAYOUT", {"PENDING", "COMPLETED"})' /\ (Has("PAYOUT", TxStatuses)' => Has("PAYOUT", TxStatuses))
    <3>1. \A i \in TxIds : tx'[i].type = "PAYOUT" =>
             tx[i].type = "PAYOUT" /\ tx'[i].status \notin {"PENDING", "COMPLETED"}
      BY <1>2, <2>2, <2>4, <2>5 DEF Has
    <3>2. \A i \in TxIds : tx[i].type = "PAYOUT" => tx[i].status \in TxStatuses
      BY <1>1 DEF RowsDense, NoTx
    <3> QED BY <3>1, <3>2 DEF Has
  <2>13. HasFee => HasFee'
    BY <2>2, <2>3, <2>4, <2>5 DEF HasFee, Has, NoTx
  <2>14. Has("PAYMENT_FEE", TxStatuses)' => Has("PAYMENT_FEE", TxStatuses)
    BY <2>2, <2>3, <2>4, <2>5 DEF Has, NoTx
  <2>15. Has("REFUND", {"COMPLETED"})' => st = "COMPLETED"
    BY <2>2, <2>4, <2>5, <2>8 DEF Has
  <2>16. HoldInv' /\ ResolvingInv'
    <3>1. \A w \in Workers : hold[w] = Idle
      BY <1>1, <1>2 DEF HoldInv, AllUnlocked, Unlocked
    <3> QED BY <1>2, <3>1 DEF HoldInv, ResolvingInv
  <2>17. PayoutHistory' /\ PayoutXorRefund' /\ StatusBackedByMoney' /\ PayoutAfterDelivery' /\ BooksMatchProvider'
    BY <1>2, <2>1, <2>11, <2>12, <2>13, <2>14, <2>15 DEF IInv, PayoutHistory, PayoutXorRefund, HasPayout,
       StatusBackedByMoney, PayoutAfterDelivery, BooksMatchProvider
  <2> QED BY <2>6, <2>7, <2>9, <2>16, <2>17 DEF IInv
<1> QED BY <1>3, <1>4

\* What the queries answer after an update: the row is the only one of its type.
LEMMA HasUpdated ==
    ASSUME TypeOK, RowsDense, OneRowPerType, NEW i \in TxIds, NEW t \in TxTypes, tx[i].type = t, NEW st \in TxStatuses,
           Mark(i, st), lastTx' = lastTx
    PROVE  /\ \A S : Has(t, S)' <=> st \in S
           /\ \A type \in TxTypes \ {t} : \A S : Has(type, S)' <=> Has(type, S)
           /\ \A S : Has(t, S) <=> tx[i].status \in S
<1>1. tx[i] # NoTx
  BY DEF NoTx, TxTypes
<1>2. tx'[i].type = t /\ tx'[i].status = st /\ \A j \in TxIds : j # i => tx'[j] = tx[j]
  BY <1>1, Updated
<1>3. \A j \in TxIds : j # i => tx[j].type # t
  BY <1>1 DEF OneRowPerType
<1>4. \A S : (\E j \in TxIds : tx'[j].type = t /\ tx'[j].status \in S) <=> st \in S
  BY <1>2, <1>3
<1>5. \A type \in TxTypes \ {t} : \A S :
        (\E j \in TxIds : tx'[j].type = type /\ tx'[j].status \in S) <=> Has(type, S)
  BY <1>2 DEF Has
<1>6. \A S : Has(t, S) <=> tx[i].status \in S
  BY <1>3 DEF Has
<1> QED BY <1>4, <1>5, <1>6 DEF Has

\* An update of a PENDING row keeps what is said row by row, whoever writes it,
\* provided that no other worker holds the row.
LEMMA UpdateKeeps ==
    ASSUME IInv, NEW i \in TxIds, NEW t \in TxTypes, tx[i].type = t, NEW st \in TxStatuses, Mark(i, st),
           lastTx' = lastTx, psp' = psp,
           \A v \in Workers : hold'[v] = Idle \/ (hold'[v] = hold[v] /\ hold[v].row # i),
           HasCompletedCharge => HasCompletedCharge',
           resolving' \in {0, resolving}, t = "PAYOUT" => st = "COMPLETED"
    PROVE  /\ tx' \in [TxIds -> Rows] /\ lastTx' \in 0..MaxTx
           /\ RowsDense' /\ OneRowPerType' /\ HoldInv' /\ ResolvingInv'
<1>1. TypeOK /\ RowsDense /\ OneRowPerType /\ HoldInv /\ ResolvingInv
  BY DEF IInv
<1>2. tx[i] # NoTx
  BY DEF NoTx, TxTypes
<1>3. /\ tx'[i].type = t /\ tx'[i].status = st /\ \A j \in TxIds : j # i => tx'[j] = tx[j]
      /\ tx' \in [TxIds -> Rows] /\ lastTx' \in 0..MaxTx /\ RowsDense'
  BY <1>1, <1>2, Updated
<1>4. OneRowPerType'
  BY <1>1, <1>2, <1>3 DEF OneRowPerType
<1>5. HoldInv'
  <2>1. \A v \in Workers : hold'[v] # Idle => hold'[v] = hold[v] /\ hold[v].row # i
    OBVIOUS
  <2>2. \A v \in Workers : hold'[v] # Idle =>
           /\ hold'[v].row \in TxIds
           /\ tx'[hold'[v].row] = tx[hold[v].row]
    BY <1>1, <1>3, <2>1 DEF HoldInv
  <2>3. \A v, w \in Workers : v # w /\ hold'[v] # Idle => hold'[v].row # hold'[w].row
    <3>1. Idle.row \notin TxIds
      BY DEF Idle, TxIds
    <3> QED BY <1>1, <2>1, <2>2, <3>1 DEF HoldInv
  <2>4. \A w \in Workers : hold'[w] # Idle =>
           /\ tx'[hold'[w].row].status = "PENDING"
           /\ tx'[hold'[w].row].type = "CHARGE" => "charged" \in psp'
           /\ tx'[hold'[w].row].type = "REFUND" => "refunded" \in psp'
           /\ hold'[w].seen \in PaidStatuses => HasCompletedCharge'
    BY <1>1, <2>1, <2>2 DEF HoldInv
  <2> QED BY <2>2, <2>3, <2>4 DEF HoldInv
<1>6. ResolvingInv'
  <2>1. resolving \in TxIds \cup {0}
    BY <1>1, MaxTxAssumption DEF TypeOK, TxIds
  <2> QED BY <1>1, <1>3, <2>1 DEF ResolvingInv
<1> QED BY <1>3, <1>4, <1>5, <1>6

\* A webhook or payout completion that commits: the row it held was PENDING, so
\* whatever its stale view of the booking, the money was never settled otherwise.
LEMMA CommitSteps ==
    ASSUME IInv, NEW w \in Workers, CommitChargeSuccess(w) \/ CommitRefundSuccess(w) \/ CommitMarkPayoutCompleted(w)
    PROVE  IInv'
<1>1. TypeOK /\ RowsDense /\ OneRowPerType /\ HoldInv /\ StatusBackedByMoney /\ PayoutAfterDelivery
      /\ PayoutHistory /\ PayoutXorRefund /\ BooksMatchProvider
  BY DEF IInv
<1> DEFINE i == hold[w].row
           seen == hold[w].seen
           t == tx[i].type
<1>2. PICK type \in {"CHARGE", "REFUND", "PAYOUT"} : CommitRow(w, type)
  BY DEF CommitChargeSuccess, CommitRefundSuccess, CommitMarkPayoutCompleted
<1>3. /\ hold[w] # Idle /\ t = type /\ Mark(i, "COMPLETED") /\ hold' = [hold EXCEPT ![w] = Idle]
      /\ UNCHANGED <<escrow, deleted, dispute, lastTx, resolving, psp, todo>>
  BY <1>2 DEF CommitRow
<1>4. /\ i \in TxIds /\ tx[i].status = "PENDING"
      /\ t = "CHARGE" => "charged" \in psp
      /\ t = "REFUND" => "refunded" \in psp
      /\ seen \in PaidStatuses => HasCompletedCharge
      /\ \A v \in Workers \ {w} : hold[v].row # i
  <2>1. Idle.row \notin TxIds
    BY DEF Idle, TxIds
  <2> QED BY <1>1, <1>3, <2>1 DEF HoldInv
<1>5. \A v \in Workers : hold'[v] = Idle \/ (hold'[v] = hold[v] /\ hold[v].row # i)
  BY <1>1, <1>3, <1>4 DEF TypeOK
<1>6. hold' \in [Workers -> [row : 0..MaxTx, seen : BookingStatuses \cup {"NONE"}]]
  BY <1>1, <1>3, MaxTxAssumption DEF TypeOK, Idle
<1> HIDE DEF i, seen, t
<1>7. type \in TxTypes /\ "COMPLETED" \in TxStatuses /\ tx[i].type = type
  BY <1>3 DEF TxTypes, TxStatuses, t
<1>8. /\ \A S : Has(type, S)' <=> "COMPLETED" \in S
      /\ \A other \in TxTypes \ {type} : \A S : Has(other, S)' <=> Has(other, S)
      /\ \A S : Has(type, S) <=> "PENDING" \in S
  <2>1. lastTx' = lastTx
    BY <1>3
  <2> QED BY <1>1, <1>3, <1>4, <1>7, <2>1, HasUpdated
<1>9. HasCompletedCharge => HasCompletedCharge'
  BY <1>8 DEF HasCompletedCharge, TxTypes
<1>10. /\ tx' \in [TxIds -> Rows] /\ lastTx' \in 0..MaxTx
       /\ RowsDense' /\ OneRowPerType' /\ HoldInv' /\ ResolvingInv'
  <2>1. lastTx' = lastTx /\ psp' = psp /\ resolving' \in {0, resolving}
    BY <1>3
  <2> QED BY <1>3, <1>4, <1>5, <1>7, <1>9, <2>1, UpdateKeeps
<1>11. \/ type = "CHARGE" /\ (status' = status \/ status' = "CONFIRMEE")
       \/ type = "REFUND" /\ (status' = status \/ (status' = "REMBOURSEE" /\ seen \in PaidStatuses))
       \/ type = "PAYOUT" /\ (status' = status \/ (status' = "TERMINE" /\ seen = "LIVREE"))
  BY <1>2, <1>3 DEF CommitChargeSuccess, CommitRefundSuccess, CommitMarkPayoutCompleted, CommitRow,
     CanTransitionTo, AllowedTransitions, PaidStatuses, i, seen, t
<1>12. window' \in {"none", window}
  BY DEF CommitChargeSuccess, CommitRefundSuccess, CommitMarkPayoutCompleted
<1>13. TypeOK'
  <2>1. status' \in BookingStatuses
    BY <1>1, <1>11 DEF TypeOK, BookingStatuses
  <2>2. window' \in {"none", "open", "past"}
    BY <1>1, <1>12 DEF TypeOK
  <2> QED BY <1>1, <1>3, <1>6, <1>10, <2>1, <2>2 DEF TypeOK
<1>14. PayoutHistory' /\ PayoutXorRefund' /\ StatusBackedByMoney' /\ PayoutAfterDelivery' /\ BooksMatchProvider'
  <2>1. CASE type = "CHARGE"
    <3>1. HasCompletedCharge' /\ "charged" \in psp /\ ~HasCompletedCharge
      BY <1>3, <1>4, <1>8, <2>1 DEF HasCompletedCharge
    <3>2. \A other \in {"REFUND", "PAYOUT", "FEE", "PAYMENT_FEE"} : \A S : Has(other, S)' <=> Has(other, S)
      BY <1>8, <2>1 DEF TxTypes
    <3>3. ~Has("PAYOUT", TxStatuses) /\ status \notin PaidStatuses
      BY <1>1, <3>1 DEF PayoutHistory, StatusBackedByMoney
    <3> QED BY <1>1, <1>3, <1>11, <2>1, <3>1, <3>2, <3>3 DEF PayoutHistory, PayoutXorRefund, HasPayout, HasRefund,
            HasFee, StatusBackedByMoney, PayoutAfterDelivery, BooksMatchProvider, PaidStatuses
  <2>2. CASE type = "REFUND"
    <3>1. Has("REFUND", {"COMPLETED"})' /\ HasRefund /\ "refunded" \in psp
      BY <1>3, <1>4, <1>8, <2>2 DEF HasRefund, TxStatuses
    <3>2. \A other \in {"CHARGE", "PAYOUT", "FEE", "PAYMENT_FEE"} : \A S : Has(other, S)' <=> Has(other, S)
      BY <1>8, <2>2 DEF TxTypes
    <3>3. ~HasPayout /\ HasRefund'
      BY <1>1, <3>1, <1>8, <2>2 DEF PayoutXorRefund, HasRefund, TxStatuses
    <3> QED BY <1>1, <1>3, <1>4, <1>11, <2>2, <3>1, <3>2, <3>3 DEF PayoutHistory, PayoutXorRefund, HasPayout,
            HasFee, HasCompletedCharge, StatusBackedByMoney, PayoutAfterDelivery, BooksMatchProvider, PaidStatuses
  <2>3. CASE type = "PAYOUT"
    <3>1. Has("PAYOUT", {"COMPLETED"})' /\ HasPayout /\ Has("PAYOUT", TxStatuses)
      BY <1>3, <1>4, <1>8, <2>3 DEF HasPayout, TxStatuses
    <3>2. \A other \in {"CHARGE", "REFUND", "FEE", "PAYMENT_FEE"} : \A S : Has(other, S)' <=> Has(other, S)
      BY <1>8, <2>3 DEF TxTypes
    <3> QED BY <1>1, <1>3, <1>4, <1>11, <2>3, <3>1, <3>2 DEF PayoutHistory, PayoutXorRefund, HasRefund,
            HasFee, HasCompletedCharge, StatusBackedByMoney, PayoutAfterDelivery, BooksMatchProvider, PaidStatuses
  <2> QED BY <2>1, <2>2, <2>3
<1> QED BY <1>1, <1>10, <1>13, <1>14 DEF IInv

\* ResolveDispute in favour of the traveler writes a payout it has not locked; the
\* other writer of payouts can only have completed it.
LEMMA ResolvePayoutStep ==
    ASSUME IInv, ResolveWithPayout
    PROVE  IInv'
<1>1. TypeOK /\ RowsDense /\ OneRowPerType /\ HoldInv /\ ResolvingInv /\ StatusBackedByMoney
      /\ PayoutAfterDelivery /\ PayoutHistory /\ PayoutXorRefund /\ BooksMatchProvider
  BY DEF IInv
<1> DEFINE i == resolving
<1>2. /\ i # 0 /\ Unlocked(i) /\ Mark(i, "COMPLETED") /\ status' = "TERMINE" /\ window' = window
      /\ dispute' = "resolved" /\ resolving' = 0 /\ status \in PaidStatuses
      /\ UNCHANGED <<escrow, deleted, lastTx, hold, psp, todo>>
  BY DEF ResolveWithPayout, TransitionTo, CanTransitionTo, AllowedTransitions, PaidStatuses
<1>3. i \in TxIds /\ tx[i].type = "PAYOUT" /\ tx[i].status \in {"PENDING", "COMPLETED"}
      /\ "PAYOUT" \in TxTypes /\ "COMPLETED" \in TxStatuses
  BY <1>1, <1>2, MaxTxAssumption DEF ResolvingInv, TypeOK, TxIds, TxTypes, TxStatuses
<1>4. \A v \in Workers : hold'[v] = Idle \/ (hold'[v] = hold[v] /\ hold[v].row # i)
  BY <1>2 DEF Unlocked
<1> HIDE DEF i
<1>5. /\ \A S : Has("PAYOUT", S)' <=> "COMPLETED" \in S
      /\ \A other \in TxTypes \ {"PAYOUT"} : \A S : Has(other, S)' <=> Has(other, S)
      /\ \A S : Has("PAYOUT", S) <=> tx[i].status \in S
  <2>1. lastTx' = lastTx
    BY <1>2
  <2> QED BY <1>1, <1>2, <1>3, <2>1, HasUpdated
<1>6. \A other \in {"CHARGE", "REFUND", "FEE", "PAYMENT_FEE"} : \A S : Has(other, S)' <=> Has(other, S)
  BY <1>5 DEF TxTypes
<1>7. /\ HasCompletedCharge /\ HasCompletedCharge' /\ HasPayout /\ Has("PAYOUT", TxStatuses)
      /\ Has("PAYOUT", {"COMPLETED"})'
  <2>1. HasCompletedCharge
    BY <1>1, <1>2 DEF StatusBackedByMoney
  <2>2. HasCompletedCharge'
    BY <2>1, <1>6 DEF HasCompletedCharge
  <2>3. Has("PAYOUT", {"PENDING", "COMPLETED"}) /\ Has("PAYOUT", TxStatuses) /\ Has("PAYOUT", {"COMPLETED"})'
    BY <1>3, <1>5 DEF TxStatuses
  <2> QED BY <2>1, <2>2, <2>3 DEF HasPayout
<1>8. /\ tx' \in [TxIds -> Rows] /\ lastTx' \in 0..MaxTx
      /\ RowsDense' /\ OneRowPerType' /\ HoldInv' /\ ResolvingInv'
  <2>1. lastTx' = lastTx /\ psp' = psp /\ resolving' \in {0, resolving}
    BY <1>2
  <2> QED BY <1>2, <1>3, <1>4, <1>7, <2>1, UpdateKeeps
<1>9. TypeOK'
  BY <1>1, <1>2, <1>8, MaxTxAssumption DEF TypeOK, BookingStatuses
<1>10. PayoutHistory' /\ PayoutXorRefund' /\ StatusBackedByMoney' /\ PayoutAfterDelivery' /\ BooksMatchProvider'
  BY <1>1, <1>2, <1>6, <1>7 DEF PayoutHistory, PayoutXorRefund, HasRefund, HasFee, HasCompletedCharge,
     StatusBackedByMoney, PayoutAfterDelivery, BooksMatchProvider
<1> QED BY <1>8, <1>9, <1>10 DEF IInv

\* A failure webhook only fails a row that is PENDING, so it cannot take away the
\* money that a status stands for.
LEMMA FailureStep ==
    ASSUME IInv, NEW i \in TxIds, WebhookFailure(i)
    PROVE  IInv'
<1>1. TypeOK /\ RowsDense /\ OneRowPerType /\ HoldInv /\ StatusBackedByMoney
      /\ PayoutAfterDelivery /\ PayoutHistory /\ PayoutXorRefund /\ BooksMatchProvider
  BY DEF IInv
<1>2. PICK t \in {"CHARGE", "REFUND"} : tx[i] = Row(t, "PENDING")
  BY DEF WebhookFailure
<1>3. /\ tx[i].type = t /\ tx[i].status = "PENDING" /\ t \in TxTypes /\ "FAILED" \in TxStatuses
      /\ Mark(i, "FAILED") /\ Unlocked(i)
      /\ UNCHANGED <<status, window, escrow, deleted, dispute, lastTx, hold, resolving, psp, todo>>
  BY <1>2 DEF WebhookFailure, Row, TxTypes, TxStatuses, bookingVars, lockVars
<1>4. /\ \A S : Has(t, S)' <=> "FAILED" \in S
      /\ \A other \in TxTypes \ {t} : \A S : Has(other, S)' <=> Has(other, S)
      /\ \A S : Has(t, S) <=> "PENDING" \in S
  <2>1. lastTx' = lastTx
    BY <1>3
  <2> QED BY <1>1, <1>3, <2>1, HasUpdated
<1>5. HasCompletedCharge' <=> HasCompletedCharge
  BY <1>4 DEF HasCompletedCharge, TxTypes
<1>6. HasRefund' <=> HasRefund
  BY <1>4 DEF HasRefund, TxTypes, TxStatuses
<1>7. Has("REFUND", {"COMPLETED"})' <=> Has("REFUND", {"COMPLETED"})
  BY <1>4 DEF TxTypes
<1>8. \A other \in {"PAYOUT", "FEE", "PAYMENT_FEE"} : \A S : Has(other, S)' <=> Has(other, S)
  BY <1>2, <1>4 DEF TxTypes
<1>9. /\ tx' \in [TxIds -> Rows] /\ lastTx' \in 0..MaxTx
      /\ RowsDense' /\ OneRowPerType' /\ HoldInv' /\ ResolvingInv'
  <2>1. lastTx' = lastTx /\ psp' = psp /\ resolving' \in {0, resolving}
    BY <1>3
  <2>2. \A v \in Workers : hold'[v] = Idle \/ (hold'[v] = hold[v] /\ hold[v].row # i)
    BY <1>3 DEF Unlocked
  <2>3. t # "PAYOUT"
    BY <1>2
  <2> QED BY <1>3, <1>5, <2>1, <2>2, <2>3, UpdateKeeps
<1>10. TypeOK'
  BY <1>1, <1>3, <1>9 DEF TypeOK
<1>11. PayoutHistory' /\ PayoutXorRefund' /\ StatusBackedByMoney' /\ PayoutAfterDelivery' /\ BooksMatchProvider'
  BY <1>1, <1>3, <1>5, <1>6, <1>7, <1>8 DEF PayoutHistory, PayoutXorRefund, HasPayout, HasFee,
     StatusBackedByMoney, PayoutAfterDelivery, BooksMatchProvider
<1> QED BY <1>9, <1>10, <1>11 DEF IInv
-----------------------------------------------------------------------------
(* The inductive invariant.                                                *)

\* The reserved booking, without any transaction, satisfies the invariant.
LEMMA InitIInv == Init => IInv
<1> SUFFICES ASSUME Init PROVE IInv
  OBVIOUS
<1>1. \A i \in TxIds : tx[i] = NoTx /\ tx[i].type = "NONE" /\ tx[i] \in Rows
  BY DEF Init, NoTx, Rows
<1>2. TypeOK
  <2>1. NoTx \in Rows /\ Idle \in [row : 0..MaxTx, seen : BookingStatuses \cup {"NONE"}]
    BY MaxTxAssumption DEF NoTx, Rows, Idle
  <2>2. tx \in [TxIds -> Rows] /\ hold \in [Workers -> [row : 0..MaxTx, seen : BookingStatuses \cup {"NONE"}]]
    BY <2>1 DEF Init
  <2>3. lastTx \in 0..MaxTx /\ resolving \in 0..MaxTx
    BY MaxTxAssumption DEF Init
  <2> QED BY <2>2, <2>3 DEF Init, TypeOK, BookingStatuses
<1>3. \A type \in TxTypes : \A S : ~Has(type, S)
  BY <1>1 DEF Has, TxTypes
<1>4. RowsDense /\ OneRowPerType
  BY <1>1 DEF Init, RowsDense, OneRowPerType, TxIds
<1>5. HoldInv /\ ResolvingInv
  BY DEF Init, HoldInv, ResolvingInv
<1>6. PayoutHistory /\ PayoutXorRefund /\ StatusBackedByMoney /\ PayoutAfterDelivery /\ BooksMatchProvider
  BY <1>3 DEF Init, PayoutHistory, PayoutXorRefund, StatusBackedByMoney, PayoutAfterDelivery, BooksMatchProvider,
     HasPayout, HasRefund, HasFee, HasCompletedCharge, TxTypes, PaidStatuses
<1> QED BY <1>2, <1>4, <1>5, <1>6 DEF IInv

\* Every step of every actor keeps the invariant.
LEMMA NextIInv == IInv /\ [Next]_vars => IInv'
<1> SUFFICES ASSUME IInv, [Next]_vars PROVE IInv'
  OBVIOUS
<1>1. CASE Payments
  BY <1>1, BookingSteps, ChargeStep DEF Payments
<1>2. CASE Refunds
  <2>1. ASSUME NEW st \in Accepted, AdminRefundTransaction(st)
        PROVE  IInv'
    BY <2>1, RefundSteps
  <2> QED BY <1>2, <2>1, BookingSteps, RefundSteps DEF Refunds
<1>3. CASE Deliveries
  BY <1>3, BookingSteps, PayoutStep DEF Deliveries
<1>4. CASE Disputes
  BY <1>4, BookingSteps, ResolveRefundStep, BeginResolveStep, ResolvePayoutStep DEF Disputes
<1>5. ASSUME NEW w \in Workers, Begins(w) \/ Ends(w)
      PROVE  IInv'
  BY <1>5, LockSteps, CommitSteps DEF Ends
<1>6. CASE Environment \/ UNCHANGED vars
  BY <1>6, BookingSteps
<1> QED BY <1>1, <1>2, <1>3, <1>4, <1>5, <1>6, FailureStep DEF Next

\* The inductive invariant holds in every reachable state.
THEOREM InductiveInvariant == Spec => []IInv
BY InitIInv, NextIInv, PTL DEF Spec
-----------------------------------------------------------------------------
(* The properties of BookingPayment for every number of workers and every  *)
(* bound on the rows.                                                      *)

\* Every variable keeps its type: in particular the stale status that a webhook
\* writes back is always a status of the enum.
THEOREM TypeCorrect == Spec => []TypeOK
<1>1. IInv => TypeOK
  BY DEF IInv
<1> QED BY <1>1, InductiveInvariant, PTL

\* Whatever the requests, jobs and webhooks do, a booking has one charge, one
\* refund and one payout at most, without a unique index.
THEOREM NoDuplicateRow == Spec => []OneRowPerType
<1>1. IInv => OneRowPerType
  BY DEF IInv
<1> QED BY <1>1, InductiveInvariant, PTL

\* A live payout and a refund row never exist together.
THEOREM Exclusivity == Spec => []PayoutXorRefund
<1>1. IInv => PayoutXorRefund
  BY DEF IInv
<1> QED BY <1>1, InductiveInvariant, PTL

\* A status is never ahead of the money it stands for, stale writes included.
THEOREM StatusIsBacked == Spec => []StatusBackedByMoney
<1>1. IInv => StatusBackedByMoney
  BY DEF IInv
<1> QED BY <1>1, InductiveInvariant, PTL

\* Nobody is paid out before the delivery and the escrow delay.
THEOREM NoEarlyPayout == Spec => []PayoutAfterDelivery
<1>1. IInv => PayoutAfterDelivery
  BY DEF IInv
<1> QED BY <1>1, InductiveInvariant, PTL

\* The hourly batch selects what the payout's own guards accept, no more and no less.
THEOREM BatchIsExact == Spec => []BatchMirrorsEligibility
<1>1. ASSUME IInv, status = "LIVREE"
      PROVE  HasCompletedCharge
  BY <1>1 DEF IInv, StatusBackedByMoney, PaidStatuses
<1>2. ASSUME IInv, Has("PAYOUT", TxStatuses)
      PROVE  HasFee
  BY <1>2 DEF IInv, PayoutHistory
<1>3. HasPayout => Has("PAYOUT", TxStatuses)
  BY DEF HasPayout, Has, TxStatuses
<1>4. IInv => BatchMirrorsEligibility
  BY <1>1, <1>2, <1>3 DEF BatchMirrorsEligibility, BatchSelects, CanCreatePayout, IsEscrowReleasable
<1> QED BY <1>4, InductiveInvariant, PTL

\* The rows claim a charge or a refund only when the provider has made it.
THEOREM BooksAreTrue == Spec => []BooksMatchProvider
<1>1. IInv => BooksMatchProvider
  BY DEF IInv
<1> QED BY <1>1, InductiveInvariant, PTL

\* Steps that write no row, or insert where there is none, change no final row.
LEMMA FinalKeptByInsert ==
    ASSUME TypeOK, RowsDense,
           \/ \E row : lastTx + 1 <= MaxTx /\ tx' = [tx EXCEPT ![lastTx + 1] = row]
           \/ \E r1, r2, r3 : lastTx + 3 <= MaxTx
                /\ tx' = [tx EXCEPT ![lastTx + 1] = r1, ![lastTx + 2] = r2, ![lastTx + 3] = r3]
    PROVE  FinalTxStays
<1>1. lastTx \in Nat /\ MaxTx \in Nat
  BY MaxTxAssumption DEF TypeOK
<1>2. \A i \in TxIds : tx[i].status \in {"COMPLETED", "FAILED"} => i # lastTx + 1 /\ i # lastTx + 2 /\ i # lastTx + 3
  BY <1>1 DEF RowsDense, NoTx, TxIds
<1>3. \A i \in TxIds : i # lastTx + 1 /\ i # lastTx + 2 /\ i # lastTx + 3 => tx'[i] = tx[i]
  BY <1>1 DEF TypeOK
<1> QED BY <1>2, <1>3 DEF FinalTxStays

\* An update of a row that is not final changes no final row.
LEMMA FinalKeptByMark ==
    ASSUME TypeOK, NEW i \in TxIds, NEW st, Mark(i, st),
           tx[i].status = "PENDING" \/ tx[i] = Marked(i, st)
    PROVE  FinalTxStays
<1>1. \A j \in TxIds : tx'[j] = IF j = i THEN Marked(i, st) ELSE tx[j]
  BY DEF Mark, TypeOK
<1> QED BY <1>1 DEF FinalTxStays

\* No step changes a final row, as long as the invariant holds: the row a worker
\* holds is PENDING, and the payout a dispute completes is PENDING or COMPLETED.
LEMMA NextKeepsFinalRows == IInv /\ [Next]_vars => FinalTxStays
<1> SUFFICES ASSUME IInv, [Next]_vars PROVE FinalTxStays
  OBVIOUS
<1>1. TypeOK /\ RowsDense /\ HoldInv /\ ResolvingInv
  BY DEF IInv
<1>2. ASSUME tx' = tx PROVE FinalTxStays
  BY <1>2 DEF FinalTxStays
<1>3. CASE \/ ConfirmBooking \/ ExpirePendingBooking \/ ChargeLost \/ \E step \in {"confirm", "refund"} : DropTodo(step)
           \/ \E rate \in {"zero", "positive"} : CancelBooking(rate)
           \/ DeleteBooking \/ \E auto \in BOOLEAN : RefundLost(auto)
           \/ HandOverBooking \/ ConfirmDelivery
  <2>1. tx' = tx
    BY <1>3 DEF ConfirmBooking, ExpirePendingBooking, ChargeLost, DropTodo, CancelBooking, DeleteBooking, RefundLost,
       HandOverBooking, ConfirmDelivery, txVars
  <2> QED BY <1>2, <2>1
<1>4. CASE \/ OpenDispute \/ CloseDispute \/ RollbackResolve \/ \E i \in TxIds : BeginResolveWithPayout(i)
           \/ \E w \in Workers : Begins(w) \/ Rollback(w)
           \/ Environment \/ UNCHANGED vars
  <2>1. tx' = tx
    BY <1>4 DEF OpenDispute, CloseDispute, RollbackResolve, BeginResolveWithPayout, Begins, BeginChargeSuccess,
       BeginRefundSuccess, BeginMarkPayoutCompleted, Begin, Rollback, Environment, PaymentWindowPasses,
       EscrowDelayPasses, CustomerPays, ProviderRefunds, txVars, vars
  <2> QED BY <1>2, <2>1
<1>5. CASE \/ \E st \in Accepted, viaPay \in BOOLEAN : CreateTransaction(st, viaPay)
           \/ \E st \in Accepted, auto \in BOOLEAN : RefundTransaction(st, auto)
           \/ \E st \in Accepted : AdminRefundTransaction(st)
           \/ CreatePayoutTransaction
  BY <1>1, <1>5, FinalKeptByInsert DEF CreateTransaction, RefundTransaction, AdminRefundTransaction,
     CreatePayoutTransaction, Insert, InsertOver, InsertThree
<1>6. ASSUME NEW st \in Accepted, ResolveWithRefund(st)
      PROVE  FinalTxStays
  <2>1. \/ tx' = PayoutsCancelled
        \/ \E row : tx' = [PayoutsCancelled EXCEPT ![lastTx + 1] = row]
    BY <1>6 DEF ResolveWithRefund, InsertOver
  <2>2. \A i \in TxIds : tx[i].status \in {"COMPLETED", "FAILED"} => PayoutsCancelled[i] = tx[i] /\ i # lastTx + 1
    BY <1>1, PayoutsFailed, MaxTxAssumption DEF RowsDense, NoTx, TypeOK, TxIds
  <2>3. PayoutsCancelled \in [TxIds -> Rows]
    BY <1>1, PayoutsFailed
  <2>4. \A i \in TxIds : i # lastTx + 1 => tx'[i] = PayoutsCancelled[i]
    BY <2>1, <2>3
  <2>5. ASSUME tx' = PayoutsCancelled PROVE FinalTxStays
    BY <2>2, <2>5 DEF FinalTxStays
  <2> QED BY <2>2, <2>4 DEF FinalTxStays
<1>7. ASSUME NEW w \in Workers, CommitChargeSuccess(w) \/ CommitRefundSuccess(w) \/ CommitMarkPayoutCompleted(w)
      PROVE  FinalTxStays
  <2>1. hold[w] # Idle /\ Mark(hold[w].row, "COMPLETED")
    BY <1>7 DEF CommitChargeSuccess, CommitRefundSuccess, CommitMarkPayoutCompleted, CommitRow
  <2>2. hold[w].row \in TxIds /\ tx[hold[w].row].status = "PENDING"
    BY <1>1, <2>1 DEF HoldInv
  <2> QED BY <1>1, <2>1, <2>2, FinalKeptByMark
<1>8. CASE ResolveWithPayout
  <2>1. Mark(resolving, "COMPLETED") /\ resolving # 0
    BY <1>8 DEF ResolveWithPayout
  <2>2. /\ resolving \in TxIds /\ tx[resolving].type = "PAYOUT"
        /\ tx[resolving].status \in {"PENDING", "COMPLETED"} /\ tx[resolving] \in Rows
    BY <1>1, <2>1, MaxTxAssumption DEF ResolvingInv, TypeOK, TxIds
  <2>3. tx[resolving] = Row(tx[resolving].type, tx[resolving].status)
    BY <2>2 DEF Rows, Row
  <2>4. tx[resolving].status = "PENDING" \/ tx[resolving] = Marked(resolving, "COMPLETED")
    BY <2>2, <2>3 DEF Marked
  <2> QED BY <1>1, <2>1, <2>2, <2>4, FinalKeptByMark
<1>9. ASSUME NEW i \in TxIds, WebhookFailure(i)
      PROVE  FinalTxStays
  <2>1. Mark(i, "FAILED") /\ tx[i].status = "PENDING"
    BY <1>9 DEF WebhookFailure, Row
  <2> QED BY <1>1, <2>1, FinalKeptByMark
<1> QED BY <1>3, <1>4, <1>5, <1>6, <1>7, <1>8, <1>9
    DEF Next, Payments, Refunds, Deliveries, Disputes, Ends

\* No step of any actor changes a completed or failed transaction.
THEOREM FinalRowsStay == Spec => TxFinality
<1>1. IInv /\ [Next]_vars => [FinalTxStays]_vars
  BY NextKeepsFinalRows
<1> QED BY <1>1, InductiveInvariant, PTL DEF Spec, TxFinality
-----------------------------------------------------------------------------
(* BookingPayment implements EscrowContract.                               *)

\* A charge collects the funds, at once or when its row completes.
LEMMA ChargeMovesFunds ==
    ASSUME IInv, NEW st \in Accepted, NEW viaPay \in BOOLEAN, CreateTransaction(st, viaPay)
    PROVE  [Contract!Next]_funds
<1>1. Row("CHARGE", st) \in Rows /\ Row("CHARGE", st).type = "CHARGE" /\ Row("CHARGE", st).status = st
      /\ st \in TxStatuses /\ TypeOK /\ RowsDense
  BY RowType DEF Row, Rows, Accepted, TxTypes, TxStatuses, IInv
<1>2. Insert(Row("CHARGE", st)) /\ ~Has("CHARGE", TxStatuses)
  BY DEF CreateTransaction
<1>3. \A type \in TxTypes \ {"CHARGE"} : \A S : Has(type, S)' <=> Has(type, S)
  BY <1>1, <1>2, HasInserted DEF TxTypes
<1>4. ~HasCompletedCharge
  BY <1>2 DEF HasCompletedCharge, Has, TxStatuses
<1>5. /\ \A S : Has("PAYOUT", S)' <=> Has("PAYOUT", S)
      /\ \A S : Has("REFUND", S)' <=> Has("REFUND", S)
  BY <1>3 DEF TxTypes
<1> QED BY <1>4, <1>5 DEF funds, Contract!Next, Contract!Collect, Contract!Move

\* Inserting a refund takes held funds back to the sender.
LEMMA RefundMovesFunds ==
    ASSUME IInv, NEW st \in Accepted, Insert(Row("REFUND", st)), ~HasRefund, ~HasPayout, HasCompletedCharge
    PROVE  [Contract!Next]_funds
<1>1. Row("REFUND", st) \in Rows /\ Row("REFUND", st).type = "REFUND" /\ Row("REFUND", st).status = st
      /\ st \in TxStatuses /\ TypeOK /\ RowsDense
  BY RowType DEF Row, Rows, Accepted, TxTypes, TxStatuses, IInv
<1>2. \A S : Has("REFUND", S)' <=> Has("REFUND", S) \/ st \in S
  BY <1>1, HasInserted DEF TxTypes
<1>3. \A S : Has("PAYOUT", S)' <=> Has("PAYOUT", S)
  BY <1>1, HasInserted DEF TxTypes
<1>4. ~Has("PAYOUT", {"PENDING"}) /\ ~Has("PAYOUT", {"COMPLETED"})
      /\ ~Has("REFUND", {"PENDING"}) /\ ~Has("REFUND", {"COMPLETED"}) /\ ~Has("REFUND", {"FAILED"})
  BY DEF HasPayout, HasRefund, Has, TxStatuses
<1>5. funds = "held"
  BY <1>4 DEF funds
<1>6. funds' \in {"returning", "returned"}
  <2>1. ~Has("PAYOUT", {"PENDING"})' /\ ~Has("PAYOUT", {"COMPLETED"})'
    BY <1>3, <1>4
  <2>2. Has("REFUND", {"PENDING"})' \/ Has("REFUND", {"COMPLETED"})'
    BY <1>2 DEF Accepted
  <2> QED BY <2>1, <2>2 DEF funds
<1> QED BY <1>5, <1>6 DEF Contract!Next, Contract!Refund, Contract!Move

\* Creating the payout turns held funds into owed ones.
LEMMA PayoutMovesFunds ==
    ASSUME IInv, CreatePayoutTransaction
    PROVE  [Contract!Next]_funds
<1>1. HasCompletedCharge /\ ~HasPayout /\ ~HasRefund /\ ~HasFee
      /\ InsertThree(Row("FEE", "COMPLETED"), Row("PAYMENT_FEE", "COMPLETED"), Row("PAYOUT", "PENDING"))
  BY DEF CreatePayoutTransaction, CanCreatePayout
<1>2. IInv'
  BY PayoutStep
<1>3. ~Has("PAYOUT", {"PENDING"}) /\ ~Has("PAYOUT", {"COMPLETED"})
      /\ ~Has("REFUND", {"PENDING"}) /\ ~Has("REFUND", {"COMPLETED"}) /\ ~Has("REFUND", {"FAILED"})
  BY <1>1 DEF HasPayout, HasRefund, Has, TxStatuses
<1>4. funds = "held"
  BY <1>1, <1>3 DEF funds
<1>5. Has("PAYOUT", {"PENDING"})'
  <2>1. lastTx \in Nat /\ lastTx + 3 \in TxIds /\ tx \in [TxIds -> Rows]
    BY <1>1, MaxTxAssumption DEF IInv, TypeOK, InsertThree, TxIds
  <2>2. tx'[lastTx + 3] = Row("PAYOUT", "PENDING")
    BY <1>1, <2>1 DEF InsertThree
  <2> QED BY <2>1, <2>2 DEF Has, Row
<1>6. ~Has("PAYOUT", {"COMPLETED"})'
  <2>1. PICK i \in TxIds : tx'[i].type = "PAYOUT" /\ tx'[i].status = "PENDING"
    BY <1>5 DEF Has
  <2>2. \A j \in TxIds : tx'[j].type = "PAYOUT" => j = i
    BY <1>2, <2>1 DEF IInv, OneRowPerType, NoTx
  <2> QED BY <2>1, <2>2 DEF Has
<1>7. funds' = "owed"
  BY <1>5, <1>6 DEF funds
<1> QED BY <1>4, <1>7 DEF Contract!Next, Contract!Owe, Contract!Move

\* A decision for the sender takes owed funds back in one step.
LEMMA ResolveRefundMovesFunds ==
    ASSUME IInv, NEW st \in Accepted, ResolveWithRefund(st)
    PROVE  [Contract!Next]_funds
<1>1. TypeOK /\ RowsDense /\ PayoutXorRefund /\ HasCompletedCharge /\ ~Has("PAYOUT", {"COMPLETED"})
  BY DEF ResolveWithRefund, IInv
<1>2. CASE HasRefund
  <2>1. \A i \in TxIds : ~(tx[i].type = "PAYOUT" /\ tx[i].status = "PENDING")
    BY <1>1, <1>2 DEF PayoutXorRefund, HasPayout, Has
  <2>2. tx' = PayoutsCancelled
    BY <1>2 DEF ResolveWithRefund
  <2>3. \A i \in TxIds : tx'[i] = tx[i]
    BY <1>1, <2>1, <2>2, PayoutsFailed
  <2>4. tx' = tx
    BY <1>1, <2>2, <2>3, PayoutsFailed DEF TypeOK
  <2> QED BY <2>4 DEF funds, HasCompletedCharge, Has
<1>3. CASE ~HasRefund
  <2>1. ~Has("REFUND", {"PENDING"}) /\ ~Has("REFUND", {"COMPLETED"}) /\ ~Has("REFUND", {"FAILED"})
    BY <1>3 DEF HasRefund, Has, TxStatuses
  <2>2. funds \in {"held", "owed"}
    BY <1>1, <2>1 DEF funds
  <2>3. Has("REFUND", {st})'
    <3>1. lastTx + 1 \in TxIds /\ PayoutsCancelled \in [TxIds -> Rows]
          /\ tx' = [PayoutsCancelled EXCEPT ![lastTx + 1] = Row("REFUND", st)]
      BY <1>1, <1>3, PayoutsFailed, MaxTxAssumption DEF ResolveWithRefund, InsertOver, TypeOK, TxIds
    <3>2. tx'[lastTx + 1] = Row("REFUND", st)
      BY <3>1
    <3> QED BY <3>1, <3>2 DEF Has, Row
  <2>4. ~HasPayout'
    <3>1. PayoutXorRefund'
      BY ResolveRefundStep DEF IInv
    <3>2. HasRefund'
      BY <2>3 DEF HasRefund, Has, TxStatuses, Accepted
    <3> QED BY <3>1, <3>2 DEF PayoutXorRefund
  <2>5. ~Has("PAYOUT", {"PENDING"})' /\ ~Has("PAYOUT", {"COMPLETED"})'
    BY <2>4 DEF HasPayout, Has
  <2>6. Has("REFUND", {"PENDING"})' \/ Has("REFUND", {"COMPLETED"})'
    BY <2>3 DEF Accepted
  <2>7. funds' \in {"returning", "returned"}
    BY <2>5, <2>6 DEF funds
  <2> QED BY <2>2, <2>7 DEF Contract!Next, Contract!Refund, Contract!Move
<1> QED BY <1>2, <1>3

\* A row that stops being PENDING moves the funds along the claim it stood for.
LEMMA UpdateMovesFunds ==
    ASSUME IInv, NEW i \in TxIds, NEW t \in {"CHARGE", "REFUND", "PAYOUT"},
           tx[i].type = t, tx[i].status = "PENDING",
           NEW st \in {"COMPLETED", "FAILED"}, t = "PAYOUT" => st = "COMPLETED",
           Mark(i, st), lastTx' = lastTx
    PROVE  [Contract!Next]_funds
<1>1. TypeOK /\ RowsDense /\ OneRowPerType /\ PayoutXorRefund /\ PayoutHistory
      /\ t \in TxTypes /\ st \in TxStatuses
  BY DEF IInv, TxTypes, TxStatuses
<1>2. /\ \A S : Has(t, S)' <=> st \in S
      /\ \A type \in TxTypes \ {t} : \A S : Has(type, S)' <=> Has(type, S)
      /\ \A S : Has(t, S) <=> "PENDING" \in S
  <2>1. t \in TxTypes /\ st \in TxStatuses /\ TypeOK /\ RowsDense /\ OneRowPerType
    BY <1>1
  <2>2. /\ \A S : Has(t, S)' <=> st \in S
        /\ \A type \in TxTypes \ {t} : \A S : Has(type, S)' <=> Has(type, S)
        /\ \A S : Has(t, S) <=> tx[i].status \in S
    BY <2>1, HasUpdated
  <2> QED BY <2>2
<1>3. CASE t = "CHARGE"
  <2>1. ~HasCompletedCharge
    BY <1>2, <1>3 DEF HasCompletedCharge
  <2>2. \A S : Has("PAYOUT", S)' <=> Has("PAYOUT", S)
    BY <1>2, <1>3 DEF TxTypes
  <2>3. \A S : Has("REFUND", S)' <=> Has("REFUND", S)
    BY <1>2, <1>3 DEF TxTypes
  <2> QED BY <2>1, <2>2, <2>3 DEF funds, Contract!Next, Contract!Collect, Contract!Move
<1>4. CASE t = "REFUND"
  <2>1. Has("REFUND", {"PENDING"}) /\ ~Has("REFUND", {"COMPLETED"}) /\ HasRefund
    BY <1>2, <1>4 DEF HasRefund, TxStatuses
  <2>2. ~Has("PAYOUT", {"PENDING"}) /\ ~Has("PAYOUT", {"COMPLETED"})
    BY <1>1, <2>1 DEF PayoutXorRefund, HasPayout, Has
  <2>3. funds = "returning"
    BY <2>1, <2>2 DEF funds
  <2>4. ~Has("PAYOUT", {"PENDING"})' /\ ~Has("PAYOUT", {"COMPLETED"})'
    BY <1>2, <1>4, <2>2 DEF TxTypes
  <2>5. ~Has("REFUND", {"PENDING"})' /\ (Has("REFUND", {"COMPLETED"})' \/ Has("REFUND", {"FAILED"})')
    BY <1>2, <1>4
  <2>6. funds' \in {"returned", "blocked"}
    BY <2>4, <2>5 DEF funds
  <2> QED BY <2>3, <2>6 DEF Contract!Next, Contract!Settle, Contract!Move
<1>5. CASE t = "PAYOUT"
  <2>1. Has("PAYOUT", {"PENDING"}) /\ ~Has("PAYOUT", {"COMPLETED"}) /\ Has("PAYOUT", {"COMPLETED"})'
    BY <1>2, <1>5
  <2>2. funds = "owed" /\ funds' = "paid"
    BY <2>1 DEF funds
  <2> QED BY <2>2 DEF Contract!Next, Contract!Pay, Contract!Move
<1> QED BY <1>3, <1>4, <1>5

\* Every step is a step of the escrow contract or leaves the funds alone.
LEMMA NextMovesFunds == IInv /\ [Next]_vars => [Contract!Next]_funds
<1> SUFFICES ASSUME IInv, [Next]_vars PROVE [Contract!Next]_funds
  OBVIOUS
<1>1. TypeOK /\ RowsDense /\ HoldInv /\ ResolvingInv
  BY DEF IInv
<1>2. ASSUME tx' = tx PROVE [Contract!Next]_funds
  BY <1>2 DEF funds, HasCompletedCharge, Has
<1>3. CASE \/ ConfirmBooking \/ ExpirePendingBooking \/ ChargeLost \/ \E step \in {"confirm", "refund"} : DropTodo(step)
           \/ \E rate \in {"zero", "positive"} : CancelBooking(rate)
           \/ DeleteBooking \/ \E auto \in BOOLEAN : RefundLost(auto)
           \/ HandOverBooking \/ ConfirmDelivery
  <2>1. tx' = tx
    BY <1>3 DEF ConfirmBooking, ExpirePendingBooking, ChargeLost, DropTodo, CancelBooking, DeleteBooking, RefundLost,
       HandOverBooking, ConfirmDelivery, txVars
  <2> QED BY <1>2, <2>1
<1>4. CASE \/ OpenDispute \/ CloseDispute \/ RollbackResolve \/ \E i \in TxIds : BeginResolveWithPayout(i)
           \/ \E w \in Workers : Begins(w) \/ Rollback(w)
           \/ Environment \/ UNCHANGED vars
  <2>1. tx' = tx
    BY <1>4 DEF OpenDispute, CloseDispute, RollbackResolve, BeginResolveWithPayout, Begins, BeginChargeSuccess,
       BeginRefundSuccess, BeginMarkPayoutCompleted, Begin, Rollback, Environment, PaymentWindowPasses,
       EscrowDelayPasses, CustomerPays, ProviderRefunds, txVars, vars
  <2> QED BY <1>2, <2>1
<1>5. CASE Payments
  BY <1>3, <1>5, ChargeMovesFunds DEF Payments
<1>6. CASE Refunds
  <2>1. ASSUME NEW st \in Accepted, NEW auto \in BOOLEAN, RefundTransaction(st, auto) \/ AdminRefundTransaction(st)
        PROVE  [Contract!Next]_funds
    BY <2>1, RefundMovesFunds DEF RefundTransaction, AdminRefundTransaction, CanCreateRefund
  <2>2. ASSUME NEW st \in Accepted, AdminRefundTransaction(st)
        PROVE  [Contract!Next]_funds
    BY <2>1, <2>2
  <2> QED BY <1>3, <1>6, <2>1, <2>2 DEF Refunds
<1>7. CASE Deliveries
  BY <1>3, <1>7, PayoutMovesFunds DEF Deliveries
<1>8. CASE ResolveWithPayout
  <2>1. Mark(resolving, "COMPLETED") /\ resolving # 0 /\ lastTx' = lastTx
    BY <1>8 DEF ResolveWithPayout
  <2>2. /\ resolving \in TxIds /\ tx[resolving].type = "PAYOUT"
        /\ tx[resolving].status \in {"PENDING", "COMPLETED"} /\ tx[resolving] \in Rows
    BY <1>1, <2>1, MaxTxAssumption DEF ResolvingInv, TypeOK, TxIds
  <2>3. CASE tx[resolving].status = "PENDING"
    <3> DEFINE i == resolving
    <3>1. Mark(i, "COMPLETED") /\ i \in TxIds /\ tx[i].type = "PAYOUT" /\ tx[i].status = "PENDING"
      BY <2>1, <2>2, <2>3
    <3> HIDE DEF i
    <3> QED BY <2>1, <3>1, UpdateMovesFunds
  <2>4. CASE tx[resolving].status = "COMPLETED"
    <3>1. tx[resolving] = Marked(resolving, "COMPLETED")
      BY <2>2, <2>4 DEF Rows, Row, Marked
    <3>2. tx' = tx
      BY <1>1, <2>1, <2>2, <3>1 DEF Mark, TypeOK
    <3> QED BY <1>2, <3>2
  <2> QED BY <2>2, <2>3, <2>4
<1>9. CASE Disputes
  BY <1>4, <1>8, <1>9, ResolveRefundMovesFunds DEF Disputes
<1>10. ASSUME NEW w \in Workers, CommitChargeSuccess(w) \/ CommitRefundSuccess(w) \/ CommitMarkPayoutCompleted(w)
       PROVE  [Contract!Next]_funds
  <2>1. PICK t \in {"CHARGE", "REFUND", "PAYOUT"} : CommitRow(w, t)
    BY <1>10 DEF CommitChargeSuccess, CommitRefundSuccess, CommitMarkPayoutCompleted
  <2>2. hold[w] # Idle /\ Mark(hold[w].row, "COMPLETED") /\ tx[hold[w].row].type = t /\ lastTx' = lastTx
    BY <2>1 DEF CommitRow
  <2>3. hold[w].row \in TxIds /\ tx[hold[w].row].status = "PENDING"
    BY <1>1, <2>2 DEF HoldInv
  <2> DEFINE i == hold[w].row
  <2>4. i \in TxIds /\ Mark(i, "COMPLETED") /\ tx[i].type = t /\ tx[i].status = "PENDING"
    BY <2>2, <2>3
  <2> HIDE DEF i
  <2> QED BY <2>2, <2>4, UpdateMovesFunds
<1>11. ASSUME NEW i \in TxIds, WebhookFailure(i)
       PROVE  [Contract!Next]_funds
  <2>1. PICK t \in {"CHARGE", "REFUND"} : tx[i] = Row(t, "PENDING")
    BY <1>11 DEF WebhookFailure
  <2>2. tx[i].type = t /\ tx[i].status = "PENDING" /\ Mark(i, "FAILED") /\ lastTx' = lastTx
    BY <1>11, <2>1 DEF WebhookFailure, Row
  <2>3. t \in {"CHARGE", "REFUND", "PAYOUT"} /\ (t = "PAYOUT" => "FAILED" = "COMPLETED")
    BY <2>1
  <2> QED BY <2>2, <2>3, UpdateMovesFunds
<1> QED BY <1>4, <1>5, <1>6, <1>7, <1>9, <1>10, <1>11 DEF Next, Ends

\* The funds of a booking, as its rows tell them, follow the escrow contract:
\* collected once, and released at most once and to one party.
THEOREM Refinement == Spec => ContractSpec
<1>1. Init => Contract!Init
  BY DEF Init, Contract!Init, funds, HasCompletedCharge, Has, NoTx
<1>2. IInv /\ [Next]_vars => [Contract!Next]_funds
  BY NextMovesFunds
<1> QED BY <1>1, <1>2, InductiveInvariant, PTL DEF Spec, ContractSpec, Contract!Spec
-----------------------------------------------------------------------------
(***************************************************************************)
(* Part 2: Amounts.                                                        *)
(***************************************************************************)

\* A higher rate of the same amount is a higher product.
LEMMA ProductMonotonic ==
    ASSUME NEW a \in Nat, NEW r \in Nat, NEW s \in Nat, r <= s
    PROVE  a * r \in Nat /\ a * r <= a * s
<1>1. PICK d \in Nat : s = r + d
      BY s - r \in Nat
<1>2. a * d \in Nat /\ a * r \in Nat
      OBVIOUS
<1>3. a * s = a * r + a * d
      BY <1>1
<1> QED
    BY <1>2, <1>3

\* Rounding to hundredths keeps the order.
LEMMA HundredthsMonotonic ==
    ASSUME NEW x \in Nat, NEW y \in Nat, x <= y
    PROVE  (x + 50) \div 100 \in Nat /\ (x + 50) \div 100 <= (y + 50) \div 100
OBVIOUS

\* A percentage of an amount is between nothing and the amount, and a higher rate
\* never gives less.
LEMMA PercentBounds ==
    ASSUME NEW a \in Nat, NEW r \in Nat, NEW s \in Nat, r <= s, s <= 100
    PROVE  Percent(a, r) \in Nat /\ Percent(a, r) <= Percent(a, s) /\ Percent(a, s) <= a
<1>1. /\ a * r \in Nat /\ a * s \in Nat /\ a * 100 \in Nat
      /\ a * r <= a * s /\ a * s <= a * 100
      BY ProductMonotonic
<1>2. (a * 100 + 50) \div 100 = a
      OBVIOUS
<1>3. /\ (a * r + 50) \div 100 \in Nat
      /\ (a * r + 50) \div 100 <= (a * s + 50) \div 100
      BY <1>1, HundredthsMonotonic
<1>4. (a * s + 50) \div 100 <= (a * 100 + 50) \div 100
      BY <1>1, HundredthsMonotonic
<1> QED
    BY <1>2, <1>3, <1>4 DEF Percent

\* calculatePayoutAmount and calculateFeeAmount: whatever the rounding, the two legs
\* that leave escrow at a release are the charge, and neither is negative; this is
\* the balance that LedgerWriter::assertBalanced asks for.
THEOREM ReleaseConservesCharge ==
    ASSUME NEW charge \in Nat
    PROVE  /\ FeeAmount(charge) \in 0..charge
           /\ PayoutAmount(charge) \in 0..charge
           /\ PayoutAmount(charge) + FeeAmount(charge) = charge
<1>1. FeeAmount(charge) \in Nat /\ FeeAmount(charge) <= charge
      BY RatesAssumption, PercentBounds DEF FeeAmount
<1> QED
    BY <1>1 DEF PayoutAmount

\* calculateCancellationRefundAmount: what a cancellation gives back grows with its
\* rate, and never exceeds a full refund nor what was charged.
THEOREM CancellationRefundBounded ==
    ASSUME NEW charge \in Nat, NEW low \in Nat, NEW high \in Nat, low <= high, high <= 100
    PROVE  /\ CancellationRefundAmount(charge, low) \in Nat
           /\ CancellationRefundAmount(charge, low) <= CancellationRefundAmount(charge, high)
           /\ CancellationRefundAmount(charge, high) <= RefundAmount(charge)
           /\ RefundAmount(charge) <= charge
<1>1. RefundAmount(charge) \in Nat /\ RefundAmount(charge) <= charge
      BY ReleaseConservesCharge DEF RefundAmount, PayoutAmount
<1> QED
    BY <1>1, PercentBounds DEF CancellationRefundAmount

\* calculateNetProfitAmount: the platform's margin is never negative when its rate is
\* at least the provider's, at the smallest prices too.
THEOREM MarginNotNegative ==
    ASSUME NEW charge \in Nat, PaymentFeeRate <= FeeRate
    PROVE  PaymentFeeAmount(charge) <= FeeAmount(charge)
BY RatesAssumption, PercentBounds DEF FeeAmount, PaymentFeeAmount
-----------------------------------------------------------------------------
(***************************************************************************)
(* Part 3: the entries of BookingLedger.                                   *)
(***************************************************************************)

\* The operations that write entries are steps of BookingPayment.
LEMMA PostingIsNext == Posting => Next
BY DEF Posting, LedgerCreateTransaction, LedgerRefundTransaction, LedgerAdminRefund, LedgerCreatePayout,
       LedgerChargeSuccess, LedgerRefundSuccess, LedgerMarkPayoutCompleted, LedgerResolveWithPayout,
       Next, Payments, Refunds, Deliveries, Disputes, Ends

\* So are those that write none.
LEMMA UnpostingIsNext == Unposting => Next
BY DEF Unposting, Next, Payments, Refunds, Deliveries, Disputes, Ends

\* The backfill changes nothing of the booking.
LEMMA LedgerNextIsNext == [LedgerNext]_allVars => [Next]_vars
<1>1. CASE Posting
      BY <1>1, PostingIsNext
<1>2. CASE Unposting
      BY <1>2, UnpostingIsNext
<1>3. CASE Backfill \/ UNCHANGED allVars
      BY <1>3 DEF Backfill, BackfillStart, BackfillSelect, BackfillCheck, BackfillWrite, BackfillStops, allVars
<1> QED
    BY <1>1, <1>2, <1>3 DEF LedgerNext

\* LedgerWriter and BackfillLedgerEntries change nothing of a booking but its
\* entries: seen without them, the ledger does what BookingPayment does.
THEOREM LedgerImplementsBooking == LedgerSpec => Spec
<1>1. LedgerInit => Init
      BY DEF LedgerInit
<1> QED
    BY <1>1, LedgerNextIsNext, PTL DEF LedgerSpec, Spec
-----------------------------------------------------------------------------
(* Legs.                                                                   *)

\* What LedgerWriter writes are legs, and which rows they belong to.
LEMMA LegSets ==
    ASSUME NEW i \in TxIds
    PROVE  /\ ChargeLegs(i) \cup RefundLegs(i) \cup PayoutPaidLegs(i) \cup PaymentFeeLegs(i) \subseteq Legs
           /\ \A l \in ChargeLegs(i) \cup RefundLegs(i) \cup PayoutPaidLegs(i) \cup PaymentFeeLegs(i) : l[1] = i
BY DEF Legs, Accounts, ChargeLegs, RefundLegs, PayoutPaidLegs, PaymentFeeLegs

\* The same of a release.
LEMMA ReleaseLegSet ==
    ASSUME NEW charge \in TxIds, NEW payout \in TxIds, NEW fee \in TxIds
    PROVE  /\ ReleaseLegs(charge, payout, fee) \subseteq Legs
           /\ \A l \in ReleaseLegs(charge, payout, fee) : l[1] \in {charge, payout, fee}
BY DEF Legs, Accounts, ReleaseLegs

\* No leg of a release is one that comes late.
LEMMA ReleaseNotLate ==
    ASSUME NEW charge \in TxIds, NEW payout \in TxIds, NEW fee \in TxIds, NEW i \in TxIds,
           tx[charge].type = "CHARGE", NEW l \in ReleaseLegs(charge, payout, fee)
    PROVE  l \notin LateLegs(i)
<1>1. l \notin ChargeLegs(i)
      BY DEF ReleaseLegs, ChargeLegs
<1>2. l \in RefundLegs(i) => i = charge
      BY DEF ReleaseLegs, RefundLegs
<1>3. tx[i] = Row("REFUND", "COMPLETED") => i # charge
      BY DEF Row
<1> QED
    BY <1>1, <1>2, <1>3 DEF LateLegs

\* Post adds one entry per leg.
LEMMA Posted ==
    ASSUME entries \in [Legs -> Nat], NEW legs \in SUBSET Legs, Post(legs)
    PROVE  /\ entries' \in [Legs -> Nat]
           /\ \A l \in Legs : entries'[l] = IF l \in legs THEN entries[l] + 1 ELSE entries[l]
BY DEF Post

\* What hasExistingEntries lets through has no entry.
LEMMA UnpostedIsNew ==
    ASSUME entries \in [Legs -> Nat], NEW i \in TxIds, NEW legs \in SUBSET Legs,
           \A l \in legs : l[1] = i
    PROVE  /\ Unposted(i, legs) \in {{}, legs}
           /\ \A l \in Unposted(i, legs) : entries[l] = 0
BY DEF Unposted, HasEntries

\* The steps of the backfill.
LEMMA Steps ==
    /\ Len(BackfillSteps) = 5
    /\ \A k \in 1..5 : BackfillSteps[k] \in {"CHARGE", "REFUND", "RELEASE", "PAID", "PAYMENT_FEE"}
BY DEF BackfillSteps
-----------------------------------------------------------------------------
(* Rows.                                                                   *)

\* Rows keep their type, and new ones are charges or refunds.
RowsGo ==
    \A i \in TxIds :
        /\ tx[i].type # "NONE" => tx'[i].type = tx[i].type
        /\ tx[i].type = "NONE" => tx'[i].type \in {"NONE", "CHARGE", "REFUND"}

TypesStay == \A i \in TxIds : tx[i].type # "NONE" => tx'[i].type = tx[i].type

\* An inserted charge or refund takes a free row.
LEMMA InsertGoes ==
    ASSUME TypeOK, RowsDense, NEW type \in {"CHARGE", "REFUND"}, NEW st, Insert(Row(type, st))
    PROVE  RowsGo
<1>1. tx' = [tx EXCEPT ![lastTx + 1] = Row(type, st)]
      BY DEF Insert, InsertOver
<1>2. Row(type, st).type = type
      BY DEF Row
<1>3. lastTx + 1 \in TxIds => tx[lastTx + 1].type = "NONE"
      BY DEF RowsDense, NoTx, TypeOK
<1> QED
    BY <1>1, <1>2, <1>3 DEF RowsGo, TypeOK

\* A changed status leaves the type.
LEMMA MarkGoes ==
    ASSUME TypeOK, NEW i \in 0..MaxTx, NEW st, Mark(i, st)
    PROVE  RowsGo
<1>1. tx' = [tx EXCEPT ![i] = Row(tx[i].type, st)]
      BY DEF Mark, Marked
<1>2. Row(tx[i].type, st).type = tx[i].type
      BY DEF Row
<1> QED
    BY <1>1, <1>2 DEF RowsGo, TypeOK

\* ResolveDispute with a refund cancels payouts and inserts at most a refund.
LEMMA ResolveRefundGoes ==
    ASSUME TypeOK, RowsDense, NEW st, ResolveWithRefund(st)
    PROVE  RowsGo
<1>1. \A i \in TxIds : PayoutsCancelled[i].type = tx[i].type
      BY DEF PayoutsCancelled, Marked, Row
<1>2. CASE tx' = PayoutsCancelled
      BY <1>1, <1>2 DEF RowsGo
<1>3. CASE tx' = [PayoutsCancelled EXCEPT ![lastTx + 1] = Row("REFUND", st)]
  <2>1. lastTx + 1 \in TxIds => tx[lastTx + 1].type = "NONE"
        BY DEF RowsDense, NoTx, TypeOK
  <2>2. Row("REFUND", st).type = "REFUND"
        BY DEF Row
  <2>3. \A i \in TxIds : tx'[i].type = IF i = lastTx + 1 THEN "REFUND" ELSE tx[i].type
        BY <1>1, <1>3, <2>2 DEF PayoutsCancelled
  <2> QED
      BY <2>1, <2>3 DEF RowsGo
<1> QED
    BY <1>2, <1>3 DEF ResolveWithRefund, InsertOver
-----------------------------------------------------------------------------
(* Steps that insert no payout.                                            *)

\* The legs posted by a step belong to a row that it completes or finds completed,
\* and had no entry.
LateOnly(legs) == \A l \in legs : entries[l] = 0 /\ l[1] \in TxIds /\ l \in LateLegs(l[1])'

\* Such a step keeps every part of PostingInv that is about entries.
LEMMA EntriesStep ==
    ASSUME PostingInv, IInv', FinalTxStays, RowsGo, NEW legs \in SUBSET Legs, Post(legs), LateOnly(legs)
    PROVE  entries' \in [Legs -> Nat] /\ PostedOnce' /\ EntriesBacked' /\ ReleaseInv' /\ FeesPosted'
<1>1. /\ entries \in [Legs -> Nat] /\ PostedOnce /\ EntriesBacked /\ ReleaseInv /\ FeesPosted
      /\ TypeOK /\ RowsDense /\ PayoutHistory /\ TypeOK' /\ RowsDense' /\ OneRowPerType'
      BY DEF PostingInv, EntriesType, IInv
<1>2. /\ entries' \in [Legs -> Nat]
      /\ \A l \in Legs : entries'[l] = IF l \in legs THEN entries[l] + 1 ELSE entries[l]
      BY <1>1, Posted
<1>3. \A l \in Legs : entries[l] \in Nat /\ entries'[l] \in Nat
      BY <1>1, <1>2
<1>4. \A l \in legs : entries[l] = 0 /\ l \in Legs /\ l[1] \in TxIds /\ l \in LateLegs(l[1])'
      BY DEF LateOnly
<1>5. \A l \in Legs : l[1] \in TxIds
      BY DEF Legs
<1>6. PostedOnce'
      BY <1>1, <1>2, <1>4 DEF PostedOnce
<1>7. EntriesBacked'
  <2> SUFFICES ASSUME NEW l \in Legs, entries'[l] > 0
               PROVE  /\ tx'[l[1]].type \in {"CHARGE", "REFUND", "FEE", "PAYMENT_FEE"} => tx'[l[1]].status = "COMPLETED"
                      /\ tx'[l[1]] # NoTx
      BY DEF EntriesBacked
  <2>1. CASE l \in legs
    <3>1. tx'[l[1]] = Row("CHARGE", "COMPLETED") \/ tx'[l[1]] = Row("REFUND", "COMPLETED")
          BY <1>4, <2>1 DEF LateLegs
    <3> QED
        BY <3>1 DEF Row, NoTx
  <2>2. CASE l \notin legs
    <3>1. /\ tx[l[1]].type \in {"CHARGE", "REFUND", "FEE", "PAYMENT_FEE"} => tx[l[1]].status = "COMPLETED"
          /\ tx[l[1]] # NoTx
          BY <1>1, <1>2, <2>2 DEF EntriesBacked
    <3>2. tx[l[1]].type \in TxTypes
          BY <1>1, <1>5, <3>1 DEF RowsDense
    <3>3. tx'[l[1]].type = tx[l[1]].type
          BY <1>5, <3>2 DEF RowsGo, TxTypes
    <3>4. tx[l[1]].status = "COMPLETED" => tx'[l[1]] = tx[l[1]]
          BY <1>5 DEF FinalTxStays
    <3>5. tx'[l[1]] # NoTx
          BY <3>2, <3>3 DEF TxTypes, NoTx
    <3> QED
        BY <3>1, <3>3, <3>4, <3>5
  <2> QED
      BY <2>1, <2>2
<1>8. ReleaseInv'
  <2>1. ASSUME NEW charge \in TxIds, NEW payout \in TxIds, NEW fee \in TxIds,
               tx'[charge].type = "CHARGE", tx'[payout].type = "PAYOUT", tx'[fee].type = "FEE",
               NEW l \in ReleaseLegs(charge, payout, fee)
        PROVE  entries'[l] = 1
    <3>1. tx[payout].type = "PAYOUT" /\ tx[fee].type = "FEE"
          BY <1>1, <2>1 DEF RowsGo, TypeOK, Rows, TxTypes
    <3>2. Has("PAYOUT", TxStatuses)
          BY <1>1, <3>1 DEF Has, RowsDense, NoTx
    <3>3. PICK c \in TxIds : tx[c].type = "CHARGE" /\ tx[c].status = "COMPLETED"
          BY <1>1, <3>2 DEF PayoutHistory, HasCompletedCharge, Has
    <3>4. tx'[c].type = "CHARGE" /\ tx'[c] # NoTx
          BY <3>3 DEF RowsGo, NoTx
    <3>5. c = charge
          BY <1>1, <2>1, <3>4 DEF OneRowPerType
    <3>6. entries[l] = 1 /\ l \in Legs
          BY <1>1, <2>1, <3>1, <3>3, <3>5, ReleaseLegSet DEF ReleaseInv
    <3> QED
        BY <1>2, <1>4, <3>6
  <2>2. ASSUME ~Has("PAYOUT", TxStatuses)', NEW i \in TxIds, tx'[i].type = "CHARGE"
        PROVE  entries'[<<i, "escrow", "DEBIT">>] = 0
    <3> DEFINE l == <<i, "escrow", "DEBIT">>
    <3>1. l \in Legs /\ l[1] = i
          BY DEF Legs, Accounts
    <3>2. ~Has("PAYOUT", TxStatuses)
      <4> SUFFICES ASSUME NEW k \in TxIds, tx[k].type = "PAYOUT" PROVE FALSE
          BY DEF Has
      <4>1. tx'[k].type = "PAYOUT"
            BY DEF RowsGo
      <4>2. tx'[k].status \in TxStatuses
            BY <1>1, <4>1 DEF RowsDense, NoTx
      <4> QED
          BY <2>2, <4>1, <4>2 DEF Has
    <3>3. entries[l] = 0
      <4>1. CASE tx[i].type = "CHARGE"
            BY <1>1, <3>2, <4>1 DEF ReleaseInv
      <4>2. CASE tx[i].type # "CHARGE"
        <5>1. tx[i] = NoTx
              BY <1>1, <2>2, <4>2 DEF RowsGo, RowsDense, TxTypes
        <5> QED
            BY <1>1, <1>3, <3>1, <5>1 DEF EntriesBacked
      <4> QED
          BY <4>1, <4>2
    <3>4. l \notin legs
      <4>1. l \notin ChargeLegs(i)
            BY DEF ChargeLegs
      <4>2. tx'[i] # Row("REFUND", "COMPLETED")
            BY <2>2 DEF Row
      <4> QED
          BY <1>4, <3>1, <4>1, <4>2 DEF LateLegs
    <3> QED
        BY <1>2, <3>1, <3>3, <3>4
  <2> QED
      BY <2>1, <2>2 DEF ReleaseInv
<1>9. FeesPosted'
  <2> SUFFICES ASSUME NEW i \in TxIds, tx'[i].type = "PAYMENT_FEE" PROVE HasEntries(i)'
      BY DEF FeesPosted
  <2>1. tx[i].type = "PAYMENT_FEE"
        BY DEF RowsGo
  <2>2. PICK l \in Legs : l[1] = i /\ entries[l] > 0
        BY <1>1, <2>1 DEF FeesPosted, HasEntries
  <2>3. entries'[l] > 0
        BY <1>2, <1>3, <2>2
  <2> QED
      BY <2>2, <2>3 DEF HasEntries
<1> QED
    BY <1>2, <1>6, <1>7, <1>8, <1>9

\* What the backfill has read is still so.
LEMMA ReadStays ==
    ASSUME FinalTxStays, TypesStay, NEW i \in TxIds, NEW k \in 1..5, ReadAs(BackfillSteps[k], i)
    PROVE  ReadAs(BackfillSteps[k], i)' /\ (LateLegs(i) # {} => LateLegs(i)' = LateLegs(i))
<1>1. tx[i].type # "NONE" => tx'[i].type = tx[i].type
      BY DEF TypesStay
<1>2. tx[i] \in {Row("CHARGE", "COMPLETED"), Row("REFUND", "COMPLETED")} => tx'[i] = tx[i]
      BY DEF FinalTxStays, Row
<1>3. BackfillSteps[k] \in {"CHARGE", "REFUND", "RELEASE", "PAID", "PAYMENT_FEE"}
      BY Steps
<1>4. BackfillSteps' = BackfillSteps
      BY DEF BackfillSteps
<1>5. ReadAs(BackfillSteps[k], i)'
      BY <1>1, <1>2, <1>3, <1>4 DEF ReadAs
<1>6. LateLegs(i) # {} => LateLegs(i)' = LateLegs(i)
      BY <1>2 DEF LateLegs, ChargeLegs, RefundLegs
<1> QED
    BY <1>5, <1>6

\* A step beside the backfill that posts none of the legs the backfill may be about
\* to post.
LEMMA SameJob ==
    ASSUME PostingInv, FinalTxStays, TypesStay, job' = job, NEW legs \in SUBSET Legs, Post(legs),
           job.at # "select" => \A l \in legs : l \notin LateLegs(job.row)
    PROVE  JobInv'
<1> SUFFICES ASSUME job.at # "select" PROVE JobInv'
    BY DEF JobInv
<1>1. entries \in [Legs -> Nat] /\ job.step \in 1..5 /\ job.legs \in SUBSET Legs
      BY Steps DEF PostingInv, EntriesType, JobInv
<1>2. job.row \in TxIds /\ ReadAs(BackfillSteps[job.step], job.row)
      BY DEF PostingInv, JobInv
<1> DEFINE k == job.step
           i == job.row
<1>3. k \in 1..5 /\ i \in TxIds /\ ReadAs(BackfillSteps[k], i)
      BY <1>1, <1>2
<1>4. k' = k /\ i' = i
      OBVIOUS
<1>5. ReadAs(BackfillSteps[k], i)'
  <2>1. \A n \in 1..5, r \in TxIds : ReadAs(BackfillSteps[n], r) => ReadAs(BackfillSteps[n], r)'
        BY ReadStays
  <2>2. PICK n \in 1..5, r \in TxIds : n = k /\ r = i
        BY <1>3
  <2>3. ReadAs(BackfillSteps[n], r)'
        BY <1>3, <2>1, <2>2
  <2> QED
      BY <1>4, <2>2, <2>3 DEF ReadAs, BackfillSteps
<1>6. ASSUME job.at = "write"
      PROVE  job'.legs \subseteq LateLegs(job.row)' /\ \A l \in job'.legs : entries'[l] = 0
  <2>1. job.legs \subseteq LateLegs(i) /\ \A l \in job.legs : entries[l] = 0
        BY <1>6 DEF PostingInv, JobInv
  <2>2. \A n \in 1..5, r \in TxIds :
            ReadAs(BackfillSteps[n], r) => (LateLegs(r) # {} => LateLegs(r)' = LateLegs(r))
        BY ReadStays
  <2>3. PICK r \in TxIds : r = i
        BY <1>3
  <2>4. LateLegs(r) # {} => LateLegs(r)' = LateLegs(r)
        BY <1>3, <2>2, <2>3
  <2>5. LateLegs(r)' = LateLegs(job.row)'
        BY <1>4, <2>3 DEF LateLegs, ChargeLegs, RefundLegs
  <2>6. job'.legs \subseteq LateLegs(job.row)'
        BY <2>1, <2>3, <2>4, <2>5
  <2>7. \A l \in job.legs : l \in Legs /\ l \notin legs
        BY <1>1, <2>1
  <2>8. \A l \in job.legs : entries'[l] = 0
        BY <1>1, <2>1, <2>7, Posted
  <2> QED
      BY <2>6, <2>8
<1> QED
    BY <1>1, <1>2, <1>5, <1>6 DEF JobInv

\* A step that posts legs of a row it completes, or none.
LEMMA PostingKeeps ==
    ASSUME PostingInv, IInv', FinalTxStays, RowsGo, job' = job,
           NEW legs \in SUBSET Legs, Post(legs), LateOnly(legs),
           \A l \in legs : tx[l[1]].status # "COMPLETED"
    PROVE  PostingInv'
<1>1. entries' \in [Legs -> Nat] /\ PostedOnce' /\ EntriesBacked' /\ ReleaseInv' /\ FeesPosted'
      BY EntriesStep
<1>2. \A l \in legs : l \notin LateLegs(job.row)
  <2> SUFFICES ASSUME NEW l \in legs, l \in LateLegs(job.row) PROVE FALSE
      OBVIOUS
  <2>1. tx[job.row].status = "COMPLETED"
        BY DEF LateLegs, Row
  <2>2. l[1] = job.row
        BY DEF LateLegs, ChargeLegs, RefundLegs
  <2> QED
      BY <2>1, <2>2
<1>3. JobInv'
  <2>1. TypesStay
        BY DEF RowsGo, TypesStay
  <2> QED
      BY <1>2, <2>1, SameJob
<1>4. EntriesType'
      BY <1>1 DEF PostingInv, EntriesType
<1> QED
    BY <1>1, <1>3, <1>4 DEF PostingInv

\* A step that posts nothing.
LEMMA QuietKeeps ==
    ASSUME PostingInv, IInv', FinalTxStays, RowsGo, job' = job, entries' = entries
    PROVE  PostingInv'
<1>1. entries \in [Legs -> Nat]
      BY DEF PostingInv, EntriesType
<1>2. Post({})
      BY <1>1 DEF Post
<1>3. LateOnly({}) /\ {} \in SUBSET Legs
      BY DEF LateOnly
<1> QED
    BY <1>2, <1>3, PostingKeeps
-----------------------------------------------------------------------------
(* The actions.                                                            *)

\* A payout has entries, so writePayoutPaid never finds it unposted.
LEMMA PayoutHasEntries ==
    ASSUME PostingInv, NEW i \in TxIds, tx[i].type = "PAYOUT" PROVE HasEntries(i)
<1>1. RowsDense /\ PayoutHistory /\ ReleaseInv /\ entries \in [Legs -> Nat]
      BY DEF PostingInv, IInv, EntriesType
<1>2. Has("PAYOUT", TxStatuses)
      BY <1>1 DEF RowsDense, Has, NoTx
<1>3. PICK fee \in TxIds : tx[fee].type = "FEE"
      BY <1>1, <1>2 DEF PayoutHistory, HasFee, Has
<1>4. PICK charge \in TxIds : tx[charge].type = "CHARGE"
      BY <1>1, <1>2 DEF PayoutHistory, HasCompletedCharge, Has
<1>5. <<i, "payable", "CREDIT">> \in ReleaseLegs(charge, i, fee)
      BY DEF ReleaseLegs
<1>6. entries[<<i, "payable", "CREDIT">>] = 1
      BY <1>1, <1>3, <1>4, <1>5 DEF ReleaseInv
<1>7. <<i, "payable", "CREDIT">> \in Legs /\ <<i, "payable", "CREDIT">>[1] = i
      BY DEF Legs, Accounts
<1> QED
    BY <1>6, <1>7 DEF HasEntries

\* Hence writePayoutPaid writes nothing.
LEMMA PaidIsQuiet ==
    ASSUME PostingInv, NEW i \in TxIds, tx[i].type = "PAYOUT", WritePayoutPaid(i)
    PROVE  entries' = entries
<1>1. Unposted(i, PayoutPaidLegs(i)) = {}
      BY PayoutHasEntries DEF Unposted
<1>2. entries \in [Legs -> Nat]
      BY DEF PostingInv, EntriesType
<1>3. entries' = [l \in Legs |-> entries[l]]
      BY <1>1, <1>2 DEF WritePayoutPaid, Post
<1> QED
    BY <1>2, <1>3

\* What a step that completes row i posts for it.
LEMMA WritesAreLate ==
    ASSUME PostingInv, NEW i \in TxIds, tx[i].status # "COMPLETED", NEW legs \in SUBSET Legs,
           \/ tx'[i] = Row("CHARGE", "COMPLETED") /\ legs = Unposted(i, ChargeLegs(i))
           \/ tx'[i] = Row("REFUND", "COMPLETED") /\ legs = Unposted(i, RefundLegs(i))
    PROVE  LateOnly(legs) /\ \A l \in legs : tx[l[1]].status # "COMPLETED"
<1>1. entries \in [Legs -> Nat]
      BY DEF PostingInv, EntriesType
<1>2. Row("CHARGE", "COMPLETED") # Row("REFUND", "COMPLETED")
      BY DEF Row
<1>3. /\ ChargeLegs(i) \in SUBSET Legs /\ RefundLegs(i) \in SUBSET Legs
      /\ \A l \in ChargeLegs(i) \cup RefundLegs(i) : l[1] = i
      BY LegSets
<1>4. \A l \in legs : entries[l] = 0 /\ l[1] = i /\ l \in LateLegs(i)'
  <2>1. CASE tx'[i] = Row("CHARGE", "COMPLETED") /\ legs = Unposted(i, ChargeLegs(i))
    <3>1. LateLegs(i)' = ChargeLegs(i)
          BY <2>1 DEF LateLegs, ChargeLegs, RefundLegs
    <3> QED
        BY <1>1, <1>3, <2>1, <3>1, UnpostedIsNew
  <2>2. CASE tx'[i] = Row("REFUND", "COMPLETED") /\ legs = Unposted(i, RefundLegs(i))
    <3>1. LateLegs(i)' = RefundLegs(i)
          BY <1>2, <2>2 DEF LateLegs, ChargeLegs, RefundLegs
    <3> QED
        BY <1>1, <1>3, <2>2, <3>1, UnpostedIsNew
  <2> QED
      BY <2>1, <2>2
<1> QED
    BY <1>4 DEF LateOnly

\* The same for the two writers.
LEMMA WriterKeeps ==
    ASSUME PostingInv, IInv', FinalTxStays, RowsGo, job' = job, NEW i \in TxIds, tx[i].status # "COMPLETED",
           \/ tx'[i] = Row("CHARGE", "COMPLETED") /\ WriteCharge(i)
           \/ tx'[i] = Row("REFUND", "COMPLETED") /\ WriteRefund(i)
    PROVE  PostingInv'
<1>1. Unposted(i, ChargeLegs(i)) \in SUBSET Legs /\ Unposted(i, RefundLegs(i)) \in SUBSET Legs
      BY LegSets DEF Unposted
<1>2. CASE tx'[i] = Row("CHARGE", "COMPLETED") /\ WriteCharge(i)
      BY <1>1, <1>2, WritesAreLate, PostingKeeps DEF WriteCharge
<1>3. CASE tx'[i] = Row("REFUND", "COMPLETED") /\ WriteRefund(i)
      BY <1>1, <1>3, WritesAreLate, PostingKeeps DEF WriteRefund
<1> QED
    BY <1>2, <1>3

\* The facts every step has from BookingPayment.
LEMMA StepFacts ==
    ASSUME PostingInv, Next
    PROVE  IInv' /\ FinalTxStays /\ TypeOK /\ RowsDense /\ HoldInv /\ ResolvingInv /\ PayoutHistory
<1>1. IInv /\ IInv' /\ FinalTxStays
      BY NextIInv, NextKeepsFinalRows DEF PostingInv
<1> QED
    BY <1>1 DEF IInv

\* An operation that writes no entry keeps PostingInv.
LEMMA UnpostingKeeps ==
    ASSUME PostingInv, Unposting, UNCHANGED ledgerVars PROVE PostingInv'
<1>1. IInv' /\ FinalTxStays /\ TypeOK
      BY UnpostingIsNext, StepFacts
<1>2. RowsGo
  <2>1. CASE \E i \in TxIds : WebhookFailure(i)
    <3>1. PICK i \in TxIds : Mark(i, "FAILED")
          BY <2>1 DEF WebhookFailure
    <3>2. i \in 0..MaxTx
          BY MaxTxAssumption DEF TxIds
    <3> QED
        BY <1>1, <3>1, <3>2, MarkGoes
  <2>2. CASE tx' = tx
        BY <2>2 DEF RowsGo
  <2>3. (\E i \in TxIds : WebhookFailure(i)) \/ tx' = tx
        BY DEF Unposting, ConfirmBooking, DropTodo, ExpirePendingBooking, ChargeLost, CancelBooking, DeleteBooking,
               RefundLost, HandOverBooking, ConfirmDelivery, OpenDispute, CloseDispute, BeginResolveWithPayout,
               RollbackResolve, Begins, BeginChargeSuccess, BeginRefundSuccess, BeginMarkPayoutCompleted, Begin,
               Rollback, Environment, PaymentWindowPasses, EscrowDelayPasses, CustomerPays, ProviderRefunds, txVars
  <2> QED
      BY <2>1, <2>2, <2>3
<1> QED
    BY <1>1, <1>2, QuietKeeps DEF ledgerVars

\* One lemma per operation that may write entries: CreateTransaction, ...
LEMMA ChargeKeeps ==
    ASSUME PostingInv, NEW st \in Accepted, NEW viaPay \in BOOLEAN, NEW price \in Prices,
           LedgerCreateTransaction(st, viaPay, price)
    PROVE  PostingInv'
<1>1. IInv' /\ FinalTxStays /\ TypeOK /\ RowsDense
  <2>1. Posting
        BY DEF Posting
  <2> QED
      BY <2>1, PostingIsNext, StepFacts
<1>2. Insert(Row("CHARGE", st)) /\ UNCHANGED <<entries, job>>
      BY DEF LedgerCreateTransaction, CreateTransaction
<1>3. RowsGo
      BY <1>1, <1>2, InsertGoes
<1> QED
    BY <1>1, <1>2, <1>3, QuietKeeps

\* ... RefundTransaction, ...
LEMMA RefundKeeps ==
    ASSUME PostingInv, NEW st \in Accepted, NEW auto \in BOOLEAN, LedgerRefundTransaction(st, auto)
    PROVE  PostingInv'
<1>1. IInv' /\ FinalTxStays /\ TypeOK /\ RowsDense
  <2>1. Posting
        BY DEF Posting
  <2> QED
      BY <2>1, PostingIsNext, StepFacts
<1>2. Insert(Row("REFUND", st)) /\ job' = job
      BY DEF LedgerRefundTransaction, RefundTransaction
<1>3. RowsGo
      BY <1>1, <1>2, InsertGoes
<1>4. CASE st = "COMPLETED"
  <2> DEFINE i == lastTx + 1
  <2>1. WriteRefund(i)
        BY <1>4 DEF LedgerRefundTransaction
  <2>2. i \in TxIds
        BY <1>1, <1>2, MaxTxAssumption DEF Insert, InsertOver, TypeOK, TxIds
  <2>3. tx[i].status # "COMPLETED"
        BY <1>1, <2>2 DEF RowsDense, TypeOK, NoTx
  <2>4. tx'[i] = Row("REFUND", "COMPLETED")
        BY <1>1, <1>2, <1>4, <2>2 DEF Insert, InsertOver, TypeOK
  <2> QED
      BY <1>1, <1>2, <1>3, <2>1, <2>2, <2>3, <2>4, WriterKeeps
<1>5. CASE st # "COMPLETED"
  <2>1. entries' = entries
        BY <1>5 DEF LedgerRefundTransaction
  <2> QED
      BY <1>1, <1>2, <1>3, <2>1, QuietKeeps
<1> QED
    BY <1>4, <1>5

\* ... AdminRefundTransaction and ResolveDispute with a refund, ...
LEMMA AdminRefundKeeps ==
    ASSUME PostingInv, NEW st \in Accepted, LedgerAdminRefund(st) PROVE PostingInv'
<1>1. IInv' /\ FinalTxStays /\ TypeOK /\ RowsDense
  <2>1. Posting
        BY DEF Posting
  <2> QED
      BY <2>1, PostingIsNext, StepFacts
<1>2. UNCHANGED <<entries, job>>
      BY DEF LedgerAdminRefund
<1>3. RowsGo
  <2>1. CASE AdminRefundTransaction(st)
    <3>1. Insert(Row("REFUND", st))
          BY <2>1 DEF AdminRefundTransaction
    <3> QED
        BY <1>1, <3>1, InsertGoes
  <2>2. CASE ResolveWithRefund(st)
        BY <1>1, <2>2, ResolveRefundGoes
  <2> QED
      BY <2>1, <2>2 DEF LedgerAdminRefund
<1> QED
    BY <1>1, <1>2, <1>3, QuietKeeps

\* What a worker commits.
LEMMA CommittedRow ==
    ASSUME TypeOK, HoldInv, NEW w \in Workers, NEW type \in TxTypes, CommitRow(w, type)
    PROVE  /\ hold[w].row \in TxIds /\ hold[w].row \in 0..MaxTx
           /\ tx[hold[w].row].type = type /\ tx[hold[w].row].status = "PENDING"
           /\ tx'[hold[w].row] = Row(type, "COMPLETED")
           /\ RowsGo
<1>1. /\ hold[w].row \in TxIds
      /\ tx[hold[w].row].type = type /\ tx[hold[w].row].status = "PENDING"
      /\ Mark(hold[w].row, "COMPLETED")
      BY DEF CommitRow, HoldInv
<1>2. hold[w].row \in 0..MaxTx
      BY <1>1, MaxTxAssumption DEF TxIds
<1>3. tx'[hold[w].row] = Row(type, "COMPLETED")
      BY <1>1 DEF Mark, Marked, TypeOK
<1>4. RowsGo
      BY <1>1, <1>2, MarkGoes
<1> QED
    BY <1>1, <1>2, <1>3, <1>4

\* ... the webhooks and MarkPayoutCompleted, ...
LEMMA CommitKeeps ==
    ASSUME PostingInv, NEW w \in Workers,
           LedgerChargeSuccess(w) \/ LedgerRefundSuccess(w) \/ LedgerMarkPayoutCompleted(w)
    PROVE  PostingInv'
<1>1. IInv' /\ FinalTxStays /\ TypeOK /\ HoldInv
  <2>1. Posting
        BY DEF Posting
  <2> QED
      BY <2>1, PostingIsNext, StepFacts
<1> DEFINE i == hold[w].row
<1>2. CASE LedgerChargeSuccess(w)
  <2>1. CommitRow(w, "CHARGE") /\ WriteCharge(i) /\ job' = job
        BY <1>2 DEF LedgerChargeSuccess, CommitChargeSuccess
  <2>2. "CHARGE" \in TxTypes
        BY DEF TxTypes
  <2>3. i \in TxIds /\ tx[i].status # "COMPLETED" /\ tx'[i] = Row("CHARGE", "COMPLETED") /\ RowsGo
        BY <1>1, <2>1, <2>2, CommittedRow
  <2> QED
      BY <1>1, <2>1, <2>3, WriterKeeps
<1>3. CASE LedgerRefundSuccess(w)
  <2>1. CommitRow(w, "REFUND") /\ job' = job /\ (WriteRefund(i) \/ entries' = entries)
        BY <1>3 DEF LedgerRefundSuccess, CommitRefundSuccess
  <2>2. "REFUND" \in TxTypes
        BY DEF TxTypes
  <2>3. i \in TxIds /\ tx[i].status # "COMPLETED" /\ tx'[i] = Row("REFUND", "COMPLETED") /\ RowsGo
        BY <1>1, <2>1, <2>2, CommittedRow
  <2>4. CASE WriteRefund(i)
        BY <1>1, <2>1, <2>3, <2>4, WriterKeeps
  <2>5. CASE entries' = entries
        BY <1>1, <2>1, <2>3, <2>5, QuietKeeps
  <2> QED
      BY <2>1, <2>4, <2>5
<1>4. CASE LedgerMarkPayoutCompleted(w)
  <2>1. CommitRow(w, "PAYOUT") /\ WritePayoutPaid(i) /\ job' = job
        BY <1>4 DEF LedgerMarkPayoutCompleted, CommitMarkPayoutCompleted
  <2>2. "PAYOUT" \in TxTypes
        BY DEF TxTypes
  <2>3. i \in TxIds /\ tx[i].type = "PAYOUT" /\ RowsGo
        BY <1>1, <2>1, <2>2, CommittedRow
  <2>4. entries' = entries
        BY <2>1, <2>3, PaidIsQuiet
  <2> QED
      BY <1>1, <2>1, <2>3, <2>4, QuietKeeps
<1> QED
    BY <1>2, <1>3, <1>4

\* ... ResolveDispute with a payout, ...
LEMMA ResolvePayoutKeeps ==
    ASSUME PostingInv, LedgerResolveWithPayout PROVE PostingInv'
<1>1. IInv' /\ FinalTxStays /\ TypeOK /\ ResolvingInv
  <2>1. Posting
        BY DEF Posting
  <2> QED
      BY <2>1, PostingIsNext, StepFacts
<1>2. /\ resolving # 0 /\ Mark(resolving, "COMPLETED")
      /\ WritePayoutPaid(resolving) /\ job' = job
      BY DEF LedgerResolveWithPayout, ResolveWithPayout
<1>3. resolving \in 0..MaxTx /\ resolving \in TxIds /\ tx[resolving].type = "PAYOUT"
      BY <1>1, <1>2, MaxTxAssumption DEF TypeOK, ResolvingInv, TxIds
<1>4. RowsGo
      BY <1>1, <1>2, <1>3, MarkGoes
<1>5. entries' = entries
      BY <1>2, <1>3, PaidIsQuiet
<1> QED
    BY <1>1, <1>2, <1>4, <1>5, QuietKeeps

\* What CreatePayoutTransaction finds and inserts.
LEMMA CreatePayoutRows ==
    ASSUME PostingInv, LedgerCreatePayout
    PROVE  /\ TheRow("CHARGE") \in TxIds /\ tx[TheRow("CHARGE")] = Row("CHARGE", "COMPLETED")
           /\ {lastTx + 1, lastTx + 2, lastTx + 3} \subseteq TxIds
           /\ \A i \in {lastTx + 1, lastTx + 2, lastTx + 3} : tx[i] = NoTx
           /\ tx'[lastTx + 1] = Row("FEE", "COMPLETED")
           /\ tx'[lastTx + 2] = Row("PAYMENT_FEE", "COMPLETED")
           /\ tx'[lastTx + 3] = Row("PAYOUT", "PENDING")
           /\ \A i \in TxIds : tx[i] # NoTx => tx'[i] = tx[i]
           /\ ~Has("PAYOUT", TxStatuses)
<1>1. TypeOK /\ RowsDense /\ OneRowPerType /\ PayoutHistory
      BY DEF PostingInv, IInv
<1>2. /\ HasCompletedCharge /\ ~HasFee
      /\ InsertThree(Row("FEE", "COMPLETED"), Row("PAYMENT_FEE", "COMPLETED"), Row("PAYOUT", "PENDING"))
      BY DEF LedgerCreatePayout, CreatePayoutTransaction, CanCreatePayout
<1>3. /\ TheRow("CHARGE") \in TxIds /\ tx[TheRow("CHARGE")] = Row("CHARGE", "COMPLETED")
  <2>1. PICK i \in TxIds : tx[i].type = "CHARGE" /\ tx[i].status = "COMPLETED"
        BY <1>2 DEF HasCompletedCharge, Has
  <2>2. TheRow("CHARGE") \in TxIds /\ tx[TheRow("CHARGE")].type = "CHARGE"
        BY <2>1 DEF TheRow
  <2>3. tx[i] # NoTx
        BY <2>1 DEF NoTx
  <2>4. TheRow("CHARGE") = i
        BY <1>1, <2>1, <2>2, <2>3 DEF OneRowPerType
  <2>5. tx[i] \in Rows
        BY <1>1 DEF TypeOK
  <2>6. tx[i] = Row("CHARGE", "COMPLETED")
        BY <2>1, <2>5 DEF Rows, Row
  <2> QED
      BY <2>4, <2>6
<1>4. lastTx \in Nat /\ lastTx + 3 <= MaxTx /\ MaxTx \in Nat
      BY <1>1, <1>2, MaxTxAssumption DEF TypeOK, InsertThree
<1>5. {lastTx + 1, lastTx + 2, lastTx + 3} \subseteq TxIds
      BY <1>4 DEF TxIds
<1>6. \A i \in {lastTx + 1, lastTx + 2, lastTx + 3} : tx[i] = NoTx
      BY <1>1, <1>4, <1>5 DEF RowsDense
<1>7. \A i \in TxIds : tx'[i] = IF i = lastTx + 3 THEN Row("PAYOUT", "PENDING")
                               ELSE IF i = lastTx + 2 THEN Row("PAYMENT_FEE", "COMPLETED")
                               ELSE IF i = lastTx + 1 THEN Row("FEE", "COMPLETED") ELSE tx[i]
      BY <1>1, <1>2 DEF InsertThree, TypeOK
<1>8. /\ tx'[lastTx + 1] = Row("FEE", "COMPLETED")
      /\ tx'[lastTx + 2] = Row("PAYMENT_FEE", "COMPLETED")
      /\ tx'[lastTx + 3] = Row("PAYOUT", "PENDING")
      BY <1>4, <1>5, <1>7
<1>9. \A i \in TxIds : tx[i] # NoTx => tx'[i] = tx[i]
      BY <1>6, <1>7
<1>10. ~Has("PAYOUT", TxStatuses)
       BY <1>1, <1>2 DEF PayoutHistory
<1> QED
    BY <1>3, <1>5, <1>6, <1>8, <1>9, <1>10

\* It posts the whole release and the whole provider's fee.
LEMMA CreatePayoutPosts ==
    ASSUME PostingInv, LedgerCreatePayout,
           NEW charge, NEW fee, NEW paymentFee, NEW payout,
           charge = TheRow("CHARGE"), fee = lastTx + 1, paymentFee = lastTx + 2, payout = lastTx + 3
    PROVE  /\ Post(ReleaseLegs(charge, payout, fee) \cup PaymentFeeLegs(paymentFee))
           /\ \A l \in ReleaseLegs(charge, payout, fee) \cup PaymentFeeLegs(paymentFee) : entries[l] = 0
<1>1. EntriesBacked /\ ReleaseInv
      BY DEF PostingInv
<1>2. /\ charge \in TxIds /\ fee \in TxIds /\ paymentFee \in TxIds /\ payout \in TxIds
      /\ tx[charge].type = "CHARGE"
      /\ tx[fee] = NoTx /\ tx[paymentFee] = NoTx /\ tx[payout] = NoTx
      /\ ~Has("PAYOUT", TxStatuses)
      BY CreatePayoutRows DEF Row
<1>3. /\ ReleaseLegs(charge, payout, fee) \subseteq Legs /\ PaymentFeeLegs(paymentFee) \subseteq Legs
      /\ \A l \in PaymentFeeLegs(paymentFee) : l[1] = paymentFee
      BY <1>2, LegSets, ReleaseLegSet
<1>4. \A l \in Legs : tx[l[1]] = NoTx => ~ (entries[l] > 0) /\ entries[l] = 0
      BY <1>1 DEF EntriesBacked, PostingInv, EntriesType
<1>5. entries[<<charge, "escrow", "DEBIT">>] = 0
      BY <1>1, <1>2 DEF ReleaseInv
<1>6. \A l \in ReleaseLegs(charge, payout, fee) : l = <<charge, "escrow", "DEBIT">> \/ l[1] \in {payout, fee}
      BY DEF ReleaseLegs
<1>7. UnpostedRelease(charge, ReleaseLegs(charge, payout, fee)) = ReleaseLegs(charge, payout, fee)
      BY <1>5 DEF UnpostedRelease
<1>8. Unposted(paymentFee, PaymentFeeLegs(paymentFee)) = PaymentFeeLegs(paymentFee)
      BY <1>2, <1>4 DEF Unposted, HasEntries
<1>9. Post(UnpostedRelease(charge, ReleaseLegs(charge, payout, fee))
           \cup Unposted(paymentFee, PaymentFeeLegs(paymentFee)))
      BY DEF LedgerCreatePayout
<1> QED
    BY <1>2, <1>3, <1>4, <1>5, <1>6, <1>7, <1>8, <1>9

\* ... and CreatePayoutTransaction, which inserts a payout and so posts a release.
LEMMA CreatePayoutKeeps ==
    ASSUME PostingInv, LedgerCreatePayout PROVE PostingInv'
<1>0. PICK charge \in TxIds, fee \in TxIds, paymentFee \in TxIds, payout \in TxIds :
          /\ charge = TheRow("CHARGE")
          /\ fee = lastTx + 1 /\ paymentFee = lastTx + 2 /\ payout = lastTx + 3
      BY CreatePayoutRows
<1> DEFINE legs == ReleaseLegs(charge, payout, fee) \cup PaymentFeeLegs(paymentFee)
<1>1. IInv' /\ FinalTxStays
  <2>1. Posting
        BY DEF Posting
  <2> QED
      BY <2>1, PostingIsNext, StepFacts
<1>2. /\ entries \in [Legs -> Nat] /\ PostedOnce /\ EntriesBacked /\ ReleaseInv /\ FeesPosted
      /\ OneRowPerType'
      BY <1>1 DEF PostingInv, EntriesType, IInv
<1>3. /\ charge \in TxIds /\ tx[charge] = Row("CHARGE", "COMPLETED") /\ tx[charge].type = "CHARGE"
      /\ fee \in TxIds /\ paymentFee \in TxIds /\ payout \in TxIds
      /\ tx[fee] = NoTx /\ tx[paymentFee] = NoTx /\ tx[payout] = NoTx
      /\ tx'[fee] = Row("FEE", "COMPLETED")
      /\ tx'[paymentFee] = Row("PAYMENT_FEE", "COMPLETED")
      /\ tx'[payout] = Row("PAYOUT", "PENDING")
      /\ \A i \in TxIds : tx[i] # NoTx => tx'[i] = tx[i]
      /\ ~Has("PAYOUT", TxStatuses)
      /\ tx'[charge] = Row("CHARGE", "COMPLETED")
  <2>1. Row("CHARGE", "COMPLETED").type = "CHARGE" /\ Row("CHARGE", "COMPLETED") # NoTx
        BY DEF Row, NoTx
  <2> QED
      BY <1>0, <2>1, CreatePayoutRows
<1>4. /\ legs \in SUBSET Legs
      /\ \A l \in ReleaseLegs(charge, payout, fee) : l[1] \in {charge, payout, fee}
      /\ \A l \in PaymentFeeLegs(paymentFee) : l[1] = paymentFee
      BY <1>3, LegSets, ReleaseLegSet
<1>8. Post(legs) /\ \A l \in legs : entries[l] = 0
      BY <1>0, CreatePayoutPosts
<1>9. /\ entries' \in [Legs -> Nat]
      /\ \A l \in Legs : entries'[l] = IF l \in legs THEN entries[l] + 1 ELSE entries[l]
      BY <1>2, <1>4, <1>8, Posted
<1>10. \A l \in legs : l \in Legs /\ entries'[l] = 1
       BY <1>4, <1>8, <1>9
<1>11. PostedOnce'
       BY <1>2, <1>9, <1>10 DEF PostedOnce
<1>12. EntriesBacked'
  <2> SUFFICES ASSUME NEW l \in Legs, entries'[l] > 0
               PROVE  /\ tx'[l[1]].type \in {"CHARGE", "REFUND", "FEE", "PAYMENT_FEE"} => tx'[l[1]].status = "COMPLETED"
                      /\ tx'[l[1]] # NoTx
      BY DEF EntriesBacked
  <2>1. CASE l \in legs
    <3>1. l[1] \in {charge, payout, fee, paymentFee}
          BY <1>4, <2>1
    <3>2. tx'[l[1]] \in {Row("CHARGE", "COMPLETED"), Row("PAYOUT", "PENDING"), Row("FEE", "COMPLETED"),
                        Row("PAYMENT_FEE", "COMPLETED")}
          BY <1>3, <3>1
    <3> QED
        BY <3>2 DEF Row, NoTx
  <2>2. CASE l \notin legs
    <3>1. l[1] \in TxIds
          BY DEF Legs
    <3> QED
        BY <1>2, <1>3, <1>9, <2>2, <3>1 DEF EntriesBacked
  <2> QED
      BY <2>1, <2>2
<1>13. /\ \A i \in TxIds : tx'[i].type = "CHARGE" => i = charge
       /\ \A i \in TxIds : tx'[i].type = "PAYOUT" => i = payout
       /\ \A i \in TxIds : tx'[i].type = "FEE" => i = fee
       /\ \A i \in TxIds : tx'[i].type = "PAYMENT_FEE" => i = paymentFee
  <2>1. \A k \in {charge, payout, fee, paymentFee} : k \in TxIds /\ tx'[k] # NoTx
        BY <1>3 DEF Row, NoTx
  <2>2. \A k \in {charge, payout, fee, paymentFee}, i \in TxIds : tx'[k].type = tx'[i].type => k = i
        BY <1>2, <2>1 DEF OneRowPerType
  <2>3. /\ tx'[charge].type = "CHARGE" /\ tx'[payout].type = "PAYOUT"
        /\ tx'[fee].type = "FEE" /\ tx'[paymentFee].type = "PAYMENT_FEE"
        BY <1>3 DEF Row
  <2> QED
      BY <2>2, <2>3
<1>14. ReleaseInv'
  <2>1. \A c, p, f \in TxIds :
           tx'[c].type = "CHARGE" /\ tx'[p].type = "PAYOUT" /\ tx'[f].type = "FEE"
           => \A l \in ReleaseLegs(c, p, f) : entries'[l] = 1
        BY <1>10, <1>13
  <2>2. Has("PAYOUT", TxStatuses)'
        BY <1>3 DEF Has, Row, TxStatuses
  <2> QED
      BY <2>1, <2>2 DEF ReleaseInv
<1>15. FeesPosted'
  <2>1. <<paymentFee, "expense", "DEBIT">> \in legs /\ <<paymentFee, "expense", "DEBIT">>[1] = paymentFee
        BY DEF PaymentFeeLegs
  <2>2. HasEntries(paymentFee)'
        BY <1>10, <2>1 DEF HasEntries
  <2>3. \A i \in TxIds : tx'[i].type = "PAYMENT_FEE" => i = paymentFee
        BY <1>13
  <2> QED
      BY <2>2, <2>3 DEF FeesPosted, HasEntries
<1>16. TypesStay
       BY <1>3 DEF TypesStay, NoTx
<1>17. job.at # "select" => \A l \in legs : l \notin LateLegs(job.row)
  <2> SUFFICES ASSUME job.at # "select", NEW l \in legs PROVE l \notin LateLegs(job.row)
      OBVIOUS
  <2>1. job.row \in TxIds
        BY DEF PostingInv, JobInv
  <2>2. CASE l \in ReleaseLegs(charge, payout, fee)
        BY <1>3, <2>1, <2>2, ReleaseNotLate
  <2>3. CASE l \in PaymentFeeLegs(paymentFee)
    <3>1. l[1] = paymentFee
          BY <1>4, <2>3
    <3>2. l \in LateLegs(job.row) => l[1] = job.row /\ tx[job.row].status = "COMPLETED"
          BY DEF LateLegs, ChargeLegs, RefundLegs, Row
    <3>3. tx[paymentFee].status # "COMPLETED"
          BY <1>3 DEF NoTx
    <3> QED
        BY <3>1, <3>2, <3>3
  <2> QED
      BY <2>2, <2>3
<1>18. JobInv'
  <2>1. job' = job
        BY DEF LedgerCreatePayout
  <2> QED
      BY <1>1, <1>4, <1>8, <1>16, <1>17, <2>1, SameJob
<1>19. EntriesType'
  <2>1. job' = job
        BY DEF LedgerCreatePayout
  <2> QED
      BY <1>9, <2>1 DEF PostingInv, EntriesType
<1> QED
    BY <1>1, <1>11, <1>12, <1>14, <1>15, <1>18, <1>19 DEF PostingInv
-----------------------------------------------------------------------------
(* The backfill.                                                           *)

\* It changes nothing of the booking.
LEMMA BookingStays ==
    ASSUME PostingInv, UNCHANGED vars
    PROVE  /\ IInv' /\ FinalTxStays /\ RowsGo /\ tx' = tx
           /\ \A i \in TxIds : LateLegs(i)' = LateLegs(i)
<1>1. tx' = tx
      BY DEF vars, txVars
<1>2. IInv'
      BY NextIInv DEF PostingInv
<1>3. FinalTxStays /\ RowsGo
      BY <1>1 DEF FinalTxStays, RowsGo
<1>4. \A i \in TxIds : LateLegs(i)' = LateLegs(i)
      BY <1>1 DEF LateLegs, ChargeLegs, RefundLegs
<1> QED
    BY <1>1, <1>2, <1>3, <1>4

\* A step of the backfill that posts nothing.
LEMMA ReadingKeeps ==
    ASSUME PostingInv, UNCHANGED vars, entries' = entries, JobInv',
           job' \in [step : 0..Len(BackfillSteps), at : {"select", "check", "write"},
                     row : 0..MaxTx, legs : SUBSET Legs]
    PROVE  PostingInv'
<1>1. IInv' /\ tx' = tx
      BY BookingStays
<1>2. PostedOnce' /\ EntriesBacked' /\ EntriesType'
      BY <1>1 DEF PostingInv, PostedOnce, EntriesBacked, EntriesType, BackfillSteps
<1>3. ReleaseInv'
      BY <1>1 DEF PostingInv, ReleaseInv, Has
<1>4. FeesPosted'
      BY <1>1 DEF PostingInv, FeesPosted, HasEntries
<1> QED
    BY <1>1, <1>2, <1>3, <1>4 DEF PostingInv

\* The next step starts with its query.
LEMMA NextStepType ==
    ASSUME EntriesType, job.step > 0
    PROVE  /\ NextStep \in [step : 0..Len(BackfillSteps), at : {"select", "check", "write"},
                            row : 0..MaxTx, legs : SUBSET Legs]
           /\ NextStep.at = "select"
<1>1. Len(BackfillSteps) = 5 /\ job.step \in 0..5 /\ MaxTx \in Nat
      BY Steps, MaxTxAssumption DEF EntriesType
<1>2. NotRunning = [step |-> 0, at |-> "select", row |-> 0, legs |-> {}]
      BY DEF NotRunning
<1>3. CASE job.step = 5
  <2>1. NextStep = [step |-> 0, at |-> "select", row |-> 0, legs |-> {}]
        BY <1>1, <1>2, <1>3 DEF NextStep
  <2> QED
      BY <1>1, <2>1
<1>4. CASE job.step # 5
  <2>1. NextStep = [step |-> job.step + 1, at |-> "select", row |-> 0, legs |-> {}]
        BY <1>1, <1>4 DEF NextStep, NotRunning
  <2>2. job.step + 1 \in 0..5
        BY <1>1, <1>4
  <2> QED
      BY <1>1, <2>1, <2>2
<1> QED
    BY <1>3, <1>4

\* The query: the row read is completed, or a payout or a fee.
LEMMA SelectKeeps ==
    ASSUME PostingInv, BackfillSelect PROVE PostingInv'
<1>1. EntriesType /\ TypeOK /\ job.step \in 1..5 /\ UNCHANGED <<vars, entries>>
      BY Steps DEF PostingInv, IInv, EntriesType, BackfillSelect, Running
<1>2. CASE job' = NextStep
      BY <1>1, <1>2, NextStepType, ReadingKeeps DEF JobInv
<1>3. CASE job' # NextStep
  <2>1. PICK i \in RowsToPost(BackfillSteps[job.step]) : job' = [job EXCEPT !.at = "check", !.row = i]
        BY <1>3 DEF BackfillSelect
  <2>2. PICK k \in 1..5 : k = job.step
        BY <1>1
  <2>3. BackfillSteps[k] \in {"CHARGE", "REFUND", "RELEASE", "PAID", "PAYMENT_FEE"} /\ Len(BackfillSteps) = 5
        BY Steps
  <2>4. i \in TxIds /\ ReadAs(BackfillSteps[k], i)
    <3>1. i \in RowsToPost(BackfillSteps[k])
          BY <2>1, <2>2
    <3>2. i \in TxIds
          BY <2>3, <3>1 DEF RowsToPost
    <3>3. tx[i] \in Rows
          BY <1>1, <3>2 DEF TypeOK
    <3> QED
        BY <2>3, <3>1, <3>2, <3>3 DEF RowsToPost, ReadAs, Rows, Row
  <2>5. job' = [step |-> k, at |-> "check", row |-> i, legs |-> job.legs]
        BY <1>1, <2>1, <2>2 DEF EntriesType
  <2>6. /\ k \in 0..Len(BackfillSteps) /\ i \in 0..MaxTx /\ job.legs \in SUBSET Legs
        BY <1>1, <2>3, <2>4, MaxTxAssumption DEF EntriesType, TxIds
  <2>7. job' \in [step : 0..Len(BackfillSteps), at : {"select", "check", "write"},
                  row : 0..MaxTx, legs : SUBSET Legs]
        BY <2>5, <2>6
  <2>8. tx' = tx
        BY <1>1, BookingStays
  <2>9. /\ job'.at = "check" /\ job'.step = k /\ job'.row = i /\ k > 0
        BY <2>5
  <2>10. ReadAs(BackfillSteps[k], i)'
         BY <2>4, <2>8 DEF ReadAs, BackfillSteps
  <2>11. JobInv'
         BY <2>4, <2>9, <2>10 DEF JobInv, BackfillSteps
  <2> QED
      BY <1>1, <2>7, <2>11, ReadingKeeps
<1> QED
    BY <1>2, <1>3

\* Only charges and refunds are ever found unposted, and then as a whole.
LEMMA FoundAreLate ==
    ASSUME PostingInv, NEW i \in TxIds,
           NEW step \in {"CHARGE", "REFUND", "RELEASE", "PAID", "PAYMENT_FEE"}, ReadAs(step, i)
    PROVE  LegsToPost(step, i) \in {{}, LateLegs(i)} /\ \A l \in LegsToPost(step, i) : entries[l] = 0
<1>1. /\ entries \in [Legs -> Nat] /\ RowsDense /\ PayoutHistory /\ ReleaseInv /\ FeesPosted
      BY DEF PostingInv, EntriesType, IInv
<1>2. /\ ChargeLegs(i) \in SUBSET Legs /\ RefundLegs(i) \in SUBSET Legs
      /\ \A l \in ChargeLegs(i) \cup RefundLegs(i) : l[1] = i
      BY LegSets
<1>3. CASE step = "CHARGE"
  <2>1. LegsToPost(step, i) = Unposted(i, ChargeLegs(i))
        BY <1>3 DEF LegsToPost
  <2>2. LateLegs(i) = ChargeLegs(i)
        BY <1>3 DEF ReadAs, LateLegs
  <2> QED
      BY <1>1, <1>2, <2>1, <2>2, UnpostedIsNew
<1>4. CASE step = "REFUND"
  <2>1. LegsToPost(step, i) \in {{}, Unposted(i, RefundLegs(i))}
        BY <1>4 DEF LegsToPost
  <2>2. LateLegs(i) = RefundLegs(i)
        BY <1>4 DEF ReadAs, LateLegs, Row
  <2> QED
      BY <1>1, <1>2, <2>1, <2>2, UnpostedIsNew
<1>5. CASE step = "RELEASE"
  <2> SUFFICES LegsToPost(step, i) = {}
      OBVIOUS
  <2>1. CASE HasCompletedCharge /\ HasFee
    <3> DEFINE charge == TheRow("CHARGE")
               fee == TheRow("FEE")
    <3>1. charge \in TxIds /\ tx[charge].type = "CHARGE" /\ fee \in TxIds /\ tx[fee].type = "FEE"
          BY <2>1 DEF HasCompletedCharge, HasFee, Has, TheRow
    <3>2. <<charge, "escrow", "DEBIT">> \in ReleaseLegs(charge, i, fee)
          BY DEF ReleaseLegs
    <3>3. tx[i].type = "PAYOUT"
          BY <1>5 DEF ReadAs
    <3>4. entries[<<charge, "escrow", "DEBIT">>] = 1
          BY <1>1, <3>1, <3>2, <3>3 DEF ReleaseInv
    <3> QED
        BY <1>5, <3>4 DEF LegsToPost, UnpostedRelease
  <2>2. CASE ~(HasCompletedCharge /\ HasFee)
        BY <1>5, <2>2 DEF LegsToPost
  <2> QED
      BY <2>1, <2>2
<1>6. CASE step = "PAID"
  <2>1. HasEntries(i)
        BY <1>6, PayoutHasEntries DEF ReadAs
  <2> QED
      BY <1>6, <2>1 DEF LegsToPost, Unposted
<1>7. CASE step = "PAYMENT_FEE"
  <2>1. HasEntries(i)
        BY <1>1, <1>7 DEF FeesPosted, ReadAs
  <2> QED
      BY <1>7, <2>1 DEF LegsToPost, Unposted
<1> QED
    BY <1>3, <1>4, <1>5, <1>6, <1>7

\* The idempotence check: what it finds missing nobody else will post.
LEMMA CheckKeeps ==
    ASSUME PostingInv, BackfillCheck PROVE PostingInv'
<1>1. /\ EntriesType /\ job.step \in 1..5 /\ job.row \in TxIds /\ ReadAs(BackfillSteps[job.step], job.row)
      /\ UNCHANGED <<vars, entries>>
      /\ job' = [job EXCEPT !.at = "write", !.legs = LegsToPost(BackfillSteps[job.step], job.row)]
      BY Steps DEF PostingInv, EntriesType, JobInv, BackfillCheck, Running
<1>2. PICK k \in 1..5, i \in TxIds : k = job.step /\ i = job.row
      BY <1>1
<1>3. PICK legs : legs = LegsToPost(BackfillSteps[k], i)
      OBVIOUS
<1>4. BackfillSteps[k] \in {"CHARGE", "REFUND", "RELEASE", "PAID", "PAYMENT_FEE"} /\ Len(BackfillSteps) = 5
      BY Steps
<1>5. /\ ReadAs(BackfillSteps[k], i)
      /\ legs \subseteq LateLegs(i) /\ \A l \in legs : entries[l] = 0
      BY <1>1, <1>2, <1>3, <1>4, FoundAreLate
<1>6. job' = [step |-> k, at |-> "write", row |-> i, legs |-> legs]
      BY <1>1, <1>2, <1>3 DEF EntriesType
<1>7. legs \in SUBSET Legs
  <2>1. LateLegs(i) \subseteq Legs
        BY LegSets DEF LateLegs
  <2> QED
      BY <1>5, <2>1
<1>8. k \in 0..Len(BackfillSteps) /\ i \in 0..MaxTx
      BY <1>4, MaxTxAssumption DEF TxIds
<1>9. job' \in [step : 0..Len(BackfillSteps), at : {"select", "check", "write"},
                row : 0..MaxTx, legs : SUBSET Legs]
      BY <1>6, <1>7, <1>8
<1>10. tx' = tx /\ LateLegs(i)' = LateLegs(i)
       BY <1>1, BookingStays
<1>11. ReadAs(BackfillSteps[k], i)'
       BY <1>5, <1>10 DEF ReadAs, BackfillSteps
<1>12. /\ job'.at = "write" /\ job'.step = k /\ job'.row = i /\ job'.legs = legs /\ k > 0
       BY <1>6
<1>13. \A l \in legs : entries'[l] = 0
       BY <1>1, <1>5
<1>14. legs \subseteq LateLegs(i)'
       BY <1>5, <1>10
<1>15. JobInv'
  <2>1. LateLegs(job.row)' = LateLegs(i)'
        BY <1>12 DEF LateLegs, ChargeLegs, RefundLegs
  <2>2. ReadAs(BackfillSteps[job.step], job.row)'
        BY <1>11, <1>12 DEF ReadAs, BackfillSteps
  <2> QED
      BY <1>12, <1>13, <1>14, <2>1, <2>2 DEF JobInv
<1> QED
    BY <1>1, <1>9, <1>15, ReadingKeeps

\* The insert: what was found missing is still missing.
LEMMA WriteKeeps ==
    ASSUME PostingInv, BackfillWrite PROVE PostingInv'
<1>1. /\ EntriesType /\ job.step > 0 /\ job.row \in TxIds
      /\ job.legs \subseteq LateLegs(job.row) /\ \A l \in job.legs : entries[l] = 0
      /\ job' = NextStep /\ UNCHANGED vars /\ Post(job.legs)
      BY DEF PostingInv, JobInv, BackfillWrite, Running
<1>2. PICK i \in TxIds : i = job.row
      BY <1>1
<1>3. PICK legs \in SUBSET Legs : legs = job.legs
      BY <1>1 DEF EntriesType
<1>4. IInv' /\ FinalTxStays /\ RowsGo /\ \A n \in TxIds : LateLegs(n)' = LateLegs(n)
      BY <1>1, BookingStays
<1>5. \A l \in legs : l[1] = i /\ l \in LateLegs(i) /\ entries[l] = 0
      BY <1>1, <1>2, <1>3 DEF LateLegs, ChargeLegs, RefundLegs
<1>6. LateOnly(legs)
      BY <1>4, <1>5 DEF LateOnly
<1>7. entries' \in [Legs -> Nat] /\ PostedOnce' /\ EntriesBacked' /\ ReleaseInv' /\ FeesPosted'
      BY <1>1, <1>3, <1>4, <1>6, EntriesStep
<1>8. /\ job' \in [step : 0..Len(BackfillSteps), at : {"select", "check", "write"},
                   row : 0..MaxTx, legs : SUBSET Legs]
      /\ job'.at = "select"
      BY <1>1, NextStepType
<1>9. EntriesType' /\ JobInv'
      BY <1>7, <1>8 DEF EntriesType, JobInv, BackfillSteps
<1> QED
    BY <1>4, <1>7, <1>9 DEF PostingInv

\* All steps of the backfill.
LEMMA BackfillKeeps ==
    ASSUME PostingInv, Backfill PROVE PostingInv'
<1>1. Len(BackfillSteps) = 5 /\ MaxTx \in Nat
      BY Steps, MaxTxAssumption
<1>2. CASE BackfillStart
  <2>1. job' = [step |-> 1, at |-> "select", row |-> 0, legs |-> {}]
        BY <1>2 DEF BackfillStart, NotRunning
  <2>2. job' \in [step : 0..Len(BackfillSteps), at : {"select", "check", "write"},
                  row : 0..MaxTx, legs : SUBSET Legs]
        BY <1>1, <2>1
  <2>3. JobInv'
        BY <2>1 DEF JobInv
  <2> QED
      BY <1>2, <2>2, <2>3, ReadingKeeps DEF BackfillStart
<1>3. CASE BackfillStops
  <2>1. job' = [step |-> 0, at |-> "select", row |-> 0, legs |-> {}]
        BY <1>3 DEF BackfillStops, NotRunning
  <2>2. job' \in [step : 0..Len(BackfillSteps), at : {"select", "check", "write"},
                  row : 0..MaxTx, legs : SUBSET Legs]
        BY <1>1, <2>1
  <2>3. JobInv'
        BY <2>1 DEF JobInv
  <2> QED
      BY <1>3, <2>2, <2>3, ReadingKeeps DEF BackfillStops
<1> QED
    BY <1>2, <1>3, SelectKeeps, CheckKeeps, WriteKeeps DEF Backfill
-----------------------------------------------------------------------------
(* The theorems.                                                           *)

\* PostingInv holds at first, ...
LEMMA LedgerInitInv == LedgerInit => PostingInv
<1> SUFFICES ASSUME LedgerInit PROVE PostingInv
    OBVIOUS
<1>1. IInv
      BY InitIInv DEF LedgerInit
<1>2. \A l \in Legs : entries[l] = 0
      BY DEF LedgerInit
<1>3. \A i \in TxIds : tx[i] = NoTx
      BY DEF LedgerInit, Init
<1>4. EntriesType /\ JobInv
  <2>1. Len(BackfillSteps) = 5 /\ MaxTx \in Nat
        BY Steps, MaxTxAssumption
  <2>2. job = [step |-> 0, at |-> "select", row |-> 0, legs |-> {}]
        BY DEF LedgerInit, NotRunning
  <2>3. job \in [step : 0..Len(BackfillSteps), at : {"select", "check", "write"},
                 row : 0..MaxTx, legs : SUBSET Legs]
        BY <2>1, <2>2
  <2>4. entries \in [Legs -> Nat]
        BY DEF LedgerInit
  <2> QED
      BY <2>2, <2>3, <2>4 DEF EntriesType, JobInv
<1>5. PostedOnce /\ EntriesBacked
      BY <1>2 DEF PostedOnce, EntriesBacked
<1>6. ReleaseInv /\ FeesPosted
      BY <1>3 DEF ReleaseInv, FeesPosted, NoTx
<1> QED
    BY <1>1, <1>4, <1>5, <1>6 DEF PostingInv

\* ... and every step keeps it.
LEMMA LedgerNextKeeps ==
    ASSUME PostingInv, [LedgerNext]_allVars PROVE PostingInv'
<1>1. CASE Posting
      BY <1>1, ChargeKeeps, RefundKeeps, AdminRefundKeeps, CreatePayoutKeeps, CommitKeeps, ResolvePayoutKeeps
         DEF Posting
<1>2. CASE Unposting /\ UNCHANGED ledgerVars
      BY <1>2, UnpostingKeeps
<1>3. CASE Backfill
      BY <1>3, BackfillKeeps
<1>4. CASE UNCHANGED allVars
  <2>1. UNCHANGED vars /\ entries' = entries /\ job' = job /\ tx' = tx
        BY <1>4 DEF allVars, vars, txVars
  <2>2. IInv' /\ FinalTxStays /\ RowsGo
        BY <2>1, BookingStays
  <2> QED
      BY <2>1, <2>2, QuietKeeps
<1> QED
    BY <1>1, <1>2, <1>3, <1>4 DEF LedgerNext

\* The inductive invariant of the ledger holds in every state: what LedgerWriter has
\* written fits the rows, and what the backfill has read still holds.
THEOREM PostingInvAlways == LedgerSpec => []PostingInv
BY LedgerInitInv, LedgerNextKeeps, PTL DEF LedgerSpec

\* LedgerWriter's checks and the backfill, which takes no lock, never write a leg
\* twice.
THEOREM PostedOnceAlways == LedgerSpec => []PostedOnce
<1>1. PostingInv => PostedOnce
      BY DEF PostingInv
<1> QED
    BY <1>1, PostingInvAlways, PTL

\* The entries of a charge, a refund or a fee belong to completed rows.
THEOREM EntriesBackedAlways == LedgerSpec => []EntriesBacked
<1>1. PostingInv => EntriesBacked
      BY DEF PostingInv
<1> QED
    BY <1>1, PostingInvAlways, PTL

\* CreatePayoutTransaction's payouts are released from escrow with all three legs of
\* writePayoutRelease, and no charge is released without a payout.
THEOREM PayoutIsReleasedAlways == LedgerSpec => []PayoutIsReleased
<1>1. PostingInv => PayoutIsReleased
  <2> SUFFICES ASSUME PostingInv PROVE PayoutIsReleased
      OBVIOUS
  <2>1. ReleaseInv /\ PayoutHistory
        BY DEF PostingInv, IInv
  <2>2. CASE Has("PAYOUT", TxStatuses)
    <3>1. TheRow("PAYOUT") \in TxIds /\ tx[TheRow("PAYOUT")].type = "PAYOUT"
          BY <2>2 DEF Has, TheRow
    <3>2. TheRow("FEE") \in TxIds /\ tx[TheRow("FEE")].type = "FEE"
          BY <2>1, <2>2 DEF PayoutHistory, HasFee, Has, TheRow
    <3>3. TheRow("CHARGE") \in TxIds /\ tx[TheRow("CHARGE")].type = "CHARGE"
          BY <2>1, <2>2 DEF PayoutHistory, HasCompletedCharge, Has, TheRow
    <3> QED
        BY <2>1, <2>2, <3>1, <3>2, <3>3 DEF ReleaseInv, PayoutIsReleased
  <2>3. CASE ~Has("PAYOUT", TxStatuses)
        BY <2>1, <2>3 DEF ReleaseInv, PayoutIsReleased
  <2> QED
      BY <2>2, <2>3
<1> QED
    BY <1>1, PostingInvAlways, PTL
-----------------------------------------------------------------------------
(***************************************************************************)
(* Part 4: the money of BookingLedger.                                     *)
(***************************************************************************)

(* Money: every step posts whole movements, and whole movements balance.   *)

Debits == TxIds \X Accounts \X {"DEBIT"}
Credits == TxIds \X Accounts \X {"CREDIT"}

\* What entries of these legs add to each leg, value being the amounts of the rows.
Extra(value, legs) == [l \in Legs |-> IF l \in legs THEN value[l[1]] ELSE 0]

\* A product of three finite sets is finite.
LEMMA FiniteTriples ==
    ASSUME NEW A, IsFiniteSet(A), NEW B, IsFiniteSet(B), NEW C, IsFiniteSet(C)
    PROVE  IsFiniteSet(A \X B \X C)
<1> DEFINE P == (A \X B) \X C
           T == A \X B \X C
           f == [p \in P |-> <<p[1][1], p[1][2], p[2]>>]
<1>1. IsFiniteSet(P)
      BY FS_Product
<1>2. f \in [P -> T]
      OBVIOUS
<1>3. \A t \in T : \E p \in P : f[p] = t
  <2> SUFFICES ASSUME NEW t \in T PROVE \E p \in P : f[p] = t
      OBVIOUS
  <2>1. <<<<t[1], t[2]>>, t[3]>> \in P /\ f[<<<<t[1], t[2]>>, t[3]>>] = t
        OBVIOUS
  <2> QED
      BY <2>1
<1>4. f \in Surjection(P, T)
      BY <1>2, <1>3 DEF Surjection
<1> HIDE DEF P, T, f
<1>5. IsFiniteSet(T)
      BY <1>1, <1>4, FS_Surjection
<1> QED
    BY <1>5 DEF T

\* The sums over the legs of an account, of a side or of the whole ledger are finite.
LEMMA FiniteLegs ==
    /\ IsFiniteSet(Debits) /\ IsFiniteSet(Credits)
    /\ Debits \subseteq Legs /\ Credits \subseteq Legs
    /\ \A account \in Accounts, direction \in {"DEBIT", "CREDIT"} :
          IsFiniteSet(Side(account, direction)) /\ Side(account, direction) \subseteq Legs
<1>1. IsFiniteSet(TxIds)
      BY FS_Interval, MaxTxAssumption DEF TxIds
<1>2. \A a : IsFiniteSet({a})
      BY FS_Singleton
<1>3. IsFiniteSet(Accounts)
  <2>1. Accounts = (((({} \cup {"psp"}) \cup {"escrow"}) \cup {"payable"}) \cup {"revenue"}) \cup {"expense"}
        BY DEF Accounts
  <2> QED
      BY <2>1, FS_EmptySet, FS_AddElement
<1>4. IsFiniteSet(Debits) /\ IsFiniteSet(Credits)
      BY <1>1, <1>2, <1>3, FiniteTriples DEF Debits, Credits
<1>5. \A account, direction : IsFiniteSet(Side(account, direction))
      BY <1>1, <1>2, FiniteTriples DEF Side
<1> QED
    BY <1>4, <1>5 DEF Debits, Credits, Side, Legs

\* Two legs of one row, a debit and a credit, balance.
LEMMA PairBalances ==
    ASSUME NEW value \in [TxIds -> Nat], NEW i \in TxIds, NEW a \in Accounts, NEW b \in Accounts
    PROVE  LET g == Extra(value, {<<i, a, "DEBIT">>, <<i, b, "CREDIT">>})
           IN  SumFunctionOnSet(g, Debits) = SumFunctionOnSet(g, Credits)
<1> DEFINE d == <<i, a, "DEBIT">>
           c == <<i, b, "CREDIT">>
           g == Extra(value, {d, c})
<1>1. d \in Debits /\ c \in Credits /\ d \in Legs /\ c \in Legs /\ d[1] = i /\ c[1] = i
      BY DEF Debits, Credits, Legs
<1>2. g[d] = value[i] /\ g[c] = value[i] /\ value[i] \in Nat
      BY <1>1 DEF Extra
<1>3. (\A y \in Debits : y # d => g[y] = 0) /\ (\A y \in Credits : y # c => g[y] = 0)
      BY FiniteLegs DEF Extra, Debits, Credits
<1> HIDE DEF g
<1>4. SumFunctionOnSet(g, Debits) = g[d]
      BY <1>1, <1>2, <1>3, FiniteLegs, SumOnly
<1>5. SumFunctionOnSet(g, Credits) = g[c]
      BY <1>1, <1>2, <1>3, FiniteLegs, SumOnly
<1> QED
    BY <1>2, <1>4, <1>5 DEF g

\* The legs of a release balance when the payout and the fee are the charge.
LEMMA ReleaseBalances ==
    ASSUME NEW value \in [TxIds -> Nat], NEW charge \in TxIds, NEW payout \in TxIds, NEW fee \in TxIds,
           value[payout] + value[fee] = value[charge]
    PROVE  LET g == Extra(value, ReleaseLegs(charge, payout, fee))
           IN  SumFunctionOnSet(g, Debits) = SumFunctionOnSet(g, Credits)
<1> DEFINE d == <<charge, "escrow", "DEBIT">>
           c == <<payout, "payable", "CREDIT">>
           e == <<fee, "revenue", "CREDIT">>
           g == Extra(value, ReleaseLegs(charge, payout, fee))
           R == Credits \ {c}
<1>1. /\ d \in Debits /\ c \in Credits /\ e \in R
      /\ d \in Legs /\ c \in Legs /\ e \in Legs /\ d[1] = charge /\ c[1] = payout /\ e[1] = fee
      BY DEF Debits, Credits, Legs, Accounts
<1>2. /\ g[d] = value[charge] /\ g[c] = value[payout] /\ g[e] = value[fee]
      /\ value[charge] \in Nat /\ value[payout] \in Nat /\ value[fee] \in Nat
      BY <1>1 DEF Extra, ReleaseLegs
<1>3. /\ \A y \in Debits : y # d => g[y] = 0
      /\ \A y \in R : y # e => g[y] = 0
      BY FiniteLegs DEF Extra, ReleaseLegs, Debits, Credits
<1>4. IsFiniteSet(R)
      BY FiniteLegs, FS_RemoveElement
<1>5. \A y \in Credits : g[y] \in Nat
      BY <1>2, <1>3
<1> HIDE DEF g, R
<1>6. SumFunctionOnSet(g, Debits) = g[d]
      BY <1>1, <1>2, <1>3, FiniteLegs, SumOnly
<1>7. SumFunctionOnSet(g, R) = g[e]
      BY <1>1, <1>2, <1>3, <1>4, SumOnly
<1>8. SumFunctionOnSet(g, Credits) = g[c] + SumFunctionOnSet(g, R)
      BY <1>1, <1>5, FiniteLegs, SumRemove DEF R
<1> QED
    BY <1>2, <1>6, <1>7, <1>8 DEF g

\* Two disjoint balanced movements balance together.
LEMMA UnionBalances ==
    ASSUME NEW value \in [TxIds -> Nat], NEW S, NEW T, S \cap T = {},
           SumFunctionOnSet(Extra(value, S), Debits) = SumFunctionOnSet(Extra(value, S), Credits),
           SumFunctionOnSet(Extra(value, T), Debits) = SumFunctionOnSet(Extra(value, T), Credits)
    PROVE  SumFunctionOnSet(Extra(value, S \cup T), Debits) = SumFunctionOnSet(Extra(value, S \cup T), Credits)
<1> DEFINE f == Extra(value, S \cup T)
           g == Extra(value, S)
           h == Extra(value, T)
<1>1. \A l \in Legs : g[l] \in Nat /\ h[l] \in Nat /\ f[l] = g[l] + h[l]
  <2>1. \A l \in Legs : value[l[1]] \in Nat
        BY DEF Legs
  <2> QED
      BY <2>1 DEF Extra
<1> HIDE DEF f, g, h
<1>2. SumFunctionOnSet(f, Debits) = SumFunctionOnSet(g, Debits) + SumFunctionOnSet(h, Debits)
  <2>1. \A l \in Debits : g[l] \in Nat /\ h[l] \in Nat /\ f[l] = g[l] + h[l]
        BY <1>1, FiniteLegs
  <2> QED
      BY <2>1, FiniteLegs, SumPlus
<1>3. SumFunctionOnSet(f, Credits) = SumFunctionOnSet(g, Credits) + SumFunctionOnSet(h, Credits)
  <2>1. \A l \in Credits : g[l] \in Nat /\ h[l] \in Nat /\ f[l] = g[l] + h[l]
        BY <1>1, FiniteLegs
  <2> QED
      BY <2>1, FiniteLegs, SumPlus
<1> QED
    BY <1>2, <1>3 DEF f, g, h

\* What one step posts: nothing, a charge, a refund, or a release with the provider's
\* fee, of rows that the step leaves in the table.
Movement(legs) ==
    \/ legs = {}
    \/ \E i \in TxIds : tx'[i].type = "CHARGE" /\ legs = ChargeLegs(i)
    \/ \E i \in TxIds : tx'[i].type = "REFUND" /\ legs = RefundLegs(i)
    \/ \E charge, payout, fee, paymentFee \in TxIds :
          /\ tx'[charge].type = "CHARGE"
          /\ amount'[payout] + amount'[fee] = amount'[charge]
          /\ legs = ReleaseLegs(charge, payout, fee) \cup PaymentFeeLegs(paymentFee)

\* A movement adds as much to the debits as to the credits.
LEMMA MovementBalances ==
    ASSUME amount' \in [TxIds -> Nat], NEW legs, Movement(legs)
    PROVE  SumFunctionOnSet(Extra(amount', legs), Debits) = SumFunctionOnSet(Extra(amount', legs), Credits)
<1> DEFINE Balanced(S) ==
              SumFunctionOnSet(Extra(amount', S), Debits) = SumFunctionOnSet(Extra(amount', S), Credits)
<1>0. {"psp", "escrow", "expense"} \subseteq Accounts
      BY DEF Accounts
<1>1. CASE legs = {}
  <2> DEFINE g == Extra(amount', {})
  <2>1. \A l \in Legs : g[l] = 0
        BY DEF Extra
  <2>2. (\A l \in Debits : g[l] = 0) /\ (\A l \in Credits : g[l] = 0)
        BY <2>1, FiniteLegs
  <2> HIDE DEF g
  <2>3. SumFunctionOnSet(g, Debits) = SumFunctionOnSet(g, {})
        BY <2>2, FiniteLegs, SumSkip
  <2>4. SumFunctionOnSet(g, Credits) = SumFunctionOnSet(g, {})
        BY <2>2, FiniteLegs, SumSkip
  <2> QED
      BY <1>1, <2>3, <2>4 DEF g
<1>2. CASE \E i \in TxIds : legs = ChargeLegs(i)
      BY <1>0, <1>2, PairBalances DEF ChargeLegs
<1>3. CASE \E i \in TxIds : legs = RefundLegs(i)
      BY <1>0, <1>3, PairBalances DEF RefundLegs
<1>4. ASSUME NEW charge \in TxIds, NEW payout \in TxIds, NEW fee \in TxIds, NEW paymentFee \in TxIds,
             amount'[payout] + amount'[fee] = amount'[charge],
             legs = ReleaseLegs(charge, payout, fee) \cup PaymentFeeLegs(paymentFee)
      PROVE  Balanced(legs)
  <2>1. Balanced(ReleaseLegs(charge, payout, fee))
        BY <1>4, ReleaseBalances
  <2>2. Balanced(PaymentFeeLegs(paymentFee))
        BY <1>0, PairBalances DEF PaymentFeeLegs
  <2>3. ReleaseLegs(charge, payout, fee) \cap PaymentFeeLegs(paymentFee) = {}
        BY DEF ReleaseLegs, PaymentFeeLegs
  <2> QED
      BY <1>4, <2>1, <2>2, <2>3, UnionBalances
<1> QED
    BY <1>1, <1>2, <1>3, <1>4 DEF Movement

\* Rows keep their amount, so a step adds to a leg what it posts there and no more.
AmountsStay == \A i \in TxIds : tx[i] # NoTx => amount'[i] = amount[i]

\* Such a step adds to the value of a leg what it posts there.
LEMMA ValueStep ==
    ASSUME PostingInv, PostingInv', amount \in [TxIds -> Nat], amount' \in [TxIds -> Nat], AmountsStay,
           NEW legs \in SUBSET Legs, Post(legs), NEW l \in Legs
    PROVE  /\ LegValue[l] \in Nat
           /\ Extra(amount', legs)[l] \in Nat
           /\ LegValue'[l] = LegValue[l] + Extra(amount', legs)[l]
<1>1. /\ entries \in [Legs -> Nat] /\ entries[l] <= 1 /\ entries'[l] <= 1
      /\ entries[l] > 0 => tx[l[1]] # NoTx
      BY DEF PostingInv, EntriesType, PostedOnce, EntriesBacked
<1>2. entries'[l] = IF l \in legs THEN entries[l] + 1 ELSE entries[l]
      BY <1>1, Posted
<1>3. l[1] \in TxIds
      BY DEF Legs
<1>4. amount[l[1]] \in Nat /\ amount'[l[1]] \in Nat
      BY <1>3
<1>5. entries[l] \in {0, 1} /\ entries'[l] \in {0, 1}
      BY <1>1, <1>2
<1>6. LegValue[l] = IF entries[l] = 1 THEN amount[l[1]] ELSE 0
      BY <1>4, <1>5 DEF LegValue
<1>7. LegValue'[l] = IF entries'[l] = 1 THEN amount'[l[1]] ELSE 0
      BY <1>4, <1>5 DEF LegValue
<1>8. Extra(amount', legs)[l] = IF l \in legs THEN amount'[l[1]] ELSE 0
      BY DEF Extra
<1>9. entries[l] = 1 => amount'[l[1]] = amount[l[1]]
      BY <1>1, <1>3 DEF AmountsStay
<1> QED
    BY <1>2, <1>4, <1>5, <1>6, <1>7, <1>8, <1>9

\* The trial balance survives a step that posts one whole movement.
LEMMA BalanceStep ==
    ASSUME PostingInv, PostingInv', amount \in [TxIds -> Nat], amount' \in [TxIds -> Nat], AmountsStay,
           NEW legs \in SUBSET Legs, Post(legs), Movement(legs), TrialBalance
    PROVE  TrialBalance'
<1> DEFINE f == LegValue'
           g == LegValue
           h == Extra(amount', legs)
<1>1. \A l \in Legs : g[l] \in Nat /\ h[l] \in Nat /\ f[l] = g[l] + h[l]
      BY ValueStep
<1>2. SumFunctionOnSet(h, Debits) = SumFunctionOnSet(h, Credits)
      BY MovementBalances
<1>3. SumFunctionOnSet(g, Debits) = SumFunctionOnSet(g, Credits)
      BY DEF TrialBalance, Sum, Debits, Credits
<1>4. (TrialBalance' <=> SumFunctionOnSet(f, Debits) = SumFunctionOnSet(f, Credits))
      BY DEF TrialBalance, Sum, Debits, Credits, Accounts
<1> HIDE DEF f, g, h
<1>5. SumFunctionOnSet(f, Debits) = SumFunctionOnSet(g, Debits) + SumFunctionOnSet(h, Debits)
  <2>1. \A l \in Debits : g[l] \in Nat /\ h[l] \in Nat /\ f[l] = g[l] + h[l]
        BY <1>1, FiniteLegs
  <2> QED
      BY <2>1, FiniteLegs, SumPlus
<1>6. SumFunctionOnSet(f, Credits) = SumFunctionOnSet(g, Credits) + SumFunctionOnSet(h, Credits)
  <2>1. \A l \in Credits : g[l] \in Nat /\ h[l] \in Nat /\ f[l] = g[l] + h[l]
        BY <1>1, FiniteLegs
  <2> QED
      BY <2>1, FiniteLegs, SumPlus
<1> QED
    BY <1>2, <1>3, <1>4, <1>5, <1>6

\* Where the escrow legs of a movement lie.
LEMMA EscrowLegsStep ==
    ASSUME PostingInv, EscrowLegs, TypesStay, NEW legs \in SUBSET Legs, Post(legs), Movement(legs)
    PROVE  EscrowLegs'
<1> SUFFICES ASSUME NEW i \in TxIds
             PROVE  /\ entries'[<<i, "escrow", "CREDIT">>] > 0 => tx'[i].type = "CHARGE"
                    /\ entries'[<<i, "escrow", "DEBIT">>] > 0 => tx'[i].type \in {"CHARGE", "REFUND"}
    BY DEF EscrowLegs
<1> DEFINE c == <<i, "escrow", "CREDIT">>
           d == <<i, "escrow", "DEBIT">>
<1>1. c \in Legs /\ d \in Legs /\ entries \in [Legs -> Nat]
      BY DEF Legs, Accounts, PostingInv, EntriesType
<1>2. /\ entries'[c] = IF c \in legs THEN entries[c] + 1 ELSE entries[c]
      /\ entries'[d] = IF d \in legs THEN entries[d] + 1 ELSE entries[d]
      BY <1>1, Posted
<1>3. /\ c \notin legs /\ entries'[c] > 0 => tx'[i].type = "CHARGE"
      /\ d \notin legs /\ entries'[d] > 0 => tx'[i].type \in {"CHARGE", "REFUND"}
      BY <1>2 DEF EscrowLegs, TypesStay
<1>4. c \in legs => tx'[i].type = "CHARGE"
      BY DEF Movement, ChargeLegs, RefundLegs, ReleaseLegs, PaymentFeeLegs
<1>5. d \in legs => tx'[i].type \in {"CHARGE", "REFUND"}
      BY DEF Movement, ChargeLegs, RefundLegs, ReleaseLegs, PaymentFeeLegs
<1> QED
    BY <1>3, <1>4, <1>5

\* A booking that was REMBOURSEE keeps the entries of its refund.
LEMMA RefundInvStep ==
    ASSUME PostingInv, PostingInv', RefundInv, TypesStay, NEW legs \in SUBSET Legs, Post(legs),
           status' = "REMBOURSEE" => status = "REMBOURSEE"
    PROVE  RefundInv'
<1> SUFFICES ASSUME status = "REMBOURSEE", NEW i \in TxIds, tx'[i].type = "REFUND", NEW l \in RefundLegs(i)
             PROVE  entries'[l] = 1
    BY DEF RefundInv, RefundLegs
<1>1. /\ entries \in [Legs -> Nat] /\ l \in Legs /\ PostedOnce' /\ OneRowPerType' /\ StatusBackedByMoney
      BY LegSets DEF PostingInv, EntriesType, IInv
<1>2. PICK r \in TxIds : tx[r].type = "REFUND"
      BY <1>1 DEF StatusBackedByMoney, Has
<1>3. tx'[r].type = "REFUND" /\ tx'[r] # NoTx
      BY <1>2 DEF TypesStay, NoTx
<1>4. r = i
      BY <1>1, <1>3 DEF OneRowPerType
<1>5. entries[l] = 1
      BY <1>2, <1>4 DEF RefundInv
<1>6. entries'[l] \in {1, 2} /\ entries'[l] <= 1
      BY <1>1, <1>5, Posted DEF PostedOnce
<1> QED
    BY <1>6

\* Refunds stay bounded by the charge when the new ones, if any, are.
LEMMA RefundBoundedStep ==
    ASSUME RefundBounded, TypesStay, AmountsStay,
           \A i \in TxIds : tx'[i].type = "REFUND" /\ tx[i].type # "REFUND" =>
               \E charge \in TxIds : tx'[charge].type = "CHARGE" /\ amount'[i] <= amount'[charge]
    PROVE  RefundBounded'
<1> SUFFICES ASSUME NEW i \in TxIds, tx'[i].type = "REFUND", tx[i].type = "REFUND"
             PROVE  \E charge \in TxIds : tx'[charge].type = "CHARGE" /\ amount'[i] <= amount'[charge]
    BY DEF RefundBounded
<1>1. PICK charge \in TxIds : tx[charge].type = "CHARGE" /\ amount[i] <= amount[charge]
      BY DEF RefundBounded
<1>2. amount'[i] = amount[i] /\ amount'[charge] = amount[charge]
      BY <1>1 DEF AmountsStay, NoTx
<1>3. tx'[charge].type = "CHARGE"
      BY <1>1 DEF TypesStay
<1> QED
    BY <1>1, <1>2, <1>3

\* The movement that the backfill has found missing stays the whole movement of its row.
LEMMA WholeJobStays ==
    ASSUME WholeJob, FinalTxStays, job' = job, PostingInv
    PROVE  WholeJob'
<1> SUFFICES ASSUME job.at = "write" PROVE job.legs \in {{}, LateLegs(job.row)'}
    BY DEF WholeJob, LateLegs, ChargeLegs, RefundLegs
<1>1. job.row \in TxIds /\ job.legs \in {{}, LateLegs(job.row)}
      BY DEF WholeJob, PostingInv, JobInv
<1>2. tx[job.row] \in {Row("CHARGE", "COMPLETED"), Row("REFUND", "COMPLETED")} => tx'[job.row] = tx[job.row]
      BY <1>1 DEF FinalTxStays, Row
<1>3. LateLegs(job.row) # {} => LateLegs(job.row)' = LateLegs(job.row)
      BY <1>2 DEF LateLegs, ChargeLegs, RefundLegs
<1> QED
    BY <1>1, <1>3

\* A step that posts a movement and obeys the rest.
LEMMA MoneyStep ==
    ASSUME PostingInv, PostingInv', MoneyInv, TypesStay, amount' \in [TxIds -> Nat], AmountsStay,
           NEW legs \in SUBSET Legs, Post(legs), Movement(legs),
           RefundBounded', WholeJob', RefundInv'
    PROVE  MoneyInv'
<1>1. TrialBalance'
      BY BalanceStep DEF MoneyInv
<1>2. EscrowLegs'
      BY EscrowLegsStep DEF MoneyInv
<1> QED
    BY <1>1, <1>2 DEF MoneyInv

\* A step of the booking beside the backfill, whatever it posts.
LEMMA BesideStep ==
    ASSUME PostingInv, PostingInv', MoneyInv, FinalTxStays, TypesStay, job' = job,
           amount' \in [TxIds -> Nat], AmountsStay,
           NEW legs \in SUBSET Legs, Post(legs), Movement(legs), RefundBounded',
           status' = "REMBOURSEE" => status = "REMBOURSEE"
    PROVE  MoneyInv'
<1>1. WholeJob'
      BY WholeJobStays DEF MoneyInv
<1>2. RefundInv'
      BY RefundInvStep DEF MoneyInv
<1> QED
    BY <1>1, <1>2, MoneyStep

\* A step that inserts no row and posts nothing.
LEMMA QuietMoney ==
    ASSUME PostingInv, PostingInv', MoneyInv, FinalTxStays, TypesStay, UNCHANGED <<amount, entries, job>>,
           \A i \in TxIds : tx'[i].type = "REFUND" => tx[i].type = "REFUND",
           status' = "REMBOURSEE" => status = "REMBOURSEE"
    PROVE  MoneyInv'
<1>1. Post({}) /\ {} \in SUBSET Legs
      BY DEF Post, PostingInv, EntriesType
<1>2. Movement({})
      BY DEF Movement
<1>3. amount' \in [TxIds -> Nat] /\ AmountsStay
      BY DEF MoneyInv, AmountsStay
<1>4. RefundBounded'
      BY <1>3, RefundBoundedStep DEF MoneyInv
<1> QED
    BY <1>1, <1>2, <1>3, <1>4, BesideStep

\* A step that inserts one charge or refund and gives it its amount.
LEMMA NewRow ==
    ASSUME PostingInv, MoneyInv, NEW type \in {"CHARGE", "REFUND"}, NEW st, NEW a \in Nat,
           NEW old, DOMAIN old = TxIds, \A i \in TxIds : old[i].type = tx[i].type,
           InsertOver(old, Row(type, st)), NewAmount(a)
    PROVE  /\ lastTx + 1 \in TxIds /\ tx[lastTx + 1] = NoTx
           /\ tx'[lastTx + 1] = Row(type, st) /\ amount'[lastTx + 1] = a
           /\ \A i \in TxIds : i # lastTx + 1 => tx'[i].type = tx[i].type
           /\ amount' \in [TxIds -> Nat] /\ AmountsStay /\ TypesStay
<1>1. TypeOK /\ RowsDense /\ amount \in [TxIds -> Nat]
      BY DEF PostingInv, IInv, MoneyInv
<1>2. /\ lastTx + 1 <= MaxTx /\ lastTx' = lastTx + 1 /\ lastTx \in Nat
      /\ tx' = [old EXCEPT ![lastTx + 1] = Row(type, st)]
      BY <1>1, MaxTxAssumption DEF InsertOver, TypeOK
<1>3. lastTx + 1 \in TxIds
      BY <1>2, MaxTxAssumption DEF TxIds
<1>4. tx[lastTx + 1] = NoTx
      BY <1>1, <1>2, <1>3 DEF RowsDense
<1>5. \A i \in TxIds : tx'[i] = IF i = lastTx + 1 THEN Row(type, st) ELSE old[i]
      BY <1>2
<1>6. amount' = [amount EXCEPT ![lastTx + 1] = a]
      BY <1>2 DEF NewAmount
<1>7. amount' \in [TxIds -> Nat] /\ amount'[lastTx + 1] = a /\ AmountsStay
      BY <1>1, <1>3, <1>4, <1>6 DEF AmountsStay
<1>8. TypesStay
      BY <1>3, <1>4, <1>5 DEF TypesStay, NoTx
<1> QED
    BY <1>3, <1>4, <1>5, <1>7, <1>8

\* The charge that the amounts are computed from is the booking's.
LEMMA ChargeIs ==
    ASSUME MoneyInv, HasCompletedCharge
    PROVE  /\ TheRow("CHARGE") \in TxIds /\ tx[TheRow("CHARGE")].type = "CHARGE"
           /\ ChargeAmount \in Nat /\ ChargeAmount = amount[TheRow("CHARGE")]
<1>1. TheRow("CHARGE") \in TxIds /\ tx[TheRow("CHARGE")].type = "CHARGE"
      BY DEF HasCompletedCharge, Has, TheRow
<1> QED
    BY <1>1 DEF ChargeAmount, MoneyInv

\* Whoever asks for a refund, it is at most the charge.
LEMMA RefundAmountsBounded ==
    ASSUME MoneyInv, HasCompletedCharge, NEW auto \in BOOLEAN
    PROVE  /\ \A a \in RefundAmounts(auto) : a \in Nat /\ a <= ChargeAmount
           /\ RefundAmount(ChargeAmount) \in Nat /\ RefundAmount(ChargeAmount) <= ChargeAmount
<1>1. ChargeAmount \in Nat
      BY ChargeIs
<1>2. PICK c \in Nat : c = ChargeAmount
      BY <1>1
<1>3. /\ RefundAmount(c) \in Nat /\ RefundAmount(c) <= c
      BY ReleaseConservesCharge DEF RefundAmount, PayoutAmount
<1>4. \A rate \in {70, 100} :
          CancellationRefundAmount(c, rate) \in Nat /\ CancellationRefundAmount(c, rate) <= RefundAmount(c)
  <2> SUFFICES ASSUME NEW rate \in {70, 100}
               PROVE  CancellationRefundAmount(c, rate) \in Nat /\ CancellationRefundAmount(c, rate) <= RefundAmount(c)
      OBVIOUS
  <2>1. rate \in Nat /\ rate <= rate /\ rate <= 100
        OBVIOUS
  <2> QED
      BY <2>1, CancellationRefundBounded
<1>5. \A a \in RefundAmounts(auto) : a \in Nat /\ a <= c
  <2>1. CASE auto
    <3>1. \A a \in RefundAmounts(auto) : \E rate \in {70, 100} : a = CancellationRefundAmount(c, rate)
          BY <1>2, <2>1 DEF RefundAmounts
    <3> QED
        BY <1>3, <1>4, <3>1
  <2>2. CASE ~auto
        BY <1>2, <1>3, <2>2 DEF RefundAmounts
  <2> QED
      BY <2>1, <2>2
<1> QED
    BY <1>2, <1>3, <1>5

\* CreateTransaction posts nothing and may refund nothing.
LEMMA ChargeMoney ==
    ASSUME PostingInv, PostingInv', FinalTxStays, MoneyInv,
           NEW st \in Accepted, NEW viaPay \in BOOLEAN, NEW price \in Prices,
           LedgerCreateTransaction(st, viaPay, price)
    PROVE  MoneyInv'
<1>1. /\ InsertOver(tx, Row("CHARGE", st)) /\ NewAmount(price) /\ UNCHANGED <<status, entries, job>>
      BY DEF LedgerCreateTransaction, CreateTransaction, Insert, bookingVars
<1>2. price \in Nat /\ DOMAIN tx = TxIds
      BY PricesAssumption DEF PostingInv, IInv, TypeOK
<1>3. /\ tx'[lastTx + 1] = Row("CHARGE", st)
      /\ \A i \in TxIds : i # lastTx + 1 => tx'[i].type = tx[i].type
      /\ amount' \in [TxIds -> Nat] /\ AmountsStay /\ TypesStay
      BY <1>1, <1>2, NewRow
<1>4. RefundBounded'
      BY <1>3, RefundBoundedStep DEF Row, MoneyInv
<1>5. Post({}) /\ {} \in SUBSET Legs /\ Movement({})
      BY <1>1 DEF Post, Movement, PostingInv, EntriesType
<1> QED
    BY <1>1, <1>3, <1>4, <1>5, BesideStep

\* A refund is inserted, and posted or not.
LEMMA RefundMoney ==
    ASSUME PostingInv, PostingInv', FinalTxStays, MoneyInv, HasCompletedCharge, NEW st,
           NEW a \in Nat, a <= ChargeAmount, NEW old, DOMAIN old = TxIds,
           \A i \in TxIds : old[i].type = tx[i].type,
           InsertOver(old, Row("REFUND", st)), NewAmount(a), UNCHANGED <<status, job>>,
           WriteRefund(lastTx + 1) \/ entries' = entries
    PROVE  MoneyInv'
<1> DEFINE r == lastTx + 1
<1>1. /\ r \in TxIds /\ tx[r] = NoTx /\ tx'[r] = Row("REFUND", st) /\ amount'[r] = a
      /\ \A i \in TxIds : i # r => tx'[i].type = tx[i].type
      /\ amount' \in [TxIds -> Nat] /\ AmountsStay /\ TypesStay
      BY NewRow
<1>2. RefundBounded'
  <2>1. PICK charge \in TxIds : tx[charge].type = "CHARGE" /\ amount[charge] = ChargeAmount
        BY ChargeIs
  <2>2. tx'[charge].type = "CHARGE" /\ amount'[charge] = ChargeAmount
        BY <1>1, <2>1 DEF TypesStay, AmountsStay, NoTx
  <2> QED
      BY <1>1, <2>2, RefundBoundedStep DEF MoneyInv
<1>3. CASE entries' = entries
  <2>1. Post({}) /\ {} \in SUBSET Legs /\ Movement({})
        BY <1>3 DEF Post, Movement, PostingInv, EntriesType
  <2> QED
      BY <1>1, <1>2, <2>1, BesideStep
<1>4. CASE WriteRefund(r)
  <2> DEFINE legs == Unposted(r, RefundLegs(r))
  <2>1. legs \in {{}, RefundLegs(r)} /\ legs \in SUBSET Legs /\ Post(legs)
        BY <1>1, <1>4, LegSets DEF Unposted, WriteRefund
  <2>2. tx'[r].type = "REFUND"
        BY <1>1 DEF Row
  <2>3. Movement(legs)
        BY <1>1, <2>1, <2>2 DEF Movement
  <2> QED
      BY <1>1, <1>2, <2>1, <2>3, BesideStep
<1> QED
    BY <1>3, <1>4

\* RefundTransaction: at most the charge, posted at once or later.
LEMMA LedgerRefundMoney ==
    ASSUME PostingInv, PostingInv', FinalTxStays, MoneyInv,
           NEW st \in Accepted, NEW auto \in BOOLEAN, LedgerRefundTransaction(st, auto)
    PROVE  MoneyInv'
<1>1. /\ HasCompletedCharge /\ InsertOver(tx, Row("REFUND", st)) /\ UNCHANGED <<status, job>>
      /\ WriteRefund(lastTx + 1) \/ entries' = entries
      BY DEF LedgerRefundTransaction, RefundTransaction, CanCreateRefund, Insert, bookingVars
<1>2. PICK a \in RefundAmounts(auto) : NewAmount(a)
      BY DEF LedgerRefundTransaction
<1>3. a \in Nat /\ a <= ChargeAmount
      BY <1>1, RefundAmountsBounded
<1>4. DOMAIN tx = TxIds
      BY DEF PostingInv, IInv, TypeOK
<1> QED
    BY <1>1, <1>2, <1>3, <1>4, RefundMoney

\* AdminRefundTransaction and ResolveDispute with a refund: the same, posted later.
LEMMA AdminRefundMoney ==
    ASSUME PostingInv, PostingInv', FinalTxStays, MoneyInv, NEW st \in Accepted, LedgerAdminRefund(st)
    PROVE  MoneyInv'
<1>1. /\ HasCompletedCharge /\ UNCHANGED <<status, entries, job>> /\ NewAmount(RefundAmount(ChargeAmount))
      BY DEF LedgerAdminRefund, AdminRefundTransaction, ResolveWithRefund, bookingVars
<1>2. PICK a \in Nat : a = RefundAmount(ChargeAmount) /\ a <= ChargeAmount
      BY <1>1, RefundAmountsBounded
<1>3. TypeOK /\ DOMAIN tx = TxIds
      BY DEF PostingInv, IInv, TypeOK
<1>4. CASE InsertOver(tx, Row("REFUND", st))
      BY <1>1, <1>2, <1>3, <1>4, RefundMoney
<1>5. CASE InsertOver(PayoutsCancelled, Row("REFUND", st))
  <2>1. DOMAIN PayoutsCancelled = TxIds /\ \A i \in TxIds : PayoutsCancelled[i].type = tx[i].type
        BY DEF PayoutsCancelled, Marked, Row
  <2> QED
      BY <1>1, <1>2, <1>5, <2>1, RefundMoney
<1>6. CASE tx' = PayoutsCancelled /\ lastTx' = lastTx
  <2>1. \A i \in TxIds : tx'[i].type = tx[i].type
        BY <1>6 DEF PayoutsCancelled, Marked, Row
  <2>2. TypesStay /\ \A i \in TxIds : tx'[i].type = "REFUND" => tx[i].type = "REFUND"
        BY <2>1 DEF TypesStay
  <2>3. amount' = amount
        BY <1>1, <1>3, <1>6 DEF NewAmount, TypeOK
  <2> QED
      BY <1>1, <2>2, <2>3, QuietMoney
<1> QED
    BY <1>4, <1>5, <1>6 DEF LedgerAdminRefund, AdminRefundTransaction, ResolveWithRefund, Insert

\* A payout releases exactly the charge.
LEMMA PayoutMoney ==
    ASSUME PostingInv, PostingInv', FinalTxStays, MoneyInv, LedgerCreatePayout
    PROVE  MoneyInv'
<1>0. PICK charge \in TxIds, fee \in TxIds, paymentFee \in TxIds, payout \in TxIds :
          /\ charge = TheRow("CHARGE")
          /\ fee = lastTx + 1 /\ paymentFee = lastTx + 2 /\ payout = lastTx + 3
      BY CreatePayoutRows
<1> DEFINE legs == ReleaseLegs(charge, payout, fee) \cup PaymentFeeLegs(paymentFee)
<1>1. /\ tx[charge] = Row("CHARGE", "COMPLETED")
      /\ tx[fee] = NoTx /\ tx[paymentFee] = NoTx /\ tx[payout] = NoTx
      /\ tx'[fee] = Row("FEE", "COMPLETED") /\ tx'[paymentFee] = Row("PAYMENT_FEE", "COMPLETED")
      /\ tx'[payout] = Row("PAYOUT", "PENDING")
      /\ \A i \in TxIds : tx[i] # NoTx => tx'[i] = tx[i]
      BY <1>0, CreatePayoutRows
<1>2. TypesStay
      BY <1>1 DEF TypesStay, NoTx
<1>3. tx[charge].type = "CHARGE" /\ tx'[charge].type = "CHARGE"
      BY <1>1, <1>2 DEF TypesStay, Row
<1>4. HasCompletedCharge /\ status' = status /\ job' = job
      BY DEF LedgerCreatePayout, CreatePayoutTransaction, CanCreatePayout, bookingVars
<1>5. PICK c \in Nat : c = ChargeAmount
      BY <1>4, ChargeIs
<1>6. PayoutAmount(c) \in Nat /\ FeeAmount(c) \in Nat
      BY ReleaseConservesCharge
<1>7. PaymentFeeAmount(c) \in Nat
      BY RatesAssumption, PercentBounds DEF PaymentFeeAmount
<1>8. /\ amount' = [amount EXCEPT ![fee] = FeeAmount(c), ![paymentFee] = PaymentFeeAmount(c),
                                  ![payout] = PayoutAmount(c)]
      /\ amount'[payout] + amount'[fee] = amount'[charge]
      BY <1>0, <1>5 DEF LedgerCreatePayout
<1>9. amount' \in [TxIds -> Nat] /\ AmountsStay
      BY <1>1, <1>6, <1>7, <1>8 DEF MoneyInv, AmountsStay
<1>10. RefundBounded'
  <2>1. \A i \in TxIds : i \notin {fee, paymentFee, payout} => tx'[i].type = tx[i].type
    <3>1. TypeOK /\ TypeOK' /\ lastTx' = lastTx + 3 /\ lastTx \in Nat
          BY MaxTxAssumption DEF PostingInv, IInv, TypeOK, LedgerCreatePayout, CreatePayoutTransaction, InsertThree
    <3>2. tx' = [tx EXCEPT ![fee] = Row("FEE", "COMPLETED"), ![paymentFee] = Row("PAYMENT_FEE", "COMPLETED"),
                           ![payout] = Row("PAYOUT", "PENDING")]
          BY <1>0 DEF LedgerCreatePayout, CreatePayoutTransaction, InsertThree
    <3> QED
        BY <3>1, <3>2 DEF TypeOK
  <2>2. \A i \in {fee, paymentFee, payout} : tx'[i].type # "REFUND"
        BY <1>1 DEF Row
  <2> QED
      BY <1>2, <1>9, <2>1, <2>2, RefundBoundedStep DEF MoneyInv
<1>11. Post(legs)
       BY <1>0, CreatePayoutPosts
<1>12. legs \in SUBSET Legs
       BY LegSets, ReleaseLegSet
<1>13. Movement(legs)
       BY <1>3, <1>8 DEF Movement
<1> QED
    BY <1>2, <1>4, <1>9, <1>10, <1>11, <1>12, <1>13, BesideStep

\* The status is set to REMBOURSEE in the same transaction that posts the refund.
LEMMA CommitMoney ==
    ASSUME PostingInv, PostingInv', FinalTxStays, MoneyInv, NEW w \in Workers,
           LedgerChargeSuccess(w) \/ LedgerRefundSuccess(w) \/ LedgerMarkPayoutCompleted(w)
    PROVE  MoneyInv'
<1>1. TypeOK /\ HoldInv /\ DOMAIN tx = TxIds /\ entries \in [Legs -> Nat] /\ EntriesBacked /\ OneRowPerType'
      BY DEF PostingInv, IInv, TypeOK, EntriesType
<1> DEFINE i == hold[w].row
<1>2. PICK type \in {"CHARGE", "REFUND", "PAYOUT"} : CommitRow(w, type)
      BY DEF LedgerChargeSuccess, LedgerRefundSuccess, LedgerMarkPayoutCompleted,
             CommitChargeSuccess, CommitRefundSuccess, CommitMarkPayoutCompleted
<1>3. /\ i \in TxIds /\ tx[i].type = type /\ tx[i].status = "PENDING" /\ tx'[i] = Row(type, "COMPLETED")
      /\ tx'[i].type = type /\ RowsGo
      BY <1>1, <1>2, CommittedRow DEF TxTypes, Row
<1>4. TypesStay
      BY <1>3 DEF RowsGo, TypesStay
<1>5. \A k \in TxIds : tx'[k].type = tx[k].type
      BY <1>1, <1>2, <1>3 DEF CommitRow, Mark
<1>6. /\ UNCHANGED <<amount, job>> /\ amount' \in [TxIds -> Nat] /\ AmountsStay
      BY DEF LedgerChargeSuccess, LedgerRefundSuccess, LedgerMarkPayoutCompleted, MoneyInv, AmountsStay
<1>7. RefundBounded'
      BY <1>4, <1>5, <1>6, RefundBoundedStep DEF MoneyInv
<1>8. CASE LedgerChargeSuccess(w)
  <2> DEFINE legs == Unposted(i, ChargeLegs(i))
  <2>1. Post(legs) /\ legs \in {{}, ChargeLegs(i)} /\ legs \in SUBSET Legs
        BY <1>3, <1>8, LegSets DEF LedgerChargeSuccess, WriteCharge, Unposted
  <2>2. tx'[i].type = "CHARGE" /\ (status' = "REMBOURSEE" => status = "REMBOURSEE")
        BY <1>3, <1>8 DEF LedgerChargeSuccess, CommitChargeSuccess, CommitRow
  <2>3. Movement(legs)
        BY <1>3, <2>1, <2>2 DEF Movement
  <2> QED
      BY <1>4, <1>6, <1>7, <2>1, <2>2, <2>3, BesideStep
<1>9. CASE LedgerMarkPayoutCompleted(w)
  <2>1. tx[i].type = "PAYOUT" /\ (status' = "REMBOURSEE" => status = "REMBOURSEE")
        BY <1>9 DEF LedgerMarkPayoutCompleted, CommitMarkPayoutCompleted, CommitRow
  <2>2. entries' = entries
        BY <1>3, <1>9, <2>1, PaidIsQuiet DEF LedgerMarkPayoutCompleted
  <2> QED
      BY <1>4, <1>5, <1>6, <2>1, <2>2, QuietMoney
<1>10. CASE LedgerRefundSuccess(w) /\ hold[w].seen = "NONE"
  <2>1. entries' = entries /\ status' = status
        BY <1>10 DEF LedgerRefundSuccess, CommitRefundSuccess
  <2> QED
      BY <1>4, <1>5, <1>6, <2>1, QuietMoney
<1>11. CASE LedgerRefundSuccess(w) /\ hold[w].seen # "NONE"
  <2>1. tx[i].type = "REFUND" /\ tx'[i].type = "REFUND" /\ WriteRefund(i)
        BY <1>3, <1>11 DEF LedgerRefundSuccess, CommitRefundSuccess, CommitRow
  <2>2. \A l \in Legs : l[1] = i => ~ (entries[l] > 0) /\ entries[l] = 0
        BY <1>1, <1>3, <2>1 DEF EntriesBacked
  <2>3. Unposted(i, RefundLegs(i)) = RefundLegs(i)
        BY <2>2 DEF Unposted, HasEntries
  <2>4. Post(RefundLegs(i)) /\ RefundLegs(i) \in SUBSET Legs /\ \A l \in RefundLegs(i) : l[1] = i
        BY <1>3, <2>1, <2>3, LegSets DEF WriteRefund
  <2>5. \A l \in RefundLegs(i) : entries'[l] = 1
        BY <1>1, <2>2, <2>4, Posted
  <2>6. \A k \in TxIds : tx'[k].type = "REFUND" => k = i
        BY <1>1, <1>3, <2>1 DEF OneRowPerType, Row, NoTx
  <2>7. RefundInv'
        BY <2>5, <2>6 DEF RefundInv, RefundLegs
  <2>8. Movement(RefundLegs(i))
        BY <1>3, <2>1 DEF Movement
  <2>9. WholeJob'
        BY <1>6, WholeJobStays DEF MoneyInv
  <2> QED
      BY <1>4, <1>6, <1>7, <2>4, <2>7, <2>8, <2>9, MoneyStep
<1> QED
    BY <1>8, <1>9, <1>10, <1>11

\* ResolveDispute with a payout ends in TERMINE and posts nothing.
LEMMA ResolvePayoutMoney ==
    ASSUME PostingInv, PostingInv', FinalTxStays, MoneyInv, LedgerResolveWithPayout
    PROVE  MoneyInv'
<1>1. /\ resolving # 0 /\ Mark(resolving, "COMPLETED") /\ TransitionTo("TERMINE")
      /\ WritePayoutPaid(resolving) /\ UNCHANGED <<amount, job>>
      BY DEF LedgerResolveWithPayout, ResolveWithPayout
<1>2. /\ resolving \in TxIds /\ tx[resolving].type = "PAYOUT" /\ DOMAIN tx = TxIds
      BY <1>1, MaxTxAssumption DEF PostingInv, IInv, TypeOK, ResolvingInv, TxIds
<1>3. entries' = entries
      BY <1>1, <1>2, PaidIsQuiet
<1>4. \A i \in TxIds : tx'[i].type = tx[i].type
      BY <1>1, <1>2 DEF Mark, Marked, Row
<1>5. TypesStay
      BY <1>4 DEF TypesStay
<1>6. status' = "TERMINE"
      BY <1>1 DEF TransitionTo
<1> QED
    BY <1>1, <1>3, <1>4, <1>5, <1>6, QuietMoney

\* Only the webhook of a refund makes a booking REMBOURSEE.
LEMMA UnpostingMoney ==
    ASSUME PostingInv, PostingInv', FinalTxStays, MoneyInv, Unposting, UNCHANGED ledgerVars
    PROVE  MoneyInv'
<1>1. \A i \in TxIds : tx'[i].type = tx[i].type
  <2>1. CASE \E i \in TxIds : WebhookFailure(i)
    <3>1. PICK i \in TxIds : Mark(i, "FAILED")
          BY <2>1 DEF WebhookFailure
    <3> QED
        BY <3>1 DEF Mark, Marked, Row, PostingInv, IInv, TypeOK
  <2>2. (\E i \in TxIds : WebhookFailure(i)) \/ tx' = tx
        BY DEF Unposting, ConfirmBooking, DropTodo, ExpirePendingBooking, ChargeLost, CancelBooking, DeleteBooking,
               RefundLost, HandOverBooking, ConfirmDelivery, OpenDispute, CloseDispute, BeginResolveWithPayout,
               RollbackResolve, Begins, BeginChargeSuccess, BeginRefundSuccess, BeginMarkPayoutCompleted, Begin,
               Rollback, Environment, PaymentWindowPasses, EscrowDelayPasses, CustomerPays, ProviderRefunds, txVars
  <2> QED
      BY <2>1, <2>2
<1>2. status' = "REMBOURSEE" => status = "REMBOURSEE"
      BY DEF Unposting, ConfirmBooking, DropTodo, ExpirePendingBooking, ChargeLost, CancelBooking, DeleteBooking,
             RefundLost, HandOverBooking, ConfirmDelivery, OpenDispute, CloseDispute, BeginResolveWithPayout,
             RollbackResolve, Begins, BeginChargeSuccess, BeginRefundSuccess, BeginMarkPayoutCompleted, Begin,
             Rollback, Environment, PaymentWindowPasses, EscrowDelayPasses, CustomerPays, ProviderRefunds,
             WebhookFailure, TransitionTo, bookingVars
<1>3. TypesStay
      BY <1>1 DEF TypesStay
<1> QED
    BY <1>1, <1>2, <1>3, QuietMoney DEF ledgerVars

\* The backfill posts what a row misses, both legs of it.
LEMMA BackfillMoney ==
    ASSUME PostingInv, PostingInv', MoneyInv, Backfill
    PROVE  MoneyInv'
<1>1. UNCHANGED <<vars, amount>> /\ tx' = tx /\ status' = status
      BY DEF Backfill, BackfillStart, BackfillSelect, BackfillCheck, BackfillWrite, BackfillStops, vars, txVars
<1>2. TypesStay /\ amount' \in [TxIds -> Nat] /\ AmountsStay
      BY <1>1 DEF TypesStay, AmountsStay, MoneyInv
<1>3. RefundBounded'
      BY <1>1 DEF MoneyInv, RefundBounded
<1>4. CASE BackfillWrite
  <2>1. /\ Post(job.legs) /\ job.legs \in SUBSET Legs /\ job.row \in TxIds
        /\ job.legs \in {{}, LateLegs(job.row)} /\ job' = NextStep /\ EntriesType /\ job.step > 0
        BY <1>4 DEF BackfillWrite, PostingInv, EntriesType, JobInv, MoneyInv, WholeJob, Running
  <2>2. Movement(job.legs)
        BY <1>1, <2>1 DEF Movement, LateLegs, Row
  <2>3. job'.at = "select"
        BY <2>1, NextStepType
  <2>4. WholeJob'
        BY <2>3 DEF WholeJob
  <2>5. RefundInv'
        BY <1>1, <1>2, <2>1, RefundInvStep DEF MoneyInv
  <2> QED
      BY <1>2, <1>3, <2>1, <2>2, <2>4, <2>5, MoneyStep
<1>5. CASE ~BackfillWrite
  <2>1. entries' = entries
        BY <1>5 DEF Backfill, BackfillStart, BackfillSelect, BackfillCheck, BackfillStops
  <2>2. Post({}) /\ {} \in SUBSET Legs /\ Movement({})
        BY <2>1 DEF Post, Movement, PostingInv, EntriesType
  <2>3. WholeJob'
    <3>1. CASE BackfillCheck
      <4>1. PICK k \in 1..5, i \in TxIds : k = job.step /\ i = job.row
            BY <3>1, Steps DEF BackfillCheck, PostingInv, EntriesType, JobInv, Running
      <4>2. BackfillSteps[k] \in {"CHARGE", "REFUND", "RELEASE", "PAID", "PAYMENT_FEE"} /\ ReadAs(BackfillSteps[k], i)
            BY <3>1, <4>1, Steps DEF BackfillCheck, PostingInv, JobInv
      <4>3. LegsToPost(BackfillSteps[k], i) \in {{}, LateLegs(i)}
            BY <4>2, FoundAreLate
      <4>4. job'.legs = LegsToPost(BackfillSteps[k], i) /\ job'.row = i
            BY <3>1, <4>1 DEF BackfillCheck, PostingInv, EntriesType
      <4>5. LateLegs(job.row)' = LateLegs(i)
            BY <1>1, <4>4 DEF LateLegs, ChargeLegs, RefundLegs
      <4> QED
          BY <4>3, <4>4, <4>5 DEF WholeJob
    <3>2. CASE ~BackfillCheck
      <4>1. CASE BackfillSelect
        <5>1. EntriesType /\ job.step > 0
              BY <4>1 DEF BackfillSelect, Running, PostingInv, EntriesType
        <5>2. job'.at \in {"select", "check"}
              BY <4>1, <5>1, NextStepType DEF BackfillSelect, EntriesType
        <5> QED
            BY <5>2 DEF WholeJob
      <4>2. CASE BackfillStart \/ BackfillStops
        <5>1. job'.at = "select"
              BY <4>2 DEF BackfillStart, BackfillStops, NotRunning
        <5> QED
            BY <5>1 DEF WholeJob
      <4> QED
          BY <1>5, <3>2, <4>1, <4>2 DEF Backfill
    <3> QED
        BY <3>1, <3>2
  <2>4. RefundInv'
        BY <1>1, <2>1 DEF MoneyInv, RefundInv, RefundLegs
  <2> QED
      BY <1>2, <1>3, <2>2, <2>3, <2>4, MoneyStep
<1> QED
    BY <1>4, <1>5
-----------------------------------------------------------------------------
\* MoneyInv holds at first, ...
LEMMA LedgerInitMoney == LedgerInit => MoneyInv
<1> SUFFICES ASSUME LedgerInit PROVE MoneyInv
    OBVIOUS
<1>1. \A l \in Legs : entries[l] = 0 /\ l[1] \in TxIds
      BY DEF LedgerInit, Legs
<1>2. amount \in [TxIds -> Nat] /\ \A i \in TxIds : amount[i] = 0 /\ tx[i] = NoTx
      BY DEF LedgerInit, Init
<1>3. \A l \in Legs : LegValue[l] = 0
      BY <1>1, <1>2 DEF LegValue
<1>4. TrialBalance
  <2>1. SumFunctionOnSet(LegValue, Debits) = SumFunctionOnSet(LegValue, {})
        BY <1>3, FiniteLegs, SumSkip
  <2>2. SumFunctionOnSet(LegValue, Credits) = SumFunctionOnSet(LegValue, {})
        BY <1>3, FiniteLegs, SumSkip
  <2> QED
      BY <2>1, <2>2 DEF TrialBalance, Sum, Debits, Credits
<1>5. RefundBounded
      BY <1>2 DEF RefundBounded, NoTx
<1>6. EscrowLegs
  <2>1. \A i \in TxIds : entries[<<i, "escrow", "CREDIT">>] = 0 /\ entries[<<i, "escrow", "DEBIT">>] = 0
        BY <1>1 DEF Legs, Accounts
  <2>2. ~ (0 > 0)
        OBVIOUS
  <2> QED
      BY <2>1, <2>2, Zenon DEF EscrowLegs
<1>7. WholeJob /\ RefundInv
      BY DEF LedgerInit, Init, WholeJob, NotRunning, RefundInv
<1> QED
    BY <1>2, <1>4, <1>5, <1>6, <1>7 DEF MoneyInv

\* ... and every step keeps it.
LEMMA LedgerNextMoney ==
    ASSUME PostingInv, MoneyInv, [LedgerNext]_allVars PROVE MoneyInv'
<1>1. PostingInv' /\ FinalTxStays
  <2>1. PostingInv' /\ [Next]_vars /\ IInv
        BY LedgerNextKeeps, LedgerNextIsNext DEF PostingInv
  <2> QED
      BY <2>1, NextKeepsFinalRows
<1>2. CASE Posting
      BY <1>1, <1>2, ChargeMoney, LedgerRefundMoney, AdminRefundMoney, PayoutMoney, CommitMoney, ResolvePayoutMoney
         DEF Posting
<1>3. CASE Unposting /\ UNCHANGED ledgerVars
      BY <1>1, <1>3, UnpostingMoney
<1>4. CASE Backfill
      BY <1>1, <1>4, BackfillMoney
<1>5. CASE UNCHANGED allVars
  <2>1. UNCHANGED <<status, tx, amount, entries, job>>
        BY <1>5 DEF allVars, vars, txVars
  <2>2. TypesStay
        BY <2>1 DEF TypesStay
  <2> QED
      BY <1>1, <2>1, <2>2, QuietMoney
<1> QED
    BY <1>2, <1>3, <1>4, <1>5 DEF LedgerNext

\* The amounts fit the entries in every state, and the two sides of the ledger are equal.
THEOREM MoneyInvAlways == LedgerSpec => [](PostingInv /\ MoneyInv)
<1>1. LedgerInit => PostingInv /\ MoneyInv
      BY LedgerInitInv, LedgerInitMoney
<1>2. (PostingInv /\ MoneyInv) /\ [LedgerNext]_allVars => (PostingInv /\ MoneyInv)'
      BY LedgerNextKeeps, LedgerNextMoney
<1> QED
    BY <1>1, <1>2, PTL DEF LedgerSpec

\* Amounts, entries and the backfill's progress keep their types.
THEOREM LedgerTypeCorrect == LedgerSpec => []LedgerTypeOK
<1>1. PostingInv /\ MoneyInv => LedgerTypeOK
      BY DEF PostingInv, MoneyInv, EntriesType, LedgerTypeOK
<1> QED
    BY <1>1, MoneyInvAlways, PTL

\* LedgerReader::isBalanced() is true at every moment, at every price and rate, whatever
\* the requests, the webhooks and the backfill do.
THEOREM TrialBalanceAlways == LedgerSpec => []TrialBalance
<1>1. PostingInv /\ MoneyInv => TrialBalance
      BY DEF MoneyInv
<1> QED
    BY <1>1, MoneyInvAlways, PTL

\* handleRefundSuccess: a booking that its webhook has made REMBOURSEE has its refund in
\* the ledger.
THEOREM RefundedIsPostedAlways == LedgerSpec => []RefundedIsPosted
<1>1. ASSUME PostingInv, MoneyInv PROVE RefundedIsPosted
  <2> SUFFICES ASSUME status = "REMBOURSEE"
               PROVE  \A l \in RefundLegs(TheRow("REFUND")) : entries[l] = 1
      BY DEF RefundedIsPosted
  <2>1. \E i \in TxIds : tx[i].type = "REFUND"
        BY <1>1 DEF PostingInv, IInv, StatusBackedByMoney, Has
  <2>2. TheRow("REFUND") \in TxIds /\ tx[TheRow("REFUND")].type = "REFUND"
        BY <2>1 DEF TheRow
  <2> QED
      BY <1>1, <2>2 DEF MoneyInv, RefundInv
<1> QED
    BY <1>1, MoneyInvAlways, PTL

\* What the debits of escrow come to: the release of a charge, or its refund, never both.
LEMMA EscrowDebits ==
    ASSUME PostingInv, MoneyInv, ~Has("PAYOUT", {"FAILED"}), NEW i \in TxIds, tx[i].type = "CHARGE"
    PROVE  \E x \in Side("escrow", "DEBIT") :
              /\ LegValue[x] \in Nat /\ LegValue[x] <= amount[i]
              /\ \A y \in Side("escrow", "DEBIT") : y # x => LegValue[y] = 0
<1> DEFINE leg(k) == <<k, "escrow", "DEBIT">>
<1>1. /\ entries \in [Legs -> Nat] /\ PostedOnce /\ EntriesBacked /\ ReleaseInv /\ OneRowPerType /\ RowsDense
      /\ PayoutXorRefund /\ amount \in [TxIds -> Nat] /\ RefundBounded /\ EscrowLegs
      BY DEF PostingInv, EntriesType, IInv, MoneyInv
<1>2. \A k \in TxIds : leg(k) \in Side("escrow", "DEBIT") /\ leg(k) \in Legs /\ leg(k)[1] = k
      BY DEF Side, Legs, Accounts
<1>3. \A y \in Side("escrow", "DEBIT") : \E k \in TxIds : y = leg(k)
      BY DEF Side
<1>4. \A k \in TxIds : /\ entries[leg(k)] \in {0, 1}
                        /\ amount[k] \in Nat
                        /\ LegValue[leg(k)] = IF entries[leg(k)] = 1 THEN amount[k] ELSE 0
  <2> SUFFICES ASSUME NEW k \in TxIds
               PROVE  /\ entries[leg(k)] \in {0, 1}
                      /\ amount[k] \in Nat
                      /\ LegValue[leg(k)] = IF entries[leg(k)] = 1 THEN amount[k] ELSE 0
      OBVIOUS
  <2>1. entries[leg(k)] \in Nat /\ entries[leg(k)] <= 1 /\ amount[k] \in Nat
        BY <1>1, <1>2 DEF PostedOnce
  <2>2. LegValue[leg(k)] = entries[leg(k)] * amount[k]
        BY <1>2 DEF LegValue
  <2>3. entries[leg(k)] \in {0, 1}
        BY <2>1
  <2> QED
      BY <2>1, <2>2, <2>3
<1>5. \A k \in TxIds : entries[leg(k)] = 1 => k = i \/ tx[k].type = "REFUND"
  <2> SUFFICES ASSUME NEW k \in TxIds, entries[leg(k)] = 1, tx[k].type # "REFUND" PROVE k = i
      OBVIOUS
  <2>1. entries[<<k, "escrow", "DEBIT">>] > 0
        OBVIOUS
  <2>2. tx[k].type = "CHARGE"
        BY <1>1, <2>1 DEF EscrowLegs
  <2>3. tx[k] # NoTx
        BY <2>2 DEF NoTx
  <2> QED
      BY <1>1, <2>2, <2>3 DEF OneRowPerType
<1>6. CASE \E r \in TxIds : tx[r].type = "REFUND"
  <2>1. PICK r \in TxIds : tx[r].type = "REFUND"
        BY <1>6
  <2>2. PICK c \in TxIds : tx[c].type = "CHARGE" /\ amount[r] <= amount[c]
        BY <1>1, <2>1 DEF RefundBounded
  <2>3. c = i /\ \A k \in TxIds : tx[k].type = "REFUND" => k = r
        BY <1>1, <2>1, <2>2 DEF OneRowPerType, NoTx
  <2>4. ~HasPayout /\ ~Has("PAYOUT", TxStatuses)
    <3>1. HasRefund
          BY <1>1, <2>1 DEF HasRefund, Has, RowsDense, NoTx
    <3> QED
        BY <1>1, <3>1 DEF PayoutXorRefund, HasPayout, Has, TxStatuses
  <2>5. entries[leg(i)] = 0
        BY <1>1, <2>4 DEF ReleaseInv
  <2>6. LegValue[leg(r)] \in Nat /\ LegValue[leg(r)] <= amount[i]
    <3>1. LegValue[leg(r)] \in {0, amount[r]} /\ amount[r] \in Nat /\ amount[i] \in Nat
          BY <1>4
    <3> QED
        BY <2>2, <2>3, <3>1
  <2>7. \A y \in Side("escrow", "DEBIT") : y # leg(r) => LegValue[y] = 0
        BY <1>3, <1>4, <1>5, <2>3, <2>5
  <2> QED
      BY <1>2, <2>6, <2>7
<1>7. CASE ~ \E r \in TxIds : tx[r].type = "REFUND"
  <2>1. LegValue[leg(i)] \in Nat /\ LegValue[leg(i)] <= amount[i]
        BY <1>4
  <2>2. \A y \in Side("escrow", "DEBIT") : y # leg(i) => LegValue[y] = 0
        BY <1>3, <1>4, <1>5, <1>7
  <2> QED
      BY <1>2, <2>1, <2>2
<1> QED
    BY <1>6, <1>7

\* LedgerAccount::balance() of escrow is never negative once the charge is posted, unless
\* a dispute has failed a payout.
THEOREM EscrowCoveredAlways == LedgerSpec => []EscrowCovered
<1>1. ASSUME PostingInv, MoneyInv PROVE EscrowCovered
  <2> SUFFICES ASSUME NEW i \in TxIds, entries[<<i, "escrow", "CREDIT">>] = 1, ~Has("PAYOUT", {"FAILED"})
               PROVE  Balance("escrow") >= 0
      BY DEF EscrowCovered
  <2> DEFINE c == <<i, "escrow", "CREDIT">>
             In == Side("escrow", "CREDIT")
             Out == Side("escrow", "DEBIT")
  <2>1. /\ IsFiniteSet(In) /\ In \subseteq Legs /\ IsFiniteSet(Out) /\ Out \subseteq Legs
        BY FiniteLegs DEF Accounts
  <2>2. tx[i].type = "CHARGE"
    <3>1. entries[<<i, "escrow", "CREDIT">>] > 0
          OBVIOUS
    <3> QED
        BY <1>1, <3>1 DEF MoneyInv, EscrowLegs
  <2>3. \A l \in Legs : LegValue[l] \in Nat
        BY <1>1 DEF LegValue, Legs, PostingInv, EntriesType, MoneyInv
  <2>4. c \in In /\ c \in Legs /\ amount[i] \in Nat
        BY <1>1 DEF Side, Legs, Accounts, MoneyInv
  <2>5. LegValue[c] = amount[i]
        BY <2>4 DEF LegValue
  <2>6. PICK x \in Out : /\ LegValue[x] \in Nat /\ LegValue[x] <= amount[i]
                         /\ \A y \in Out : y # x => LegValue[y] = 0
        BY <1>1, <2>2, EscrowDebits
  <2> DEFINE v == LegValue
             Rest == In \ {c}
  <2>7. IsFiniteSet(Rest) /\ (\A l \in In : v[l] \in Nat) /\ (\A l \in Rest : v[l] \in Nat)
        BY <2>1, <2>3, FS_RemoveElement
  <2> HIDE DEF v, In, Out, Rest, c
  <2>8. SumFunctionOnSet(v, In) = v[c] + SumFunctionOnSet(v, Rest)
        BY <2>1, <2>4, <2>7, SumRemove DEF Rest
  <2>9. SumFunctionOnSet(v, Rest) \in Nat
        BY <2>7, SumNat
  <2>10. SumFunctionOnSet(v, Out) = v[x]
         BY <2>1, <2>6, SumOnly DEF v
  <2>11. Balance("escrow") = SumFunctionOnSet(v, In) - SumFunctionOnSet(v, Out)
         BY DEF Balance, Sum, In, Out, v
  <2> QED
      BY <2>4, <2>5, <2>6, <2>8, <2>9, <2>10, <2>11 DEF v
<1> QED
    BY <1>1, MoneyInvAlways, PTL
=============================================================================
