-------------------------------- MODULE Amounts --------------------------------
(***************************************************************************)
(* The amounts of the transactions of a booking, in cents, as              *)
(* TransactionAmountCalculator computes them from the amount of the charge *)
(* and the two rates of config/gpvalise.php.                               *)
(*                                                                         *)
(* The rates are taken as whole percentages.  PHP multiplies by the rate as*)
(* a float and round() corrects the float's representation error before it *)
(* rounds halves away from zero, so the result is that of whole numbers.   *)
(***************************************************************************)
EXTENDS Integers

CONSTANTS
    FeeRate,            \* gpvalise.fee_percentage
    PaymentFeeRate      \* gpvalise.payment_fee_percentage

ASSUME RatesAssumption ==
    /\ FeeRate \in Nat /\ FeeRate <= 100
    /\ PaymentFeeRate \in Nat /\ PaymentFeeRate <= 100

\* (int) round($amount * $rate / 100), for what is never negative.
Percent(amount, rate) == (amount * rate + 50) \div 100

FeeAmount(charge) == Percent(charge, FeeRate)
PaymentFeeAmount(charge) == Percent(charge, PaymentFeeRate)

PayoutAmount(charge) == charge - FeeAmount(charge)

\* Mutant: the fee is added instead of kept.
RefundAmount_PlusFee(charge) == charge + FeeAmount(charge)

\* The fee is kept when the sender is refunded.
RefundAmount(charge) == charge - FeeAmount(charge)

CancellationRefundAmount(charge, refundRate) == Percent(RefundAmount(charge), refundRate)
=============================================================================
