\* Two workers beside the backfill; the price 5 makes the provider's fee zero and
\* rounds the platform's up, 125 has halves to round in both fees.
\* A booking's story ends: states without successor are normal.
SPECIFICATION LedgerSpec
CONSTANTS
    w1 = w1
    w2 = w2
    Workers = {w1, w2}
    MaxTx = 6
    FeeRate = 10
    PaymentFeeRate = 2
    Prices = {5, 125}
SYMMETRY WorkerSymmetry
INVARIANTS
    LedgerTypeOK
    TrialBalance
    PostedOnce
    PayoutIsReleased
    EntriesBacked
    EscrowCovered
    RefundedIsPosted
CHECK_DEADLOCK FALSE
