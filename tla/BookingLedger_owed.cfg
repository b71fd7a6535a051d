\* The smallest instance: what is found needs one worker only.
SPECIFICATION LedgerSpec
CONSTANTS
    w1 = w1
    Workers = {w1}
    MaxTx = 6
    FeeRate = 10
    PaymentFeeRate = 2
    Prices = {5, 125}
INVARIANT
    PaidPayoutIsSettled
CHECK_DEADLOCK FALSE
