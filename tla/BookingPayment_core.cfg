\* Two workers can each hold a row while the other operations go on; six rows
\* are one more than a correct run inserts, so a duplicate row would show.
\* No symmetry: two of the properties are liveness properties.
\* A booking's story ends: states without successor are normal.
SPECIFICATION FairSpec
CONSTANTS
    w1 = w1
    w2 = w2
    Workers = {w1, w2}
    MaxTx = 6
INVARIANTS
    TypeOK
    OneRowPerType
    PayoutXorRefund
    StatusBackedByMoney
    BatchMirrorsEligibility
    BooksMatchProvider
PROPERTIES
    TxFinality
    ContractSpec
    PaymentWaitEnds
    DeliveryIsPaidOut
CHECK_DEADLOCK FALSE
