\* Three deliveries of two contradictory charge events and a refund event, two
\* attempts each: enough for a duplicate, a crash and a retry of the same event.
\* The queue drains and the providers fall silent: no deadlock check.
SPECIFICATION Spec
CONSTANTS
    ok = ok
    ko = ko
    back = back
    j1 = j1
    j2 = j2
    j3 = j3
    NoEvent = NoEvent
    Events = {ok, ko, back}
    KindOf <- MCKindOf
    RefOf <- FakeRefOf
    Charges = {1}
    Refunds = {2}
    RowRef <- FakeRowRef
    Jobs = {j1, j2, j3}
    MaxTries = 2
SYMMETRY JobSymmetry
INVARIANTS
    TypeOK
    LogTellsEffect
    OneOwner
PROPERTIES FinalRowStays
CHECK_DEADLOCK FALSE
