\* Liveness: two deliveries, no symmetry.
SPECIFICATION FairSpec
CONSTANTS
    ok = ok
    ko = ko
    back = back
    j1 = j1
    j2 = j2
    j3 = j3
    NoEvent = NoEvent
    Events = {ok, ko, back}
    KindOf <- MCKindOf
    RefOf <- FakeRefOf
    Charges = {1}
    Refunds = {2}
    RowRef <- FakeRowRef
    Jobs = {j1, j2}
    MaxTries = 2
PROPERTIES JobsEnd
CHECK_DEADLOCK FALSE
