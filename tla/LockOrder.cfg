\* Two processes: the shortest circle.  Two bookings of one trip, another trip that
\* asks for the same two luggages.
SPECIFICATION FairSpec
CONSTANTS
    p1 = p1
    p2 = p2
    b1 = b1
    b2 = b2
    t1 = t1
    t2 = t2
    l1 = l1
    l2 = l2
    Processes = {p1, p2}
    Bookings = {b1, b2}
    Trips = {t1, t2}
    Luggages = {l1, l2}
    TripOf <- OneTrip
INVARIANTS
    DeadlockNeedsInversion
PROPERTY
    OperationsEnd
