------------------------------- MODULE MCLockOrder -------------------------------
\* LockOrder for TLC, its bookings on one trip.  No symmetry: one of its properties
\* is a liveness property.
EXTENDS LockOrder

OneTrip == [b \in Bookings |-> CHOOSE t \in Trips : TRUE]
=============================================================================
