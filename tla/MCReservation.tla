---------------------------- MODULE MCReservation ----------------------------
\* Reservation with symmetric trips, luggages and bookings, for the safety runs.
EXTENDS Reservation, TLC

ReservationSymmetry ==
    Permutations(Trips) \cup Permutations(Luggages) \cup Permutations(Bookings)
=============================================================================
