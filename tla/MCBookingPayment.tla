---------------------------- MODULE MCBookingPayment ----------------------------
\* BookingPayment for TLC.  Its workers are interchangeable, but two of its
\* properties are liveness properties, so no symmetry is declared.
EXTENDS BookingPayment
=============================================================================
