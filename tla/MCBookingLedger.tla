---------------------------- MODULE MCBookingLedger ----------------------------
\* BookingLedger for TLC; its workers are interchangeable.
EXTENDS BookingLedger, TLC

WorkerSymmetry == Permutations(Workers)
=============================================================================
