---------------------------------- MODULE MCKyc ----------------------------------
\* Kyc for TLC; the submissions are interchangeable.
EXTENDS Kyc, TLC

SubmitterSymmetry == Permutations(Submitters)
=============================================================================
