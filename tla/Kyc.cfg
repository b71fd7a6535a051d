\* Three submissions at a time and five requests: the second of two crossing ones
\* comes after the approval of the first, and is rejected and replaced.
\* The ids run out: states without successor are normal.
SPECIFICATION Spec
CONSTANTS
    s1 = s1
    s2 = s2
    s3 = s3
    Submitters = {s1, s2, s3}
    MaxRequests = 5
SYMMETRY SubmitterSymmetry
INVARIANTS
    PassedIsApproved
    SoleRequestTells
PROPERTY
    DecisionIsFinal
CHECK_DEADLOCK FALSE
