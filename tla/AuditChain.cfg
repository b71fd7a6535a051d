\* Three transactions and four ids: one that overlaps two others in turn, a gap left
\* by a rollback and a transaction with two logs.
\* The ids run out: states without successor are normal.
SPECIFICATION Spec
CONSTANTS
    w1 = w1
    w2 = w2
    w3 = w3
    Writers = {w1, w2, w3}
    MaxId = 4
SYMMETRY WriterSymmetry
INVARIANTS
    ChainUnlessOverlap
    PreviousCommitted
CHECK_DEADLOCK FALSE
