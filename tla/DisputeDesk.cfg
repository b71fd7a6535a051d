\* Three agents: two admins who decide and one who changes the status meanwhile; six
\* lines of history reach every status and one cycle of reviews.
\* A dispute ends: states without successor are normal.
SPECIFICATION Spec
CONSTANTS
    a1 = a1
    a2 = a2
    a3 = a3
    Agents = {a1, a2, a3}
    MaxHistory = 6
    MaxMessages = 1
SYMMETRY AgentSymmetry
INVARIANTS
    HistoryTellsStatus
    DecisionFitsBooking
PROPERTIES
    ResolvedIsFinal
    DecisionKept
    NoLateMessage
CHECK_DEADLOCK FALSE
