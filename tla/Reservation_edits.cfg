SPECIFICATION Spec
CONSTANTS
    Trips = {t1}
    Luggages = {l1}
    Bookings = {b1, b2}
    Grams = {1}
    Capacities = {1}
    LuggageEdits = {"EN_ATTENTE", "RESERVEE", "PERDUE"}
    EditedBookings = {b1, b2}
    EditedLuggages = {l1}
    EditedTrips = {t1}
SYMMETRY ReservationSymmetry
INVARIANTS
    TypeOK
    LuggageStatusTrue
    ScopeAgrees
CHECK_DEADLOCK FALSE
