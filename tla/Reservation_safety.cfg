SPECIFICATION Spec
CONSTANTS
    Trips = {t1, t2}
    Luggages = {l1, l2}
    Bookings = {b1, b2, b3}
    Grams = {1}
    Capacities = {1}
    LuggageEdits = {"EN_ATTENTE"}
    EditedBookings = {}
    EditedLuggages = {}
    EditedTrips = {}
SYMMETRY ReservationSymmetry
INVARIANTS
    NoOverbooking
    
CHECK_DEADLOCK FALSE
