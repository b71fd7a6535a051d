----------------------------- MODULE Reservation -----------------------------
(***************************************************************************)
(* The capacity of trips and the luggages, shared by many bookings.        *)
(*                                                                         *)
(* Two locks are meant to protect them: ReserveBooking locks the trip for  *)
(* the check of its capacity, then the luggages for the check of their     *)
(* status.  Between the two it is a pair of actions, and everything that   *)
(* does not need the trip's lock commits in between; so do the operations  *)
(* on items, luggages and trips, which take no lock and check less.  What  *)
(* those have touched is remembered in `touched`, so that the properties   *)
(* can say what the locks achieve where nothing goes around them.          *)
(*                                                                         *)
(* A booking's payment is only what these operations ask of it (charge);   *)
(* module BookingPayment has the rest.  All luggages are one sender's:     *)
(* those of another sender are refused.  Prices are left out.              *)
(***************************************************************************)
EXTENDS Naturals, FiniteSets, Functions, BookingStatus

CONSTANTS
    Trips, Luggages,
    Bookings,        \* ids that bookings may get: a bound on their number
    Grams,           \* weights an item can have
    Capacities,      \* capacities a trip can have
    LuggageEdits,    \* statuses that UpdateLuggage writes
    EditedBookings,  \* bounds: the bookings, luggages and trips that an instance
    EditedLuggages,  \* lets be edited around the locks
    EditedTrips

ASSUME WeightAssumption ==
    Grams \subseteq Nat \ {0} /\ Capacities \subseteq Nat \ {0}
ASSUME LuggageEditsAssumption == LuggageEdits \subseteq
    {"EN_ATTENTE", "RESERVEE", "EN_TRANSIT", "LIVREE", "ANNULEE", "PERDUE", "RETOUR"}

\* The tables are finite.
ASSUME FiniteAssumption == IsFiniteSet(Bookings) /\ IsFiniteSet(Luggages)
ASSUME EditedAssumption ==
    EditedBookings \subseteq Bookings /\ EditedLuggages \subseteq Luggages /\ EditedTrips \subseteq Trips

VARIABLES
    capacity,    \* trips.capacity
    trip,        \* "open", "closed" (date past or status final), "deleted"
    booking,     \* bookings rows; status "NONE" where there is none, "NEW" for
                 \* one that a ReserveBooking holding the trip's lock will insert
    charge,      \* the booking's CHARGE: "NONE", "PENDING", "COMPLETED"
    item,        \* booking_items.kg_reserved by booking and luggage, 0 for no item
    luggage,     \* luggages.status, "DELETED" once the row is gone
    confirming,  \* bookings that a webhook has read as EN_PAIEMENT, without lock
    adding,      \* <<booking, luggage>> pairs that a CreateBookingItem has validated
    touched      \* history: by what, other than the locked protocol, a trip's
                 \* load or a luggage has been changed

tripVars == <<capacity, trip>>
readVars == <<confirming, adding>>
vars == <<tripVars, booking, charge, item, luggage, readVars, touched>>

LuggageStatuses ==
    {"EN_ATTENTE", "RESERVEE", "EN_TRANSIT", "LIVREE", "ANNULEE", "PERDUE", "RETOUR", "DELETED"}
Bypasses == {"late", "item", "luggage", "capacity"}

NoBooking == [trip |-> "NONE", status |-> "NONE", window |-> "none", deleted |-> FALSE]
NoItems == [l \in Luggages |-> 0]

TypeOK ==
    /\ capacity \in [Trips -> Capacities]
    /\ trip \in [Trips -> {"open", "closed", "deleted"}]
    /\ booking \in [Bookings -> {NoBooking} \cup
          [trip : Trips, status : BookingStatuses \cup {"NEW"},
           window : {"none", "open", "past"}, deleted : BOOLEAN]]
    /\ charge \in [Bookings -> {"NONE", "PENDING", "COMPLETED"}]
    /\ item \in [Bookings -> [Luggages -> Grams \cup {0}]]
    /\ luggage \in [Luggages -> LuggageStatuses]
    /\ confirming \subseteq Bookings
    /\ adding \subseteq Bookings \X Luggages
    /\ touched \in [Trips \cup Luggages -> SUBSET Bypasses]

\* CreateTrip and CreateLuggage (always EN_ATTENTE) have run.
Init ==
    /\ capacity \in [Trips -> Capacities]
    /\ trip = [t \in Trips |-> "open"]
    /\ booking = [b \in Bookings |-> NoBooking]
    /\ charge = [b \in Bookings |-> "NONE"]
    /\ item = [b \in Bookings |-> NoItems]
    /\ luggage = [l \in Luggages |-> "EN_ATTENTE"]
    /\ confirming = {}
    /\ adding = {}
    /\ touched = [x \in Trips \cup Luggages |-> {}]
-----------------------------------------------------------------------------
(* Queries.                                                                *)

\* The row is committed and not soft-deleted: Booking::query() finds it.
Exists(b) == booking[b].status \notin {"NONE", "NEW"} /\ ~booking[b].deleted

\* The bookings whose grams count as reserved (the whereHas of gramsReserved).
Counts(b) ==
    /\ Exists(b)
    /\ \/ booking[b].status \in {"CONFIRMEE", "PENDING_APPROVAL"}
       \/ booking[b].status = "EN_PAIEMENT" /\ booking[b].window = "open"

ItemGrams(b) == SumFunction(item[b])
Load(t, B) == SumFunctionOnSet([b \in Bookings |-> ItemGrams(b)],
                               {b \in B : booking[b].trip = t})

GramsReserved(t) == Load(t, {b \in Bookings : Counts(b)})
GramsDisponible(t) ==
    IF GramsReserved(t) <= capacity[t] THEN capacity[t] - GramsReserved(t) ELSE 0

\* Trip::scopeReservable: the same sum in SQL, which does not exclude the
\* soft-deleted bookings.
ScopeReservable(t) ==
    /\ trip[t] = "open"
    /\ Load(t, {b \in Bookings :
                   \/ booking[b].status \in {"CONFIRMEE", "PENDING_APPROVAL"}
                   \/ booking[b].status = "EN_PAIEMENT" /\ booking[b].window = "open"}) < capacity[t]

\* CanBeReserved::handle.
CanBeReserved(t) == trip[t] = "open" /\ GramsDisponible(t) > 0

\* No ReserveBooking is between its lock on the trip and its commit.
TripUnlocked(t) == \A b \in Bookings : booking[b].status = "NEW" => booking[b].trip # t

\* The luggages of the booking's items.
LuggagesOf(b) == {l \in Luggages : item[b][l] > 0}

\* What the booking row says is that its luggages are taken: it has not been
\* cancelled, expired or deleted.
Holds(b) == Exists(b) /\ booking[b].status \notin {"ANNULE", "EXPIREE"}

Touch(X, how) ==
    touched' = [x \in Trips \cup Luggages |->
                   IF x \in X THEN touched[x] \cup {how} ELSE touched[x]]
-----------------------------------------------------------------------------
(* ReserveBooking::execute.                                                *)

\* Mutant: the trip is read without lockForUpdate().
BeginReserveBooking_NoTripLock(b, t, request) ==
    /\ booking[b].status = "NONE"
    /\ trip[t] # "deleted"
    /\ request # NoItems
    /\ \A l \in Luggages : request[l] > 0 => luggage[l] = "EN_ATTENTE"
    /\ SumFunction(request) <= GramsDisponible(t)
    /\ booking' = [booking EXCEPT ![b] =
          [trip |-> t, status |-> "NEW", window |-> "none", deleted |-> FALSE]]
    /\ item' = [item EXCEPT ![b] = request]
    /\ UNCHANGED <<tripVars, charge, luggage, readVars, touched>>

\* The trip is locked, then BookingValidator reads the luggages, without their
\* lock, and compares the requested grams with what is free on the trip.
BeginReserveBooking(b, t, request) ==
    /\ booking[b].status = "NONE"
    /\ trip[t] # "deleted"
    /\ TripUnlocked(t)
    /\ request # NoItems
    /\ \A l \in Luggages : request[l] > 0 => luggage[l] = "EN_ATTENTE"
    /\ SumFunction(request) <= GramsDisponible(t)
    /\ booking' = [booking EXCEPT ![b] =
          [trip |-> t, status |-> "NEW", window |-> "none", deleted |-> FALSE]]
    /\ item' = [item EXCEPT ![b] = request]
    /\ UNCHANGED <<tripVars, charge, luggage, readVars, touched>>

\* Mutant: only the validator looks at the luggages.
CommitReserveBooking_NoRecheck(b) ==
    /\ booking[b].status = "NEW"
    /\ booking' = [booking EXCEPT ![b].status = "EN_PAIEMENT", ![b].window = "open"]
    /\ luggage' = [l \in Luggages |-> IF l \in LuggagesOf(b) THEN "RESERVEE" ELSE luggage[l]]
    /\ UNCHANGED <<tripVars, charge, item, readVars, touched>>

\* The luggages are locked and their status read again; the booking and its
\* items are inserted, the payment window opened, the luggages taken.
CommitReserveBooking(b) ==
    /\ booking[b].status = "NEW"
    /\ \A l \in LuggagesOf(b) : luggage[l] = "EN_ATTENTE"
    /\ booking' = [booking EXCEPT ![b].status = "EN_PAIEMENT", ![b].window = "open"]
    /\ luggage' = [l \in Luggages |-> IF l \in LuggagesOf(b) THEN "RESERVEE" ELSE luggage[l]]
    /\ UNCHANGED <<tripVars, charge, item, readVars, touched>>

\* A luggage is gone or taken, or the request dies: nothing is inserted.
RollbackReserveBooking(b) ==
    /\ booking[b].status = "NEW"
    /\ booking' = [booking EXCEPT ![b] = NoBooking]
    /\ item' = [item EXCEPT ![b] = NoItems]
    /\ UNCHANGED <<tripVars, charge, luggage, readVars, touched>>

PaymentWindowPasses(b) ==
    /\ booking[b].window = "open"
    /\ booking' = [booking EXCEPT ![b].window = "past"]
    /\ UNCHANGED <<tripVars, charge, item, luggage, readVars, touched>>
-----------------------------------------------------------------------------
(* Payment and confirmation.                                               *)

\* CreateTransaction::execute: accepted (PENDING) or paid at once.
CreateTransaction(b, st) ==
    /\ Exists(b)
    /\ booking[b].status = "EN_PAIEMENT" /\ booking[b].window = "open"
    /\ charge[b] = "NONE"
    /\ charge' = [charge EXCEPT ![b] = st]
    /\ UNCHANGED <<tripVars, booking, item, luggage, readVars, touched>>

\* ConfirmBooking::execute.  Both rows are locked; the booking's own grams are
\* taken out of the trip's load when they are in it.
ConfirmBooking(b) ==
    LET t == booking[b].trip
        others == IF Counts(b) THEN GramsReserved(t) - ItemGrams(b) ELSE GramsReserved(t)
    IN  /\ Exists(b)
        /\ trip[t] # "deleted"
        /\ TripUnlocked(t)
        /\ CanTransitionTo(booking[b].status, "CONFIRMEE")
        /\ charge[b] = "COMPLETED"
        /\ others + ItemGrams(b) <= capacity[t]
        /\ booking' = [booking EXCEPT ![b].status = "CONFIRMEE", ![b].window = "none"]
        /\ UNCHANGED <<tripVars, charge, item, luggage, readVars, touched>>

\* HandlePaymentWebhook locks the pending charge and reads the booking ...
BeginChargeSuccess(b) ==
    /\ charge[b] = "PENDING"
    /\ b \notin confirming
    /\ Exists(b) /\ CanTransitionTo(booking[b].status, "CONFIRMEE")
    /\ confirming' = confirming \cup {b}
    /\ UNCHANGED <<tripVars, booking, charge, item, luggage, touched, adding>>

\* ... and saves CONFIRMEE over whatever the row has become, with no look at
\* the trip or the luggages.  Late: the booking's grams were no longer counted,
\* or its luggages no longer held.
CommitChargeSuccess(b) ==
    /\ b \in confirming
    /\ confirming' = confirming \ {b}
    /\ charge' = [charge EXCEPT ![b] = "COMPLETED"]
    /\ booking' = [booking EXCEPT ![b].status = "CONFIRMEE", ![b].window = "none"]
    /\ Touch(IF booking[b].deleted THEN {}
             ELSE (IF Counts(b) THEN {} ELSE {booking[b].trip})
                  \cup (IF Holds(b) THEN {} ELSE LuggagesOf(b)), "late")
    /\ UNCHANGED <<tripVars, item, luggage, adding>>

RollbackChargeSuccess(b) ==
    /\ b \in confirming
    /\ confirming' = confirming \ {b}
    /\ UNCHANGED <<tripVars, booking, charge, item, luggage, touched, adding>>
-----------------------------------------------------------------------------
(* The end of a booking.                                                   *)

\* foreach ($booking->bookingItems as $item) $item->luggage->update(EN_ATTENTE)
ReleaseLuggages(b) ==
    luggage' = [l \in Luggages |-> IF l \in LuggagesOf(b) THEN "EN_ATTENTE" ELSE luggage[l]]

\* Mutant: the luggages stay taken.
ExpirePendingBooking_KeepsLuggages(b) ==
    /\ Exists(b)
    /\ booking[b].status = "EN_PAIEMENT" /\ booking[b].window = "past"
    /\ booking' = [booking EXCEPT ![b].status = "EXPIREE", ![b].window = "none"]
    /\ UNCHANGED <<tripVars, charge, item, luggage, readVars, touched>>

ExpirePendingBooking(b) ==
    /\ Exists(b)
    /\ booking[b].status = "EN_PAIEMENT" /\ booking[b].window = "past"
    /\ booking' = [booking EXCEPT ![b].status = "EXPIREE", ![b].window = "none"]
    /\ ReleaseLuggages(b)
    /\ UNCHANGED <<tripVars, charge, item, readVars, touched>>

CancelBooking(b) ==
    /\ Exists(b)
    /\ CanTransitionTo(booking[b].status, "ANNULE")
    /\ booking' = [booking EXCEPT ![b].status = "ANNULE", ![b].window = "none"]
    /\ ReleaseLuggages(b)
    /\ UNCHANGED <<tripVars, charge, item, readVars, touched>>

\* Mutant: the items stay.
DeleteBooking_KeepsItems(b) ==
    /\ Exists(b)
    /\ booking[b].status \notin FinalStatuses
    /\ CanTransitionTo(booking[b].status, "ANNULE")
    /\ booking' = [booking EXCEPT ![b].deleted = TRUE]
    /\ ReleaseLuggages(b)
    /\ UNCHANGED <<tripVars, charge, item, readVars, touched>>

\* The items are deleted, the booking soft-deleted in its status.
DeleteBooking(b) ==
    /\ Exists(b)
    /\ booking[b].status \notin FinalStatuses
    /\ CanTransitionTo(booking[b].status, "ANNULE")
    /\ booking' = [booking EXCEPT ![b].deleted = TRUE]
    /\ ReleaseLuggages(b)
    /\ item' = [item EXCEPT ![b] = NoItems]
    /\ UNCHANGED <<tripVars, charge, readVars, touched>>

\* The trip is locked as well, for its traveler's id.
HandOverBooking(b) ==
    /\ Exists(b)
    /\ trip[booking[b].trip] # "deleted"
    /\ TripUnlocked(booking[b].trip)
    /\ CanTransitionTo(booking[b].status, "EN_TRANSIT")
    /\ booking' = [booking EXCEPT ![b].status = "EN_TRANSIT"]
    /\ UNCHANGED <<tripVars, charge, item, luggage, readVars, touched>>

ConfirmDelivery(b) ==
    /\ Exists(b)
    /\ trip[booking[b].trip] # "deleted"
    /\ TripUnlocked(booking[b].trip)
    /\ CanTransitionTo(booking[b].status, "LIVREE")
    /\ booking' = [booking EXCEPT ![b].status = "LIVREE"]
    /\ UNCHANGED <<tripVars, charge, item, luggage, readVars, touched>>

\* The other operations that move the booking on (OpenDispute, a refund, a
\* payout; module BookingPayment says when) touch neither items nor luggages.
OtherTransition(b, new) ==
    /\ Exists(b)
    /\ charge[b] = "COMPLETED"
    /\ CanTransitionTo(booking[b].status, new)
    /\ booking' = [booking EXCEPT ![b].status = new]
    /\ UNCHANGED <<tripVars, charge, item, luggage, readVars, touched>>
-----------------------------------------------------------------------------
(* Operations that go around the locks.                                    *)

\* CreateBookingItem::execute: the booking is looked at without its lock, neither
\* the capacity of the trip nor the status of the luggage is; ...
BeginCreateBookingItem(b, l) ==
    /\ adding = {}    \* bound: one such request at a time
    /\ Exists(b)
    /\ booking[b].status \notin FinalStatuses
    /\ luggage[l] # "DELETED"
    /\ item[b][l] = 0
    /\ adding' = {<<b, l>>}
    /\ UNCHANGED <<tripVars, booking, charge, item, luggage, confirming, touched>>

\* ... the item is inserted, whatever the booking has become; the luggage is not
\* taken.  The unique index and the foreign key refuse a second item and a
\* deleted luggage: those requests end in RefuseBookingItem.
CommitCreateBookingItem(b, l, g) ==
    /\ <<b, l>> \in adding
    /\ luggage[l] # "DELETED"
    /\ item[b][l] = 0
    /\ adding' = {}
    /\ item' = [item EXCEPT ![b][l] = g]
    /\ Touch({booking[b].trip, l}, "item")
    /\ UNCHANGED <<tripVars, booking, charge, luggage, confirming>>

RefuseBookingItem ==
    /\ adding # {}
    /\ adding' = {}
    /\ UNCHANGED <<tripVars, booking, charge, item, luggage, confirming, touched>>

\* Mutant: the weight is added to the old one.
UpdateBookingItem_Adds(b, l, g) ==
    /\ Exists(b)
    /\ booking[b].status \notin FinalStatuses
    /\ item[b][l] > 0
    /\ item' = [item EXCEPT ![b][l] = @ + g]
    /\ Touch({booking[b].trip}, "item")
    /\ UNCHANGED <<tripVars, booking, charge, luggage, readVars>>

UpdateBookingItem(b, l, g) ==
    /\ Exists(b)
    /\ booking[b].status \notin FinalStatuses
    /\ item[b][l] > 0
    /\ item' = [item EXCEPT ![b][l] = g]
    /\ Touch({booking[b].trip}, "item")
    /\ UNCHANGED <<tripVars, booking, charge, luggage, readVars>>

\* BookingItemController::destroy, whatever the booking's status; the luggage is
\* not released.
DestroyBookingItem(b, l) ==
    /\ Exists(b)
    /\ item[b][l] > 0
    /\ item' = [item EXCEPT ![b][l] = 0]
    /\ Touch({l}, "item")
    /\ UNCHANGED <<tripVars, booking, charge, luggage, readVars>>

\* UpdateLuggage::execute writes the status it is given.
UpdateLuggage(l, st) ==
    /\ luggage[l] # "DELETED"
    /\ luggage' = [luggage EXCEPT ![l] = st]
    /\ Touch({l}, "luggage")
    /\ UNCHANGED <<tripVars, booking, charge, item, readVars>>

\* LuggageController::destroy; the foreign key deletes the items with it.
DestroyLuggage(l) ==
    /\ luggage[l] # "DELETED"
    /\ luggage' = [luggage EXCEPT ![l] = "DELETED"]
    /\ item' = [b \in Bookings |->
                   IF booking[b].status = "NEW" THEN item[b] ELSE [item[b] EXCEPT ![l] = 0]]
    /\ UNCHANGED <<tripVars, booking, charge, readVars, touched>>

\* UpdateTrip::execute.  The load of the trip is not looked at.
UpdateTripCapacity(t, c) ==
    /\ trip[t] # "deleted" /\ TripUnlocked(t)
    /\ capacity' = [capacity EXCEPT ![t] = c]
    /\ Touch({t}, "capacity")
    /\ UNCHANGED <<trip, booking, charge, item, luggage, readVars>>

\* Time passes the date of the trip, or UpdateTrip changes its date or status.
TripCloses(t) ==
    /\ trip[t] = "open"
    /\ trip' = [trip EXCEPT ![t] = "closed"]
    /\ UNCHANGED <<capacity, booking, charge, item, luggage, readVars, touched>>

UpdateTripReopens(t) ==
    /\ trip[t] = "closed" /\ TripUnlocked(t)
    /\ trip' = [trip EXCEPT ![t] = "open"]
    /\ UNCHANGED <<capacity, booking, charge, item, luggage, readVars, touched>>

\* TripController::destroy: a soft delete, whatever its bookings.
DestroyTrip(t) ==
    /\ trip[t] # "deleted" /\ TripUnlocked(t)
    /\ trip' = [trip EXCEPT ![t] = "deleted"]
    /\ UNCHANGED <<capacity, booking, charge, item, luggage, readVars, touched>>
-----------------------------------------------------------------------------
Requests == [Luggages -> Grams \cup {0}]

Reserving ==
    \E b \in Bookings :
        \/ \E t \in Trips, request \in Requests : BeginReserveBooking(b, t, request)
        \/ CommitReserveBooking(b)
        \/ RollbackReserveBooking(b)
        \/ PaymentWindowPasses(b)

Paying ==
    \E b \in Bookings :
        \/ \E st \in {"PENDING", "COMPLETED"} : CreateTransaction(b, st)
        \/ ConfirmBooking(b)
        \/ BeginChargeSuccess(b)
        \/ CommitChargeSuccess(b)
        \/ RollbackChargeSuccess(b)

Ending ==
    \E b \in Bookings :
        \/ ExpirePendingBooking(b)
        \/ CancelBooking(b)
        \/ DeleteBooking(b)
        \/ HandOverBooking(b)
        \/ ConfirmDelivery(b)
        \/ \E new \in {"EN_LITIGE", "REMBOURSEE", "TERMINE"} : OtherTransition(b, new)

Editing ==
    \/ \E b \in EditedBookings, l \in Luggages :
          \/ BeginCreateBookingItem(b, l)
          \/ \E g \in Grams : CommitCreateBookingItem(b, l, g) \/ UpdateBookingItem(b, l, g)
          \/ DestroyBookingItem(b, l)
    \/ RefuseBookingItem
    \/ \E l \in EditedLuggages :
          \/ \E st \in LuggageEdits : UpdateLuggage(l, st)
          \/ DestroyLuggage(l)
    \/ \E t \in EditedTrips :
          \/ \E c \in Capacities : UpdateTripCapacity(t, c)
          \/ TripCloses(t)
          \/ UpdateTripReopens(t)
          \/ DestroyTrip(t)

Next == Reserving \/ Paying \/ Ending \/ Editing

Spec == Init /\ [][Next]_vars
-----------------------------------------------------------------------------
(* Properties.                                                             *)

\* No overbooking, where the locks are respected: on a trip that nothing has
\* gone around, the grams that count, with those of the reservation that is
\* under way, fit the capacity.  The check (BookingValidator) and the insert
\* (ReserveBooking) are two steps, and bookings expire, get confirmed and are
\* cancelled between them.
NoOverbooking ==
    \A t \in Trips : touched[t] = {} =>
        Load(t, {b \in Bookings : Counts(b) \/ booking[b].status = "NEW"}) <= capacity[t]

\* Two bookings that are both alive never hold the same luggage, even if they
\* are on different trips, so that no lock on a trip serialises them.
LuggageExclusive ==
    \A l \in Luggages : touched[l] = {} =>
        \A b, c \in Bookings :
            Holds(b) /\ Holds(c) /\ l \in LuggagesOf(b) \cap LuggagesOf(c) => b = c

BeforeHandOver == {"EN_PAIEMENT", "CONFIRMEE"}

\* Every way out of a booking releases its luggages and nothing else does: a luggage is
\* RESERVEE only while a booking that was not cancelled, expired or deleted holds it
\* (RESERVEE without one, it could never be booked again); it is RESERVEE until the
\* traveller has it, and not offered again afterwards.  HandOverBooking and
\* ConfirmDelivery write no luggage, so nothing is said of which status it has then.
LuggageStatusTrue ==
    \A l \in Luggages : touched[l] = {} /\ luggage[l] # "DELETED" =>
        LET holders == {b \in Bookings : Holds(b) /\ l \in LuggagesOf(b)}
        IN /\ luggage[l] = "RESERVEE" => holders # {}
           /\ \A b \in holders :
                /\ booking[b].status \in BeforeHandOver => luggage[l] = "RESERVEE"
                /\ booking[b].status # "REMBOURSEE" => luggage[l] # "EN_ATTENTE"

\* The list of trips (scopeReservable) and the page of a trip (CanBeReserved)
\* agree, where no item was added behind the booking: the SQL of the former
\* counts deleted bookings, which is right only because their items are gone.
ScopeAgrees ==
    \A t \in Trips : "item" \notin touched[t] => (ScopeReservable(t) <=> CanBeReserved(t))
=============================================================================
