--------------------------- MODULE ReservationProofs ---------------------------
(***************************************************************************)
(* The capacity of the trips and the luggages, for any finite number of    *)
(* bookings and luggages, any number of trips and any weights, whatever is *)
(* edited around the locks.                                                *)
(*                                                                         *)
(* Each safety property is about the bookings that count or that hold a    *)
(* luggage; what a step can do to those is classified by two lemmas, one   *)
(* for the loads (LoadShrinks) and one for the luggages (ClaimsSame).      *)
(***************************************************************************)
EXTENDS Reservation, FiniteSums

BookingRows ==
    [trip : Trips, status : BookingStatuses \cup {"NEW"},
     window : {"none", "open", "past"}, deleted : BOOLEAN]

\* A webhook reads, and a request adds items to, bookings whose row exists; a row that
\* is about to be inserted is not deleted.
InsertedOK ==
    /\ \A b \in confirming : booking[b].status \notin {"NONE", "NEW"}
    /\ \A b \in Bookings, l \in Luggages : <<b, l>> \in adding => booking[b].status \notin {"NONE", "NEW"}
    /\ \A b \in Bookings : booking[b].status = "NEW" => ~ booking[b].deleted

\* What is not yet stored is told from every stored status.
LEMMA Statuses == {"NONE", "NEW"} \cap BookingStatuses = {}
BY DEF BookingStatuses

\* From where CanTransitionTo leads anywhere, and where to.
LEMMA TransitionsStay ==
    ASSUME NEW from, NEW to, CanTransitionTo(from, to)
    PROVE  /\ from \in BookingStatuses /\ to \in BookingStatuses
           /\ from \notin {"NONE", "NEW", "ANNULE", "EXPIREE"}
BY DEF CanTransitionTo, AllowedTransitions, BookingStatuses

\* A row that is there is a record of the table.
LEMMA RowIsRecord ==
    ASSUME TypeOK, NEW b \in Bookings, booking[b].status # "NONE"
    PROVE  booking[b] \in BookingRows
BY DEF TypeOK, BookingRows, NoBooking

\* What EXCEPT does to one row.
LEMMA RowChange ==
    ASSUME TypeOK, NEW b \in Bookings, NEW r \in BookingRows \cup {NoBooking},
           booking' = [booking EXCEPT ![b] = r]
    PROVE  /\ booking' \in [Bookings -> {NoBooking} \cup BookingRows]
           /\ booking'[b] = r
           /\ \A c \in Bookings : c # b => booking'[c] = booking[c]
BY DEF TypeOK, BookingRows

\* One row is updated: its status, its payment window, its deleted_at.
RowBecomes(b, st, w, d) ==
    /\ booking' \in [Bookings -> {NoBooking} \cup BookingRows]
    /\ booking[b] \in BookingRows /\ booking'[b] \in BookingRows
    /\ booking'[b].trip = booking[b].trip
    /\ booking'[b].status = st /\ booking'[b].window = w /\ booking'[b].deleted = d
    /\ \A c \in Bookings : c # b => booking'[c] = booking[c]

\* The four forms that the UPDATE of a row has.
LEMMA RowUpdates ==
    ASSUME TypeOK, NEW b \in Bookings, booking[b].status # "NONE",
           NEW st \in BookingStatuses \cup {"NEW"}, NEW w \in {"none", "open", "past"}
    PROVE  /\ booking' = [booking EXCEPT ![b].status = st, ![b].window = w]
                 => RowBecomes(b, st, w, booking[b].deleted)
           /\ booking' = [booking EXCEPT ![b].status = st]
                 => RowBecomes(b, st, booking[b].window, booking[b].deleted)
           /\ booking' = [booking EXCEPT ![b].window = w]
                 => RowBecomes(b, booking[b].status, w, booking[b].deleted)
           /\ booking' = [booking EXCEPT ![b].deleted = TRUE]
                 => RowBecomes(b, booking[b].status, booking[b].window, TRUE)
<1>1. booking[b] \in BookingRows /\ booking \in [Bookings -> {NoBooking} \cup BookingRows]
      BY RowIsRecord DEF TypeOK, BookingRows
<1>2. ASSUME booking' = [booking EXCEPT ![b].status = st, ![b].window = w]
      PROVE  RowBecomes(b, st, w, booking[b].deleted)
      BY <1>1, <1>2 DEF RowBecomes, BookingRows
<1>3. ASSUME booking' = [booking EXCEPT ![b].status = st]
      PROVE  RowBecomes(b, st, booking[b].window, booking[b].deleted)
      BY <1>1, <1>3 DEF RowBecomes, BookingRows
<1>4. ASSUME booking' = [booking EXCEPT ![b].window = w]
      PROVE  RowBecomes(b, booking[b].status, w, booking[b].deleted)
      BY <1>1, <1>4 DEF RowBecomes, BookingRows
<1>5. ASSUME booking' = [booking EXCEPT ![b].deleted = TRUE]
      PROVE  RowBecomes(b, booking[b].status, booking[b].window, TRUE)
      BY <1>1, <1>5 DEF RowBecomes, BookingRows
<1> QED
    BY <1>2, <1>3, <1>4, <1>5

\* What each operation on an existing booking does to its row.
LEMMA RowSteps ==
    ASSUME TypeOK, InsertedOK, NEW b \in Bookings
    PROVE  /\ CommitReserveBooking(b) => RowBecomes(b, "EN_PAIEMENT", "open", booking[b].deleted)
           /\ PaymentWindowPasses(b) => RowBecomes(b, booking[b].status, "past", booking[b].deleted)
           /\ ConfirmBooking(b) \/ CommitChargeSuccess(b)
                 => RowBecomes(b, "CONFIRMEE", "none", booking[b].deleted)
           /\ ExpirePendingBooking(b) => RowBecomes(b, "EXPIREE", "none", booking[b].deleted)
           /\ CancelBooking(b) => RowBecomes(b, "ANNULE", "none", booking[b].deleted)
           /\ DeleteBooking(b) => RowBecomes(b, booking[b].status, booking[b].window, TRUE)
           /\ HandOverBooking(b) => RowBecomes(b, "EN_TRANSIT", booking[b].window, booking[b].deleted)
           /\ ConfirmDelivery(b) => RowBecomes(b, "LIVREE", booking[b].window, booking[b].deleted)
           /\ \A new \in {"EN_LITIGE", "REMBOURSEE", "TERMINE"} : OtherTransition(b, new)
                 => RowBecomes(b, new, booking[b].window, booking[b].deleted)
<1>1. /\ {"EN_PAIEMENT", "CONFIRMEE", "EXPIREE", "ANNULE", "EN_TRANSIT", "LIVREE", "EN_LITIGE",
           "REMBOURSEE", "TERMINE"} \subseteq BookingStatuses
      /\ Exists(b) => booking[b].status # "NONE"
      BY DEF BookingStatuses, Exists
<1>2. PaymentWindowPasses(b) => booking[b].status # "NONE"
  <2>1. booking[b] = NoBooking \/ booking[b] \in BookingRows
        BY DEF TypeOK, BookingRows
  <2>2. CASE booking[b] = NoBooking
        BY <2>2 DEF PaymentWindowPasses, NoBooking
  <2>3. CASE booking[b] \in BookingRows
        BY <2>3, Statuses DEF BookingRows
  <2> QED
      BY <2>1, <2>2, <2>3
<1>3. CommitChargeSuccess(b) => booking[b].status # "NONE"
      BY DEF CommitChargeSuccess, InsertedOK
<1>4. booking[b].status # "NONE" => booking[b].status \in BookingStatuses \cup {"NEW"}
      BY RowIsRecord DEF BookingRows
<1> QED
    BY <1>1, <1>2, <1>3, <1>4, RowUpdates
    DEF CommitReserveBooking, PaymentWindowPasses, ConfirmBooking, CommitChargeSuccess, ExpirePendingBooking,
        CancelBooking, DeleteBooking, HandOverBooking, ConfirmDelivery, OtherTransition

\* TypeOK and InsertedOK hold at first.
LEMMA TypeInit == Init => TypeOK /\ InsertedOK
BY WeightAssumption DEF Init, TypeOK, InsertedOK, NoItems, NoBooking, LuggageStatuses

\* What a change made past the checks leaves in touched.
LEMMA TouchType ==
    ASSUME TypeOK, NEW X, NEW how \in Bypasses, Touch(X, how)
    PROVE  /\ touched' \in [Trips \cup Luggages -> SUBSET Bypasses]
           /\ \A x \in Trips \cup Luggages :
                 touched'[x] = IF x \in X THEN touched[x] \cup {how} ELSE touched[x]
BY DEF TypeOK, Touch

\* What is touched afterwards was, or has been by this step.
LEMMA TouchLeaves ==
    ASSUME TypeOK, NEW X, NEW how \in Bypasses, Touch(X, how), NEW x \in Trips \cup Luggages, touched'[x] = {}
    PROVE  touched[x] = {} /\ x \notin X
<1>1. touched'[x] = IF x \in X THEN touched[x] \cup {how} ELSE touched[x]
      BY TouchType
<1> QED
    BY <1>1

\* The types after the UPDATE of a row that exists.
LEMMA RowKeeps ==
    ASSUME TypeOK, InsertedOK, NEW b \in Bookings, NEW st, NEW w, NEW d, RowBecomes(b, st, w, d),
           st = "NEW" => booking[b].status = "NEW" /\ d = booking[b].deleted,
           UNCHANGED tripVars, confirming' \subseteq confirming, UNCHANGED adding,
           charge' \in [Bookings -> {"NONE", "PENDING", "COMPLETED"}],
           item' \in [Bookings -> [Luggages -> Grams \cup {0}]],
           luggage' \in [Luggages -> LuggageStatuses],
           touched' \in [Trips \cup Luggages -> SUBSET Bypasses]
    PROVE  TypeOK' /\ InsertedOK'
<1>1. TypeOK'
      BY DEF TypeOK, RowBecomes, BookingRows, tripVars
<1>2. st # "NONE"
      BY Statuses DEF RowBecomes, BookingRows
<1>3. \A c \in Bookings : booking[c].status \notin {"NONE", "NEW"} => booking'[c].status \notin {"NONE", "NEW"}
      BY <1>2 DEF RowBecomes
<1>4. \A c \in Bookings : booking'[c].status = "NEW" => ~ booking'[c].deleted
      BY DEF RowBecomes, InsertedOK
<1>5. confirming \subseteq Bookings
      BY DEF TypeOK
<1> QED
    BY <1>1, <1>3, <1>4, <1>5 DEF InsertedOK

\* One lemma per group of actions: reserving, ...
LEMMA ReservingType == TypeOK /\ InsertedOK /\ Reserving => TypeOK' /\ InsertedOK'
<1> SUFFICES ASSUME TypeOK, InsertedOK, NEW b \in Bookings,
                    \/ \E t \in Trips, request \in Requests : BeginReserveBooking(b, t, request)
                    \/ CommitReserveBooking(b)
                    \/ RollbackReserveBooking(b)
                    \/ PaymentWindowPasses(b)
             PROVE  TypeOK' /\ InsertedOK'
    BY DEF Reserving
<1>1. CASE \E t \in Trips, request \in Requests : BeginReserveBooking(b, t, request)
  <2>1. PICK t \in Trips, request \in Requests : BeginReserveBooking(b, t, request)
        BY <1>1
  <2> DEFINE r == [trip |-> t, status |-> "NEW", window |-> "none", deleted |-> FALSE]
  <2>2. r \in BookingRows
        BY DEF BookingRows
  <2>3. booking' = [booking EXCEPT ![b] = r] /\ booking[b].status = "NONE"
        BY <2>1 DEF BeginReserveBooking
  <2> HIDE DEF r
  <2>4. TypeOK'
        BY <2>1, <2>2, <2>3, RowChange DEF BeginReserveBooking, TypeOK, BookingRows, Requests, tripVars, readVars
  <2>5. InsertedOK'
        BY <2>1, <2>2, <2>3, RowChange DEF BeginReserveBooking, InsertedOK, TypeOK, readVars
  <2> QED
      BY <2>4, <2>5
<1>2. CASE CommitReserveBooking(b)
  <2>1. RowBecomes(b, "EN_PAIEMENT", "open", booking[b].deleted)
        BY <1>2, RowSteps
  <2>2. luggage' \in [Luggages -> LuggageStatuses]
        BY <1>2 DEF CommitReserveBooking, TypeOK, LuggageStatuses
  <2> QED
      BY <1>2, <2>1, <2>2, RowKeeps DEF CommitReserveBooking, TypeOK, readVars
<1>3. CASE RollbackReserveBooking(b)
  <2>1. /\ booking' \in [Bookings -> {NoBooking} \cup BookingRows]
        /\ booking'[b] = NoBooking /\ booking[b].status = "NEW"
        /\ \A c \in Bookings : c # b => booking'[c] = booking[c]
        BY <1>3, RowChange DEF RollbackReserveBooking
  <2>2. item' \in [Bookings -> [Luggages -> Grams \cup {0}]]
        BY <1>3 DEF RollbackReserveBooking, TypeOK, NoItems
  <2>3. TypeOK'
        BY <1>3, <2>1, <2>2 DEF RollbackReserveBooking, TypeOK, BookingRows, tripVars, readVars
  <2>4. InsertedOK'
        BY <1>3, <2>1 DEF RollbackReserveBooking, TypeOK, InsertedOK, NoBooking, readVars
  <2> QED
      BY <2>3, <2>4
<1>4. CASE PaymentWindowPasses(b)
  <2>1. RowBecomes(b, booking[b].status, "past", booking[b].deleted)
        BY <1>4, RowSteps
  <2> QED
      BY <1>4, <2>1, RowKeeps DEF PaymentWindowPasses, TypeOK, readVars
<1> QED
    BY <1>1, <1>2, <1>3, <1>4

\* ... paying, ...
LEMMA PayingType == TypeOK /\ InsertedOK /\ Paying => TypeOK' /\ InsertedOK'
<1> SUFFICES ASSUME TypeOK, InsertedOK, NEW b \in Bookings,
                    \/ \E st \in {"PENDING", "COMPLETED"} : CreateTransaction(b, st)
                    \/ ConfirmBooking(b)
                    \/ BeginChargeSuccess(b)
                    \/ CommitChargeSuccess(b)
                    \/ RollbackChargeSuccess(b)
             PROVE  TypeOK' /\ InsertedOK'
    BY DEF Paying
<1> USE DEF readVars
<1>1. CASE \E st \in {"PENDING", "COMPLETED"} : CreateTransaction(b, st)
      BY <1>1 DEF CreateTransaction, TypeOK, InsertedOK, tripVars
<1>2. CASE ConfirmBooking(b)
  <2>1. RowBecomes(b, "CONFIRMEE", "none", booking[b].deleted)
        BY <1>2, RowSteps
  <2> QED
      BY <1>2, <2>1, RowKeeps DEF ConfirmBooking, TypeOK
<1>3. CASE BeginChargeSuccess(b)
      BY <1>3 DEF BeginChargeSuccess, TypeOK, InsertedOK, Exists, tripVars
<1>4. CASE CommitChargeSuccess(b)
  <2>1. RowBecomes(b, "CONFIRMEE", "none", booking[b].deleted)
        BY <1>4, RowSteps
  <2>2. touched' \in [Trips \cup Luggages -> SUBSET Bypasses]
        BY <1>4, TouchType DEF CommitChargeSuccess, Bypasses
  <2> QED
      BY <1>4, <2>1, <2>2, RowKeeps DEF CommitChargeSuccess, TypeOK
<1>5. CASE RollbackChargeSuccess(b)
      BY <1>5 DEF RollbackChargeSuccess, TypeOK, InsertedOK, tripVars
<1> QED
    BY <1>1, <1>2, <1>3, <1>4, <1>5

\* Releasing the luggages of a booking.
LEMMA ReleaseType ==
    ASSUME TypeOK, NEW b, ReleaseLuggages(b)
    PROVE  luggage' \in [Luggages -> LuggageStatuses]
BY DEF TypeOK, ReleaseLuggages, LuggageStatuses

\* ... ending, ...
LEMMA EndingType == TypeOK /\ InsertedOK /\ Ending => TypeOK' /\ InsertedOK'
<1> SUFFICES ASSUME TypeOK, InsertedOK, NEW b \in Bookings,
                    \/ ExpirePendingBooking(b)
                    \/ CancelBooking(b)
                    \/ DeleteBooking(b)
                    \/ HandOverBooking(b)
                    \/ ConfirmDelivery(b)
                    \/ \E new \in {"EN_LITIGE", "REMBOURSEE", "TERMINE"} : OtherTransition(b, new)
             PROVE  TypeOK' /\ InsertedOK'
    BY DEF Ending
<1> USE DEF readVars
<1>1. CASE ExpirePendingBooking(b)
  <2>1. RowBecomes(b, "EXPIREE", "none", booking[b].deleted) /\ luggage' \in [Luggages -> LuggageStatuses]
        BY <1>1, RowSteps, ReleaseType DEF ExpirePendingBooking
  <2> QED
      BY <1>1, <2>1, RowKeeps DEF ExpirePendingBooking, TypeOK
<1>2. CASE CancelBooking(b)
  <2>1. RowBecomes(b, "ANNULE", "none", booking[b].deleted) /\ luggage' \in [Luggages -> LuggageStatuses]
        BY <1>2, RowSteps, ReleaseType DEF CancelBooking
  <2> QED
      BY <1>2, <2>1, RowKeeps DEF CancelBooking, TypeOK
<1>3. CASE DeleteBooking(b)
  <2>1. RowBecomes(b, booking[b].status, booking[b].window, TRUE) /\ booking[b].status # "NEW"
        BY <1>3, RowSteps DEF DeleteBooking, Exists
  <2>2. item' \in [Bookings -> [Luggages -> Grams \cup {0}]] /\ luggage' \in [Luggages -> LuggageStatuses]
        BY <1>3, ReleaseType DEF DeleteBooking, TypeOK, NoItems
  <2> QED
      BY <1>3, <2>1, <2>2, RowKeeps DEF DeleteBooking, TypeOK
<1>4. CASE HandOverBooking(b)
  <2>1. RowBecomes(b, "EN_TRANSIT", booking[b].window, booking[b].deleted)
        BY <1>4, RowSteps
  <2> QED
      BY <1>4, <2>1, RowKeeps DEF HandOverBooking, TypeOK
<1>5. CASE ConfirmDelivery(b)
  <2>1. RowBecomes(b, "LIVREE", booking[b].window, booking[b].deleted)
        BY <1>5, RowSteps
  <2> QED
      BY <1>5, <2>1, RowKeeps DEF ConfirmDelivery, TypeOK
<1>6. CASE \E new \in {"EN_LITIGE", "REMBOURSEE", "TERMINE"} : OtherTransition(b, new)
  <2>1. PICK new \in {"EN_LITIGE", "REMBOURSEE", "TERMINE"} : OtherTransition(b, new)
        BY <1>6
  <2>2. RowBecomes(b, new, booking[b].window, booking[b].deleted)
        BY <2>1, RowSteps
  <2> QED
      BY <2>1, <2>2, RowKeeps DEF OtherTransition, TypeOK
<1> QED
    BY <1>1, <1>2, <1>3, <1>4, <1>5, <1>6

\* ... and editing.
LEMMA EditingType == TypeOK /\ InsertedOK /\ Editing => TypeOK' /\ InsertedOK'
<1> SUFFICES ASSUME TypeOK, InsertedOK, Editing PROVE TypeOK' /\ InsertedOK'
    OBVIOUS
<1> USE DEF tripVars, readVars
<1>1. ASSUME NEW b \in EditedBookings, NEW l \in Luggages, BeginCreateBookingItem(b, l)
      PROVE  TypeOK' /\ InsertedOK'
      BY <1>1, EditedAssumption DEF BeginCreateBookingItem, TypeOK, InsertedOK, Exists
<1>2. ASSUME NEW b \in EditedBookings, NEW l \in Luggages, NEW g \in Grams,
             CommitCreateBookingItem(b, l, g) \/ UpdateBookingItem(b, l, g)
      PROVE  TypeOK' /\ InsertedOK'
  <2>1. \E X : Touch(X, "item")
        BY <1>2 DEF CommitCreateBookingItem, UpdateBookingItem
  <2>2. touched' \in [Trips \cup Luggages -> SUBSET Bypasses]
        BY <2>1, TouchType DEF Bypasses
  <2>3. item' \in [Bookings -> [Luggages -> Grams \cup {0}]]
        BY <1>2, EditedAssumption DEF CommitCreateBookingItem, UpdateBookingItem, TypeOK
  <2> QED
      BY <1>2, <2>2, <2>3 DEF CommitCreateBookingItem, UpdateBookingItem, TypeOK, InsertedOK
<1>3. ASSUME NEW b \in EditedBookings, NEW l \in Luggages, DestroyBookingItem(b, l)
      PROVE  TypeOK' /\ InsertedOK'
  <2>1. touched' \in [Trips \cup Luggages -> SUBSET Bypasses]
        BY <1>3, TouchType DEF DestroyBookingItem, Bypasses
  <2>2. item' \in [Bookings -> [Luggages -> Grams \cup {0}]]
        BY <1>3 DEF DestroyBookingItem, TypeOK
  <2> QED
      BY <1>3, <2>1, <2>2 DEF DestroyBookingItem, TypeOK, InsertedOK
<1>4. CASE RefuseBookingItem
      BY <1>4 DEF RefuseBookingItem, TypeOK, InsertedOK
<1>5. ASSUME NEW l \in EditedLuggages, NEW st \in LuggageEdits, UpdateLuggage(l, st)
      PROVE  TypeOK' /\ InsertedOK'
  <2>1. touched' \in [Trips \cup Luggages -> SUBSET Bypasses]
        BY <1>5, TouchType DEF UpdateLuggage, Bypasses
  <2>2. luggage' \in [Luggages -> LuggageStatuses]
        BY <1>5, LuggageEditsAssumption DEF UpdateLuggage, TypeOK, LuggageStatuses
  <2> QED
      BY <1>5, <2>1, <2>2 DEF UpdateLuggage, TypeOK, InsertedOK
<1>6. ASSUME NEW l \in EditedLuggages, DestroyLuggage(l)
      PROVE  TypeOK' /\ InsertedOK'
  <2>1. luggage' \in [Luggages -> LuggageStatuses]
        BY <1>6 DEF DestroyLuggage, TypeOK, LuggageStatuses
  <2>2. item' \in [Bookings -> [Luggages -> Grams \cup {0}]]
        BY <1>6 DEF DestroyLuggage, TypeOK
  <2> QED
      BY <1>6, <2>1, <2>2 DEF DestroyLuggage, TypeOK, InsertedOK
<1>7. ASSUME NEW t \in EditedTrips, NEW c \in Capacities, UpdateTripCapacity(t, c)
      PROVE  TypeOK' /\ InsertedOK'
  <2>1. touched' \in [Trips \cup Luggages -> SUBSET Bypasses]
        BY <1>7, TouchType DEF UpdateTripCapacity, Bypasses
  <2> QED
      BY <1>7, <2>1 DEF UpdateTripCapacity, TypeOK, InsertedOK
<1>8. ASSUME NEW t \in EditedTrips, TripCloses(t) \/ UpdateTripReopens(t) \/ DestroyTrip(t)
      PROVE  TypeOK' /\ InsertedOK'
      BY <1>8 DEF TripCloses, UpdateTripReopens, DestroyTrip, TypeOK, InsertedOK
<1> QED
    BY <1>1, <1>2, <1>3, <1>4, <1>5, <1>6, <1>7, <1>8 DEF Editing

\* Every step keeps TypeOK and InsertedOK.
LEMMA TypeStep == TypeOK /\ InsertedOK /\ [Next]_vars => TypeOK' /\ InsertedOK'
<1>1. UNCHANGED vars => UNCHANGED <<capacity, trip, booking, charge, item, luggage, confirming, adding, touched>>
      BY DEF vars, tripVars, readVars
<1>2. TypeOK /\ InsertedOK /\ UNCHANGED vars => TypeOK' /\ InsertedOK'
      BY <1>1 DEF TypeOK, InsertedOK
<1> QED
    BY <1>2, ReservingType, PayingType, EndingType, EditingType DEF Next

\* Every row of the three tables keeps its type, whatever is edited around the locks.
THEOREM TypeCorrect == Spec => []TypeOK
<1>1. TypeOK /\ InsertedOK /\ [Next]_vars => TypeOK' /\ InsertedOK'
      BY TypeStep
<1> QED
    BY <1>1, TypeInit, PTL DEF Spec
-----------------------------------------------------------------------------
(* The luggages.                                                           *)

Claims(b, l) == Holds(b) /\ item[b][l] > 0

\* What the code does for one luggage: more than LuggageExclusive and LuggageStatusTrue
\* say, because the code never moves a luggage on from RESERVEE to a later status.
LuggageOK(l) ==
    touched[l] = {} =>
        /\ \A b, c \in Bookings : Claims(b, l) /\ Claims(c, l) => b = c
        /\ luggage[l] # "DELETED" => (luggage[l] = "RESERVEE" <=> \E b \in Bookings : Claims(b, l))

LuggageInv == \A l \in Luggages : LuggageOK(l)

\* LuggageInv implies the two properties about luggages.
LEMMA LuggageInvSays == LuggageInv => LuggageExclusive /\ LuggageStatusTrue
BY DEF LuggageInv, LuggageOK, LuggageExclusive, LuggageStatusTrue, LuggagesOf, Claims

\* Which bookings hold their luggages after the UPDATE of a row.
LEMMA HoldsAfter ==
    ASSUME NEW b \in Bookings, NEW st, NEW w, NEW d, RowBecomes(b, st, w, d)
    PROVE  /\ Holds(b)' <=> st \notin {"NONE", "NEW", "ANNULE", "EXPIREE"} /\ ~d
           /\ \A c \in Bookings : c # b => (Holds(c)' <=> Holds(c))
BY DEF RowBecomes, Holds, Exists

\* A step that does not change who holds an untouched luggage, nor its status.
LEMMA ClaimsSame ==
    ASSUME LuggageInv, NEW l \in Luggages,
           touched'[l] = {} =>
               /\ touched[l] = {} /\ luggage'[l] = luggage[l]
               /\ \A b \in Bookings : Claims(b, l)' <=> Claims(b, l)
    PROVE  LuggageOK(l)'
BY DEF LuggageInv, LuggageOK

\* The luggages that a booking leaves are released, and nobody else's.
LEMMA ClaimsEnd ==
    ASSUME LuggageInv, NEW l \in Luggages, NEW b \in Bookings, Holds(b), ~ Holds(b)', ReleaseLuggages(b),
           \A c \in Bookings : c # b => (Claims(c, l)' <=> Claims(c, l)), touched'[l] = touched[l]
    PROVE  LuggageOK(l)'
<1>1. luggage'[l] = IF item[b][l] > 0 THEN "EN_ATTENTE" ELSE luggage[l]
      BY DEF ReleaseLuggages, LuggagesOf
<1>2. ~ Claims(b, l)' /\ (Claims(b, l) <=> item[b][l] > 0)
      BY DEF Claims
<1> QED
    BY <1>1, <1>2 DEF LuggageInv, LuggageOK

\* One lemma per group of actions: reserving, ...
LEMMA ReservingLuggages == TypeOK /\ InsertedOK /\ LuggageInv /\ Reserving => LuggageInv'
<1> SUFFICES ASSUME TypeOK, InsertedOK, LuggageInv, NEW b \in Bookings,
                    \/ \E t \in Trips, request \in Requests : BeginReserveBooking(b, t, request)
                    \/ CommitReserveBooking(b)
                    \/ RollbackReserveBooking(b)
                    \/ PaymentWindowPasses(b),
                    NEW l \in Luggages
             PROVE  LuggageOK(l)'
    BY DEF Reserving, LuggageInv
<1>1. CASE \E t \in Trips, request \in Requests : BeginReserveBooking(b, t, request)
  <2>1. /\ UNCHANGED <<touched, luggage>>
        /\ booking[b].status = "NONE" /\ booking'[b].status = "NEW"
        /\ \A c \in Bookings : c # b => booking'[c] = booking[c] /\ item'[c] = item[c]
        BY <1>1 DEF BeginReserveBooking, TypeOK
  <2> QED
      BY <2>1, ClaimsSame DEF Claims, Holds, Exists
<1>2. CASE CommitReserveBooking(b)
  <2>1. RowBecomes(b, "EN_PAIEMENT", "open", booking[b].deleted)
        BY <1>2, RowSteps
  <2>2. /\ UNCHANGED <<touched, item>> /\ booking[b].status = "NEW"
        /\ item[b][l] > 0 => luggage[l] = "EN_ATTENTE"
        /\ luggage'[l] = IF item[b][l] > 0 THEN "RESERVEE" ELSE luggage[l]
        BY <1>2 DEF CommitReserveBooking, LuggagesOf
  <2>3. ~ Claims(b, l) /\ \A c \in Bookings : c # b => (Claims(c, l)' <=> Claims(c, l))
        BY <2>1, <2>2, HoldsAfter DEF Claims, Holds, Exists
  <2>4. CASE item[b][l] > 0 /\ ~ booking[b].deleted
    <3>1. touched[l] = {} => \A c \in Bookings : ~ Claims(c, l)
          BY <2>2, <2>4 DEF LuggageInv, LuggageOK
    <3>2. Claims(b, l)'
          BY <2>1, <2>2, <2>4, HoldsAfter DEF Claims
    <3> QED
        BY <2>2, <2>3, <2>4, <3>1, <3>2 DEF LuggageOK
  <2>5. CASE ~ (item[b][l] > 0)
    <3>1. ~ Claims(b, l)'
          BY <2>2, <2>5 DEF Claims
    <3> QED
        BY <2>2, <2>3, <2>5, <3>1, ClaimsSame
  <2> QED
      BY <2>2, <2>4, <2>5 DEF InsertedOK
<1>3. CASE RollbackReserveBooking(b)
  <2>1. /\ UNCHANGED <<touched, luggage>>
        /\ booking[b].status = "NEW" /\ booking'[b].status = "NONE"
        /\ \A c \in Bookings : c # b => booking'[c] = booking[c] /\ item'[c] = item[c]
        BY <1>3 DEF RollbackReserveBooking, TypeOK, NoBooking
  <2> QED
      BY <2>1, ClaimsSame DEF Claims, Holds, Exists
<1>4. CASE PaymentWindowPasses(b)
  <2>1. RowBecomes(b, booking[b].status, "past", booking[b].deleted) /\ UNCHANGED <<touched, luggage, item>>
        BY <1>4, RowSteps DEF PaymentWindowPasses
  <2> QED
      BY <2>1, ClaimsSame, HoldsAfter DEF Claims, Holds, Exists
<1> QED
    BY <1>1, <1>2, <1>3, <1>4

\* An operation leads from a status in which a booking holds its luggages to one in
\* which it does.
LEMMA StillHolds ==
    ASSUME NEW b \in Bookings, Exists(b), NEW new, new \notin {"NONE", "NEW", "ANNULE", "EXPIREE"}, NEW w,
           CanTransitionTo(booking[b].status, new), RowBecomes(b, new, w, booking[b].deleted)
    PROVE  \A c \in Bookings : Holds(c)' <=> Holds(c)
BY HoldsAfter, TransitionsStay DEF Holds, Exists

\* ... paying, ...
LEMMA PayingLuggages == TypeOK /\ InsertedOK /\ LuggageInv /\ Paying => LuggageInv'
<1> SUFFICES ASSUME TypeOK, InsertedOK, LuggageInv, NEW b \in Bookings,
                    \/ \E st \in {"PENDING", "COMPLETED"} : CreateTransaction(b, st)
                    \/ ConfirmBooking(b)
                    \/ BeginChargeSuccess(b)
                    \/ CommitChargeSuccess(b)
                    \/ RollbackChargeSuccess(b),
                    NEW l \in Luggages
             PROVE  LuggageOK(l)'
    BY DEF Paying, LuggageInv
<1>1. CASE \/ \E st \in {"PENDING", "COMPLETED"} : CreateTransaction(b, st)
           \/ BeginChargeSuccess(b) \/ RollbackChargeSuccess(b)
  <2>1. UNCHANGED <<booking, item, luggage, touched>>
        BY <1>1 DEF CreateTransaction, BeginChargeSuccess, RollbackChargeSuccess
  <2> QED
      BY <2>1, ClaimsSame DEF Claims, Holds, Exists
<1>2. CASE ConfirmBooking(b)
  <2>1. RowBecomes(b, "CONFIRMEE", "none", booking[b].deleted)
        BY <1>2, RowSteps
  <2>2. UNCHANGED <<item, luggage, touched>> /\ \A c \in Bookings : Holds(c)' <=> Holds(c)
        BY <1>2, <2>1, StillHolds DEF ConfirmBooking
  <2> QED
      BY <2>2, ClaimsSame DEF Claims
<1>3. CASE CommitChargeSuccess(b)
  <2>1. RowBecomes(b, "CONFIRMEE", "none", booking[b].deleted)
        BY <1>3, RowSteps
  <2> DEFINE X == IF booking[b].deleted THEN {}
                  ELSE (IF Counts(b) THEN {} ELSE {booking[b].trip})
                       \cup (IF Holds(b) THEN {} ELSE LuggagesOf(b))
  <2>2. Touch(X, "late") /\ UNCHANGED <<item, luggage>> /\ booking[b].status \notin {"NONE", "NEW"}
        BY <1>3 DEF CommitChargeSuccess, InsertedOK
  <2>3. touched'[l] = IF l \in X THEN touched[l] \cup {"late"} ELSE touched[l]
    <3> HIDE DEF X
    <3> QED
        BY <2>2, TouchType DEF Bypasses
  <2>4. touched'[l] = {} => touched[l] = {} /\ l \notin X
    <3> HIDE DEF X
    <3> QED
        BY <2>3
  <2>5. touched'[l] = {} => (Claims(b, l)' <=> Claims(b, l))
        BY <2>1, <2>2, <2>4, HoldsAfter DEF Claims, Holds, Exists, LuggagesOf
  <2>6. \A c \in Bookings : c # b => (Claims(c, l)' <=> Claims(c, l))
        BY <2>1, <2>2, HoldsAfter DEF Claims
  <2> HIDE DEF X
  <2> QED
      BY <2>2, <2>4, <2>5, <2>6, ClaimsSame
<1> QED
    BY <1>1, <1>2, <1>3

\* ... and ending.
LEMMA EndingLuggages == TypeOK /\ InsertedOK /\ LuggageInv /\ Ending => LuggageInv'
<1> SUFFICES ASSUME TypeOK, InsertedOK, LuggageInv, NEW b \in Bookings,
                    \/ ExpirePendingBooking(b)
                    \/ CancelBooking(b)
                    \/ DeleteBooking(b)
                    \/ HandOverBooking(b)
                    \/ ConfirmDelivery(b)
                    \/ \E new \in {"EN_LITIGE", "REMBOURSEE", "TERMINE"} : OtherTransition(b, new),
                    NEW l \in Luggages
             PROVE  LuggageOK(l)'
    BY DEF Ending, LuggageInv
<1>1. CASE ExpirePendingBooking(b)
  <2>1. RowBecomes(b, "EXPIREE", "none", booking[b].deleted)
        BY <1>1, RowSteps
  <2>2. UNCHANGED <<item, touched>> /\ ReleaseLuggages(b) /\ Holds(b)
        BY <1>1 DEF ExpirePendingBooking, Holds, Exists
  <2> QED
      BY <2>1, <2>2, HoldsAfter, ClaimsEnd DEF Claims
<1>2. CASE CancelBooking(b)
  <2>1. RowBecomes(b, "ANNULE", "none", booking[b].deleted)
        BY <1>2, RowSteps
  <2>2. UNCHANGED <<item, touched>> /\ ReleaseLuggages(b) /\ Holds(b)
        BY <1>2, TransitionsStay DEF CancelBooking, Holds, Exists
  <2> QED
      BY <2>1, <2>2, HoldsAfter, ClaimsEnd DEF Claims
<1>3. CASE DeleteBooking(b)
  <2>1. RowBecomes(b, booking[b].status, booking[b].window, TRUE)
        BY <1>3, RowSteps
  <2>2. UNCHANGED touched /\ ReleaseLuggages(b) /\ Holds(b)
        BY <1>3 DEF DeleteBooking, Holds, Exists, FinalStatuses
  <2>3. \A c \in Bookings : c # b => item'[c] = item[c]
        BY <1>3 DEF DeleteBooking, TypeOK
  <2> QED
      BY <2>1, <2>2, <2>3, HoldsAfter, ClaimsEnd DEF Claims
<1>4. CASE HandOverBooking(b)
  <2>1. RowBecomes(b, "EN_TRANSIT", booking[b].window, booking[b].deleted)
        BY <1>4, RowSteps
  <2>2. UNCHANGED <<item, luggage, touched>> /\ \A c \in Bookings : Holds(c)' <=> Holds(c)
        BY <1>4, <2>1, StillHolds DEF HandOverBooking
  <2> QED
      BY <2>2, ClaimsSame DEF Claims
<1>5. CASE ConfirmDelivery(b)
  <2>1. RowBecomes(b, "LIVREE", booking[b].window, booking[b].deleted)
        BY <1>5, RowSteps
  <2>2. UNCHANGED <<item, luggage, touched>> /\ \A c \in Bookings : Holds(c)' <=> Holds(c)
        BY <1>5, <2>1, StillHolds DEF ConfirmDelivery
  <2> QED
      BY <2>2, ClaimsSame DEF Claims
<1>6. CASE \E new \in {"EN_LITIGE", "REMBOURSEE", "TERMINE"} : OtherTransition(b, new)
  <2>1. PICK new \in {"EN_LITIGE", "REMBOURSEE", "TERMINE"} : OtherTransition(b, new)
        BY <1>6
  <2>2. RowBecomes(b, new, booking[b].window, booking[b].deleted)
        BY <2>1, RowSteps
  <2>3. UNCHANGED <<item, luggage, touched>> /\ \A c \in Bookings : Holds(c)' <=> Holds(c)
        BY <2>1, <2>2, StillHolds DEF OtherTransition
  <2> QED
      BY <2>3, ClaimsSame DEF Claims
<1> QED
    BY <1>1, <1>2, <1>3, <1>4, <1>5, <1>6

\* An edit touches the luggages it deals with, or does not change whose they are.
LEMMA EditingLuggages == TypeOK /\ InsertedOK /\ LuggageInv /\ Editing => LuggageInv'
<1> SUFFICES ASSUME TypeOK, InsertedOK, LuggageInv, Editing, NEW l \in Luggages PROVE LuggageOK(l)'
    BY DEF LuggageInv
<1>1. CASE \/ \E b \in EditedBookings, k \in Luggages : BeginCreateBookingItem(b, k)
           \/ RefuseBookingItem
           \/ \E t \in EditedTrips : TripCloses(t) \/ UpdateTripReopens(t) \/ DestroyTrip(t)
  <2>1. UNCHANGED <<booking, item, luggage, touched>>
        BY <1>1 DEF BeginCreateBookingItem, RefuseBookingItem, TripCloses, UpdateTripReopens, DestroyTrip
  <2> QED
      BY <2>1, ClaimsSame DEF Claims, Holds, Exists
<1>2. ASSUME NEW b \in EditedBookings, NEW k \in Luggages, NEW g \in Grams \cup {0},
             \/ g > 0 /\ (CommitCreateBookingItem(b, k, g) \/ UpdateBookingItem(b, k, g))
             \/ g = 0 /\ DestroyBookingItem(b, k)
      PROVE  LuggageOK(l)'
  <2>1. /\ UNCHANGED <<booking, luggage>>
        /\ \E X : Touch(X, "item") /\ (k \in X \/ (g > 0 /\ UpdateBookingItem(b, k, g)))
        BY <1>2 DEF CommitCreateBookingItem, UpdateBookingItem, DestroyBookingItem
  <2>2. touched'[l] = {} => touched[l] = {} /\ (k # l \/ (g > 0 /\ UpdateBookingItem(b, k, g)))
    <3>1. PICK X : Touch(X, "item") /\ (k \in X \/ (g > 0 /\ UpdateBookingItem(b, k, g)))
          BY <2>1
    <3>2. "item" \in Bypasses
          BY DEF Bypasses
    <3> QED
        BY <3>1, <3>2, TouchLeaves
  <2>3. \A c \in Bookings : (c # b \/ k # l) => item'[c][l] = item[c][l]
        BY <1>2, EditedAssumption DEF CommitCreateBookingItem, UpdateBookingItem, DestroyBookingItem, TypeOK
  <2>4. g > 0 /\ UpdateBookingItem(b, k, g) => item[b][k] > 0 /\ item'[b][k] > 0
        BY EditedAssumption DEF UpdateBookingItem, TypeOK
  <2> QED
      BY <2>1, <2>2, <2>3, <2>4, ClaimsSame, EditedAssumption DEF Claims, Holds, Exists
<1>3. ASSUME NEW k \in EditedLuggages, NEW st \in LuggageEdits, UpdateLuggage(k, st)
      PROVE  LuggageOK(l)'
  <2>1. UNCHANGED <<booking, item>> /\ Touch({k}, "luggage") /\ (k # l => luggage'[l] = luggage[l])
        BY <1>3 DEF UpdateLuggage, TypeOK
  <2>2. touched'[l] = {} => touched[l] = {} /\ k # l
        BY <2>1, TouchLeaves DEF Bypasses
  <2> QED
      BY <2>1, <2>2, ClaimsSame DEF Claims, Holds, Exists
<1>4. ASSUME NEW k \in EditedLuggages, DestroyLuggage(k)
      PROVE  LuggageOK(l)'
  <2>1. /\ UNCHANGED <<booking, touched>>
        /\ luggage'[k] = "DELETED" /\ (k # l => luggage'[l] = luggage[l])
        /\ \A b \in Bookings : booking[b].status # "NEW" => item'[b] = [item[b] EXCEPT ![k] = 0]
        BY <1>4, EditedAssumption DEF DestroyLuggage, TypeOK
  <2>2. \A b \in Bookings : Holds(b)' <=> Holds(b)
        BY <2>1 DEF Holds, Exists
  <2>3. \A b \in Bookings : Holds(b) => item'[b][l] = IF k = l THEN 0 ELSE item[b][l]
    <3>1. \A b \in Bookings : item[b] \in [Luggages -> Grams \cup {0}]
          BY DEF TypeOK
    <3> QED
        BY <2>1, <3>1 DEF Holds, Exists
  <2>4. CASE k = l
    <3>1. \A b \in Bookings : ~ Claims(b, l)'
          BY <2>2, <2>3, <2>4 DEF Claims
    <3> QED
        BY <2>1, <2>4, <3>1 DEF LuggageOK
  <2>5. CASE k # l
        BY <2>1, <2>2, <2>3, <2>5, ClaimsSame DEF Claims
  <2> QED
      BY <2>4, <2>5
<1>5. ASSUME NEW t \in EditedTrips, NEW c \in Capacities, UpdateTripCapacity(t, c)
      PROVE  LuggageOK(l)'
  <2>1. UNCHANGED <<booking, item, luggage>> /\ Touch({t}, "capacity")
        BY <1>5 DEF UpdateTripCapacity
  <2>2. touched'[l] = {} => touched[l] = {}
        BY <2>1, TouchLeaves DEF Bypasses
  <2> QED
      BY <2>1, <2>2, ClaimsSame DEF Claims, Holds, Exists
<1>6. ASSUME NEW b \in EditedBookings, NEW k \in Luggages, DestroyBookingItem(b, k)
      PROVE  LuggageOK(l)'
      BY <1>2, <1>6
<1>7. \A g \in Grams : g > 0
      BY WeightAssumption
<1> QED
    BY <1>1, <1>2, <1>3, <1>4, <1>5, <1>6, <1>7 DEF Editing

\* Every step keeps LuggageInv.
LEMMA LuggageStep == TypeOK /\ InsertedOK /\ LuggageInv /\ [Next]_vars => LuggageInv'
<1>1. LuggageInv /\ UNCHANGED vars => LuggageInv'
      BY DEF vars, tripVars, readVars, LuggageInv, LuggageOK, Claims, Holds, Exists
<1> QED
    BY <1>1, ReservingLuggages, PayingLuggages, EndingLuggages, EditingLuggages DEF Next

\* It holds at first.
LEMMA LuggageInit == Init => LuggageInv
BY DEF Init, LuggageInv, LuggageOK, Claims, Holds, Exists, NoBooking, NoItems

\* ReserveBooking's second look at the luggages, under their lock, is enough: two
\* bookings that are alive never hold the same luggage unless something went around
\* the locks, however many bookings, trips and luggages there are.
THEOREM LuggageExclusiveAlways == Spec => []LuggageExclusive
<1>1. TypeOK /\ InsertedOK /\ LuggageInv /\ [Next]_vars => TypeOK' /\ InsertedOK' /\ LuggageInv'
      BY TypeStep, LuggageStep
<1>2. LuggageInv => LuggageExclusive
      BY LuggageInvSays
<1>3. Init => TypeOK /\ InsertedOK /\ LuggageInv
      BY TypeInit, LuggageInit
<1> QED
    BY <1>1, <1>2, <1>3, PTL DEF Spec

\* Every end of a booking releases what it held and nothing else: a luggage that is
\* RESERVEE has a booking that is alive, one that waits for its hand-over is RESERVEE,
\* and one that was handed over is not offered again.
THEOREM LuggageStatusTrueAlways == Spec => []LuggageStatusTrue
<1>1. TypeOK /\ InsertedOK /\ LuggageInv /\ [Next]_vars => TypeOK' /\ InsertedOK' /\ LuggageInv'
      BY TypeStep, LuggageStep
<1>2. LuggageInv => LuggageStatusTrue
      BY LuggageInvSays
<1>3. Init => TypeOK /\ InsertedOK /\ LuggageInv
      BY TypeInit, LuggageInit
<1> QED
    BY <1>1, <1>2, <1>3, PTL DEF Spec
-----------------------------------------------------------------------------
(* The capacity of the trips.                                              *)

\* A booking weighs on a trip: its grams count, or a reservation that holds the
\* trip's lock has checked them.
Weighs(b, t) == booking[b].trip = t /\ (Counts(b) \/ booking[b].status = "NEW")

Weights == [b \in Bookings |-> ItemGrams(b)]
LoadOf(t) == SumFunctionOnSet(Weights, {b \in Bookings : Weighs(b, t)})

\* NoOverbooking for one trip.
Fits(t) == touched[t] = {} => LoadOf(t) <= capacity[t]

\* The load of a trip is a sum over its bookings.
LEMMA LoadIs ==
    ASSUME NEW t \in Trips
    PROVE  /\ Load(t, {b \in Bookings : Counts(b) \/ booking[b].status = "NEW"}) = LoadOf(t)
           /\ GramsReserved(t) = SumFunctionOnSet(Weights, {b \in Bookings : Counts(b) /\ booking[b].trip = t})
<1>1. /\ {b \in {c \in Bookings : Counts(c) \/ booking[c].status = "NEW"} : booking[b].trip = t}
             = {b \in Bookings : Weighs(b, t)}
      /\ {b \in {c \in Bookings : Counts(c)} : booking[b].trip = t}
             = {b \in Bookings : Counts(b) /\ booking[b].trip = t}
      BY DEF Weighs
<1> QED
    BY <1>1 DEF Load, LoadOf, GramsReserved, Weights

CapacityInv == \A t \in Trips : Fits(t)

\* CapacityInv is NoOverbooking with the guard of every trip written out.
LEMMA CapacityInvSays == CapacityInv <=> NoOverbooking
BY LoadIs DEF CapacityInv, NoOverbooking, Fits

\* Weights are natural numbers.
LEMMA WeightsNat == /\ \A g \in Grams \cup {0} : g \in Nat
                    /\ \A c \in Capacities : c \in Nat
BY WeightAssumption

\* What the items of a booking weigh.
LEMMA GramsAre ==
    ASSUME NEW items \in [Luggages -> Grams \cup {0}]
    PROVE  /\ SumFunction(items) = SumFunctionOnSet(items, Luggages)
           /\ SumFunction(items) \in Nat
           /\ (\A l \in Luggages : items[l] = 0) => SumFunction(items) = 0
<1>1. DOMAIN items = Luggages /\ \A l \in Luggages : items[l] \in Nat
      BY WeightsNat
<1>2. SumFunction(items) = SumFunctionOnSet(items, Luggages)
      BY <1>1 DEF SumFunction
<1>3. SumFunctionOnSet(items, Luggages) \in Nat
      BY <1>1, FiniteAssumption, SumNat
<1>4. ASSUME \A l \in Luggages : items[l] = 0 PROVE SumFunctionOnSet(items, Luggages) = 0
      BY <1>1, <1>4, FiniteAssumption, SumSkip, SumEmpty
<1> QED
    BY <1>2, <1>3, <1>4

\* Lighter items weigh less together.
LEMMA GramsMonotone ==
    ASSUME NEW less \in [Luggages -> Grams \cup {0}], NEW more \in [Luggages -> Grams \cup {0}],
           \A l \in Luggages : less[l] <= more[l]
    PROVE  SumFunction(less) <= SumFunction(more)
<1>1. \A l \in Luggages : less[l] \in Nat /\ more[l] \in Nat
      BY WeightsNat
<1>2. SumFunctionOnSet(less, Luggages) <= SumFunctionOnSet(more, Luggages)
      BY <1>1, FiniteAssumption, SumMonotone
<1> QED
    BY <1>2, GramsAre

\* So is what a booking weighs.
LEMMA WeightsType ==
    ASSUME TypeOK
    PROVE  \A b \in Bookings : Weights[b] = SumFunction(item[b]) /\ Weights[b] \in Nat
<1>1. \A b \in Bookings : item[b] \in [Luggages -> Grams \cup {0}]
      BY DEF TypeOK
<1> QED
    BY <1>1, GramsAre DEF Weights, ItemGrams

\* A step after which no booking weighs more on the trip than before.
LEMMA LoadShrinks ==
    ASSUME TypeOK, TypeOK', NEW t \in Trips, Fits(t), capacity'[t] = capacity[t],
           touched'[t] = {} =>
               /\ touched[t] = {}
               /\ \A b \in Bookings : Weighs(b, t)' =>
                     Weighs(b, t) /\ \A l \in Luggages : item'[b][l] <= item[b][l]
    PROVE  Fits(t)'
<1> SUFFICES ASSUME touched'[t] = {} PROVE LoadOf(t)' <= capacity'[t]
    BY DEF Fits
<1> DEFINE S == {b \in Bookings : Weighs(b, t)'}
           T == {b \in Bookings : Weighs(b, t)}
           f == Weights'
           g == Weights
<1>1. \A b \in Bookings : /\ f[b] = SumFunction(item'[b]) /\ f[b] \in Nat
                          /\ g[b] = SumFunction(item[b]) /\ g[b] \in Nat
  <2>1. \A b \in Bookings : g[b] = SumFunction(item[b]) /\ g[b] \in Nat
        BY WeightsType
  <2>2. \A b \in Bookings : item'[b] \in [Luggages -> Grams \cup {0}]
        BY DEF TypeOK
  <2>3. \A b \in Bookings : f[b] = SumFunction(item'[b]) /\ f[b] \in Nat
        BY <2>2, GramsAre DEF Weights, ItemGrams
  <2> QED
      BY <2>1, <2>3
<1>2. \A b \in Bookings : item[b] \in [Luggages -> Grams \cup {0}] /\ item'[b] \in [Luggages -> Grams \cup {0}]
      BY DEF TypeOK
<1>3. S \in SUBSET T /\ IsFiniteSet(T)
      BY FiniteAssumption, FS_Subset
<1>4. \A b \in S : f[b] <= g[b]
      BY <1>1, <1>2, GramsMonotone
<1>5. LoadOf(t)' = SumFunctionOnSet(f, S) /\ LoadOf(t) = SumFunctionOnSet(g, T)
      BY DEF LoadOf
<1>6. SumFunctionOnSet(g, T) <= capacity[t] /\ capacity[t] \in Nat /\ capacity'[t] = capacity[t]
      BY <1>5, WeightAssumption DEF Fits, TypeOK
<1>7. (\A b \in T : b \in Bookings) /\ (\A b \in S : b \in Bookings)
      OBVIOUS
<1> HIDE DEF S, T, f, g
<1>8. SumFunctionOnSet(f, S) <= SumFunctionOnSet(g, T)
      BY <1>1, <1>3, <1>4, <1>7, SumMonotone
<1>9. SumFunctionOnSet(f, S) \in Nat /\ SumFunctionOnSet(g, T) \in Nat
      BY <1>1, <1>3, <1>7, FS_Subset, SumNat
<1> QED
    BY <1>5, <1>6, <1>8, <1>9

\* The UPDATE of a row after which it weighs only where it did.
LEMMA RowShrinks ==
    ASSUME TypeOK, TypeOK', NEW t \in Trips, Fits(t), NEW b \in Bookings, NEW st, NEW w, NEW d,
           RowBecomes(b, st, w, d), UNCHANGED <<capacity, item>>,
           touched'[t] = {} =>
               touched[t] = {} /\ (Weighs(b, t)' => Weighs(b, t))
    PROVE  Fits(t)'
<1>1. \A c \in Bookings : c # b => (Weighs(c, t)' <=> Weighs(c, t))
      BY DEF RowBecomes, Weighs, Counts, Exists
<1>2. \A c \in Bookings, l \in Luggages : item'[c][l] <= item[c][l]
      BY WeightsNat DEF TypeOK
<1> QED
    BY <1>1, <1>2, LoadShrinks

\* A booking joins those that weigh on a trip that had room for it.
LEMMA LoadGrows ==
    ASSUME TypeOK, TypeOK', NEW t \in Trips, NEW b \in Bookings, ~ Weighs(b, t), Weighs(b, t)',
           \A c \in Bookings : c # b => (Weighs(c, t)' <=> Weighs(c, t)) /\ item'[c] = item[c],
           LoadOf(t) + SumFunction(item'[b]) <= capacity'[t]
    PROVE  Fits(t)'
<1> DEFINE S == {c \in Bookings : Weighs(c, t)'}
           T == {c \in Bookings : Weighs(c, t)}
           f == Weights'
           g == Weights
<1>1. S = T \cup {b} /\ b \notin T /\ IsFiniteSet(T)
      BY FiniteAssumption, FS_Subset
<1>2. \A c \in Bookings : f[c] = SumFunction(item'[c]) /\ f[c] \in Nat
  <2>1. \A c \in Bookings : item'[c] \in [Luggages -> Grams \cup {0}]
        BY DEF TypeOK
  <2> QED
      BY <2>1, GramsAre DEF Weights, ItemGrams
<1>3. \A c \in T : f[c] = g[c] /\ f[c] \in Nat
      BY <1>1, <1>2, WeightsType
<1>4. LoadOf(t)' = SumFunctionOnSet(f, S) /\ LoadOf(t) = SumFunctionOnSet(g, T)
      BY DEF LoadOf
<1>5. \A c \in T \cup {b} : f[c] \in Nat
      BY <1>2
<1> HIDE DEF S, T, f, g
<1>6. SumFunctionOnSet(f, T) = SumFunctionOnSet(g, T)
      BY <1>1, <1>3, SumSame
<1>7. SumFunctionOnSet(f, T \cup {b}) = f[b] + SumFunctionOnSet(f, T) /\ SumFunctionOnSet(f, T) \in Nat
      BY <1>1, <1>3, <1>5, SumAdd, SumNat
<1>8. LoadOf(t)' = LoadOf(t) + SumFunction(item'[b])
      BY <1>1, <1>2, <1>4, <1>6, <1>7
<1> QED
    BY <1>8 DEF Fits

\* While nobody holds the trip's lock, what weighs on it is what counts.
LEMMA UnlockedLoad ==
    ASSUME NEW t \in Trips, TripUnlocked(t) PROVE LoadOf(t) = GramsReserved(t)
<1>1. {b \in Bookings : Weighs(b, t)} = {b \in Bookings : Counts(b) /\ booking[b].trip = t}
      BY DEF TripUnlocked, Weighs
<1> QED
    BY <1>1, LoadIs DEF LoadOf

\* So is the load of a trip.
LEMMA LoadNat == ASSUME TypeOK, NEW t \in Trips PROVE LoadOf(t) \in Nat /\ capacity[t] \in Nat
<1> DEFINE T == {b \in Bookings : Weighs(b, t)}
<1>1. IsFiniteSet(T) /\ \A b \in T : b \in Bookings
      BY FiniteAssumption, FS_Subset
<1> HIDE DEF T
<1>2. SumFunctionOnSet(Weights, T) \in Nat
      BY <1>1, WeightsType, SumNat
<1> QED
    BY <1>2, WeightsNat DEF T, LoadOf, TypeOK

\* The check under the trip's lock is what a new reservation fits by.
LEMMA ReservingFits ==
    ASSUME TypeOK, TypeOK', InsertedOK, Reserving, NEW t \in Trips, Fits(t) PROVE Fits(t)'
<1> SUFFICES ASSUME NEW b \in Bookings,
                    \/ \E u \in Trips, request \in Requests : BeginReserveBooking(b, u, request)
                    \/ CommitReserveBooking(b)
                    \/ RollbackReserveBooking(b)
                    \/ PaymentWindowPasses(b)
             PROVE  Fits(t)'
    BY DEF Reserving
<1>0. \A c \in Bookings, l \in Luggages : item[c][l] \in Nat
      BY WeightsNat DEF TypeOK
<1>1. ASSUME NEW u \in Trips, NEW request \in Requests, BeginReserveBooking(b, u, request)
      PROVE  Fits(t)'
  <2>1. /\ UNCHANGED <<capacity, touched>> /\ TripUnlocked(u)
        /\ SumFunction(request) <= GramsDisponible(u)
        /\ booking[b].status = "NONE"
        /\ booking'[b].status = "NEW" /\ booking'[b].trip = u /\ item'[b] = request
        /\ \A c \in Bookings : c # b => booking'[c] = booking[c] /\ item'[c] = item[c]
        BY <1>1 DEF BeginReserveBooking, TypeOK, tripVars
  <2>2. ~ Weighs(b, t) /\ (Weighs(b, t)' <=> u = t)
        BY <2>1 DEF Weighs, Counts, Exists
  <2>3. \A c \in Bookings : c # b => (Weighs(c, t)' <=> Weighs(c, t))
        BY <2>1 DEF Weighs, Counts, Exists
  <2>4. CASE u # t
        BY <1>0, <2>1, <2>2, <2>3, <2>4, LoadShrinks
  <2>5. CASE u = t /\ touched[t] = {}
    <3>1. LoadOf(t) = GramsReserved(t) /\ LoadOf(t) <= capacity[t]
          BY <2>1, <2>5, UnlockedLoad DEF Fits
    <3>2. SumFunction(request) <= capacity[t] - LoadOf(t) /\ SumFunction(request) \in Nat
          BY <2>1, <2>5, <3>1, GramsAre DEF GramsDisponible, Requests
    <3>3. LoadOf(t) + SumFunction(item'[b]) <= capacity'[t]
          BY <2>1, <3>2, LoadNat
    <3> QED
        BY <2>1, <2>2, <2>3, <2>5, <3>3, LoadGrows
  <2>6. CASE touched[t] # {}
        BY <2>1, <2>6 DEF Fits
  <2> QED
      BY <2>4, <2>5, <2>6
<1>2. CASE CommitReserveBooking(b)
  <2>1. RowBecomes(b, "EN_PAIEMENT", "open", booking[b].deleted) /\ booking[b].status = "NEW"
        BY <1>2, RowSteps DEF CommitReserveBooking
  <2>2. UNCHANGED <<capacity, item, touched>>
        BY <1>2 DEF CommitReserveBooking, tripVars
  <2>3. Weighs(b, t)' => Weighs(b, t)
        BY <2>1 DEF RowBecomes, Weighs
  <2> QED
      BY <2>1, <2>2, <2>3, RowShrinks
<1>3. CASE RollbackReserveBooking(b)
  <2>1. /\ UNCHANGED <<capacity, touched>> /\ booking'[b].status = "NONE"
        /\ \A c \in Bookings : c # b => booking'[c] = booking[c] /\ item'[c] = item[c]
        BY <1>3 DEF RollbackReserveBooking, TypeOK, NoBooking, tripVars
  <2>2. ~ Weighs(b, t)' /\ \A c \in Bookings : c # b => (Weighs(c, t)' <=> Weighs(c, t))
        BY <2>1 DEF Weighs, Counts, Exists
  <2> QED
      BY <1>0, <2>1, <2>2, LoadShrinks
<1>4. CASE PaymentWindowPasses(b)
  <2>1. RowBecomes(b, booking[b].status, "past", booking[b].deleted)
        BY <1>4, RowSteps
  <2>2. UNCHANGED <<capacity, item, touched>>
        BY <1>4 DEF PaymentWindowPasses, tripVars
  <2>3. Weighs(b, t)' => Weighs(b, t)
        BY <2>1 DEF RowBecomes, Weighs, Counts, Exists
  <2> QED
      BY <2>1, <2>2, <2>3, RowShrinks
<1> QED
    BY <1>1, <1>2, <1>3, <1>4

\* The bookings that weigh on a trip after the UPDATE of a row to another status.
LEMMA WeighsAfter ==
    ASSUME NEW b \in Bookings, NEW st, NEW w, NEW d, RowBecomes(b, st, w, d), NEW t \in Trips
    PROVE  /\ Weighs(b, t)' <=>
                 /\ booking[b].trip = t
                 /\ \/ st \in {"CONFIRMEE", "PENDING_APPROVAL"} /\ ~ d
                    \/ st = "EN_PAIEMENT" /\ w = "open" /\ ~ d
                    \/ st = "NEW"
           /\ \A c \in Bookings : c # b => (Weighs(c, t)' <=> Weighs(c, t))
BY DEF RowBecomes, Weighs, Counts, Exists

\* A confirmation finds the grams among those that count, finds room for them under the
\* trip's lock, or is late and recorded as such.
LEMMA PayingFits ==
    ASSUME TypeOK, TypeOK', InsertedOK, Paying, NEW t \in Trips, Fits(t) PROVE Fits(t)'
<1> SUFFICES ASSUME NEW b \in Bookings,
                    \/ \E st \in {"PENDING", "COMPLETED"} : CreateTransaction(b, st)
                    \/ ConfirmBooking(b)
                    \/ BeginChargeSuccess(b)
                    \/ CommitChargeSuccess(b)
                    \/ RollbackChargeSuccess(b)
             PROVE  Fits(t)'
    BY DEF Paying
<1>0. \A c \in Bookings, l \in Luggages : item[c][l] \in Nat
      BY WeightsNat DEF TypeOK
<1>1. CASE \/ \E st \in {"PENDING", "COMPLETED"} : CreateTransaction(b, st)
           \/ BeginChargeSuccess(b) \/ RollbackChargeSuccess(b)
  <2>1. UNCHANGED <<booking, item, capacity, touched>>
        BY <1>1 DEF CreateTransaction, BeginChargeSuccess, RollbackChargeSuccess, tripVars
  <2> QED
      BY <1>0, <2>1, LoadShrinks DEF Weighs, Counts, Exists
<1>2. CASE ConfirmBooking(b)
  <2>1. RowBecomes(b, "CONFIRMEE", "none", booking[b].deleted)
        BY <1>2, RowSteps
  <2>2. UNCHANGED <<capacity, item, touched>> /\ Exists(b)
        BY <1>2 DEF ConfirmBooking, tripVars
  <2>3. CASE booking[b].trip # t \/ Counts(b)
    <3>1. Weighs(b, t)' => Weighs(b, t)
          BY <2>1, <2>3 DEF RowBecomes, Weighs
    <3> QED
        BY <2>1, <2>2, <3>1, RowShrinks
  <2>4. CASE booking[b].trip = t /\ ~ Counts(b) /\ touched[t] = {}
    <3>1. ~ Weighs(b, t) /\ Weighs(b, t)'
          BY <2>1, <2>2, <2>4, WeighsAfter DEF Weighs, Exists
    <3>2. TripUnlocked(t) /\ GramsReserved(t) + ItemGrams(b) <= capacity[t]
          BY <1>2, <2>4 DEF ConfirmBooking
    <3>3. LoadOf(t) + SumFunction(item'[b]) <= capacity'[t]
          BY <2>2, <3>2, UnlockedLoad DEF ItemGrams
    <3> QED
        BY <2>1, <2>2, <3>1, <3>3, WeighsAfter, LoadGrows
  <2>5. CASE touched[t] # {}
        BY <2>2, <2>5 DEF Fits
  <2> QED
      BY <2>3, <2>4, <2>5
<1>3. CASE CommitChargeSuccess(b)
  <2>1. RowBecomes(b, "CONFIRMEE", "none", booking[b].deleted)
        BY <1>3, RowSteps
  <2> DEFINE X == IF booking[b].deleted THEN {}
                  ELSE (IF Counts(b) THEN {} ELSE {booking[b].trip})
                       \cup (IF Holds(b) THEN {} ELSE LuggagesOf(b))
  <2>2. Touch(X, "late") /\ UNCHANGED <<capacity, item>>
        BY <1>3 DEF CommitChargeSuccess, tripVars
  <2>3. touched'[t] = {} => touched[t] = {} /\ t \notin X
    <3>1. "late" \in Bypasses
          BY DEF Bypasses
    <3> HIDE DEF X
    <3> QED
        BY <2>2, <3>1, TouchLeaves
  <2>4. t \notin X => (Weighs(b, t)' => Weighs(b, t))
        BY <2>1, WeighsAfter DEF Weighs
  <2> HIDE DEF X
  <2> QED
      BY <2>1, <2>2, <2>3, <2>4, RowShrinks
<1> QED
    BY <1>1, <1>2, <1>3

\* The operations that end a booking or move it on never make it weigh again.
LEMMA EndingFits ==
    ASSUME TypeOK, TypeOK', InsertedOK, Ending, NEW t \in Trips, Fits(t) PROVE Fits(t)'
<1> SUFFICES ASSUME NEW b \in Bookings,
                    \/ ExpirePendingBooking(b)
                    \/ CancelBooking(b)
                    \/ DeleteBooking(b)
                    \/ HandOverBooking(b)
                    \/ ConfirmDelivery(b)
                    \/ \E new \in {"EN_LITIGE", "REMBOURSEE", "TERMINE"} : OtherTransition(b, new)
             PROVE  Fits(t)'
    BY DEF Ending
<1>1. CASE DeleteBooking(b)
  <2>1. RowBecomes(b, booking[b].status, booking[b].window, TRUE)
        BY <1>1, RowSteps
  <2>2. /\ UNCHANGED <<capacity, touched>> /\ Exists(b)
        /\ \A c \in Bookings : c # b => item'[c] = item[c]
        BY <1>1 DEF DeleteBooking, TypeOK, tripVars
  <2>3. ~ Weighs(b, t)'
        BY <2>1, <2>2 DEF RowBecomes, Weighs, Counts, Exists
  <2>5. \A c \in Bookings : c # b => (Weighs(c, t)' <=> Weighs(c, t))
        BY <2>1 DEF RowBecomes, Weighs, Counts, Exists
  <2>4. \A c \in Bookings, l \in Luggages : item[c][l] \in Nat
        BY WeightsNat DEF TypeOK
  <2> QED
      BY <2>2, <2>3, <2>4, <2>5, LoadShrinks
<1>2. CASE \/ ExpirePendingBooking(b) \/ CancelBooking(b) \/ HandOverBooking(b) \/ ConfirmDelivery(b)
           \/ \E new \in {"EN_LITIGE", "REMBOURSEE", "TERMINE"} : OtherTransition(b, new)
  <2>1. UNCHANGED <<capacity, item, touched>>
        BY <1>2 DEF ExpirePendingBooking, CancelBooking, HandOverBooking, ConfirmDelivery, OtherTransition, tripVars
  <2> DEFINE Ends == {"EXPIREE", "ANNULE", "EN_TRANSIT", "LIVREE", "EN_LITIGE", "REMBOURSEE", "TERMINE"}
  <2>2. \E st \in Ends : \E w, d : RowBecomes(b, st, w, d)
    <3>1. CASE ExpirePendingBooking(b)
          BY <3>1, RowSteps
    <3>2. CASE CancelBooking(b)
          BY <3>2, RowSteps
    <3>3. CASE HandOverBooking(b)
          BY <3>3, RowSteps
    <3>4. CASE ConfirmDelivery(b)
          BY <3>4, RowSteps
    <3>5. CASE \E new \in {"EN_LITIGE", "REMBOURSEE", "TERMINE"} : OtherTransition(b, new)
          BY <3>5, RowSteps
    <3> QED
        BY <1>2, <3>1, <3>2, <3>3, <3>4, <3>5
  <2>3. PICK st \in Ends : \E w, d : RowBecomes(b, st, w, d)
        BY <2>2
  <2>4. ~ Weighs(b, t)'
        BY <2>3, WeighsAfter
  <2> QED
      BY <2>1, <2>3, <2>4, RowShrinks
<1> QED
    BY <1>1, <1>2

\* An edit touches the trip on which it adds weight, and an item taken away weighs nothing.
LEMMA EditingFits ==
    ASSUME TypeOK, TypeOK', InsertedOK, Editing, NEW t \in Trips, Fits(t) PROVE Fits(t)'
<1>0. \A c \in Bookings, l \in Luggages : item[c][l] \in Nat
      BY WeightsNat DEF TypeOK
<1>1. CASE \/ \E b \in EditedBookings, k \in Luggages : BeginCreateBookingItem(b, k)
           \/ RefuseBookingItem
           \/ \E l \in EditedLuggages, st \in LuggageEdits : UpdateLuggage(l, st)
           \/ \E u \in EditedTrips : TripCloses(u) \/ UpdateTripReopens(u) \/ DestroyTrip(u)
  <2>1. UNCHANGED <<booking, item, capacity>>
        BY <1>1 DEF BeginCreateBookingItem, RefuseBookingItem, UpdateLuggage, TripCloses, UpdateTripReopens,
                    DestroyTrip, tripVars
  <2>2. touched'[t] = {} => touched[t] = {}
        BY <1>1, TouchLeaves DEF BeginCreateBookingItem, RefuseBookingItem, UpdateLuggage, TripCloses,
                    UpdateTripReopens, DestroyTrip, Bypasses
  <2> QED
      BY <1>0, <2>1, <2>2, LoadShrinks DEF Weighs, Counts, Exists
<1>2. ASSUME NEW b \in EditedBookings, NEW k \in Luggages, NEW g \in Grams,
             CommitCreateBookingItem(b, k, g) \/ UpdateBookingItem(b, k, g)
      PROVE  Fits(t)'
  <2>1. /\ UNCHANGED <<booking, capacity>>
        /\ \A c \in Bookings : c # b => item'[c] = item[c]
        BY <1>2 DEF CommitCreateBookingItem, UpdateBookingItem, TypeOK, tripVars
  <2>5. \E X : Touch(X, "item") /\ booking[b].trip \in X
    <3>1. Touch({booking[b].trip, k}, "item") \/ Touch({booking[b].trip}, "item")
          BY <1>2 DEF CommitCreateBookingItem, UpdateBookingItem
    <3> QED
        BY <3>1
  <2>2. touched'[t] = {} => touched[t] = {} /\ booking[b].trip # t
    <3>1. PICK X : Touch(X, "item") /\ booking[b].trip \in X
          BY <2>5
    <3>2. "item" \in Bypasses
          BY DEF Bypasses
    <3> QED
        BY <3>1, <3>2, TouchLeaves
  <2>3. \A c \in Bookings : (Weighs(c, t)' <=> Weighs(c, t)) /\ (Weighs(c, t) => booking[c].trip = t)
        BY <2>1 DEF Weighs, Counts, Exists
  <2> QED
      BY <1>0, <2>1, <2>2, <2>3, LoadShrinks
<1>3. ASSUME NEW b \in EditedBookings, NEW k \in Luggages, DestroyBookingItem(b, k)
      PROVE  Fits(t)'
  <2>1. /\ UNCHANGED <<booking, capacity>> /\ Touch({k}, "item")
        /\ item' = [item EXCEPT ![b][k] = 0]
        BY <1>3 DEF DestroyBookingItem, tripVars
  <2>2. touched'[t] = {} => touched[t] = {}
        BY <2>1, TouchLeaves DEF Bypasses
  <2>3. \A c \in Bookings, l \in Luggages : item'[c][l] = item[c][l] \/ item'[c][l] = 0
        BY <2>1, EditedAssumption DEF TypeOK
  <2> QED
      BY <1>0, <2>1, <2>2, <2>3, LoadShrinks DEF Weighs, Counts, Exists
<1>4. ASSUME NEW k \in EditedLuggages, DestroyLuggage(k)
      PROVE  Fits(t)'
  <2>1. UNCHANGED <<booking, capacity, touched>>
        BY <1>4 DEF DestroyLuggage, tripVars
  <2>2. \A c \in Bookings, l \in Luggages : item'[c][l] = item[c][l] \/ item'[c][l] = 0
        BY <1>4, EditedAssumption DEF DestroyLuggage, TypeOK
  <2> QED
      BY <1>0, <2>1, <2>2, LoadShrinks DEF Weighs, Counts, Exists
<1>5. ASSUME NEW u \in EditedTrips, NEW c \in Capacities, UpdateTripCapacity(u, c)
      PROVE  Fits(t)'
  <2>1. UNCHANGED <<booking, item>> /\ Touch({u}, "capacity") /\ (u # t => capacity'[t] = capacity[t])
        BY <1>5 DEF UpdateTripCapacity, TypeOK
  <2>2. touched'[t] = {} => touched[t] = {} /\ u # t
        BY <2>1, TouchLeaves DEF Bypasses
  <2>3. CASE u # t
        BY <1>0, <2>1, <2>2, <2>3, LoadShrinks DEF Weighs, Counts, Exists
  <2>4. CASE u = t
        BY <2>2, <2>4 DEF Fits
  <2> QED
      BY <2>3, <2>4
<1> QED
    BY <1>1, <1>2, <1>3, <1>4, <1>5 DEF Editing

\* Every step keeps the load within the capacity.
LEMMA FitsStep ==
    TypeOK /\ InsertedOK /\ CapacityInv /\ [Next]_vars => CapacityInv'
<1> SUFFICES ASSUME TypeOK, InsertedOK, CapacityInv, [Next]_vars, NEW t \in Trips PROVE Fits(t)'
    BY DEF CapacityInv
<1>1. TypeOK' /\ Fits(t)
      BY TypeStep DEF CapacityInv
<1>2. CASE UNCHANGED vars
  <2>1. UNCHANGED <<booking, item, capacity, touched>>
        BY <1>2 DEF vars, tripVars
  <2>2. \A c \in Bookings, l \in Luggages : item[c][l] \in Nat
        BY WeightsNat DEF TypeOK
  <2> QED
      BY <1>1, <2>1, <2>2, LoadShrinks DEF Weighs, Counts, Exists
<1> QED
    BY <1>1, <1>2, ReservingFits, PayingFits, EndingFits, EditingFits DEF Next

\* It holds at first.
LEMMA FitsInit == Init => CapacityInv
<1> SUFFICES ASSUME Init, NEW t \in Trips PROVE LoadOf(t) <= capacity[t]
    BY DEF CapacityInv, Fits
<1>1. {b \in Bookings : Weighs(b, t)} = {}
      BY DEF Init, Weighs, Counts, Exists, NoBooking
<1>2. LoadOf(t) = 0
      BY <1>1, SumEmpty DEF LoadOf
<1> QED
    BY <1>2, WeightsNat DEF Init

\* ReserveBooking's check of the capacity and its insert are two steps, but nothing that
\* happens between them lets the grams that count exceed the capacity, except what goes
\* around the trip's lock, however many bookings there are and whatever they weigh.
THEOREM NoOverbookingAlways == Spec => []NoOverbooking
<1>1. TypeOK /\ InsertedOK /\ CapacityInv /\ [Next]_vars => TypeOK' /\ InsertedOK' /\ CapacityInv'
      BY TypeStep, FitsStep
<1>2. Init => TypeOK /\ InsertedOK /\ CapacityInv
      BY TypeInit, FitsInit
<1>3. CapacityInv => NoOverbooking
      BY CapacityInvSays
<1> QED
    BY <1>1, <1>2, <1>3, PTL DEF Spec
-----------------------------------------------------------------------------
(* The two ways in which the load of a trip is computed.                   *)

\* The items of a deleted booking are gone, unless one was added behind it.
DeletedIsEmpty(b) ==
    booking[b].deleted /\ "item" \notin touched[booking[b].trip] => \A l \in Luggages : item[b][l] = 0

ScopeInv == \A b \in Bookings : DeletedIsEmpty(b)

\* What the scope of the list sums and the page does not are deleted bookings, and these
\* weigh nothing.
LEMMA ScopeInvGives == TypeOK /\ ScopeInv => ScopeAgrees
<1> SUFFICES ASSUME TypeOK, ScopeInv, NEW t \in Trips, "item" \notin touched[t]
             PROVE  ScopeReservable(t) <=> CanBeReserved(t)
    BY DEF ScopeAgrees
<1> DEFINE B == {b \in Bookings :
                   \/ booking[b].status \in {"CONFIRMEE", "PENDING_APPROVAL"}
                   \/ booking[b].status = "EN_PAIEMENT" /\ booking[b].window = "open"}
           T == {b \in B : booking[b].trip = t}
           S == {b \in Bookings : Counts(b) /\ booking[b].trip = t}
<1>1. S \in SUBSET T /\ IsFiniteSet(T) /\ \A b \in T : b \in Bookings
      BY FiniteAssumption, FS_Subset DEF Counts
<1>2. Load(t, B) = SumFunctionOnSet(Weights, T)
      BY DEF Load, Weights
<1>3. GramsReserved(t) = SumFunctionOnSet(Weights, S)
      BY LoadIs
<1>4. \A b \in T \ S : booking[b].deleted /\ booking[b].trip = t
      BY DEF Counts, Exists
<1>5. ScopeReservable(t) <=> trip[t] = "open" /\ Load(t, B) < capacity[t]
      BY DEF ScopeReservable
<1> HIDE DEF B, T, S
<1>6. \A b \in T \ S : Weights[b] = 0
  <2> SUFFICES ASSUME NEW b \in T \ S PROVE Weights[b] = 0
      OBVIOUS
  <2>1. b \in Bookings /\ \A l \in Luggages : item[b][l] = 0
        BY <1>1, <1>4 DEF ScopeInv, DeletedIsEmpty
  <2>2. item[b] \in [Luggages -> Grams \cup {0}]
        BY <2>1 DEF TypeOK
  <2> QED
      BY <2>1, <2>2, GramsAre, WeightsType
<1>7. \A b \in T : Weights[b] \in Nat
      BY <1>1, WeightsType
<1>8. SumFunctionOnSet(Weights, T) = SumFunctionOnSet(Weights, S)
      BY <1>1, <1>6, <1>7, SumSkip
<1>9. SumFunctionOnSet(Weights, T) \in Nat /\ capacity[t] \in Nat
      BY <1>1, <1>7, SumNat, WeightsNat DEF TypeOK
<1> QED
    BY <1>2, <1>3, <1>5, <1>8, <1>9 DEF CanBeReserved, GramsDisponible

\* A step that deletes no booking without its items and adds none to a deleted one.
LEMMA ScopeSame ==
    ASSUME TypeOK, ScopeInv, NEW b \in Bookings,
           \A x \in Trips \cup Luggages : "item" \in touched[x] => "item" \in touched'[x],
           booking'[b].deleted =>
               /\ booking[b].deleted /\ booking'[b].trip = booking[b].trip
               /\ "item" \notin touched'[booking[b].trip] =>
                     \A l \in Luggages : item'[b][l] = item[b][l] \/ item'[b][l] = 0
    PROVE  DeletedIsEmpty(b)'
<1>1. booking[b].deleted => booking[b] \in BookingRows
  <2>1. booking[b] = NoBooking \/ booking[b] \in BookingRows
        BY DEF TypeOK, BookingRows
  <2> QED
      BY <2>1 DEF NoBooking
<1>2. booking[b].deleted => booking[b].trip \in Trips \cup Luggages
      BY <1>1 DEF BookingRows
<1> QED
    BY <1>2 DEF ScopeInv, DeletedIsEmpty

\* What has been touched stays so.
LEMMA TouchKeeps ==
    ASSUME TypeOK, NEW X, NEW how \in Bypasses, Touch(X, how)
    PROVE  \A x \in Trips \cup Luggages :
              /\ "item" \in touched[x] => "item" \in touched'[x]
              /\ x \in X => how \in touched'[x]
<1>1. \A x \in Trips \cup Luggages : touched'[x] = IF x \in X THEN touched[x] \cup {how} ELSE touched[x]
      BY TouchType
<1> QED
    BY <1>1

\* The operations of the locked protocol.
LEMMA ProtocolScope ==
    ASSUME TypeOK, InsertedOK, ScopeInv, Reserving \/ Paying \/ Ending PROVE ScopeInv'
<1> SUFFICES ASSUME NEW c \in Bookings PROVE DeletedIsEmpty(c)'
    BY DEF ScopeInv
<1>1. PICK b \in Bookings :
          \/ \E t \in Trips, request \in Requests : BeginReserveBooking(b, t, request)
          \/ RollbackReserveBooking(b)
          \/ DeleteBooking(b)
          \/ BeginChargeSuccess(b) \/ RollbackChargeSuccess(b)
          \/ \E st \in {"PENDING", "COMPLETED"} : CreateTransaction(b, st)
          \/ CommitChargeSuccess(b)
          \/ CommitReserveBooking(b) \/ PaymentWindowPasses(b) \/ ConfirmBooking(b)
          \/ ExpirePendingBooking(b) \/ CancelBooking(b) \/ HandOverBooking(b) \/ ConfirmDelivery(b)
          \/ \E new \in {"EN_LITIGE", "REMBOURSEE", "TERMINE"} : OtherTransition(b, new)
      BY DEF Reserving, Paying, Ending
<1>2. CASE \/ \E t \in Trips, request \in Requests : BeginReserveBooking(b, t, request)
           \/ RollbackReserveBooking(b)
  <2>1. /\ UNCHANGED touched /\ ~ booking'[b].deleted
        /\ \A d \in Bookings : d # b => booking'[d] = booking[d] /\ item'[d] = item[d]
        BY <1>2 DEF BeginReserveBooking, RollbackReserveBooking, NoBooking, TypeOK
  <2> QED
      BY <2>1, ScopeSame
<1>3. CASE DeleteBooking(b)
  <2>1. /\ UNCHANGED touched /\ item'[b] = NoItems
        /\ \A d \in Bookings : d # b => booking'[d] = booking[d] /\ item'[d] = item[d]
        BY <1>3 DEF DeleteBooking, TypeOK
  <2>2. CASE c = b
        BY <2>1, <2>2 DEF NoItems, DeletedIsEmpty
  <2>3. CASE c # b
        BY <2>1, <2>3, ScopeSame
  <2> QED
      BY <2>2, <2>3
<1>4. CASE \/ BeginChargeSuccess(b) \/ RollbackChargeSuccess(b)
           \/ \E st \in {"PENDING", "COMPLETED"} : CreateTransaction(b, st)
  <2>1. UNCHANGED <<booking, item, touched>>
        BY <1>4 DEF BeginChargeSuccess, RollbackChargeSuccess, CreateTransaction
  <2> QED
      BY <2>1, ScopeSame
<1>5. CASE CommitChargeSuccess(b)
  <2>1. RowBecomes(b, "CONFIRMEE", "none", booking[b].deleted) /\ UNCHANGED item
        BY <1>5, RowSteps DEF CommitChargeSuccess
  <2>2. \E X : Touch(X, "late")
        BY <1>5 DEF CommitChargeSuccess
  <2>3. \A x \in Trips \cup Luggages : "item" \in touched[x] => "item" \in touched'[x]
        BY <2>2, TouchKeeps DEF Bypasses
  <2> QED
      BY <2>1, <2>3, ScopeSame DEF RowBecomes
<1>6. CASE \/ CommitReserveBooking(b) \/ PaymentWindowPasses(b) \/ ConfirmBooking(b)
           \/ ExpirePendingBooking(b) \/ CancelBooking(b) \/ HandOverBooking(b) \/ ConfirmDelivery(b)
           \/ \E new \in {"EN_LITIGE", "REMBOURSEE", "TERMINE"} : OtherTransition(b, new)
  <2>1. UNCHANGED <<item, touched>>
        BY <1>6 DEF CommitReserveBooking, PaymentWindowPasses, ConfirmBooking, ExpirePendingBooking,
                    CancelBooking, HandOverBooking, ConfirmDelivery, OtherTransition
  <2>2. \E st, w : RowBecomes(b, st, w, booking[b].deleted)
        BY <1>6, RowSteps
  <2> QED
      BY <2>1, <2>2, ScopeSame DEF RowBecomes
<1> QED
    BY <1>1, <1>2, <1>3, <1>4, <1>5, <1>6

\* An item that is added or changed is recorded on the trip; the others are taken away.
LEMMA EditingScope ==
    ASSUME TypeOK, InsertedOK, ScopeInv, Editing PROVE ScopeInv'
<1> SUFFICES ASSUME NEW c \in Bookings PROVE DeletedIsEmpty(c)'
    BY DEF ScopeInv
<1>1. CASE \/ \E b \in EditedBookings, k \in Luggages : BeginCreateBookingItem(b, k)
           \/ RefuseBookingItem
           \/ \E t \in EditedTrips : TripCloses(t) \/ UpdateTripReopens(t) \/ DestroyTrip(t)
  <2>1. UNCHANGED <<booking, item, touched>>
        BY <1>1 DEF BeginCreateBookingItem, RefuseBookingItem, TripCloses, UpdateTripReopens, DestroyTrip
  <2> QED
      BY <2>1, ScopeSame
<1>2. ASSUME NEW b \in EditedBookings, NEW k \in Luggages, NEW g \in Grams,
             CommitCreateBookingItem(b, k, g) \/ UpdateBookingItem(b, k, g)
      PROVE  DeletedIsEmpty(c)'
  <2>1. /\ UNCHANGED booking
        /\ \A d \in Bookings : d # b => item'[d] = item[d]
        BY <1>2 DEF CommitCreateBookingItem, UpdateBookingItem, TypeOK
  <2>2. Touch({booking[b].trip, k}, "item") \/ Touch({booking[b].trip}, "item")
        BY <1>2 DEF CommitCreateBookingItem, UpdateBookingItem
  <2>3. /\ \A x \in Trips \cup Luggages : "item" \in touched[x] => "item" \in touched'[x]
        /\ booking[b].trip \in Trips \cup Luggages => "item" \in touched'[booking[b].trip]
    <3>1. \E X : Touch(X, "item") /\ booking[b].trip \in X
          BY <2>2
    <3>2. "item" \in Bypasses
          BY DEF Bypasses
    <3> QED
        BY <3>1, <3>2, TouchKeeps
  <2>4. CASE c = b
    <3>1. booking[b] = NoBooking \/ booking[b] \in BookingRows
          BY EditedAssumption DEF TypeOK, BookingRows
    <3>2. booking[b].deleted => booking[b].trip \in Trips \cup Luggages
          BY <3>1 DEF NoBooking, BookingRows
    <3> QED
        BY <2>1, <2>3, <2>4, <3>2 DEF DeletedIsEmpty
  <2>5. CASE c # b
        BY <2>1, <2>3, <2>5, ScopeSame
  <2> QED
      BY <2>4, <2>5
<1>3. ASSUME NEW b \in EditedBookings, NEW k \in Luggages, DestroyBookingItem(b, k)
      PROVE  DeletedIsEmpty(c)'
  <2>1. UNCHANGED booking /\ Touch({k}, "item") /\ item' = [item EXCEPT ![b][k] = 0]
        BY <1>3 DEF DestroyBookingItem
  <2>2. \A x \in Trips \cup Luggages : "item" \in touched[x] => "item" \in touched'[x]
        BY <2>1, TouchKeeps DEF Bypasses
  <2>3. \A l \in Luggages : item'[c][l] = item[c][l] \/ item'[c][l] = 0
        BY <2>1, EditedAssumption DEF TypeOK
  <2> QED
      BY <2>1, <2>2, <2>3, ScopeSame
<1>4. ASSUME NEW k \in EditedLuggages, NEW st \in LuggageEdits, UpdateLuggage(k, st)
      PROVE  DeletedIsEmpty(c)'
  <2>1. UNCHANGED <<booking, item>> /\ Touch({k}, "luggage")
        BY <1>4 DEF UpdateLuggage
  <2>2. \A x \in Trips \cup Luggages : "item" \in touched[x] => "item" \in touched'[x]
        BY <2>1, TouchKeeps DEF Bypasses
  <2> QED
      BY <2>1, <2>2, ScopeSame
<1>5. ASSUME NEW k \in EditedLuggages, DestroyLuggage(k)
      PROVE  DeletedIsEmpty(c)'
  <2>1. /\ UNCHANGED <<booking, touched>>
        /\ \A l \in Luggages : item'[c][l] = item[c][l] \/ item'[c][l] = 0
        BY <1>5, EditedAssumption DEF DestroyLuggage, TypeOK
  <2> QED
      BY <2>1, ScopeSame
<1>6. ASSUME NEW t \in EditedTrips, NEW g \in Capacities, UpdateTripCapacity(t, g)
      PROVE  DeletedIsEmpty(c)'
  <2>1. UNCHANGED <<booking, item>> /\ Touch({t}, "capacity")
        BY <1>6 DEF UpdateTripCapacity
  <2>2. \A x \in Trips \cup Luggages : "item" \in touched[x] => "item" \in touched'[x]
        BY <2>1, TouchKeeps DEF Bypasses
  <2> QED
      BY <2>1, <2>2, ScopeSame
<1> QED
    BY <1>1, <1>2, <1>3, <1>4, <1>5, <1>6 DEF Editing

\* The list of trips and the page of a trip agree on what can be reserved, although the SQL
\* of the first counts deleted bookings: their items are gone, unless one was added or
\* changed behind the booking.
THEOREM ScopeAgreesAlways == Spec => []ScopeAgrees
<1>1. Init => TypeOK /\ InsertedOK /\ ScopeInv
      BY TypeInit DEF Init, ScopeInv, DeletedIsEmpty, NoBooking
<1>2. TypeOK /\ InsertedOK /\ ScopeInv /\ [Next]_vars => TypeOK' /\ InsertedOK' /\ ScopeInv'
  <2>1. ScopeInv /\ UNCHANGED vars => ScopeInv'
        BY DEF vars, tripVars, ScopeInv, DeletedIsEmpty
  <2> QED
      BY <2>1, TypeStep, ProtocolScope, EditingScope DEF Next
<1>3. TypeOK /\ ScopeInv => ScopeAgrees
      BY ScopeInvGives
<1> QED
    BY <1>1, <1>2, <1>3, PTL DEF Spec
================================================================================
