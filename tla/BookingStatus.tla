---------------------------- MODULE BookingStatus ----------------------------
(***************************************************************************)
(* The status machine of a booking: app/Enums/BookingStatusEnum.php.  The  *)
(* enum is pure data, so this module has constants only; BookingPayment    *)
(* and Reservation extend it.                                              *)
(***************************************************************************)

\* The cases of the enum.  The last two are the deprecated approval flow.
BookingStatuses ==
    {"EN_ATTENTE", "EN_PAIEMENT", "PAIEMENT_ECHOUE", "CONFIRMEE", "EN_TRANSIT",
     "LIVREE", "TERMINE", "ANNULE", "REMBOURSEE", "EXPIREE", "EN_LITIGE",
     "SUSPENDUE", "PENDING_APPROVAL", "DECLINED_BY_TRAVELER"}

\* allowedTransitions() as a set of (from, to) pairs.
AllowedTransitions ==
    ({"EN_ATTENTE"}       \X {"EN_PAIEMENT", "ANNULE"})
    \cup ({"EN_PAIEMENT"}      \X {"CONFIRMEE", "PAIEMENT_ECHOUE", "EXPIREE", "ANNULE"})
    \cup ({"PAIEMENT_ECHOUE"}  \X {"EN_PAIEMENT", "ANNULE"})
    \cup ({"CONFIRMEE"}        \X {"EN_TRANSIT", "ANNULE", "EN_LITIGE", "REMBOURSEE"})
    \cup ({"EN_TRANSIT"}       \X {"LIVREE", "EN_LITIGE"})
    \cup ({"LIVREE"}           \X {"TERMINE", "EN_LITIGE"})
    \cup ({"EN_LITIGE"}        \X {"REMBOURSEE", "TERMINE", "SUSPENDUE"})
    \cup ({"SUSPENDUE"}        \X {"EN_LITIGE", "ANNULE"})
    \cup ({"PENDING_APPROVAL"} \X {"EN_PAIEMENT", "DECLINED_BY_TRAVELER", "ANNULE"})

CanTransitionTo(from, to) == <<from, to>> \in AllowedTransitions

\* isFinal()
FinalStatuses == {"ANNULE", "REMBOURSEE", "EXPIREE", "TERMINE", "DECLINED_BY_TRAVELER"}

\* canEnterDispute()
DisputableStatuses == {"CONFIRMEE", "EN_TRANSIT", "LIVREE"}
=============================================================================
