------------------------------- MODULE LockOrder -------------------------------
(***************************************************************************)
(* The row locks that the operations on bookings, trips and luggages take, *)
(* and in which order.  The other modules treat an operation as one step   *)
(* or two; this one shows what that hides, which operations can wait for   *)
(* each other in a circle.                                                 *)
(*                                                                         *)
(* A lock is a row and one of three modes of PostgreSQL, kept until the    *)
(* end of the database transaction: lockForUpdate() is FOR UPDATE, an      *)
(* UPDATE that leaves the keys alone is FOR NO KEY UPDATE, and an INSERT   *)
(* locks the rows its foreign keys point at FOR KEY SHARE, in the order of *)
(* the migration.  PostgreSQL is external: it aborts one transaction of a  *)
(* circle, and DB::transaction() is called without attempts, so nothing is *)
(* retried.                                                                *)
(*                                                                         *)
(* Left out, because they add no circle:                                   *)
(*  - operations that hold nothing while they wait (OpenDispute,           *)
(*    UpdateDisputeStatus, AddDisputeMessage, deleting a trip or a         *)
(*    luggage, creating a luggage, UpdateTrip but for the trip's fees,     *)
(*    which nothing else locks);                                           *)
(*  - foreign keys to a row the operation has locked or inserted itself,   *)
(*    and to users and ledger accounts, which conflict only with a change  *)
(*    of a user's email, a transaction that locks nothing else;            *)
(*  - rows of booking_items, locked alone or beside their luggage, whose   *)
(*    lock here stands for both, and the webhook's own row of its log.     *)
(***************************************************************************)
EXTENDS Naturals

CONSTANTS
    Processes,  \* PHP processes: requests, jobs, commands
    Bookings,
    Trips,
    Luggages,
    TripOf      \* the trip of a booking

ASSUME TripOfAssumption == TripOf \in [Bookings -> Trips]

VARIABLES
    op,     \* the operation a process runs, with the row it is about, or Idle
    held,   \* the locks it has
    want    \* the lock it is waiting for, or NoLock

vars == <<op, held, want>>

Txs == {"charge", "payout"}     \* rows of transactions of a booking
Modes == {"share", "nokey", "update"}

\* A lock is its row's kind and identity, and its mode; the charge, the payout and the
\* dispute of a booking have the booking's identity.
Locks == ((Txs \cup {"booking", "dispute"}) \X Bookings \X Modes)
    \cup ({"trip"} \X Trips \X Modes)
    \cup ({"luggage"} \X Luggages \X Modes)

Idle == <<"none", "none">>
NoLock == <<"none", "none", "none">>

\* External: which modes exclude each other on the same row.
Conflict(k, l) ==
    /\ k[1] = l[1] /\ k[2] = l[2]
    /\ \/ "update" \in {k[3], l[3]}
       \/ k[3] = "nokey" /\ l[3] = "nokey"

\* Operations that lock a row of transactions before the booking, or without it.
TxFirst == {"RefundTransaction", "HandlePaymentWebhook", "MarkPayoutCompleted",
            "BackfillLedgerEntries"}

BookingFirst ==
    {"ConfirmBooking", "HandOverBooking", "ConfirmDelivery", "CancelBooking",
     "CreateTransaction", "CreatePayoutTransaction", "ResolveWithRefund",
     "ResolveWithPayout", "CreateBookingItem"}

\* CancelBooking stands for ExpirePendingBooking and DeleteBooking, RefundTransaction
\* for AdminRefundTransaction, the charge for the refund a webhook is about and the
\* payout for the fee beside it.
Operations == ((TxFirst \cup BookingFirst) \X Bookings)
    \cup ({"ReserveBooking"} \X Trips)
    \cup ({"UpdateLuggage"} \X Luggages)
-----------------------------------------------------------------------------
\* The row an operation locks first.
FirstKind(name) ==
    CASE name \in BookingFirst -> "booking"
      [] name = "ReserveBooking" -> "trip"
      [] name = "UpdateLuggage" -> "luggage"
      [] name \in {"RefundTransaction", "HandlePaymentWebhook", "BackfillLedgerEntries"} -> "charge"
      [] name = "MarkPayoutCompleted" -> "payout"

\* Mutant: a payment and a payout read their booking without a lock, and only their
\* foreign key locks it.
FirstMode_ReadsBooking(name) ==
    IF name = "UpdateLuggage" THEN "nokey"
    ELSE IF name \in {"CreateBookingItem", "BackfillLedgerEntries",
                      "CreateTransaction", "CreatePayoutTransaction"} THEN "share"
    ELSE "update"

\* An added item and a ledger entry lock by their foreign keys alone, a luggage is
\* written without being read under a lock, all others begin with lockForUpdate().
FirstMode(name) ==
    CASE name = "UpdateLuggage" -> "nokey"
      [] name \in {"CreateBookingItem", "BackfillLedgerEntries"} -> "share"
      [] OTHER -> "update"

First(o) == <<FirstKind(o[1]), o[2], FirstMode(o[1])>>

LuggageLocks(mode) == {"luggage"} \X Luggages \X {mode}
TripLocks(mode) == {"trip"} \X Trips \X {mode}

\* The lock first, and next once it is held.
Then(first, next, h) == IF first \notin h THEN {first} ELSE next

\* One lock of a set, and next once one is held.
OneOf(locks, next, h) == IF h \cap locks = {} THEN locks ELSE next

\* The locks an operation may take after its first one.  The luggages of a request come
\* from a whereIn, those of a booking from its items, and the rows of transactions from
\* a where: their order is the database's.  A refund by decision fails the payout before
\* it looks for the charge; every step may also be the last.
Rest(o, h) ==
    LET b == o[2]
        Tx(kind, mode) == <<kind, b, mode>>
        TxLocks == {Tx("charge", "update"), Tx("payout", "update")}
    IN CASE o[1] = "ReserveBooking" -> LuggageLocks("update")
         [] o[1] \in {"ConfirmBooking", "HandOverBooking", "ConfirmDelivery"} ->
                {<<"trip", TripOf[b], "update">>}
         [] o[1] = "CancelBooking" -> LuggageLocks("nokey")
         [] o[1] \in {"CreateTransaction", "CreatePayoutTransaction"} -> TxLocks
         [] o[1] = "ResolveWithRefund" ->
                IF Tx("dispute", "nokey") \in h THEN {}
                ELSE IF Tx("charge", "update") \notin h
                THEN {Tx("payout", "nokey"), Tx("charge", "update")}
                ELSE {Tx("payout", "update"), Tx("dispute", "nokey")}
         [] o[1] = "ResolveWithPayout" ->
                Then(Tx("payout", "nokey"), {Tx("dispute", "nokey")}, h)
         [] o[1] = "RefundTransaction" -> Then(<<"booking", b, "update">>, TxLocks, h)
         [] o[1] \in {"HandlePaymentWebhook", "MarkPayoutCompleted"} -> {<<"booking", b, "nokey">>}
         [] o[1] = "BackfillLedgerEntries" -> {Tx("payout", "share")}
         [] o[1] = "CreateBookingItem" ->
                OneOf(LuggageLocks("share"), {<<"trip", TripOf[b], "share">>}, h)
         [] o[1] = "UpdateLuggage" -> OneOf(TripLocks("share"), {}, h)

\* The locks that an operation may ask for next, having h.
NextLocks(o, h) == Then(First(o), Rest(o, h), h) \ h
-----------------------------------------------------------------------------
TypeOK ==
    /\ op \in [Processes -> Operations \cup {Idle}]
    /\ held \in [Processes -> SUBSET Locks]
    /\ want \in [Processes -> Locks \cup {NoLock}]
    /\ \A p \in Processes : want[p] \notin held[p]

Init ==
    /\ op = [p \in Processes |-> Idle]
    /\ held = [p \in Processes |-> {}]
    /\ want = [p \in Processes |-> NoLock]

Start(p, o) ==
    /\ op[p] = Idle
    /\ op' = [op EXCEPT ![p] = o]
    /\ UNCHANGED <<held, want>>

Ask(p) ==
    /\ op[p] # Idle /\ want[p] = NoLock
    /\ \E l \in NextLocks(op[p], held[p]) : want' = [want EXCEPT ![p] = l]
    /\ UNCHANGED <<op, held>>

Acquire(p) ==
    /\ want[p] # NoLock
    /\ \A q \in Processes \ {p} : \A k \in held[q] : ~Conflict(k, want[p])
    /\ held' = [held EXCEPT ![p] = @ \cup {want[p]}]
    /\ want' = [want EXCEPT ![p] = NoLock]
    /\ UNCHANGED op

\* Mutant: the transaction is left open.
End_LeftOpen(p) ==
    /\ op[p] # Idle /\ want[p] = NoLock
    /\ op' = [op EXCEPT ![p] = Idle]
    /\ UNCHANGED <<held, want>>

\* Commit, or the rollback of a guard that throws after any of the locks.
End(p) ==
    /\ op[p] # Idle /\ want[p] = NoLock
    /\ op' = [op EXCEPT ![p] = Idle]
    /\ held' = [held EXCEPT ![p] = {}]
    /\ UNCHANGED want

WaitsFor(p, q) == p # q /\ \E k \in held[q] : Conflict(k, want[p])

\* Every member waits for another member.
Deadlocked(D) == D # {} /\ \A p \in D : \E q \in D : WaitsFor(p, q)

\* One circle, and nobody who merely waits for it.
Circle(D) == Deadlocked(D) /\ \A E \in SUBSET D : Deadlocked(E) => E = D

\* External: after deadlock_timeout one member of the circle is rolled back.
Abort(p) ==
    /\ \E D \in SUBSET Processes : p \in D /\ Circle(D)
    /\ op' = [op EXCEPT ![p] = Idle]
    /\ held' = [held EXCEPT ![p] = {}]
    /\ want' = [want EXCEPT ![p] = NoLock]

Next ==
    \E p \in Processes :
        \/ \E o \in Operations : Start(p, o)
        \/ Ask(p)
        \/ Acquire(p)
        \/ End(p)
        \/ Abort(p)

Spec == Init /\ [][Next]_vars

\* A running process goes on, PostgreSQL breaks every circle and hands a row that
\* is freed again and again to each of its waiters in turn.
Fairness ==
    /\ \A p \in Processes : WF_vars(Ask(p) \/ End(p)) /\ SF_vars(Acquire(p))
    /\ WF_vars(\E p \in Processes : Abort(p))

FairSpec == Spec /\ Fairness
-----------------------------------------------------------------------------
\* The ways out of the one order of the rows (booking, trip, luggage, transactions,
\* dispute): a transaction before its booking or without it, a second luggage, and the
\* trip of an added item or of a luggage that moves, after the luggage.
OutOfOrder(p) ==
    \/ op[p][1] \in TxFirst
    \/ want[p][1] \in {"luggage", "trip"} /\ \E k \in held[p] : k[1] = "luggage"

\* A circle needs a member that has left the order of the rows: every other operation
\* follows it, and the booking's own FOR UPDATE protects the unordered transactions of
\* payments, payouts and decisions (the lockForUpdate() calls of app/Actions).
DeadlockNeedsInversion ==
    \A D \in SUBSET Processes : Deadlocked(D) => \E p \in D : OutOfOrder(p)

\* Whatever the circles, every operation ends, by a commit or as a victim: the PHP side
\* retries nothing and keeps no transaction open.
OperationsEnd == \A p \in Processes : op[p] # Idle ~> op[p] = Idle
-----------------------------------------------------------------------------
(* The inductive invariant behind DeadlockNeedsInversion.                  *)

\* The locks that two processes have do not exclude each other.
Compatible ==
    \A p, q \in Processes : p # q => \A k \in held[p], l \in held[q] : ~Conflict(k, l)

Rank(l) ==
    IF l[1] = "booking" THEN 1 ELSE IF l[1] = "trip" THEN 2 ELSE IF l[1] = "luggage" THEN 3
    ELSE IF l[1] \in Txs THEN 4 ELSE 5

\* What an operation that does not start with a transaction has locked on its way.
Prefix(o, h) ==
    LET b == o[2]
        Tx(kind, mode) == <<kind, b, mode>>
    IN /\ h # {} => First(o) \in h
       /\ \A l \in h \ {First(o)} :
            CASE o[1] \in {"ConfirmBooking", "HandOverBooking", "ConfirmDelivery"} ->
                    l = <<"trip", TripOf[b], "update">>
              [] o[1] \in {"ReserveBooking", "CancelBooking"} -> l[1] = "luggage"
              [] o[1] = "CreateBookingItem" ->
                    l[1] = "luggage" \/ l = <<"trip", TripOf[b], "share">>
              [] o[1] = "UpdateLuggage" -> l \in TripLocks("share")
              [] OTHER -> (l[1] \in Txs /\ l[2] = b) \/ l = Tx("dispute", "nokey")
       /\ o[1] \in {"CreateTransaction", "CreatePayoutTransaction"} =>
            Tx("dispute", "nokey") \notin h
       /\ o[1] = "ResolveWithPayout" /\ Tx("dispute", "nokey") \in h =>
            Tx("payout", "nokey") \in h

HeldIsPrefix == \A p \in Processes :
    op[p] # Idle /\ op[p][1] \notin TxFirst => Prefix(op[p], held[p])

WantIsNext == \A p \in Processes : want[p] # NoLock =>
    op[p] # Idle /\ want[p] \in NextLocks(op[p], held[p])

IdleHoldsNothing == \A p \in Processes : op[p] = Idle => held[p] = {}

LockInv == TypeOK /\ Compatible /\ HeldIsPrefix /\ WantIsNext /\ IdleHoldsNothing
=============================================================================
