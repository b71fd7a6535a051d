---------------------------- MODULE LockOrderProofs ----------------------------
(***************************************************************************)
(* For any number of processes and rows: a circle of waits needs an        *)
(* operation that leaves the order of the rows.                            *)
(***************************************************************************)
EXTENDS LockOrder, TLAPS

\* What Ask may ask for is a lock, and not one the operation has.
LEMMA NextLocksAreNew ==
    ASSUME NEW o \in Operations, NEW h \in SUBSET Locks, NEW l \in NextLocks(o, h)
    PROVE  l \in Locks /\ l \notin h
<1>1. l \notin h
    BY DEF NextLocks
<1>2. First(o) \in Locks
    BY DEF Operations, TxFirst, BookingFirst, First, FirstKind, FirstMode, Locks, Modes, Txs
<1>3. ASSUME l \in Rest(o, h)
      PROVE  l \in Locks
    BY <1>3, TripOfAssumption DEF Operations, TxFirst, BookingFirst, Rest, Then, OneOf,
       LuggageLocks, TripLocks, Locks, Modes, Txs
<1> QED  BY <1>1, <1>2, <1>3 DEF NextLocks, Then

LEMMA PrefixGrows ==
    ASSUME NEW o \in Operations, o[1] \notin TxFirst, NEW h \in SUBSET Locks, Prefix(o, h),
           NEW l \in NextLocks(o, h)
    PROVE  Prefix(o, h \cup {l})
<1>1. CASE First(o) \notin h
  <2>1. h = {} /\ l = First(o)
        BY <1>1 DEF Prefix, NextLocks, Then
  <2> QED  BY <2>1 DEF Prefix, First, FirstKind, FirstMode, Operations, TxFirst, BookingFirst
<1>2. CASE First(o) \in h
  <2>1. l \in Rest(o, h) /\ l # First(o)
        BY <1>2 DEF NextLocks, Then
  <2> QED  BY <1>2, <2>1 DEF Prefix, First, FirstKind, FirstMode, Rest, Then, OneOf,
              LuggageLocks, TripLocks, Operations, TxFirst, BookingFirst, Txs
<1> QED  BY <1>1, <1>2

\* An operation that starts with the booking, the trip or a luggage asks for a row above
\* those it has; only beside a luggage, and among the transactions under the lock of
\* their booking, it does not.
LEMMA AsksUpwards ==
    ASSUME NEW o \in Operations, o[1] \notin TxFirst, NEW h \in SUBSET Locks, Prefix(o, h),
           NEW l \in NextLocks(o, h), NEW k \in h
    PROVE  \/ Rank(k) < Rank(l)
           \/ k[1] = "luggage" /\ l[1] \in {"luggage", "trip"}
           \/ {k[1], l[1]} \subseteq Txs /\ <<"booking", k[2], "update">> \in h
<1>1. First(o) \in h /\ l \in Rest(o, h) /\ l \notin h
    BY DEF Prefix, NextLocks, Then
<1> QED  BY <1>1 DEF Prefix, First, FirstKind, FirstMode, Rest, Then, OneOf,
            LuggageLocks, TripLocks, Operations, TxFirst, BookingFirst, Txs, Rank

LEMMA FiveRanks == \A l : Rank(l) \in 1..5
BY DEF Rank

\* A transaction is asked for under the lock of its booking.
LEMMA TxsUnderBooking ==
    ASSUME NEW o \in Operations, o[1] \notin TxFirst, NEW h \in SUBSET Locks, Prefix(o, h),
           NEW l \in NextLocks(o, h), l[1] \in Txs
    PROVE  <<"booking", l[2], "update">> \in h
<1>1. First(o)[1] \notin Txs
    BY DEF First, FirstKind, Operations, TxFirst, BookingFirst, Txs
<1>2. First(o) \in h /\ l \in Rest(o, h)
    BY <1>1 DEF NextLocks, Then
<1> QED  BY <1>2 DEF First, FirstKind, FirstMode, Rest, Then, OneOf,
            LuggageLocks, TripLocks, Operations, TxFirst, BookingFirst, Txs
-----------------------------------------------------------------------------
LEMMA NotOperations == Idle \notin Operations /\ NoLock \notin Locks
BY DEF Idle, Operations, TxFirst, BookingFirst, NoLock, Locks, Txs

LEMMA LockInvInit == Init => LockInv
BY DEF Init, LockInv, TypeOK, Compatible, HeldIsPrefix, WantIsNext, IdleHoldsNothing

LEMMA LockInvNext == LockInv /\ [Next]_vars => LockInv'
<1> SUFFICES ASSUME LockInv, [Next]_vars
             PROVE  LockInv'
    OBVIOUS
<1> USE NotOperations DEF LockInv, TypeOK
<1>1. ASSUME NEW p \in Processes, NEW o \in Operations, Start(p, o)
      PROVE  LockInv'
  <2>1. held[p] = {} /\ want[p] = NoLock
        BY <1>1 DEF Start, IdleHoldsNothing, WantIsNext
  <2>2. TypeOK' /\ Compatible' /\ IdleHoldsNothing'
        BY <1>1 DEF Start, Compatible, IdleHoldsNothing
  <2>3. Prefix(o, {})
        BY DEF Prefix
  <2>4. HeldIsPrefix' /\ WantIsNext'
        BY <1>1, <2>1, <2>3 DEF Start, HeldIsPrefix, WantIsNext
  <2> QED  BY <2>2, <2>4
<1>2. ASSUME NEW p \in Processes, Ask(p)
      PROVE  LockInv'
  <2>1. PICK l \in NextLocks(op[p], held[p]) : want' = [want EXCEPT ![p] = l]
        BY <1>2 DEF Ask
  <2>2. l \in Locks /\ l \notin held[p]
        BY <1>2, NextLocksAreNew DEF Ask
  <2>3. TypeOK' /\ Compatible' /\ IdleHoldsNothing' /\ HeldIsPrefix'
        BY <1>2, <2>1, <2>2 DEF Ask, Compatible, IdleHoldsNothing, HeldIsPrefix
  <2>4. WantIsNext'
        BY <1>2, <2>1 DEF Ask, WantIsNext
  <2> QED  BY <2>3, <2>4
<1>3. ASSUME NEW p \in Processes, Acquire(p)
      PROVE  LockInv'
  <2>1. want[p] \in Locks /\ op[p] \in Operations /\ want[p] \in NextLocks(op[p], held[p])
        BY <1>3 DEF Acquire, WantIsNext
  <2>2. TypeOK' /\ IdleHoldsNothing' /\ WantIsNext'
        BY <1>3, <2>1 DEF Acquire, IdleHoldsNothing, WantIsNext
  <2>3. \A k, l : Conflict(k, l) <=> Conflict(l, k)
        BY DEF Conflict
  <2>4. Compatible'
        BY <1>3, <2>1, <2>3 DEF Acquire, Compatible
  <2>5. op[p][1] \notin TxFirst => Prefix(op[p], held[p] \cup {want[p]})
        BY <2>1, PrefixGrows DEF HeldIsPrefix
  <2>6. HeldIsPrefix'
        BY <1>3, <2>5 DEF Acquire, HeldIsPrefix
  <2> QED  BY <2>2, <2>4, <2>6
<1>4. ASSUME NEW p \in Processes, End(p)
      PROVE  LockInv'
    BY <1>4 DEF End, Compatible, IdleHoldsNothing, WantIsNext, HeldIsPrefix
<1>5. ASSUME NEW p \in Processes, Abort(p)
      PROVE  LockInv'
    BY <1>5 DEF Abort, Compatible, IdleHoldsNothing, WantIsNext, HeldIsPrefix
<1>6. CASE UNCHANGED vars
    BY <1>6 DEF vars, Compatible, IdleHoldsNothing, WantIsNext, HeldIsPrefix
<1> QED  BY <1>1, <1>2, <1>3, <1>4, <1>5, <1>6 DEF Next

\* The invariant of the row locks: no two processes have locks that exclude each other,
\* and an operation takes its locks in its own order.
THEOREM LockInvAlways == Spec => []LockInv
BY LockInvInit, LockInvNext, PTL DEF Spec
-----------------------------------------------------------------------------
\* In a circle without an inversion everyone waits for somebody who waits for a
\* higher row, and there are only five heights.
LEMMA InversionNeeded == LockInv => DeadlockNeedsInversion
<1> SUFFICES ASSUME LockInv,
                    NEW D \in SUBSET Processes, Deadlocked(D),
                    \A p \in D : ~OutOfOrder(p)
             PROVE  FALSE
    BY DEF DeadlockNeedsInversion
<1> USE DEF LockInv, TypeOK
<1>1. ASSUME NEW p \in D
      PROVE  /\ want[p] \in Locks
             /\ op[p] \in Operations /\ op[p][1] \notin TxFirst
             /\ held[p] \in SUBSET Locks
             /\ Prefix(op[p], held[p])
             /\ want[p] \in NextLocks(op[p], held[p])
  <2>1. PICK k \in Locks : Conflict(k, want[p])
        BY DEF Deadlocked, WaitsFor
  <2>2. want[p] # NoLock
        BY <2>1 DEF Conflict, NoLock, Locks, Txs
  <2> QED  BY <2>2 DEF WantIsNext, HeldIsPrefix, OutOfOrder
<1>2. ASSUME NEW p \in D
      PROVE  \E q \in D : Rank(want[p]) < Rank(want[q])
  <2>1. PICK q \in D : WaitsFor(p, q)
        BY DEF Deadlocked
  <2>2. PICK k \in held[q] : Conflict(k, want[p])
        BY <2>1 DEF WaitsFor
  <2>3. k[1] = want[p][1] /\ k[2] = want[p][2] /\ Rank(k) = Rank(want[p])
        BY <2>2 DEF Conflict, Rank
  <2>4. \/ Rank(k) < Rank(want[q])
        \/ k[1] = "luggage" /\ want[q][1] \in {"luggage", "trip"}
        \/ {k[1], want[q][1]} \subseteq Txs /\ <<"booking", k[2], "update">> \in held[q]
        BY <1>1, AsksUpwards
  <2>5. ~(k[1] = "luggage" /\ want[q][1] \in {"luggage", "trip"})
        BY DEF OutOfOrder
  <2>6. ASSUME k[1] \in Txs, <<"booking", k[2], "update">> \in held[q]
        PROVE  FALSE
    <3> DEFINE B == <<"booking", k[2], "update">>
    <3>1. B \in held[p]
          BY <1>1, <2>3, <2>6, TxsUnderBooking
    <3>2. Conflict(B, B)
          BY DEF Conflict
    <3> QED  BY <2>1, <2>6, <3>1, <3>2 DEF Compatible, WaitsFor
  <2> QED  BY <2>3, <2>4, <2>5, <2>6
<1>3. \A p \in D : Rank(want[p]) \in 1..5
    BY FiveRanks
<1>4. PICK p1 \in D : TRUE
    BY DEF Deadlocked
<1>5. PICK p2 \in D : Rank(want[p1]) < Rank(want[p2])
    BY <1>2
<1>6. PICK p3 \in D : Rank(want[p2]) < Rank(want[p3])
    BY <1>2
<1>7. PICK p4 \in D : Rank(want[p3]) < Rank(want[p4])
    BY <1>2
<1>8. PICK p5 \in D : Rank(want[p4]) < Rank(want[p5])
    BY <1>2
<1>9. PICK p6 \in D : Rank(want[p5]) < Rank(want[p6])
    BY <1>2
<1> HIDE DEF LockInv, TypeOK
<1> QED  BY <1>3, <1>5, <1>6, <1>7, <1>8, <1>9

\* Every circle of waits has a member that locks a transaction before its booking or
\* without it (a refund, a webhook, the completion of a payout, the backfill), or one
\* that has a luggage and waits for another or for a trip, whatever the number of
\* processes, bookings, trips and luggages.
THEOREM DeadlockNeedsInversionAlways == Spec => []DeadlockNeedsInversion
BY LockInvAlways, InversionNeeded, PTL
=============================================================================
