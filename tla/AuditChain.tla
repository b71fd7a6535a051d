------------------------------- MODULE AuditChain ------------------------------
(***************************************************************************)
(* The chain of audit logs (app/Services/AuditLogIntegrityService.php): an *)
(* admin's refund or a dispute's resolution inserts a log and then seals   *)
(* it with the hash of the log before it, all in the transaction of the    *)
(* business operation; a resolution by refund does it twice.  The          *)
(* operations of one booking lock it, those of two bookings run side by    *)
(* side.                                                                   *)
(*                                                                         *)
(* SHA-256 is taken as injective, so that a hash is the id of the log it   *)
(* was computed from, and previous_hash the id of the predecessor.         *)
(***************************************************************************)
EXTENDS Naturals

CONSTANTS
    Writers,    \* database transactions that write audit logs
    MaxId       \* bound: ids handed out by the sequence of audit_logs

ASSUME MaxIdAssumption == MaxId \in Nat

None == "none"      \* no open writer
Ids == 1 .. MaxId

ASSUME WritersAssumption == None \notin Writers

VARIABLES
    writer,     \* the open transaction that inserted a row
    sealed,     \* ids of the rows that have their hashes
    prev,       \* previous_hash: the predecessor's id, 0 for null
    committed,  \* ids of the rows that everybody sees
    lastId,     \* the sequence, which a rollback does not take back
    beside      \* history: <<i, j>>, row i was uncommitted when another transaction inserted j

vars == <<writer, sealed, prev, committed, lastId, beside>>

TypeOK ==
    /\ writer \in [Ids -> Writers \cup {None}]
    /\ prev \in [Ids -> 0 .. MaxId]
    /\ committed \subseteq sealed /\ sealed \subseteq Ids
    /\ lastId \in 0 .. MaxId
    /\ beside \subseteq Ids \X Ids
    /\ \A i \in Ids : i > lastId => writer[i] = None /\ i \notin sealed
    /\ \A i \in committed : writer[i] = None

Own(w) == {i \in Ids : writer[i] = w}

\* READ COMMITTED: a transaction sees what is committed and what it wrote.
Visible(w) == committed \cup Own(w)

\* p is the greatest of the ids in S, or 0.
Latest(p, S) == p \in S \cup {0} /\ \A q \in S : q <= p

Init ==
    /\ writer = [i \in Ids |-> None]
    /\ sealed = {}
    /\ prev = [i \in Ids |-> 0]
    /\ committed = {}
    /\ lastId = 0
    /\ beside = {}

\* AuditLog::create(), which allocates the id.  A writer seals one log before it
\* creates the next.
Insert(w) ==
    /\ lastId < MaxId
    /\ Own(w) \subseteq sealed
    /\ lastId' = lastId + 1
    /\ writer' = [writer EXCEPT ![lastId + 1] = w]
    /\ beside' = beside \cup {<<i, lastId + 1>> : i \in {k \in Ids : writer[k] \notin {w, None}}}
    /\ UNCHANGED <<sealed, prev, committed>>

\* Mutants: the latest log instead of the latest before this one; the log before
\* this one whoever wrote it.
Previous_NoBound(p, i, w) == Latest(p, Visible(w))
Previous_Uncommitted(p, i, w) ==
    Latest(p, {q \in committed \cup {k \in Ids : writer[k] # None} : q < i})

\* where('id', '<', $log->id)->latest('id')
Previous(p, i, w) == Latest(p, {q \in Visible(w) : q < i})

Seal(w) ==
    \E i \in Own(w), p \in 0 .. MaxId :
        /\ i \notin sealed
        /\ Previous(p, i, w)
        /\ prev' = [prev EXCEPT ![i] = p]
        /\ sealed' = sealed \cup {i}
        /\ UNCHANGED <<writer, committed, lastId, beside>>

\* Mutant: the log is committed before it is sealed.
Commit_BeforeSeal(w) ==
    /\ Own(w) # {}
    /\ committed' = committed \cup Own(w)
    /\ writer' = [i \in Ids |-> IF i \in Own(w) THEN None ELSE writer[i]]
    /\ UNCHANGED <<sealed, prev, lastId, beside>>

Commit(w) ==
    /\ Own(w) # {}
    /\ Own(w) \subseteq sealed
    /\ committed' = committed \cup Own(w)
    /\ writer' = [i \in Ids |-> IF i \in Own(w) THEN None ELSE writer[i]]
    /\ UNCHANGED <<sealed, prev, lastId, beside>>

\* A later statement of the operation throws: the rows go, their ids stay used.
Rollback(w) ==
    /\ Own(w) # {}
    /\ writer' = [i \in Ids |-> IF i \in Own(w) THEN None ELSE writer[i]]
    /\ UNCHANGED <<sealed, prev, committed, lastId, beside>>

Next == \E w \in Writers : Insert(w) \/ Seal(w) \/ Commit(w) \/ Rollback(w)

Spec == Init /\ [][Next]_vars
-----------------------------------------------------------------------------
\* verifyChainFrom(): every log after startId names the one before it, the first
\* one nothing.
VerifyChainFrom(startId) ==
    LET logs == {i \in committed : i > startId}
    IN \A i \in logs : Latest(prev[i], {q \in logs : q < i})

\* Log j skipped log i, which another transaction had open when j was inserted.
SkippedBeside(i, j) == prev[j] < i /\ i < j /\ <<i, j>> \in beside

\* Gaps of the sequence, several logs of one transaction and rollbacks leave the
\* chain whole: where it fails to verify, a log skipped one that was written beside it.
ChainUnlessOverlap == VerifyChainFrom(0) \/ \E i, j \in committed : SkippedBeside(i, j)

\* Broken or not, no log hangs on one that was rolled back, or on itself.
PreviousCommitted == \A i \in committed : prev[i] \in {0} \cup {q \in committed : q < i}
-----------------------------------------------------------------------------
(* The inductive invariant behind both.                                    *)

\* An open row was there when every later row of another transaction came.
OpenIsBeside ==
    \A i, j \in Ids : i < j /\ writer[i] # None /\ (j \in committed \/ writer[j] \notin {writer[i], None})
        => <<i, j>> \in beside

\* A sealed row names the latest row before it that it saw, and those it did not see
\* were beside it.
SealedAfterLatest(j, mine) ==
    /\ prev[j] \in {0} \cup {q \in committed \cup mine : q < j}
    /\ \A i \in committed \cup mine : prev[j] < i /\ i < j => SkippedBeside(i, j)

ChainInv ==
    /\ TypeOK
    /\ OpenIsBeside
    /\ \A j \in committed : SealedAfterLatest(j, {})
    /\ \A j \in sealed : writer[j] # None => SealedAfterLatest(j, Own(writer[j]))
=============================================================================
