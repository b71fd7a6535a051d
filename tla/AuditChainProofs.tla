---------------------------- MODULE AuditChainProofs ----------------------------
(***************************************************************************)
(* For any number of writers and logs: the audit chain verifies unless a   *)
(* log skipped one that was written beside it, and never hangs on a log    *)
(* that was rolled back.                                                   *)
(***************************************************************************)
EXTENDS AuditChain, TLAPS

\* The parts of ChainInv about sealed rows.
ChainOfCommitted == \A j \in committed : SealedAfterLatest(j, {})
ChainOfOpen == \A j \in sealed : writer[j] # None => SealedAfterLatest(j, Own(writer[j]))

LEMMA ChainInvInit == Init => ChainInv
BY MaxIdAssumption DEF Init, ChainInv, TypeOK, OpenIsBeside, Ids

LEMMA InsertTypeOK ==
    ASSUME TypeOK, NEW w \in Writers, Insert(w) PROVE TypeOK'
<1>1. lastId + 1 \in Ids /\ lastId + 1 \notin sealed /\ lastId + 1 \notin committed
      BY MaxIdAssumption DEF Insert, TypeOK, Ids
<1>2. writer' \in [Ids -> Writers \cup {None}]
      BY <1>1 DEF Insert, TypeOK
<1>3. beside' \subseteq Ids \X Ids
      BY <1>1 DEF Insert, TypeOK
<1>4. \A i \in Ids : i > lastId' => writer'[i] = None /\ i \notin sealed'
      BY <1>1, MaxIdAssumption DEF Insert, TypeOK, Ids
<1>5. \A i \in committed' : writer'[i] = None
      BY <1>1 DEF Insert, TypeOK
<1> QED
    BY <1>1, <1>2, <1>3, <1>4, <1>5, MaxIdAssumption DEF Insert, TypeOK, Ids

LEMMA InsertInv ==
    ASSUME ChainInv, NEW w \in Writers, Insert(w) PROVE ChainInv'
<1> USE DEF ChainInv
<1> DEFINE n == lastId + 1
<1>1. TypeOK'
      BY InsertTypeOK
<1>2. /\ n \in Ids /\ writer[n] = None /\ n \notin sealed /\ n \notin committed
      /\ \A i \in Ids : i > n => writer'[i] = None /\ i \notin committed
      BY MaxIdAssumption DEF Insert, TypeOK, Ids
<1>3. \A i \in Ids : writer'[i] = IF i = n THEN w ELSE writer[i]
      BY <1>2 DEF Insert, TypeOK
<1>4. OpenIsBeside'
  <2> SUFFICES ASSUME NEW i \in Ids, NEW j \in Ids, i < j, writer'[i] # None,
                      j \in committed' \/ writer'[j] \notin {writer'[i], None}
               PROVE  <<i, j>> \in beside'
      BY DEF OpenIsBeside
  <2>1. CASE j = n
    <3>1. i # n /\ writer[i] = writer'[i] /\ writer'[j] = w
          BY <1>3, <2>1 DEF Ids
    <3>2. writer[i] \notin {w, None}
          BY <3>1, <1>2, <2>1 DEF Insert
    <3> QED
        BY <3>2, <2>1 DEF Insert
  <2>2. CASE j # n
    <3>1. i # n
          BY <1>2, <2>2, <1>3 DEF Insert
    <3>2. <<i, j>> \in beside
          BY <3>1, <2>2, <1>3 DEF Insert, OpenIsBeside
    <3> QED
        BY <3>2 DEF Insert
  <2> QED
      BY <2>1, <2>2
<1>5. ChainOfCommitted'
  <2> SUFFICES ASSUME NEW j \in committed PROVE SealedAfterLatest(j, {})'
      BY DEF Insert, ChainOfCommitted
  <2> QED
      BY DEF SealedAfterLatest, SkippedBeside, Insert
<1>6. ChainOfOpen'
  <2> SUFFICES ASSUME NEW j \in sealed, writer'[j] # None
               PROVE  SealedAfterLatest(j, Own(writer[j]))'
      BY <1>2, <1>3 DEF Insert, ChainOfOpen, TypeOK
  <2>1. j # n /\ j \in Ids /\ writer'[j] = writer[j] /\ j < n
        BY <1>2, <1>3, MaxIdAssumption DEF TypeOK, Ids
  <2>2. \A q \in Ids : q < j => (q \in Own(writer[j])' <=> q \in Own(writer[j]))
        BY <2>1, <1>3 DEF Own, Ids
  <2>3. SealedAfterLatest(j, Own(writer[j]))
        BY <2>1
  <2>4. Own(writer[j]) \subseteq Ids /\ Own(writer[j])' \subseteq Ids /\ committed \subseteq Ids
        BY DEF Own, TypeOK
  <2> QED
      BY <2>2, <2>3, <2>4 DEF SealedAfterLatest, SkippedBeside, Insert
<1> QED
    BY <1>1, <1>4, <1>5, <1>6 DEF ChainOfCommitted, ChainOfOpen

LEMMA SealInv ==
    ASSUME ChainInv, NEW w \in Writers, Seal(w) PROVE ChainInv'
<1> USE DEF ChainInv
<1>1. PICK i \in Own(w), p \in 0 .. MaxId :
          /\ i \notin sealed
          /\ Previous(p, i, w)
          /\ prev' = [prev EXCEPT ![i] = p]
          /\ sealed' = sealed \cup {i}
          /\ UNCHANGED <<writer, committed, lastId, beside>>
      BY DEF Seal
<1>2. i \in Ids /\ writer[i] = w /\ w # None /\ i \notin committed
      BY <1>1, WritersAssumption DEF Own, TypeOK
<1>3. TypeOK'
  <2>1. prev' \in [Ids -> 0 .. MaxId]
        BY <1>1 DEF TypeOK
  <2>2. \A k \in Ids : k > lastId => writer[k] = None /\ k \notin sealed'
        BY <1>1, <1>2 DEF TypeOK
  <2> QED
      BY <1>1, <1>2, <2>1, <2>2 DEF TypeOK
<1>4. OpenIsBeside'
      BY <1>1 DEF OpenIsBeside
<1>5. \A j \in Ids : j # i => prev'[j] = prev[j]
      BY <1>1 DEF TypeOK
<1>6. ChainOfCommitted'
  <2> SUFFICES ASSUME NEW j \in committed PROVE SealedAfterLatest(j, {})'
      BY <1>1 DEF ChainOfCommitted
  <2>1. j \in Ids /\ j # i /\ SealedAfterLatest(j, {})
        BY <1>2 DEF TypeOK
  <2> QED
      BY <2>1, <1>1, <1>5 DEF SealedAfterLatest, SkippedBeside
<1>7. ChainOfOpen'
  <2> SUFFICES ASSUME NEW j \in sealed', writer[j] # None
               PROVE  SealedAfterLatest(j, Own(writer[j]))'
      BY <1>1 DEF ChainOfOpen
  <2>1. Own(writer[j])' = Own(writer[j]) /\ j \in Ids
        BY <1>1, <1>2 DEF Own, TypeOK
  <2>2. CASE j = i
    <3>1. prev'[j] = p /\ writer[j] = w
          BY <2>2, <1>1, <1>2 DEF TypeOK
    <3>2. p \in {0} \cup {q \in committed \cup Own(w) : q < i}
          BY <1>1 DEF Previous, Latest, Visible
    <3>3. \A k \in committed \cup Own(w) : k < i => k <= p
          BY <1>1 DEF Previous, Latest, Visible
    <3>4. \A k \in committed \cup Own(w) : ~(p < k /\ k < i)
          BY <3>3 DEF TypeOK, Own, Ids
    <3> QED
        BY <3>1, <3>2, <3>4, <2>1, <2>2, <1>1 DEF SealedAfterLatest
  <2>3. CASE j # i
    <3>1. SealedAfterLatest(j, Own(writer[j]))
          BY <2>3, <1>1
    <3> QED
        BY <3>1, <2>1, <2>3, <1>1, <1>5 DEF SealedAfterLatest, SkippedBeside
  <2> QED
      BY <2>2, <2>3
<1> QED
    BY <1>3, <1>4, <1>6, <1>7 DEF ChainOfCommitted, ChainOfOpen

LEMMA CommitInv ==
    ASSUME ChainInv, NEW w \in Writers, Commit(w) PROVE ChainInv'
<1> USE DEF ChainInv
<1>1. /\ committed' = committed \cup Own(w)
      /\ UNCHANGED <<sealed, prev, lastId, beside>>
      /\ Own(w) \subseteq sealed /\ Own(w) \subseteq Ids /\ w # None
      BY WritersAssumption DEF Commit, Own
<1>2. \A i \in Ids : writer'[i] = IF writer[i] = w THEN None ELSE writer[i]
      BY DEF Commit, Own
<1>3. TypeOK'
  <2>1. writer' \in [Ids -> Writers \cup {None}]
        BY DEF Commit, TypeOK
  <2>2. \A i \in Ids : i > lastId => writer'[i] = None
        BY <1>2 DEF TypeOK
  <2>3. \A i \in committed' : writer'[i] = None
        BY <1>1, <1>2 DEF TypeOK, Own
  <2> QED
      BY <1>1, <2>1, <2>2, <2>3 DEF TypeOK
<1>4. OpenIsBeside'
  <2> SUFFICES ASSUME NEW i \in Ids, NEW j \in Ids, i < j, writer'[i] # None,
                      j \in committed' \/ writer'[j] \notin {writer'[i], None}
               PROVE  <<i, j>> \in beside
      BY <1>1 DEF OpenIsBeside
  <2>1. writer[i] # None /\ writer[i] # w
        BY <1>2
  <2>2. j \in committed \/ writer[j] \notin {writer[i], None}
        BY <1>1, <1>2, <2>1 DEF Own
  <2> QED
      BY <2>1, <2>2 DEF OpenIsBeside
<1>5. ASSUME NEW j \in Ids, NEW mine, mine \subseteq Ids, SealedAfterLatest(j, mine),
             \A i \in Own(w) : i < j => i \in mine \/ <<i, j>> \in beside
      PROVE  /\ prev[j] \in {0} \cup {q \in committed' \cup mine : q < j}
             /\ \A i \in committed' \cup mine : prev'[j] < i /\ i < j => SkippedBeside(i, j)'
      BY <1>1, <1>5 DEF SealedAfterLatest, SkippedBeside
<1>6. ChainOfCommitted'
  <2> SUFFICES ASSUME NEW j \in committed' PROVE SealedAfterLatest(j, {})'
      BY DEF ChainOfCommitted
  <2>1. j \in Ids
        BY <1>1 DEF TypeOK
  <2>2. CASE j \in committed
    <3>1. SealedAfterLatest(j, {})
          BY <2>2
    <3>2. \A i \in Own(w) : i < j => <<i, j>> \in beside
          BY <2>1, <2>2, <1>1 DEF OpenIsBeside, Own
    <3>3. {} \subseteq Ids /\ (\A i \in Own(w) : i < j => i \in {} \/ <<i, j>> \in beside)
          BY <3>2
    <3>4. /\ prev[j] \in {0} \cup {q \in committed' \cup {} : q < j}
          /\ \A i \in committed' \cup {} : prev'[j] < i /\ i < j => SkippedBeside(i, j)'
          BY <3>1, <3>3, <2>1, <1>5
    <3> QED
        BY <3>4, <1>1 DEF SealedAfterLatest
  <2>3. CASE j \in Own(w)
    <3>1. SealedAfterLatest(j, Own(w))
          BY <2>3, <1>1 DEF Own
    <3> QED
        BY <3>1, <2>1, <1>1 DEF SealedAfterLatest, SkippedBeside
  <2> QED
      BY <2>2, <2>3, <1>1
<1>7. ChainOfOpen'
  <2> SUFFICES ASSUME NEW j \in sealed, writer'[j] # None
               PROVE  SealedAfterLatest(j, Own(writer[j]))'
      BY <1>1, <1>2 DEF ChainOfOpen, TypeOK
  <2>1. j \in Ids /\ writer'[j] = writer[j] /\ writer[j] # w /\ writer[j] # None
        BY <1>2 DEF TypeOK
  <2>2. Own(writer[j])' = Own(writer[j]) /\ Own(writer[j]) \subseteq Ids
        BY <1>2, <2>1 DEF Own
  <2>3. SealedAfterLatest(j, Own(writer[j]))
        BY <2>1
  <2>4. \A i \in Own(w) : i < j => <<i, j>> \in beside
        BY <2>1, <1>1 DEF OpenIsBeside, Own
  <2> QED
      BY <2>1, <2>2, <2>3, <2>4, <1>5, <1>1 DEF SealedAfterLatest
<1> QED
    BY <1>3, <1>4, <1>6, <1>7 DEF ChainOfCommitted, ChainOfOpen

LEMMA RollbackInv ==
    ASSUME ChainInv, NEW w \in Writers, Rollback(w) PROVE ChainInv'
<1> USE DEF ChainInv
<1>1. UNCHANGED <<sealed, prev, committed, lastId, beside>>
      BY DEF Rollback
<1>2. \A i \in Ids : writer'[i] = IF writer[i] = w THEN None ELSE writer[i]
      BY DEF Rollback, Own
<1>3. TypeOK'
  <2>1. writer' \in [Ids -> Writers \cup {None}]
        BY DEF Rollback, TypeOK
  <2> QED
      BY <1>1, <1>2, <2>1 DEF TypeOK
<1>4. OpenIsBeside'
      BY <1>1, <1>2 DEF OpenIsBeside
<1>5. ChainOfCommitted'
      BY <1>1 DEF ChainOfCommitted, SealedAfterLatest, SkippedBeside
<1>6. ChainOfOpen'
  <2> SUFFICES ASSUME NEW j \in sealed, writer'[j] # None
               PROVE  SealedAfterLatest(j, Own(writer[j]))'
      BY <1>1, <1>2 DEF ChainOfOpen, TypeOK
  <2>1. j \in Ids /\ writer'[j] = writer[j] /\ writer[j] # w
        BY <1>2 DEF TypeOK
  <2>2. Own(writer[j])' = Own(writer[j])
        BY <1>2, <2>1 DEF Own
  <2>3. SealedAfterLatest(j, Own(writer[j]))
        BY <2>1
  <2> QED
      BY <2>2, <2>3, <1>1 DEF SealedAfterLatest, SkippedBeside
<1> QED
    BY <1>3, <1>4, <1>5, <1>6 DEF ChainOfCommitted, ChainOfOpen

LEMMA ChainInvNext == ChainInv /\ [Next]_vars => ChainInv'
<1> SUFFICES ASSUME ChainInv, [Next]_vars PROVE ChainInv'
    OBVIOUS
<1>1. CASE UNCHANGED vars
      BY <1>1 DEF vars, ChainInv, TypeOK, OpenIsBeside, SealedAfterLatest, SkippedBeside, Own
<1>2. CASE Next
      BY <1>2, InsertInv, SealInv, CommitInv, RollbackInv DEF Next
<1> QED
    BY <1>1, <1>2
-----------------------------------------------------------------------------
\* The inductive invariant holds in every reachable state.
THEOREM ChainInvAlways == Spec => []ChainInv
BY ChainInvInit, ChainInvNext, PTL DEF Spec

\* No log hangs on one that was rolled back.
THEOREM PreviousCommittedAlways == Spec => []PreviousCommitted
<1>1. ChainInv => PreviousCommitted
      BY DEF ChainInv, SealedAfterLatest, PreviousCommitted
<1> QED
    BY <1>1, ChainInvAlways, PTL

\* verifyChainFrom() fails only where a log skipped one that was written beside it.
THEOREM ChainUnlessOverlapAlways == Spec => []ChainUnlessOverlap
<1>1. ASSUME ChainInv, ~VerifyChainFrom(0)
      PROVE  \E i, j \in committed : SkippedBeside(i, j)
  <2>0. \A i \in committed : i > 0
    <3>1. committed \subseteq Ids
          BY <1>1 DEF ChainInv, TypeOK
    <3> QED
        BY <3>1, MaxIdAssumption DEF Ids
  <2>1. PICK j \in committed : ~Latest(prev[j], {q \in committed : q < j})
    <3>1. {i \in committed : i > 0} = committed
          BY <2>0
    <3> QED
        BY <1>1, <3>1 DEF VerifyChainFrom
  <2>2. SealedAfterLatest(j, {})
        BY <1>1 DEF ChainInv
  <2>3. PICK q \in committed : q < j /\ ~(q <= prev[j])
        BY <2>1, <2>2 DEF SealedAfterLatest, Latest
  <2>4. q \in Nat /\ prev[j] \in Nat
        BY <1>1, MaxIdAssumption DEF ChainInv, TypeOK, Ids
  <2> QED
      BY <2>2, <2>3, <2>4 DEF SealedAfterLatest
<1> QED
    BY <1>1, ChainInvAlways, PTL DEF ChainUnlessOverlap
=============================================================================
