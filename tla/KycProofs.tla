------------------------------- MODULE KycProofs -------------------------------
(***************************************************************************)
(* For any number of submissions and requests: one request is pending at a *)
(* time, who has passed has an approved request, and decisions are final.  *)
(***************************************************************************)
EXTENDS Kyc, TLAPS

LEMMA KycInvInit == Init => KycInv
<1> SUFFICES ASSUME Init PROVE KycInv
    OBVIOUS
<1>1. Existing = {}
      BY DEF Init, Existing
<1>2. Idle \in [step : {"idle", "find", "create"}, seen : SUBSET Ids, existing : 0 .. MaxRequests]
      BY MaxRequestsAssumption DEF Idle
<1>3. TypeOK
  <2>1. submit \in [Submitters -> [step : {"idle", "find", "create"},
                                   seen : SUBSET Ids, existing : 0 .. MaxRequests]]
        BY <1>2 DEF Init
  <2>2. lastId \in 0 .. MaxRequests
        BY MaxRequestsAssumption DEF Init
  <2>3. requests \in [Ids -> KycStatus \cup {"none"}]
        BY DEF Init
  <2>4. passed \in BOOLEAN
        BY DEF Init
  <2> QED
      BY <1>1, <2>1, <2>2, <2>3, <2>4 DEF TypeOK
<1>4. OnePending /\ PassedIsApproved /\ SoleRequestTells /\ ClaimInv
      BY <1>1 DEF Init, OnePending, PassedIsApproved, SoleRequestTells, ClaimInv, Idle
<1> QED
    BY <1>3, <1>4 DEF KycInv

\* A step that only moves a submission on.
LEMMA FindInv == ASSUME KycInv, NEW s \in Submitters, FindExisting(s) PROVE KycInv'
<1> USE DEF KycInv
<1>1. submit' \in [Submitters -> [step : {"idle", "find", "create"},
                                  seen : SUBSET Ids, existing : 0 .. MaxRequests]]
      BY MaxRequestsAssumption DEF FindExisting, TypeOK, Existing
<1>2. TypeOK' /\ OnePending' /\ PassedIsApproved' /\ SoleRequestTells'
      BY <1>1 DEF FindExisting, TypeOK, OnePending, PassedIsApproved, SoleRequestTells, Existing
<1>3. \A t \in Submitters : submit'[t].step = "create" => submit'[t] = submit[t]
      BY DEF FindExisting, TypeOK
<1>4. ClaimInv'
      BY <1>3 DEF FindExisting, ClaimInv
<1> QED
    BY <1>2, <1>4

LEMMA LockExistingInv == ASSUME KycInv, NEW s \in Submitters, LockExisting(s) PROVE KycInv'
<1> USE DEF KycInv
<1>1. PICK r \in [step : {"idle", "create"}, seen : {{}}, existing : 0 .. MaxRequests] :
          /\ submit' = [submit EXCEPT ![s] = r]
          /\ r.existing # 0 => /\ r.existing \in Ids /\ ~Locked(r.existing)
                               /\ requests[r.existing] = "rejected"
  <2>1. CASE submit' = [submit EXCEPT ![s] = [step |-> "create", seen |-> {}, existing |-> 0]]
    <3>1. [step |-> "create", seen |-> {}, existing |-> 0]
            \in [step : {"idle", "create"}, seen : {{}}, existing : 0 .. MaxRequests]
          BY MaxRequestsAssumption
    <3> QED
        BY <2>1, <3>1
  <2>2. CASE \E i \in submit[s].seen \cap Existing :
                /\ ~Locked(i)
                /\ submit' = [submit EXCEPT ![s] =
                                 IF Replaceable(requests[i])
                                 THEN [step |-> "create", seen |-> {}, existing |-> i] ELSE Idle]
    <3>1. PICK i \in Ids :
              /\ ~Locked(i)
              /\ submit' = [submit EXCEPT ![s] =
                               IF Replaceable(requests[i])
                               THEN [step |-> "create", seen |-> {}, existing |-> i] ELSE Idle]
          BY <2>2 DEF Existing
    <3>2. CASE Replaceable(requests[i])
      <4>1. [step |-> "create", seen |-> {}, existing |-> i]
              \in [step : {"idle", "create"}, seen : {{}}, existing : 0 .. MaxRequests]
            BY MaxRequestsAssumption DEF Ids
      <4> QED
          BY <3>1, <3>2, <4>1 DEF Replaceable
    <3>3. CASE ~Replaceable(requests[i])
      <4>1. Idle \in [step : {"idle", "create"}, seen : {{}}, existing : 0 .. MaxRequests]
            BY MaxRequestsAssumption DEF Idle
      <4>2. Idle.existing = 0
            BY DEF Idle
      <4> QED
          BY <3>1, <3>3, <4>1, <4>2
    <3> QED
        BY <3>2, <3>3
  <2> QED
      BY <2>1, <2>2 DEF LockExisting
<1>2. submit' \in [Submitters -> [step : {"idle", "find", "create"},
                                  seen : SUBSET Ids, existing : 0 .. MaxRequests]]
      BY <1>1 DEF TypeOK
<1>3. TypeOK' /\ OnePending' /\ PassedIsApproved' /\ SoleRequestTells'
      BY <1>2 DEF LockExisting, TypeOK, OnePending, PassedIsApproved, SoleRequestTells, Existing
<1>4. submit'[s] = r /\ \A t \in Submitters : t # s => submit'[t] = submit[t]
      BY <1>1 DEF TypeOK
<1>5. ClaimInv'
      BY <1>1, <1>4 DEF LockExisting, ClaimInv, Locked
<1> QED
    BY <1>3, <1>5

LEMMA CreateInv == ASSUME KycInv, NEW s \in Submitters, Create(s) PROVE KycInv'
<1> USE DEF KycInv
<1> DEFINE n == lastId + 1
           e == submit[s].existing
<1>1. n \in Ids /\ requests[n] = "none" /\ lastId' = n /\ lastId' \in 0 .. MaxRequests
  <2>1. n \in Ids /\ lastId' = n /\ ~(n <= lastId) /\ lastId' \in 0 .. MaxRequests
        BY MaxRequestsAssumption DEF Create, TypeOK, Ids
  <2> QED
      BY <2>1 DEF TypeOK, Existing
<1>2. submit' = [submit EXCEPT ![s] = Idle]
      BY DEF Create
<1>3. submit' \in [Submitters -> [step : {"idle", "find", "create"},
                                  seen : SUBSET Ids, existing : 0 .. MaxRequests]]
      BY <1>2, MaxRequestsAssumption DEF TypeOK, Idle
<1>4. \A t \in Submitters : submit'[t].step = "create" => t # s /\ submit'[t] = submit[t]
      BY <1>2 DEF TypeOK, Idle
<1>5. CASE requests' = requests
  <2>1. TypeOK'
        BY <1>1, <1>3, <1>5, MaxRequestsAssumption DEF Create, TypeOK, Existing, Ids
  <2>2. OnePending' /\ PassedIsApproved' /\ SoleRequestTells'
    <3>1. passed' = passed
          BY DEF Create
    <3> HIDE DEF n, e
    <3> QED
        BY <1>5, <3>1 DEF OnePending, PassedIsApproved, SoleRequestTells, Existing
  <2>3. ClaimInv'
        BY <1>4, <1>5 DEF ClaimInv
  <2> QED
      BY <2>1, <2>2, <2>3
<1>6. CASE /\ \A i \in Ids : requests[i] # "pending"
           /\ requests' = [i \in Ids |-> IF i = n THEN "pending"
                                         ELSE IF i = e THEN "none" ELSE requests[i]]
  <2>1. \A i \in Ids : requests'[i] = IF i = n THEN "pending" ELSE IF i = e THEN "none" ELSE requests[i]
        BY <1>6
  <2>2. e # 0 => e \in Ids /\ requests[e] = "rejected" /\ e # n
        BY <1>1 DEF Create, ClaimInv
  <2>3. TypeOK'
    <3>1. requests' \in [Ids -> KycStatus \cup {"none"}]
          BY <1>6 DEF TypeOK, KycStatus
    <3>2. \A i \in Existing' : i <= lastId'
          BY <2>1, <1>1, MaxRequestsAssumption DEF TypeOK, Existing, Ids
    <3> QED
        BY <3>1, <3>2, <1>1, <1>3 DEF Create, TypeOK
  <2>4. OnePending'
        BY <2>1, <1>6 DEF OnePending
  <2>5. PassedIsApproved'
        BY <2>1, <2>2, <1>1 DEF Create, PassedIsApproved, Ids
  <2>6. SoleRequestTells'
    <3> SUFFICES ASSUME NEW i \in Ids, Existing' = {i}
                 PROVE  passed' <=> requests'[i] = "approved"
        BY DEF SoleRequestTells, Existing
    <3>1. i = n /\ requests'[i] = "pending"
          BY <2>1, <1>1 DEF Existing
    <3>2. \A k \in Existing : k = e
          BY <2>1, <3>1, <1>1 DEF Existing
    <3>3. ~passed
      <4>1. \A k \in Ids : k = e => requests[k] = "rejected"
            BY <2>2, MaxRequestsAssumption DEF Ids
      <4> QED
          BY <3>2, <4>1 DEF PassedIsApproved, Existing
    <3> QED
        BY <3>1, <3>3 DEF Create
  <2>7. ClaimInv'
        BY <2>1, <2>2, <1>1, <1>4 DEF ClaimInv, Create
  <2> QED
      BY <2>3, <2>4, <2>5, <2>6, <2>7
<1> QED
    BY <1>5, <1>6 DEF Create

LEMMA DecideInv == ASSUME KycInv, NEW i \in Ids, Approve(i) \/ Reject(i) PROVE KycInv'
<1> USE DEF KycInv
<1>1. PICK d \in {"approved", "rejected"} :
          /\ requests[i] = "pending"
          /\ requests' = [requests EXCEPT ![i] = d]
          /\ passed' = (d = "approved")
          /\ UNCHANGED <<lastId, submit>>
      BY DEF Approve, Reject
<1>2. \A k \in Ids : requests'[k] = IF k = i THEN d ELSE requests[k]
      BY <1>1 DEF TypeOK
<1>3. Existing' = Existing
      BY <1>1, <1>2 DEF Existing
<1>4. TypeOK'
  <2>1. requests' \in [Ids -> KycStatus \cup {"none"}]
        BY <1>1 DEF TypeOK, KycStatus
  <2> QED
      BY <2>1, <1>1, <1>3 DEF TypeOK
<1>5. OnePending'
      BY <1>1, <1>2 DEF OnePending
<1>6. PassedIsApproved'
      BY <1>1, <1>2 DEF PassedIsApproved
<1>7. SoleRequestTells'
  <2>1. i \in Existing
        BY <1>1 DEF Existing
  <2> QED
      BY <2>1, <1>1, <1>2, <1>3 DEF SoleRequestTells
<1>8. ClaimInv'
      BY <1>1, <1>2 DEF ClaimInv
<1> QED
    BY <1>4, <1>5, <1>6, <1>7, <1>8

LEMMA KycInvNext == KycInv /\ [Next]_vars => KycInv'
<1> SUFFICES ASSUME KycInv, [Next]_vars PROVE KycInv'
    OBVIOUS
<1>1. CASE UNCHANGED vars
      BY <1>1 DEF vars, KycInv, TypeOK, OnePending, PassedIsApproved, SoleRequestTells, ClaimInv, Existing
<1>2. CASE Next
      BY <1>2, FindInv, LockExistingInv, CreateInv, DecideInv DEF Next
<1> QED
    BY <1>1, <1>2
-----------------------------------------------------------------------------
\* The inductive invariant holds in every reachable state.
THEOREM KycInvAlways == Spec => []KycInv
BY KycInvInit, KycInvNext, PTL DEF Spec

\* The middleware lets in only a user who has an approved request.
THEOREM PassedIsApprovedAlways == Spec => []PassedIsApproved
BY KycInvAlways, PTL DEF KycInv

\* With one request, kyc_passed_at says exactly whether it is approved.
THEOREM SoleRequestTellsAlways == Spec => []SoleRequestTells
BY KycInvAlways, PTL DEF KycInv

\* No decision is ever taken back.
THEOREM DecisionsAreFinal == Spec => DecisionIsFinal
<1>1. KycInv /\ [Next]_vars =>
        [\A i \in Ids : /\ requests[i] = "approved" => requests'[i] = "approved"
                        /\ requests[i] = "rejected" => requests'[i] \in {"rejected", "none"}]_vars
  <2> SUFFICES ASSUME KycInv, Next, NEW i \in Ids
               PROVE  /\ requests[i] = "approved" => requests'[i] = "approved"
                      /\ requests[i] = "rejected" => requests'[i] \in {"rejected", "none"}
      OBVIOUS
  <2>1. CASE \E s \in Submitters : FindExisting(s) \/ LockExisting(s)
        BY <2>1 DEF FindExisting, LockExisting
  <2>2. ASSUME NEW s \in Submitters, Create(s)
        PROVE  /\ requests[i] = "approved" => requests'[i] = "approved"
               /\ requests[i] = "rejected" => requests'[i] \in {"rejected", "none"}
    <3>1. requests[lastId + 1] = "none" \/ lastId + 1 \notin Ids
          BY MaxRequestsAssumption DEF KycInv, TypeOK, Existing, Ids
    <3>2. CASE requests' = requests
          BY <3>2
    <3>3. CASE requests' = [k \in Ids |-> IF k = lastId + 1 THEN "pending"
                                          ELSE IF k = submit[s].existing THEN "none" ELSE requests[k]]
      <4>1. i # lastId + 1 \/ requests[i] = "none"
            BY <3>1
      <4>2. i = submit[s].existing => requests[i] = "rejected"
            BY <2>2, MaxRequestsAssumption DEF KycInv, ClaimInv, Create, Ids
      <4> QED
          BY <3>3, <4>1, <4>2
    <3> QED
        BY <2>2, <3>2, <3>3 DEF Create
  <2>3. ASSUME NEW k \in Ids, Approve(k) \/ Reject(k)
        PROVE  /\ requests[i] = "approved" => requests'[i] = "approved"
               /\ requests[i] = "rejected" => requests'[i] \in {"rejected", "none"}
        BY <2>3 DEF Approve, Reject, KycInv, TypeOK
  <2> QED
      BY <2>1, <2>2, <2>3 DEF Next
<1> QED
    BY <1>1, KycInvAlways, PTL DEF Spec, DecisionIsFinal
=============================================================================
