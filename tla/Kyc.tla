---------------------------------- MODULE Kyc ----------------------------------
(***************************************************************************)
(* The identity check of one user: SubmitKycRequest, ApproveKycRequest and *)
(* RejectKycRequest (app/Actions/Kyc), the last two from the admin panel   *)
(* as well, and users.kyc_passed_at, which the EnsureKYCValidated          *)
(* middleware asks.                                                        *)
(*                                                                         *)
(* A submission is split where others get in between: the statement that   *)
(* looks for a request takes its snapshot, waits for the lock of a row of  *)
(* it, and the insertion comes later.  A decision locks its one row and    *)
(* then only writes: one step.  External, PostgreSQL: the partial unique   *)
(* index kyc_requests_one_pending_per_user, and the locking SELECT that    *)
(* rereads a row it waited for and skips it when it is gone.               *)
(***************************************************************************)
EXTENDS Naturals

CONSTANTS
    Submitters,     \* HTTP requests of the user that submit documents
    MaxRequests     \* bound: ids of kyc_requests

ASSUME MaxRequestsAssumption == MaxRequests \in Nat

VARIABLES
    requests,   \* kyc_requests.status by id; "none" before the row exists or when deleted
    lastId,     \* the sequence of kyc_requests
    passed,     \* users.kyc_passed_at is set
    submit      \* the submissions under way

vars == <<requests, lastId, passed, submit>>

Ids == 1 .. MaxRequests
KycStatus == {"pending", "approved", "rejected"}
Existing == {i \in Ids : requests[i] # "none"}

Idle == [step |-> "idle", seen |-> {}, existing |-> 0]

TypeOK ==
    /\ requests \in [Ids -> KycStatus \cup {"none"}]
    /\ lastId \in 0 .. MaxRequests
    /\ passed \in BOOLEAN
    /\ submit \in [Submitters -> [step : {"idle", "find", "create"},
                                  seen : SUBSET Ids, existing : 0 .. MaxRequests]]
    /\ \A i \in Existing : i <= lastId

Init ==
    /\ requests = [i \in Ids |-> "none"]
    /\ lastId = 0
    /\ passed = FALSE
    /\ submit = [s \in Submitters |-> Idle]

\* SubmitKycRequest: the SELECT ... FOR UPDATE of the user's requests begins.
FindExisting(s) ==
    /\ submit[s].step = "idle" /\ lastId < MaxRequests
    /\ submit' = [submit EXCEPT ![s] = [step |-> "find", seen |-> Existing, existing |-> 0]]
    /\ UNCHANGED <<requests, lastId, passed>>

Locked(i) == \E s \in Submitters : submit[s].step = "create" /\ submit[s].existing = i

\* Mutant: an approved request is replaced like a rejected one.
Replaceable_Approved(status) == status # "pending"

\* isFinal() and not isApproved().
Replaceable(status) == status = "rejected"

\* It gets its row, any of them as first() has no order, or none when all it saw are
\* gone; a request that is pending or approved refuses the submission.
LockExisting(s) ==
    /\ submit[s].step = "find"
    /\ UNCHANGED <<requests, lastId, passed>>
    /\ \/ /\ submit[s].seen \cap Existing = {}
          /\ submit' = [submit EXCEPT ![s] = [step |-> "create", seen |-> {}, existing |-> 0]]
       \/ \E i \in submit[s].seen \cap Existing :
             /\ ~Locked(i)
             /\ submit' = [submit EXCEPT ![s] =
                              IF Replaceable(requests[i])
                              THEN [step |-> "create", seen |-> {}, existing |-> i] ELSE Idle]

\* The rejected request goes and a new one comes, unless the index finds another that
\* is pending: then the transaction is rolled back.
Create(s) ==
    /\ submit[s].step = "create" /\ lastId < MaxRequests
    /\ submit' = [submit EXCEPT ![s] = Idle]
    /\ lastId' = lastId + 1
    /\ requests' = IF \E i \in Ids : requests[i] = "pending" THEN requests
                   ELSE [i \in Ids |-> IF i = lastId + 1 THEN "pending"
                                       ELSE IF i = submit[s].existing THEN "none" ELSE requests[i]]
    /\ UNCHANGED passed

\* Mutant: a rejected request can still be approved.
Approve_Rejected(i) ==
    /\ requests[i] \in {"pending", "rejected"} /\ ~Locked(i)
    /\ requests' = [requests EXCEPT ![i] = "approved"]
    /\ passed' = TRUE
    /\ UNCHANGED <<lastId, submit>>

Approve(i) ==
    /\ requests[i] = "pending"
    /\ requests' = [requests EXCEPT ![i] = "approved"]
    /\ passed' = TRUE
    /\ UNCHANGED <<lastId, submit>>

Reject(i) ==
    /\ requests[i] = "pending"
    /\ requests' = [requests EXCEPT ![i] = "rejected"]
    /\ passed' = FALSE
    /\ UNCHANGED <<lastId, submit>>

Next ==
    \/ \E s \in Submitters : FindExisting(s) \/ LockExisting(s) \/ Create(s)
    \/ \E i \in Ids : Approve(i) \/ Reject(i)

Spec == Init /\ [][Next]_vars
-----------------------------------------------------------------------------
\* Two submissions that both found nothing do not leave two requests to decide.
OnePending == \A i, j \in Ids : requests[i] = "pending" /\ requests[j] = "pending" => i = j

\* The middleware lets in a user whose request was approved and is still there,
\* whatever was submitted and deleted meanwhile.
PassedIsApproved == passed => \E i \in Ids : requests[i] = "approved"

\* A user with one request has passed exactly when it is approved.  With two, which
\* crossing submissions can leave, the last decision wins over the approved one.
SoleRequestTells ==
    \A i \in Existing : Existing = {i} => (passed <=> requests[i] = "approved")

\* A decision is never taken back: an approved request stays so, a rejected one can
\* only be deleted.
DecisionIsFinal ==
    [][\A i \in Ids : /\ requests[i] = "approved" => requests'[i] = "approved"
                      /\ requests[i] = "rejected" => requests'[i] \in {"rejected", "none"}]_vars
-----------------------------------------------------------------------------
(* The inductive invariant behind them.                                    *)

\* What a submission is about to delete is rejected, and its alone.
ClaimInv ==
    \A s \in Submitters :
        submit[s].step = "create" /\ submit[s].existing # 0 =>
            /\ submit[s].existing \in Ids
            /\ requests[submit[s].existing] = "rejected"
            /\ \A t \in Submitters :
                  submit[t].step = "create" /\ submit[t].existing = submit[s].existing => s = t

KycInv == TypeOK /\ OnePending /\ PassedIsApproved /\ SoleRequestTells /\ ClaimInv
=============================================================================
