----------------------------- MODULE WebhookInbox -----------------------------
(***************************************************************************)
(* The road of a payment webhook: WebhookController queues a job for every *)
(* delivery, ProcessPaymentWebhook runs it with retries, and               *)
(* HandlePaymentWebhook journals the event in webhook_logs in a first      *)
(* database transaction and applies it to the transactions table in a      *)
(* second one.                                                             *)
(*                                                                         *)
(* Providers deliver an event late, several times, or before the request   *)
(* that called them has committed its row; workers die between any two     *)
(* transactions and the queue then runs the job again.                     *)
(*                                                                         *)
(* What a success does to the booking is BookingPayment's matter: here the *)
(* booking either takes the transition or refuses it (Refuse).             *)
(***************************************************************************)
EXTENDS Naturals, FiniteSets

CONSTANTS
    Events,     \* values of event_id
    NoEvent,    \* the event of a job not queued yet
    KindOf,     \* event_type of each event
    RefOf,      \* provider_transaction_id that each event is about
    Charges,    \* ids of the rows of type CHARGE ...
    Refunds,    \* ... and REFUND, in the order of their insertion
    RowRef,     \* provider_transaction_id of each row
    Jobs,       \* deliveries: bound on the jobs ever queued
    MaxTries    \* bound on the attempts, for retryUntil() = 10 minutes

RowIds == Charges \cup Refunds
Kinds == {"transaction.success", "transaction.failed", "refund.completed", "refund.failed", "other"}

ASSUME InboxAssumption ==
    /\ NoEvent \notin Events
    /\ KindOf \in [Events -> Kinds]
    /\ RowIds \subseteq Nat /\ Charges \cap Refunds = {}
    /\ MaxTries \in Nat \ {0}

VARIABLES
    log,        \* webhook_logs.status by event; "none" where there is no row
    job,        \* the queue and what each running job has reached
    row,        \* transactions.status by row; "none" before its insert commits
    effects     \* commits that applied the event to a row (history variable)

vars == <<log, job, row, effects>>

LogStatuses == {"none", "RECEIVED", "PROCESSED", "IGNORED", "FAILED"}
Phases == {"none", "queued", "journal", "business", "mark", "done", "failed"}
Final == {"COMPLETED", "FAILED"}

TypeOK ==
    /\ log \in [Events -> LogStatuses]
    /\ job \in [Jobs -> [event : Events \cup {NoEvent}, phase : Phases, tries : 0..MaxTries]]
    /\ row \in [RowIds -> {"none", "PENDING"} \cup Final]
    /\ effects \in [Events -> Nat]

Init ==
    /\ log = [e \in Events |-> "none"]
    /\ job = [j \in Jobs |-> [event |-> NoEvent, phase |-> "none", tries |-> 0]]
    /\ row = [r \in RowIds |-> "none"]
    /\ effects = [e \in Events |-> 0]
-----------------------------------------------------------------------------
Step(j, phase, tries) ==
    job' = [job EXCEPT ![j] = [event |-> job[j].event, phase |-> phase, tries |-> tries]]
Enter(j, phase) == Step(j, phase, job[j].tries)

\* Transaction::where('provider_transaction_id', ...)->first(): the real
\* providers give a refund the id of its charge, so the charge is found first.
Found(ref) == {r \in RowIds : RowRef[r] = ref /\ row[r] # "none"}
Lookup(ref) == CHOOSE r \in Found(ref) : \A s \in Found(ref) : r <= s

Target(j) == Lookup(RefOf[job[j].event])
Kind(j) == KindOf[job[j].event]
IsSuccess(kind) == kind \in {"transaction.success", "refund.completed"}

\* match ($eventType) with the type test that opens each of the four handlers.
Handles(kind, r) ==
    \/ r \in Charges /\ kind \in {"transaction.success", "transaction.failed"}
    \/ r \in Refunds /\ kind \in {"refund.completed", "refund.failed"}
-----------------------------------------------------------------------------
(* The provider and the requests that call it.                             *)

\* WebhookController: a verified delivery is queued, whether the event is new or
\* delivered again, and the provider is answered 202.
Deliver(j, e) ==
    /\ job[j].phase = "none"
    /\ job' = [job EXCEPT ![j] = [event |-> e, phase |-> "queued", tries |-> 0]]
    /\ UNCHANGED <<log, row, effects>>

\* The insert of CreateTransaction, RefundTransaction or AdminRefundTransaction
\* commits, after the provider has been called; a refund follows its charge.
InsertRow(r, st) ==
    /\ row[r] = "none"
    /\ r \in Refunds => \E c \in Charges : row[c] = "COMPLETED"
    /\ row' = [row EXCEPT ![r] = st]
    /\ UNCHANGED <<log, job, effects>>
-----------------------------------------------------------------------------
(* The queue worker.                                                       *)

\* Mutant: the attempts are not limited.
Pop_NoLimit(j) ==
    /\ job[j].phase = "queued"
    /\ Step(j, "journal", job[j].tries + 1)
    /\ UNCHANGED <<log, row, effects>>

\* The worker pops the job: attempts is counted before it runs.
Pop(j) ==
    /\ job[j].phase = "queued" /\ job[j].tries < MaxTries
    /\ Step(j, "journal", job[j].tries + 1)
    /\ UNCHANGED <<log, row, effects>>

\* No attempt is left: failed() raises the alert.
GiveUp(j) ==
    /\ job[j].phase = "queued" /\ job[j].tries = MaxTries
    /\ Enter(j, "failed")
    /\ UNCHANGED <<log, row, effects>>

\* The worker dies or is killed by the 30 s timeout; its open database
\* transaction rolls back and the queue shows the job again after retry_after.
Crash(j) ==
    /\ job[j].phase \in {"journal", "business", "mark"}
    /\ Enter(j, "queued")
    /\ UNCHANGED <<log, row, effects>>
-----------------------------------------------------------------------------
(* HandlePaymentWebhook::execute.                                          *)

\* Mutant: a journalled event that was not processed is taken up again.
Journal_TakesUp(j) ==
    /\ job[j].phase = "journal"
    /\ LET e == job[j].event IN
       IF log[e] = "PROCESSED"
       THEN Enter(j, "done") /\ UNCHANGED log
       ELSE Enter(j, "business") /\ log' = [log EXCEPT ![e] = "RECEIVED"]
    /\ UNCHANGED <<row, effects>>

\* Step 1: the event is journalled once; a known event_id ends the job.
Journal(j) ==
    /\ job[j].phase = "journal"
    /\ LET e == job[j].event IN
       IF log[e] # "none"
       THEN Enter(j, "done") /\ UNCHANGED log
       ELSE Enter(j, "business") /\ log' = [log EXCEPT ![e] = "RECEIVED"]
    /\ UNCHANGED <<row, effects>>

\* Two deliveries of a new event: neither finds a row to lock, both insert, and
\* the unique index on event_id throws in the later one.
JournalClash(j) ==
    /\ job[j].phase = "journal"
    /\ log[job[j].event] # "none"
    /\ Enter(j, "queued")
    /\ UNCHANGED <<log, row, effects>>

\* Step 2, no transaction with this id: RetryableWebhookException.
NotFound(j) ==
    /\ job[j].phase = "business"
    /\ Found(RefOf[job[j].event]) = {}
    /\ Enter(j, "mark")
    /\ UNCHANGED <<log, row, effects>>

\* Step 2, a final transaction, an unknown event or one of the other type.
Ignore(j) ==
    /\ job[j].phase = "business"
    /\ Found(RefOf[job[j].event]) # {}
    /\ row[Target(j)] \in Final \/ ~Handles(Kind(j), Target(j))
    /\ log' = [log EXCEPT ![job[j].event] = "IGNORED"]
    /\ Enter(j, "done")
    /\ UNCHANGED <<row, effects>>

\* Mutants: the row is not tested for being final; the log is left to a later
\* transaction.
Apply_Finalised(j) ==
    /\ job[j].phase = "business"
    /\ Found(RefOf[job[j].event]) # {}
    /\ Handles(Kind(j), Target(j))
    /\ row' = [row EXCEPT ![Target(j)] = IF IsSuccess(Kind(j)) THEN "COMPLETED" ELSE "FAILED"]
    /\ log' = [log EXCEPT ![job[j].event] = "PROCESSED"]
    /\ effects' = [effects EXCEPT ![job[j].event] = @ + 1]
    /\ Enter(j, "done")
Apply_LogLater(j) ==
    /\ job[j].phase = "business"
    /\ Found(RefOf[job[j].event]) # {}
    /\ row[Target(j)] = "PENDING" /\ Handles(Kind(j), Target(j))
    /\ row' = [row EXCEPT ![Target(j)] = IF IsSuccess(Kind(j)) THEN "COMPLETED" ELSE "FAILED"]
    /\ effects' = [effects EXCEPT ![job[j].event] = @ + 1]
    /\ Enter(j, "mark")
    /\ UNCHANGED log

\* Step 2: the row, locked, is finalised and the log marked in one commit.
Apply(j) ==
    /\ job[j].phase = "business"
    /\ Found(RefOf[job[j].event]) # {}
    /\ row[Target(j)] = "PENDING" /\ Handles(Kind(j), Target(j))
    /\ row' = [row EXCEPT ![Target(j)] = IF IsSuccess(Kind(j)) THEN "COMPLETED" ELSE "FAILED"]
    /\ log' = [log EXCEPT ![job[j].event] = "PROCESSED"]
    /\ effects' = [effects EXCEPT ![job[j].event] = @ + 1]
    /\ Enter(j, "done")

\* Step 2: transitionTo refuses the new status and everything rolls back.
Refuse(j) ==
    /\ job[j].phase = "business"
    /\ Found(RefOf[job[j].event]) # {}
    /\ row[Target(j)] = "PENDING" /\ Handles(Kind(j), Target(j)) /\ IsSuccess(Kind(j))
    /\ Enter(j, "mark")
    /\ UNCHANGED <<log, row, effects>>

\* Mutant: the job stays reserved.
MarkFailed_NoRelease(j) ==
    /\ job[j].phase = "mark"
    /\ log' = [log EXCEPT ![job[j].event] = "FAILED"]
    /\ UNCHANGED <<job, row, effects>>

\* markFailed in a transaction of its own; the exception then releases the job.
MarkFailed(j) ==
    /\ job[j].phase = "mark"
    /\ log' = [log EXCEPT ![job[j].event] = "FAILED"]
    /\ Enter(j, "queued")
    /\ UNCHANGED <<row, effects>>
-----------------------------------------------------------------------------
Handle(j) == NotFound(j) \/ Ignore(j) \/ Apply(j) \/ Refuse(j)
Run(j) == Pop(j) \/ GiveUp(j) \/ Journal(j) \/ Handle(j) \/ MarkFailed(j)

Next ==
    \/ \E j \in Jobs : Run(j) \/ JournalClash(j) \/ Crash(j)
    \/ \E j \in Jobs, e \in Events : Deliver(j, e)
    \/ \E r \in RowIds, st \in {"PENDING", "COMPLETED"} : InsertRow(r, st)

Spec == Init /\ [][Next]_vars

\* The queue workers run: a queued or running job goes on until it ends.
FairSpec == Spec /\ \A j \in Jobs : WF_vars(Run(j))
-----------------------------------------------------------------------------
\* An event is applied at most once, and the log says PROCESSED exactly when it
\* was, however often it is delivered, retried or interrupted by a crash.
LogTellsEffect == \A e \in Events : effects[e] = IF log[e] = "PROCESSED" THEN 1 ELSE 0

\* Only one running job is ever responsible for an event.
OneOwner ==
    \A i, j \in Jobs :
        job[i].phase \in {"business", "mark"} /\ job[j].phase \in {"business", "mark"}
        /\ job[i].event = job[j].event => i = j

\* A final row is never rewritten, although different events about it arrive in
\* any order.
FinalRowStays ==
    [][\A r \in RowIds : row[r] \in Final => row'[r] = row[r]]_vars

\* Every queued delivery ends, in a normal return or in failed(), whatever
\* crashes and clashes there are.
JobsEnd == \A j \in Jobs : job[j].phase = "queued" ~> job[j].phase \in {"done", "failed"}
-----------------------------------------------------------------------------
(* What the documentation says and the code does not do.                   *)

\* ProcessPaymentWebhook.php: no retryable exception is swallowed; the queue
\* retries, and failed() is called when the attempts are used up.  So a job that
\* ends normally leaves an event that was handled.
NothingSwallowed ==
    \A j \in Jobs : job[j].phase = "done" => log[job[j].event] \in {"RECEIVED", "PROCESSED", "IGNORED"}
=============================================================================
