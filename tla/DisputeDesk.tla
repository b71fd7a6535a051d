------------------------------ MODULE DisputeDesk ------------------------------
(***************************************************************************)
(* The dispute of one booking as the admins' desk sees it: its status, its *)
(* history, its messages and its decision.                                 *)
(*                                                                         *)
(* UpdateDisputeStatus and AddDisputeMessage lock the row of the dispute.  *)
(* ResolveDispute locks the booking and reads the dispute WITHOUT its lock;*)
(* its UPDATE waits for the row and then writes what the stale read        *)
(* allowed.  Every operation is a pair of actions, run by an agent.        *)
(*                                                                         *)
(* The money is abstracted to whom it goes to; module BookingPayment has   *)
(* its rows and their races.                                               *)
(***************************************************************************)
EXTENDS Naturals, Sequences, BookingStatus

CONSTANTS
    Agents,         \* admins, and users who write messages
    MaxHistory,     \* bound on the history of the dispute
    MaxMessages     \* bound on its messages

ASSUME BoundsAssumption == MaxHistory \in Nat /\ MaxMessages \in Nat

VARIABLES
    booking,        \* bookings.status
    money,          \* the booking's last transaction: "charge", "payout", "paid", "refund"
    status,         \* disputes.status, or "none" while there is no dispute
    decision,       \* disputes.decision: "none", "refund", "payout"
    assignee,       \* disputes.assigned_to
    history,        \* dispute_status_histories, oldest first
    messages,       \* number of dispute_messages
    doing           \* the operation each agent is in the middle of

vars == <<booking, money, status, decision, assignee, history, messages, doing>>

DisputeStatuses ==
    {"OPEN", "UNDER_REVIEW", "WAITING_CUSTOMER", "WAITING_TRAVELER", "ESCALATED", "RESOLVED"}

\* Mutant: a resolved dispute is reopened.
DisputeTransitions_Reopen(s) ==
    CASE s = "OPEN" -> {"UNDER_REVIEW", "ESCALATED", "RESOLVED"}
      [] s = "RESOLVED" -> {"UNDER_REVIEW"}
      [] OTHER -> {"UNDER_REVIEW", "RESOLVED"}

DisputeTransitions(s) ==
    CASE s = "OPEN" -> {"UNDER_REVIEW", "ESCALATED", "RESOLVED"}
      [] s = "UNDER_REVIEW" -> {"WAITING_CUSTOMER", "WAITING_TRAVELER", "ESCALATED", "RESOLVED"}
      [] s \in {"WAITING_CUSTOMER", "WAITING_TRAVELER"} -> {"UNDER_REVIEW", "ESCALATED", "RESOLVED"}
      [] s = "ESCALATED" -> {"UNDER_REVIEW", "RESOLVED"}
      [] s = "RESOLVED" -> {}

Edges == [from : DisputeStatuses \cup {"none"}, to : DisputeStatuses]

Idle == [what |-> "none", seen |-> "none", to |-> "none"]

TypeOK ==
    /\ booking \in DisputableStatuses \cup {"EN_LITIGE", "TERMINE", "REMBOURSEE"}
    /\ money \in {"charge", "payout", "paid", "refund"}
    /\ status \in DisputeStatuses \cup {"none"}
    /\ decision \in {"none", "refund", "payout"}
    /\ assignee \in Agents \cup {"none"}
    /\ history \in Seq(Edges) /\ Len(history) <= MaxHistory
    /\ messages \in 0..MaxMessages
    /\ doing \in [Agents -> [what : {"none", "status", "message", "resolve"},
                             seen : DisputeStatuses \cup {"none"},
                             to : DisputeStatuses \cup {"none", "refund", "payout"}]]

\* A paid booking before any dispute; a payout is pending only after the delivery.
Init ==
    /\ booking \in DisputableStatuses
    /\ money \in IF booking = "LIVREE" THEN {"charge", "payout"} ELSE {"charge"}
    /\ status = "none"
    /\ decision = "none"
    /\ assignee = "none"
    /\ history = <<>>
    /\ messages = 0
    /\ doing = [a \in Agents |-> Idle]
-----------------------------------------------------------------------------
Free(a) == doing[a] = Idle

\* Who has the row of the dispute, or the row of the booking, locked.
DisputeUnlocked == \A a \in Agents : doing[a].what \notin {"status", "message"}
BookingUnlocked == \A a \in Agents : doing[a].what # "resolve"

Record(from, to) ==
    /\ Len(history) < MaxHistory
    /\ history' = Append(history, [from |-> from, to |-> to])

Begins(a, what, to) ==
    /\ Free(a)
    /\ doing' = [doing EXCEPT ![a] = [what |-> what, seen |-> status, to |-> to]]
    /\ UNCHANGED <<booking, money, status, decision, assignee, history, messages>>

Ends(a) == doing' = [doing EXCEPT ![a] = Idle]

OpenDispute ==
    /\ BookingUnlocked
    /\ booking \in DisputableStatuses /\ status = "none"
    /\ money \notin {"paid", "refund"}
    /\ booking' = "EN_LITIGE"
    /\ status' = "OPEN"
    /\ Record("none", "OPEN")
    /\ UNCHANGED <<money, decision, assignee, messages, doing>>

\* Mutant: the row is not locked.
BeginUpdateStatus_NoLock(a, to) ==
    /\ status # "none"
    /\ to \in DisputeTransitions(status)
    /\ Begins(a, "status", to)

\* UpdateDisputeStatus::execute: the row is locked and the transition validated.
BeginUpdateStatus(a, to) ==
    /\ status # "none"
    /\ DisputeUnlocked
    /\ to \in DisputeTransitions(status)
    /\ Begins(a, "status", to)

CommitUpdateStatus(a) ==
    /\ doing[a].what = "status"
    /\ status' = doing[a].to
    /\ Record(doing[a].seen, doing[a].to)
    /\ assignee' = IF doing[a].to = "UNDER_REVIEW" /\ assignee = "none" THEN a ELSE assignee
    /\ Ends(a)
    /\ UNCHANGED <<booking, money, decision, messages>>

\* Mutant: the row is not locked.
BeginAddMessage_NoLock(a) ==
    /\ status \notin {"none", "RESOLVED"}
    /\ Begins(a, "message", "none")

\* AddDisputeMessage::execute: the row is locked and must not be resolved.
BeginAddMessage(a) ==
    /\ status \notin {"none", "RESOLVED"}
    /\ DisputeUnlocked
    /\ Begins(a, "message", "none")

CommitAddMessage(a) ==
    /\ doing[a].what = "message"
    /\ messages < MaxMessages
    /\ messages' = messages + 1
    /\ Ends(a)
    /\ UNCHANGED <<booking, money, status, decision, assignee, history>>

\* Mutants: the booking is not locked; no payout is looked for.
BeginResolve_NoLock(a, d) ==
    /\ booking = "EN_LITIGE"
    /\ d = "payout" => money = "payout"
    /\ Begins(a, "resolve", d)
BeginResolve_NoPayoutCheck(a, d) ==
    /\ BookingUnlocked
    /\ booking = "EN_LITIGE"
    /\ Begins(a, "resolve", d)

\* ResolveDispute::execute under the lock of the booking: validate(), then the
\* dispute is read without its lock.
BeginResolve(a, d) ==
    /\ BookingUnlocked
    /\ booking = "EN_LITIGE"
    /\ d = "payout" => money = "payout"
    /\ Begins(a, "resolve", d)

\* AdminRefundTransaction throws after a completed payout.
MoneyAllows(d) == d = "refund" => money # "paid"

\* What the decision does to the booking and its money.
Decided(d) ==
    /\ booking' = IF d = "payout" THEN "TERMINE" ELSE booking
    /\ money' = IF d = "payout" THEN "paid" ELSE "refund"

\* Dispute::resolve(), unless the dispute was read as resolved: its UPDATE waits for
\* the lock of the row and does not look at the status again.
CommitResolve(a) ==
    /\ doing[a].what = "resolve"
    /\ MoneyAllows(doing[a].to)
    /\ Decided(doing[a].to)
    /\ IF doing[a].seen = "RESOLVED"
       THEN UNCHANGED <<status, decision, history>>
       ELSE /\ DisputeUnlocked
            /\ status' = "RESOLVED"
            /\ decision' = doing[a].to
            /\ Record(doing[a].seen, "RESOLVED")
    /\ Ends(a)
    /\ UNCHANGED <<assignee, messages>>

\* A guard throws, or the process dies.
Rollback(a) ==
    /\ ~Free(a)
    /\ Ends(a)
    /\ UNCHANGED <<booking, money, status, decision, assignee, history, messages>>

\* AdminRefundTransaction by itself: the dispute is not looked at.
AdminRefundTransaction ==
    /\ BookingUnlocked
    /\ booking = "EN_LITIGE" /\ money = "charge"
    /\ money' = "refund"
    /\ UNCHANGED <<booking, status, decision, assignee, history, messages, doing>>

\* The webhook of a refund ends the booking.
RefundCompleted ==
    /\ BookingUnlocked
    /\ booking = "EN_LITIGE" /\ money = "refund"
    /\ booking' = "REMBOURSEE"
    /\ UNCHANGED <<money, status, decision, assignee, history, messages, doing>>

\* MarkPayoutCompleted does not look at a booking that is not LIVREE.
MarkPayoutCompleted ==
    /\ money = "payout"
    /\ money' = "paid"
    /\ booking' = IF booking = "LIVREE" THEN "TERMINE" ELSE booking
    /\ UNCHANGED <<status, decision, assignee, history, messages, doing>>

Next ==
    \/ OpenDispute
    \/ \E a \in Agents :
        \/ \E to \in DisputeStatuses : BeginUpdateStatus(a, to)
        \/ CommitUpdateStatus(a)
        \/ BeginAddMessage(a)
        \/ CommitAddMessage(a)
        \/ \E d \in {"refund", "payout"} : BeginResolve(a, d)
        \/ CommitResolve(a)
        \/ Rollback(a)
    \/ AdminRefundTransaction
    \/ RefundCompleted
    \/ MarkPayoutCompleted

Spec == Init /\ [][Next]_vars
-----------------------------------------------------------------------------
\* RESOLVED is terminal for the row, in spite of the desk's and the resolver's
\* crossing writes (dispute-strategy.md, "Contraintes" 2).
ResolvedIsFinal == [][status = "RESOLVED" => status' = "RESOLVED"]_vars

\* A decision is never changed, nor taken back: admins who decide at once are kept
\* apart by the lock of the booking.
DecisionKept == [][decision # "none" => decision' = decision]_vars

\* Nobody writes to a dispute after its resolution, although the resolver does not
\* wait for the row before it decides.
NoLateMessage == [][messages' # messages => status # "RESOLVED"]_vars

\* The history tells the story of the row: each line starts where the one before
\* ended, and the last ends in the current status.  Only the decision's own line may
\* start from the stale status it has read.
HistoryTellsStatus ==
    /\ status # "none" => history # <<>> /\ history[Len(history)].to = status
    /\ \A k \in 2..Len(history) :
          history[k].from = history[k - 1].to \/ (history[k].to = "RESOLVED" /\ decision # "none")

\* The booking's end agrees with the decision: none that was decided for the sender
\* ends in TERMINE, none decided for the traveler in REMBOURSEE, and a decision and
\* its money commit together.
DecisionFitsBooking ==
    /\ decision = "refund" => booking \in {"EN_LITIGE", "REMBOURSEE"} /\ money = "refund"
    /\ decision = "payout" => booking = "TERMINE" /\ money = "paid"
=============================================================================
