--------------------------- MODULE DisputeDeskProofs ---------------------------
(***************************************************************************)
(* For any number of agents, and histories of any length: a resolved       *)
(* dispute stays resolved, its decision is kept and fits the booking,      *)
(* nobody writes to it any more, and its history tells how it came there.  *)
(***************************************************************************)
EXTENDS DisputeDesk, TLAPS

AtDesk(a) == doing[a].what \in {"status", "message"}
Resolves(a) == doing[a].what = "resolve"

DoingOK ==
    doing \in [Agents -> [what : {"none", "status", "message", "resolve"},
                          seen : DisputeStatuses \cup {"none"},
                          to : DisputeStatuses \cup {"none", "refund", "payout"}]]

\* The locks of the two rows.
OneAtDesk == \A a, b \in Agents : AtDesk(a) /\ AtDesk(b) => a = b
OneResolves == \A a, b \in Agents : Resolves(a) /\ Resolves(b) => a = b

\* What is read under the lock of the dispute stays true.
DeskSees ==
    \A a \in Agents :
        /\ doing[a].what = "status" =>
              status = doing[a].seen /\ status # "none" /\ doing[a].to \in DisputeTransitions(status)
        /\ doing[a].what = "message" => status \notin {"none", "RESOLVED"}

\* What is read under the lock of the booking stays true; the status of the dispute
\* may not, but no decision is taken meanwhile.
ResolverSees ==
    \A a \in Agents : Resolves(a) =>
        /\ booking = "EN_LITIGE"
        /\ doing[a].to \in {"refund", "payout"}
        /\ doing[a].to = "payout" => money \in {"payout", "paid"}
        /\ doing[a].seen # "RESOLVED" => decision = "none"

DecidedIsResolved == decision # "none" => status = "RESOLVED"

DeskInv ==
    /\ DoingOK /\ status \in DisputeStatuses \cup {"none"}
    /\ OneAtDesk /\ OneResolves
    /\ DeskSees /\ ResolverSees
    /\ DecidedIsResolved /\ DecisionFitsBooking

\* What a step may do, with respect to the three action properties.
StepOK ==
    /\ status = "RESOLVED" => status' = "RESOLVED"
    /\ decision # "none" => decision' = decision
    /\ messages' # messages => status # "RESOLVED"

LEMMA TransitionsStay ==
    ASSUME NEW s \in DisputeStatuses
    PROVE  DisputeTransitions(s) \subseteq DisputeStatuses /\ DisputeTransitions("RESOLVED") = {}
BY DEF DisputeTransitions, DisputeStatuses

LEMMA DeskInvInit == Init => DeskInv
<1> SUFFICES ASSUME Init PROVE DeskInv
    OBVIOUS
<1>1. Idle \in [what : {"none", "status", "message", "resolve"},
                seen : DisputeStatuses \cup {"none"},
                to : DisputeStatuses \cup {"none", "refund", "payout"}]
      BY DEF Idle
<1>2. DoingOK
      BY <1>1 DEF Init, DoingOK
<1>3. \A a \in Agents : doing[a].what = "none"
      BY DEF Init, Idle
<1> QED
    BY <1>2, <1>3 DEF Init, DeskInv, OneAtDesk, OneResolves, DeskSees, ResolverSees, AtDesk, Resolves,
       DecidedIsResolved, DecisionFitsBooking

\* An agent begins: nothing else changes.
LEMMA BeginKeeps ==
    ASSUME DeskInv, NEW a \in Agents, NEW what \in {"status", "message", "resolve"},
           NEW to \in DisputeStatuses \cup {"none", "refund", "payout"}, Begins(a, what, to),
           what \in {"status", "message"} => DisputeUnlocked /\ status \notin {"none", "RESOLVED"},
           what = "status" => to \in DisputeTransitions(status),
           what = "resolve" => /\ BookingUnlocked /\ booking = "EN_LITIGE" /\ to \in {"refund", "payout"}
                               /\ to = "payout" => money = "payout"
    PROVE  DeskInv' /\ StepOK
<1> USE DEF DeskInv
<1>1. UNCHANGED <<booking, money, status, decision, assignee, history, messages>>
      BY DEF Begins
<1>2. /\ doing'[a].what = what /\ doing'[a].seen = status /\ doing'[a].to = to
      /\ \A b \in Agents : b # a => doing'[b] = doing[b]
      BY DEF Begins, DoingOK
<1>3. DoingOK'
      BY DEF Begins, DoingOK
<1>4. OneAtDesk' /\ OneResolves'
      BY <1>2 DEF OneAtDesk, OneResolves, AtDesk, Resolves, DisputeUnlocked, BookingUnlocked
<1>5. DeskSees'
      BY <1>1, <1>2 DEF DeskSees
<1>6. ResolverSees'
      BY <1>1, <1>2 DEF ResolverSees, Resolves, DecidedIsResolved
<1>7. DecidedIsResolved' /\ DecisionFitsBooking' /\ status' \in DisputeStatuses \cup {"none"} /\ StepOK
      BY <1>1 DEF DecidedIsResolved, DecisionFitsBooking, StepOK
<1> QED
    BY <1>3, <1>4, <1>5, <1>6, <1>7

\* What an agent leaves behind when it ends.
LEMMA EndKeeps ==
    ASSUME DeskInv, NEW a \in Agents, Ends(a)
    PROVE  /\ DoingOK' /\ OneAtDesk' /\ OneResolves'
           /\ \A b \in Agents : doing'[b].what # "none" => b # a /\ doing'[b] = doing[b]
<1>1. Idle \in [what : {"none", "status", "message", "resolve"},
                seen : DisputeStatuses \cup {"none"},
                to : DisputeStatuses \cup {"none", "refund", "payout"}]
      BY DEF Idle
<1>2. DoingOK'
      BY <1>1 DEF Ends, DeskInv, DoingOK
<1>3. \A b \in Agents : doing'[b].what # "none" => b # a /\ doing'[b] = doing[b]
      BY DEF Ends, DeskInv, DoingOK, Idle
<1> QED
    BY <1>2, <1>3 DEF DeskInv, OneAtDesk, OneResolves, AtDesk, Resolves

LEMMA UpdateStatusKeeps ==
    ASSUME DeskInv, NEW a \in Agents, CommitUpdateStatus(a) PROVE DeskInv' /\ StepOK
<1> USE DEF DeskInv
<1>1. /\ status' = doing[a].to /\ UNCHANGED <<booking, money, decision, messages>>
      /\ status = doing[a].seen /\ status # "none" /\ status' \in DisputeTransitions(status)
      /\ AtDesk(a)
      BY DEF CommitUpdateStatus, DeskSees, AtDesk
<1>2. status \in DisputeStatuses /\ status # "RESOLVED" /\ status' \in DisputeStatuses
      BY <1>1, TransitionsStay
<1>3. /\ DoingOK' /\ OneAtDesk' /\ OneResolves'
      /\ \A b \in Agents : doing'[b].what # "none" => b # a /\ doing'[b] = doing[b]
      BY EndKeeps DEF CommitUpdateStatus
<1>4. DeskSees'
      BY <1>1, <1>3 DEF DeskSees, OneAtDesk, AtDesk
<1>5. ResolverSees'
      BY <1>1, <1>3 DEF ResolverSees, Resolves
<1>6. decision = "none"
      BY <1>2 DEF DecidedIsResolved
<1> QED
    BY <1>1, <1>2, <1>3, <1>4, <1>5, <1>6 DEF DecidedIsResolved, DecisionFitsBooking, StepOK

LEMMA ResolveKeeps ==
    ASSUME DeskInv, NEW a \in Agents, CommitResolve(a) PROVE DeskInv' /\ StepOK
<1> USE DEF DeskInv
<1>1. /\ booking = "EN_LITIGE" /\ doing[a].to \in {"refund", "payout"} /\ Resolves(a)
      /\ doing[a].to = "payout" => money \in {"payout", "paid"}
      /\ doing[a].seen # "RESOLVED" => decision = "none"
      BY DEF CommitResolve, ResolverSees, Resolves
<1>2. /\ booking' = IF doing[a].to = "payout" THEN "TERMINE" ELSE booking
      /\ money' = IF doing[a].to = "payout" THEN "paid" ELSE "refund"
      /\ doing[a].to = "refund" => money # "paid"
      /\ UNCHANGED messages
      BY DEF CommitResolve, Decided, MoneyAllows
<1>3. /\ DoingOK' /\ OneAtDesk' /\ OneResolves'
      /\ \A b \in Agents : doing'[b].what # "none" => b # a /\ doing'[b] = doing[b]
      BY EndKeeps DEF CommitResolve
<1>4. ResolverSees'
      BY <1>1, <1>3 DEF ResolverSees, Resolves, OneResolves
<1>5. CASE doing[a].seen = "RESOLVED"
  <2>1. UNCHANGED <<status, decision>>
        BY <1>5 DEF CommitResolve
  <2>2. DeskSees'
        BY <2>1, <1>3 DEF DeskSees
  <2>3. DecisionFitsBooking'
        BY <1>1, <1>2, <2>1 DEF DecisionFitsBooking
  <2> QED
      BY <1>2, <1>3, <1>4, <2>1, <2>2, <2>3 DEF DecidedIsResolved, StepOK
<1>6. CASE doing[a].seen # "RESOLVED"
  <2>1. DisputeUnlocked /\ status' = "RESOLVED" /\ decision' = doing[a].to
        BY <1>6 DEF CommitResolve
  <2>2. DeskSees'
        BY <2>1, <1>3 DEF DeskSees, DisputeUnlocked
  <2>3. DecisionFitsBooking'
        BY <1>1, <1>2, <2>1 DEF DecisionFitsBooking
  <2> QED
      BY <1>1, <1>2, <1>3, <1>4, <1>6, <2>1, <2>2, <2>3 DEF DecidedIsResolved, DisputeStatuses, StepOK
<1> QED
    BY <1>5, <1>6

\* An operation that leaves the row of the dispute alone.
LEMMA EndOnlyKeeps ==
    ASSUME DeskInv, NEW a \in Agents, CommitAddMessage(a) \/ Rollback(a) PROVE DeskInv' /\ StepOK
<1> USE DEF DeskInv
<1>1. /\ UNCHANGED <<booking, money, status, decision>>
      /\ messages' # messages => status # "RESOLVED"
      BY DEF CommitAddMessage, Rollback, DeskSees
<1>2. /\ DoingOK' /\ OneAtDesk' /\ OneResolves'
      /\ \A b \in Agents : doing'[b].what # "none" => b # a /\ doing'[b] = doing[b]
      BY EndKeeps DEF CommitAddMessage, Rollback
<1> QED
    BY <1>1, <1>2 DEF DeskSees, ResolverSees, Resolves, DecidedIsResolved, DecisionFitsBooking, StepOK

LEMMA OpenKeeps == ASSUME DeskInv, OpenDispute PROVE DeskInv' /\ StepOK
<1> USE DEF DeskInv
<1>1. status = "none" /\ status' = "OPEN" /\ booking' = "EN_LITIGE" /\ BookingUnlocked
      /\ UNCHANGED <<money, decision, messages, doing>>
      BY DEF OpenDispute
<1>2. decision = "none"
      BY <1>1 DEF DecidedIsResolved
<1>3. DeskSees'
      BY <1>1 DEF DeskSees
<1>4. ResolverSees'
      BY <1>1, <1>2 DEF ResolverSees, Resolves
<1> QED
    BY <1>1, <1>2, <1>3, <1>4 DEF DoingOK, OneAtDesk, OneResolves, AtDesk, Resolves, DecidedIsResolved,
       DecisionFitsBooking, DisputeStatuses, StepOK

\* The money moves without the dispute.
LEMMA MoneyKeeps ==
    ASSUME DeskInv, AdminRefundTransaction \/ RefundCompleted \/ MarkPayoutCompleted
    PROVE  DeskInv' /\ StepOK
<1> USE DEF DeskInv
<1>1. UNCHANGED <<status, decision, messages, doing>>
      BY DEF AdminRefundTransaction, RefundCompleted, MarkPayoutCompleted
<1>2. ResolverSees'
      BY <1>1 DEF ResolverSees, Resolves, BookingUnlocked,
         AdminRefundTransaction, RefundCompleted, MarkPayoutCompleted
<1>3. DecisionFitsBooking'
      BY <1>1 DEF DecisionFitsBooking, AdminRefundTransaction, RefundCompleted, MarkPayoutCompleted
<1> QED
    BY <1>1, <1>2, <1>3 DEF DoingOK, OneAtDesk, OneResolves, AtDesk, Resolves, DeskSees,
       DecidedIsResolved, StepOK

LEMMA NextKeeps == ASSUME DeskInv, Next PROVE DeskInv' /\ StepOK
<1>1. ASSUME NEW a \in Agents, NEW to \in DisputeStatuses, BeginUpdateStatus(a, to)
      PROVE  DeskInv' /\ StepOK
  <2>1. status \notin {"none", "RESOLVED"}
        BY <1>1, TransitionsStay DEF BeginUpdateStatus, DeskInv
  <2> QED
      BY <1>1, <2>1, BeginKeeps DEF BeginUpdateStatus
<1>2. ASSUME NEW a \in Agents, BeginAddMessage(a) PROVE DeskInv' /\ StepOK
      BY <1>2, BeginKeeps DEF BeginAddMessage
<1>3. ASSUME NEW a \in Agents, NEW d \in {"refund", "payout"}, BeginResolve(a, d)
      PROVE  DeskInv' /\ StepOK
      BY <1>3, BeginKeeps DEF BeginResolve
<1> QED
    BY <1>1, <1>2, <1>3, UpdateStatusKeeps, ResolveKeeps, EndOnlyKeeps, OpenKeeps, MoneyKeeps DEF Next

LEMMA DeskInvNext == DeskInv /\ [Next]_vars => DeskInv'
<1> SUFFICES ASSUME DeskInv, [Next]_vars PROVE DeskInv'
    OBVIOUS
<1>1. CASE UNCHANGED vars
      BY <1>1 DEF vars, DeskInv, DoingOK, OneAtDesk, OneResolves, AtDesk, Resolves, DeskSees,
         ResolverSees, DecidedIsResolved, DecisionFitsBooking
<1> QED
    BY <1>1, NextKeeps
-----------------------------------------------------------------------------
(* The history.                                                            *)

HistoryInv ==
    /\ history \in Seq(Edges)
    /\ status = "none" => history = <<>>
    /\ HistoryTellsStatus

\* A new line follows the last one, unless it is the decision's.
LEMMA RecordTells ==
    ASSUME HistoryInv, NEW from \in DisputeStatuses \cup {"none"}, NEW to \in DisputeStatuses,
           Record(from, to), status' = to, decision # "none" => decision' # "none",
           \/ status = "none"
           \/ from = status
           \/ to = "RESOLVED" /\ decision' # "none"
    PROVE  HistoryInv'
<1> DEFINE n == Len(history)
           line == [from |-> from, to |-> to]
<1>1. history \in Seq(Edges) /\ n \in Nat /\ line \in Edges /\ line.from = from /\ line.to = to
      BY DEF HistoryInv, Edges
<1>2. /\ history' \in Seq(Edges) /\ Len(history') = n + 1 /\ history'[n + 1] = line
      /\ \A k \in 1..n : history'[k] = history[k]
      BY <1>1 DEF Record
<1>3. status' # "none"
      BY DEF DisputeStatuses
<1>4. history' # <<>> /\ history'[Len(history')].to = status'
      BY <1>1, <1>2
<1>5. ASSUME NEW k \in 2..Len(history')
      PROVE  history'[k].from = history'[k - 1].to \/ (history'[k].to = "RESOLVED" /\ decision' # "none")
  <2>1. CASE k = n + 1
    <3>1. history'[k] = line /\ history'[k - 1] = history[n] /\ history # <<>>
          BY <1>1, <1>2, <1>5, <2>1
    <3>2. from = status => status # "none" /\ history[n].to = status
          BY <3>1 DEF HistoryInv, HistoryTellsStatus
    <3> QED
        BY <1>1, <3>1, <3>2 DEF HistoryInv
  <2>2. CASE k # n + 1
    <3>1. k \in 2..n /\ k \in 1..n /\ k - 1 \in 1..n
          BY <1>1, <1>2, <1>5, <2>2
    <3> QED
        BY <1>2, <3>1 DEF HistoryInv, HistoryTellsStatus
  <2> QED
      BY <2>1, <2>2
<1> QED
    BY <1>2, <1>3, <1>4, <1>5 DEF HistoryInv, HistoryTellsStatus

\* A step that writes no line leaves the status.
LEMMA NoRecordTells ==
    ASSUME HistoryInv, history' = history, status' = status, decision # "none" => decision' # "none"
    PROVE  HistoryInv'
BY DEF HistoryInv, HistoryTellsStatus

\* Every step keeps the history true.
LEMMA HistoryStep == ASSUME DeskInv, HistoryInv, [Next]_vars PROVE HistoryInv'
<1>1. decision # "none" => decision' # "none"
      BY NextKeeps DEF StepOK, vars
<1>2. CASE OpenDispute
  <2>1. Record("none", "OPEN") /\ status = "none" /\ status' = "OPEN"
        BY <1>2 DEF OpenDispute
  <2> QED
      BY <1>1, <2>1, RecordTells DEF DisputeStatuses
<1>3. ASSUME NEW a \in Agents, CommitUpdateStatus(a) PROVE HistoryInv'
  <2>1. /\ Record(doing[a].seen, doing[a].to) /\ status' = doing[a].to
        /\ status = doing[a].seen /\ status # "none" /\ doing[a].to \in DisputeTransitions(status)
        BY <1>3 DEF CommitUpdateStatus, DeskInv, DeskSees
  <2>2. status \in DisputeStatuses /\ doing[a].to \in DisputeStatuses
        BY <2>1, TransitionsStay DEF DeskInv
  <2> QED
      BY <1>1, <2>1, <2>2, RecordTells
<1>4. ASSUME NEW a \in Agents, CommitResolve(a) PROVE HistoryInv'
  <2>1. doing[a].to \in {"refund", "payout"} /\ doing[a].seen \in DisputeStatuses \cup {"none"}
        BY <1>4 DEF CommitResolve, DeskInv, ResolverSees, Resolves, DoingOK
  <2>2. CASE doing[a].seen = "RESOLVED"
        BY <1>1, <1>4, <2>2, NoRecordTells DEF CommitResolve
  <2>3. CASE doing[a].seen # "RESOLVED"
    <3>1. Record(doing[a].seen, "RESOLVED") /\ status' = "RESOLVED" /\ decision' = doing[a].to
          BY <1>4, <2>3 DEF CommitResolve
    <3>2. decision' # "none" /\ "RESOLVED" \in DisputeStatuses
          BY <2>1, <3>1 DEF DisputeStatuses
    <3> QED
        BY <1>1, <2>1, <3>1, <3>2, RecordTells
  <2> QED
      BY <2>2, <2>3
<1>5. ASSUME history' = history, status' = status PROVE HistoryInv'
      BY <1>1, <1>5, NoRecordTells
<1> QED
    BY <1>2, <1>3, <1>4, <1>5 DEF Next, BeginUpdateStatus, BeginAddMessage, CommitAddMessage, BeginResolve, Begins,
       Rollback, AdminRefundTransaction, RefundCompleted, MarkPayoutCompleted, vars

\* The types of what DeskInv does not hold.
RestOK ==
    /\ booking \in DisputableStatuses \cup {"EN_LITIGE", "TERMINE", "REMBOURSEE"}
    /\ money \in {"charge", "payout", "paid", "refund"}
    /\ decision \in {"none", "refund", "payout"}
    /\ assignee \in Agents \cup {"none"}
    /\ Len(history) <= MaxHistory
    /\ messages \in 0..MaxMessages

\* Every step keeps these types.
LEMMA RestStep == ASSUME DeskInv, HistoryInv, RestOK, [Next]_vars PROVE RestOK'
<1>1. history \in Seq(Edges) /\ MaxMessages \in Nat /\ MaxHistory \in Nat
      BY BoundsAssumption DEF HistoryInv
<1>2. \A from, to : Record(from, to) => Len(history') <= MaxHistory
      BY <1>1 DEF Record
<1>3. CASE OpenDispute
      BY <1>2, <1>3 DEF OpenDispute, RestOK
<1>4. ASSUME NEW a \in Agents, CommitUpdateStatus(a) PROVE RestOK'
      BY <1>2, <1>4 DEF CommitUpdateStatus, RestOK
<1>5. ASSUME NEW a \in Agents, CommitAddMessage(a) PROVE RestOK'
      BY <1>1, <1>5 DEF CommitAddMessage, RestOK
<1>6. ASSUME NEW a \in Agents, CommitResolve(a) PROVE RestOK'
  <2>1. doing[a].to \in {"refund", "payout"}
        BY <1>6 DEF CommitResolve, DeskInv, ResolverSees, Resolves
  <2>2. Len(history') <= MaxHistory
        BY <1>2, <1>6 DEF CommitResolve, RestOK
  <2> QED
      BY <1>6, <2>1, <2>2 DEF CommitResolve, Decided, RestOK
<1>7. CASE AdminRefundTransaction \/ RefundCompleted \/ MarkPayoutCompleted
      BY <1>7 DEF AdminRefundTransaction, RefundCompleted, MarkPayoutCompleted, RestOK
<1>8. ASSUME UNCHANGED <<booking, money, status, decision, assignee, history, messages>> PROVE RestOK'
      BY <1>8 DEF RestOK
<1> QED
    BY <1>3, <1>4, <1>5, <1>6, <1>7, <1>8 DEF Next, BeginUpdateStatus, BeginAddMessage, BeginResolve, Begins,
       Rollback, vars

\* What holds at first.
LEMMA RestInit == Init => HistoryInv /\ RestOK
<1> SUFFICES ASSUME Init PROVE HistoryInv /\ RestOK
    OBVIOUS
<1>1. HistoryInv
      BY DEF Init, HistoryInv, HistoryTellsStatus
<1>2. RestOK
      BY BoundsAssumption DEF Init, RestOK
<1> QED
    BY <1>1, <1>2
-----------------------------------------------------------------------------
\* The inductive invariant, which holds the locks and what was read under them.
THEOREM DeskInvAlways == Spec => []DeskInv
BY DeskInvInit, DeskInvNext, PTL DEF Spec

\* A decision and the booking it is about never disagree.
THEOREM DecisionFitsAlways == Spec => []DecisionFitsBooking
BY DeskInvAlways, PTL DEF DeskInv

\* A resolved dispute stays resolved.
THEOREM ResolvedForGood == Spec => ResolvedIsFinal
<1>1. DeskInv /\ [Next]_vars => [status = "RESOLVED" => status' = "RESOLVED"]_vars
      BY NextKeeps DEF StepOK
<1> QED
    BY <1>1, DeskInvAlways, PTL DEF Spec, ResolvedIsFinal

\* A decision is taken once.
THEOREM DecidedForGood == Spec => DecisionKept
<1>1. DeskInv /\ [Next]_vars => [decision # "none" => decision' = decision]_vars
      BY NextKeeps DEF StepOK
<1> QED
    BY <1>1, DeskInvAlways, PTL DEF Spec, DecisionKept

\* A resolved dispute gets no message.
THEOREM ResolvedIsClosed == Spec => NoLateMessage
<1>1. DeskInv /\ [Next]_vars => [messages' # messages => status # "RESOLVED"]_vars
      BY NextKeeps DEF StepOK
<1> QED
    BY <1>1, DeskInvAlways, PTL DEF Spec, NoLateMessage

\* The invariant about the history and the remaining types, on top of the locks'.
THEOREM HistoryInvAlways == Spec => [](DeskInv /\ HistoryInv /\ RestOK)
<1>1. Init => DeskInv /\ HistoryInv /\ RestOK
      BY DeskInvInit, RestInit
<1>2. (DeskInv /\ HistoryInv /\ RestOK) /\ [Next]_vars => (DeskInv /\ HistoryInv /\ RestOK)'
      BY DeskInvNext, HistoryStep, RestStep
<1> QED
    BY <1>1, <1>2, PTL DEF Spec

\* The history of a dispute is a chain that ends in its status; only the decision may
\* have been taken from a status that had changed meanwhile.
THEOREM HistoryTellsAlways == Spec => []HistoryTellsStatus
<1>1. DeskInv /\ HistoryInv /\ RestOK => HistoryTellsStatus
      BY DEF HistoryInv
<1> QED
    BY <1>1, HistoryInvAlways, PTL

\* Every variable keeps its type.
THEOREM TypeCorrect == Spec => []TypeOK
<1>1. DeskInv /\ HistoryInv /\ RestOK => TypeOK
      BY DEF DeskInv, DoingOK, HistoryInv, RestOK, TypeOK
<1> QED
    BY <1>1, HistoryInvAlways, PTL
=============================================================================
