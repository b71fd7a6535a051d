--------------------------- MODULE WebhookInboxProofs ---------------------------
(***************************************************************************)
(* For any number of events, rows, deliveries and attempts: an event is    *)
(* applied at most once and the log tells it, and a final row stays.       *)
(***************************************************************************)
EXTENDS WebhookInbox, TLAPS

Owns(j) == job[j].phase \in {"business", "mark"}

\* What OneOwner and LogTellsEffect rest on: the owner of an event has journalled it,
\* and nobody has touched the log since.
OwnerInv ==
    \A j \in Jobs :
        /\ job[j].phase # "none" => job[j].event \in Events
        /\ Owns(j) => log[job[j].event] = "RECEIVED"

InboxInv == TypeOK /\ LogTellsEffect /\ OneOwner /\ OwnerInv

\* What a step may not do to a final row.
RowsKept == \A r \in RowIds : row[r] \in Final => row'[r] = row[r]

LEMMA InboxInvInit == Init => InboxInv
<1> SUFFICES ASSUME Init PROVE InboxInv
    OBVIOUS
<1>1. job \in [Jobs -> [event : Events \cup {NoEvent}, phase : Phases, tries : 0..MaxTries]]
  <2>1. [event |-> NoEvent, phase |-> "none", tries |-> 0]
          \in [event : Events \cup {NoEvent}, phase : Phases, tries : 0..MaxTries]
        BY InboxAssumption DEF Phases
  <2> QED
      BY <2>1 DEF Init
<1>2. TypeOK
      BY <1>1 DEF Init, TypeOK, LogStatuses
<1>3. \A j \in Jobs : job[j].phase = "none"
      BY DEF Init
<1> QED
    BY <1>2, <1>3 DEF Init, InboxInv, LogTellsEffect, OneOwner, OwnerInv, Owns

\* A job that goes to another phase and owns nothing it did not own before; the log
\* and the effects stay.
LEMMA EnterKeeps ==
    ASSUME InboxInv, NEW j \in Jobs, NEW phase \in Phases, NEW tries \in 0..MaxTries,
           job' = [job EXCEPT ![j] = [event |-> job[j].event, phase |-> phase, tries |-> tries]],
           phase # "none" => job[j].phase # "none",
           phase \in {"business", "mark"} => Owns(j),
           UNCHANGED <<log, row, effects>>
    PROVE  InboxInv' /\ RowsKept
<1> USE DEF InboxInv
<1>1. /\ job'[j].event = job[j].event /\ job'[j].phase = phase
      /\ \A i \in Jobs : i # j => job'[i] = job[i]
      BY DEF TypeOK
<1>2. TypeOK'
  <2>1. [event |-> job[j].event, phase |-> phase, tries |-> tries]
          \in [event : Events \cup {NoEvent}, phase : Phases, tries : 0..MaxTries]
        BY DEF TypeOK
  <2> QED
      BY <2>1 DEF TypeOK
<1>3. OneOwner' /\ OwnerInv'
      BY <1>1 DEF OneOwner, OwnerInv, Owns
<1> QED
    BY <1>2, <1>3 DEF LogTellsEffect, RowsKept

\* What Enter does, as the record it leaves.
LEMMA EnterIs ==
    ASSUME TypeOK, NEW j \in Jobs, NEW phase \in Phases, Enter(j, phase)
    PROVE  /\ job' = [job EXCEPT ![j] = [event |-> job[j].event, phase |-> phase, tries |-> job[j].tries]]
           /\ job[j].tries \in 0..MaxTries
BY DEF Enter, Step, TypeOK

\* The owner of an event gives it another log status, and ends.
LEMMA LogKeeps ==
    ASSUME InboxInv, NEW j \in Jobs, Owns(j), NEW phase \in Phases \ {"business", "mark", "none"},
           NEW new \in LogStatuses, NEW n \in {0, 1}, n = 1 <=> new = "PROCESSED",
           job' = [job EXCEPT ![j] = [event |-> job[j].event, phase |-> phase, tries |-> job[j].tries]],
           log' = [log EXCEPT ![job[j].event] = new],
           effects' = [effects EXCEPT ![job[j].event] = @ + n],
           row' \in [RowIds -> {"none", "PENDING"} \cup Final]
    PROVE  InboxInv'
<1> USE DEF InboxInv
<1> DEFINE e == job[j].event
<1>1. e \in Events /\ log[e] = "RECEIVED" /\ effects[e] = 0
      BY DEF OwnerInv, Owns, LogTellsEffect
<1>2. /\ job'[j].event = e /\ job'[j].phase = phase
      /\ \A i \in Jobs : i # j => job'[i] = job[i]
      BY DEF TypeOK
<1>3. /\ log'[e] = new /\ effects'[e] = n
      /\ \A f \in Events : f # e => log'[f] = log[f] /\ effects'[f] = effects[f]
      BY <1>1 DEF TypeOK
<1>4. TypeOK'
  <2>1. [event |-> e, phase |-> phase, tries |-> job[j].tries]
          \in [event : Events \cup {NoEvent}, phase : Phases, tries : 0..MaxTries]
        BY DEF TypeOK
  <2>2. job' \in [Jobs -> [event : Events \cup {NoEvent}, phase : Phases, tries : 0..MaxTries]]
        BY <2>1 DEF TypeOK
  <2>3. effects' = [effects EXCEPT ![e] = n]
        BY <1>1 DEF TypeOK
  <2>4. effects' \in [Events -> Nat]
    <3>1. effects \in [Events -> Nat] /\ n \in Nat
          BY DEF TypeOK
    <3> HIDE DEF e
    <3> QED
        BY <2>3, <3>1
  <2>5. log' \in [Events -> LogStatuses]
        BY DEF TypeOK
  <2> QED
      BY <2>2, <2>4, <2>5 DEF TypeOK
<1>5. LogTellsEffect'
      BY <1>3 DEF LogTellsEffect
<1>6. \A i \in Jobs : Owns(i)' => i # j /\ Owns(i) /\ job[i].event # e
      BY <1>2 DEF Owns, OneOwner
<1>7. OneOwner'
      BY <1>2, <1>6 DEF OneOwner, Owns
<1>8. OwnerInv'
  <2> SUFFICES ASSUME NEW i \in Jobs
               PROVE  /\ job'[i].phase # "none" => job'[i].event \in Events
                      /\ Owns(i)' => log'[job'[i].event] = "RECEIVED"
      BY DEF OwnerInv
  <2>1. job'[i].phase # "none" => job'[i].event \in Events
        BY <1>1, <1>2 DEF OwnerInv
  <2>2. ASSUME Owns(i)' PROVE log'[job'[i].event] = "RECEIVED"
    <3>1. i # j /\ Owns(i) /\ job[i].event # e /\ job'[i] = job[i]
          BY <1>2, <1>6, <2>2
    <3>2. job[i].event \in Events /\ log[job[i].event] = "RECEIVED"
          BY <3>1 DEF OwnerInv, Owns
    <3> QED
        BY <3>1, <3>2, <1>3
  <2> QED
      BY <2>1, <2>2
<1> QED
    BY <1>4, <1>5, <1>7, <1>8

LEMMA JournalKeeps ==
    ASSUME InboxInv, NEW j \in Jobs, Journal(j) PROVE InboxInv' /\ RowsKept
<1> USE DEF InboxInv
<1> DEFINE e == job[j].event
<1>1. job[j].phase = "journal" /\ e \in Events /\ UNCHANGED <<row, effects>>
      BY DEF Journal, OwnerInv
<1>2. CASE log[e] # "none"
  <2>1. Enter(j, "done") /\ UNCHANGED log
        BY <1>2 DEF Journal
  <2>2. "done" \in Phases
        BY DEF Phases
  <2> QED
      BY <1>1, <2>1, <2>2, EnterIs, EnterKeeps
<1>3. CASE log[e] = "none"
  <2>1. Enter(j, "business") /\ log' = [log EXCEPT ![e] = "RECEIVED"]
        BY <1>3 DEF Journal
  <2>2. "business" \in Phases
        BY DEF Phases
  <2>3. job' = [job EXCEPT ![j] = [event |-> e, phase |-> "business", tries |-> job[j].tries]]
        BY <2>1, <2>2, EnterIs
  <2>4. /\ job'[j].event = e /\ job'[j].phase = "business"
        /\ \A i \in Jobs : i # j => job'[i] = job[i]
        BY <2>3 DEF TypeOK
  <2>5. log'[e] = "RECEIVED" /\ \A f \in Events : f # e => log'[f] = log[f]
        BY <1>1, <2>1 DEF TypeOK
  <2>6. TypeOK'
    <3>1. [event |-> e, phase |-> "business", tries |-> job[j].tries]
            \in [event : Events \cup {NoEvent}, phase : Phases, tries : 0..MaxTries]
          BY <2>2 DEF TypeOK
    <3>2. job' \in [Jobs -> [event : Events \cup {NoEvent}, phase : Phases, tries : 0..MaxTries]]
          BY <2>3, <3>1 DEF TypeOK
    <3>3. log' \in [Events -> LogStatuses]
          BY <2>1 DEF TypeOK, LogStatuses
    <3> QED
        BY <1>1, <3>2, <3>3 DEF TypeOK
  <2>7. LogTellsEffect'
        BY <1>1, <1>3, <2>5 DEF LogTellsEffect
  <2>8. \A i \in Jobs : i # j /\ Owns(i) => job[i].event # e
        BY <1>3 DEF OwnerInv
  <2>9. OneOwner'
        BY <2>4, <2>8 DEF OneOwner, Owns
  <2>10. OwnerInv'
    <3> SUFFICES ASSUME NEW i \in Jobs
                 PROVE  /\ job'[i].phase # "none" => job'[i].event \in Events
                        /\ Owns(i)' => log'[job'[i].event] = "RECEIVED"
        BY DEF OwnerInv
    <3>1. CASE i = j
          BY <3>1, <1>1, <2>4, <2>5
    <3>2. CASE i # j
      <4>1. job[i].phase # "none" => job[i].event \in Events
            BY DEF OwnerInv
      <4>2. Owns(i) => job[i].event \in Events /\ log[job[i].event] = "RECEIVED" /\ job[i].event # e
            BY <3>2, <2>8 DEF OwnerInv, Owns
      <4> QED
          BY <3>2, <2>4, <2>5, <4>1, <4>2 DEF Owns
    <3> QED
        BY <3>1, <3>2
  <2> QED
      BY <1>1, <2>6, <2>7, <2>9, <2>10 DEF RowsKept
<1> QED
    BY <1>2, <1>3

LEMMA ApplyKeeps ==
    ASSUME InboxInv, NEW j \in Jobs, Apply(j) PROVE InboxInv' /\ RowsKept
<1> USE DEF InboxInv
<1>1. Owns(j) /\ row[Target(j)] = "PENDING" /\ Enter(j, "done")
      BY DEF Apply, Owns
<1>2. PICK st \in Final : row' = [row EXCEPT ![Target(j)] = st]
      BY DEF Apply, Final
<1>3. row' \in [RowIds -> {"none", "PENDING"} \cup Final]
      BY <1>2 DEF TypeOK
<1>4. RowsKept
      BY <1>1, <1>2 DEF RowsKept, TypeOK, Final
<1>5. "done" \in Phases \ {"business", "mark", "none"} /\ "PROCESSED" \in LogStatuses
      BY DEF Phases, LogStatuses
<1>6. job' = [job EXCEPT ![j] = [event |-> job[j].event, phase |-> "done", tries |-> job[j].tries]]
      BY <1>1, <1>5, EnterIs
<1>7. /\ log' = [log EXCEPT ![job[j].event] = "PROCESSED"]
      /\ effects' = [effects EXCEPT ![job[j].event] = @ + 1]
      BY DEF Apply
<1> QED
    BY <1>1, <1>3, <1>4, <1>5, <1>6, <1>7, LogKeeps

\* The ends that do not apply the event.
LEMMA MarkKeeps ==
    ASSUME InboxInv, NEW j \in Jobs, Ignore(j) \/ MarkFailed(j) PROVE InboxInv' /\ RowsKept
<1> USE DEF InboxInv
<1>1. PICK new \in {"IGNORED", "FAILED"}, phase \in {"done", "queued"} :
          /\ log' = [log EXCEPT ![job[j].event] = new]
          /\ Enter(j, phase)
      BY DEF Ignore, MarkFailed
<1>2. Owns(j) /\ UNCHANGED <<row, effects>>
      BY DEF Ignore, MarkFailed, Owns
<1>3. phase \in Phases \ {"business", "mark", "none"} /\ new \in LogStatuses /\ new # "PROCESSED"
      BY DEF Phases, LogStatuses
<1>4. job' = [job EXCEPT ![j] = [event |-> job[j].event, phase |-> phase, tries |-> job[j].tries]]
      BY <1>1, <1>3, EnterIs
<1>5. effects' = [effects EXCEPT ![job[j].event] = @ + 0]
      BY <1>2 DEF TypeOK
<1>6. row' \in [RowIds -> {"none", "PENDING"} \cup Final] /\ RowsKept
      BY <1>2 DEF TypeOK, RowsKept
<1>7. 0 \in {0, 1} /\ (0 = 1 <=> new = "PROCESSED")
      BY <1>3
<1>8. InboxInv'
      BY <1>1, <1>2, <1>3, <1>4, <1>5, <1>6, <1>7, LogKeeps
<1> QED
    BY <1>6, <1>8

\* The steps that only move the job.
LEMMA MoveKeeps ==
    ASSUME InboxInv, NEW j \in Jobs,
           \/ Pop(j) \/ GiveUp(j) \/ Crash(j) \/ JournalClash(j) \/ NotFound(j) \/ Refuse(j)
    PROVE  InboxInv' /\ RowsKept
<1> USE DEF InboxInv
<1>1. UNCHANGED <<log, row, effects>> /\ job[j].phase # "none"
      BY DEF Pop, GiveUp, Crash, JournalClash, NotFound, Refuse
<1>2. {"journal", "failed", "queued", "mark"} \subseteq Phases
      BY DEF Phases
<1>3. CASE Pop(j)
  <2>1. job' = [job EXCEPT ![j] = [event |-> job[j].event, phase |-> "journal", tries |-> job[j].tries + 1]]
        BY <1>3 DEF Pop, Step
  <2>2. job[j].tries \in 0..MaxTries /\ job[j].tries < MaxTries
        BY <1>3 DEF Pop, TypeOK
  <2>3. job[j].tries + 1 \in 0..MaxTries
        BY <2>2, InboxAssumption
  <2> QED
      BY <1>1, <1>2, <2>1, <2>3, EnterKeeps
<1>4. CASE GiveUp(j) \/ Crash(j) \/ JournalClash(j)
  <2>1. PICK phase \in {"failed", "queued"} : Enter(j, phase)
        BY <1>4 DEF GiveUp, Crash, JournalClash
  <2>2. phase \in Phases
        BY <1>2
  <2> QED
      BY <1>1, <2>1, <2>2, EnterIs, EnterKeeps
<1>5. CASE NotFound(j) \/ Refuse(j)
  <2>1. Enter(j, "mark") /\ Owns(j)
        BY <1>5 DEF NotFound, Refuse, Owns
  <2> QED
      BY <1>1, <1>2, <2>1, EnterIs, EnterKeeps
<1> QED
    BY <1>3, <1>4, <1>5

LEMMA DeliverKeeps ==
    ASSUME InboxInv, NEW j \in Jobs, NEW e \in Events, Deliver(j, e) PROVE InboxInv' /\ RowsKept
<1> USE DEF InboxInv
<1>1. /\ job' = [job EXCEPT ![j] = [event |-> e, phase |-> "queued", tries |-> 0]]
      /\ UNCHANGED <<log, row, effects>>
      BY DEF Deliver
<1>2. /\ job'[j].event = e /\ job'[j].phase = "queued"
      /\ \A i \in Jobs : i # j => job'[i] = job[i]
      BY <1>1 DEF TypeOK
<1>3. TypeOK'
  <2>1. [event |-> e, phase |-> "queued", tries |-> 0]
          \in [event : Events \cup {NoEvent}, phase : Phases, tries : 0..MaxTries]
        BY InboxAssumption DEF Phases
  <2> QED
      BY <1>1, <2>1 DEF TypeOK
<1>4. OneOwner' /\ OwnerInv'
      BY <1>1, <1>2 DEF OneOwner, OwnerInv, Owns
<1> QED
    BY <1>1, <1>3, <1>4 DEF LogTellsEffect, RowsKept

LEMMA InsertRowKeeps ==
    ASSUME InboxInv, NEW r \in RowIds, NEW st \in {"PENDING", "COMPLETED"}, InsertRow(r, st)
    PROVE  InboxInv' /\ RowsKept
<1> USE DEF InboxInv
<1>1. row[r] = "none" /\ row' = [row EXCEPT ![r] = st] /\ UNCHANGED <<log, job, effects>>
      BY DEF InsertRow
<1>2. TypeOK' /\ RowsKept
      BY <1>1 DEF TypeOK, RowsKept, Final
<1> QED
    BY <1>1, <1>2 DEF LogTellsEffect, OneOwner, OwnerInv, Owns

LEMMA NextKeeps == InboxInv /\ [Next]_vars => InboxInv' /\ RowsKept
<1> SUFFICES ASSUME InboxInv, [Next]_vars PROVE InboxInv' /\ RowsKept
    OBVIOUS
<1>1. CASE UNCHANGED vars
      BY <1>1 DEF vars, InboxInv, TypeOK, LogTellsEffect, OneOwner, OwnerInv, Owns, RowsKept
<1>2. ASSUME NEW j \in Jobs, Run(j) \/ JournalClash(j) \/ Crash(j) PROVE InboxInv' /\ RowsKept
      BY <1>2, MoveKeeps, JournalKeeps, ApplyKeeps, MarkKeeps DEF Run, Handle
<1>3. ASSUME NEW j \in Jobs, NEW e \in Events, Deliver(j, e) PROVE InboxInv' /\ RowsKept
      BY <1>3, DeliverKeeps
<1>4. ASSUME NEW r \in RowIds, NEW st \in {"PENDING", "COMPLETED"}, InsertRow(r, st)
      PROVE  InboxInv' /\ RowsKept
      BY <1>4, InsertRowKeeps
<1> QED
    BY <1>1, <1>2, <1>3, <1>4 DEF Next

\* The inductive invariant of the inbox.
THEOREM InboxInvAlways == Spec => []InboxInv
<1>1. InboxInv /\ [Next]_vars => InboxInv'
      BY NextKeeps
<1> QED
    BY InboxInvInit, <1>1, PTL DEF Spec

\* The types of WebhookInbox, among them the bound on the attempts of a job.
THEOREM TypeOKAlways == Spec => []TypeOK
<1>1. InboxInv => TypeOK
      BY DEF InboxInv
<1> QED
    BY InboxInvAlways, <1>1, PTL

\* ProcessPaymentWebhook and HandlePaymentWebhook: an event is applied at most once
\* and the log is PROCESSED exactly when it was.
THEOREM LogTellsEffectAlways == Spec => []LogTellsEffect
<1>1. InboxInv => LogTellsEffect
      BY DEF InboxInv
<1> QED
    BY InboxInvAlways, <1>1, PTL

\* HandlePaymentWebhook: one running job at most is responsible for an event.
THEOREM OneOwnerAlways == Spec => []OneOwner
<1>1. InboxInv => OneOwner
      BY DEF InboxInv
<1> QED
    BY InboxInvAlways, <1>1, PTL

\* HandlePaymentWebhook: a webhook never rewrites a final transaction.
THEOREM FinalRowsStay == Spec => FinalRowStays
<1>1. InboxInv /\ [Next]_vars => [RowsKept]_vars
      BY NextKeeps
<1> QED
    BY InboxInvAlways, <1>1, PTL DEF Spec, FinalRowStays, RowsKept
=============================================================================
